--------------------------- MODULE OutcomeTracker ---------------------------
(***************************************************************************)
(* outcome_tracker.py and outcome_queries.py: the trackers that resolve    *)
(* the open rows of the alerts table.  A cycle reads the newest open rows, *)
(* and row by row asks for a price, judges it against the row's levels and *)
(* age and writes the outcome.  cron runs one cycle per process; the       *)
(* standalone loop (run_tracker_loop) also expires the rows of last week.  *)
(* The lock in crontab covers cron alone, so trackers may overlap.         *)
(*                                                                         *)
(* Rows are numbered in the order of their created_at.  A quote is what it *)
(* means to the row it was fetched for: at its target, at its stop, in     *)
(* profit by less than FORECAST_STOP_MIN_CUSHION_PCT (slight) or by more   *)
(* (ample), or none of these (even).  A cycle that a closed market or a    *)
(* failed query ends at once is a cron process that stays idle, and a loop *)
(* that goes straight to its stale rows.                                   *)
(***************************************************************************)
EXTENDS Naturals, FiniteSets

CONSTANTS
    Rows,          \* bound: the alerts inserted in all
    Symbol,
    SymbolOf,      \* the symbol of each row
    Tracker,
    Looping,       \* the trackers that are a run_tracker_loop
    Deployments,   \* the sets of trackers that may be in operation, each with
                   \* the rows it meets that are skipped
    Limit,         \* OUTCOME_OPEN_ALERT_LIMIT
    Forecasting,   \* FORECAST_STOP_TIGHTEN_ENABLED
    MaxTroubles    \* bound: missing quotes, failed writes and kills, together

Row == 1 .. Rows

ASSUME TrackerAssumption ==
    /\ Rows \in Nat
    /\ SymbolOf \in [Row -> Symbol]
    /\ Looping \subseteq Tracker
    /\ Deployments \subseteq (SUBSET Tracker) \X SUBSET Row
    /\ Limit \in Nat \ {0}
    /\ Forecasting \in BOOLEAN
    /\ MaxTroubles \in Nat

Quote   == {"target", "stop", "even", "slight", "ample"}
Outcome == {"WIN", "LOSS", "EXPIRED"}

VARIABLES
    deployed,   \* the trackers in operation
    stored,     \* the rows inserted so far are 1 .. stored
    skipped,    \* WATCH rows, and rows map_db_row cannot use
    age,        \* fresh, due (past the window of its timeframe), stale (a week)
    outcome,    \* alerts.outcome; open stands for NULL
    tracker,    \* each tracker: pc, the rows it still has to look at, the
                \* price and outcome it is about to write, its forecast cache
    heard,      \* history: the symbols the forecast disagreed on this cycle
    missed,     \* history: the rows others wrote since a tracker's last query
    troubles

vars == <<deployed, stored, skipped, age, outcome, tracker, heard, missed, troubles>>

-----------------------------------------------------------------------------
Stored == 1 .. stored

Open == {i \in Stored : outcome[i] = "open"}

(* Mutant: the query without its IS NULL. *)
AllAlerts == {i \in Stored : Cardinality({j \in Stored : j > i}) < Limit}

(* get_open_alerts: the newest Limit rows without an outcome. *)
OpenAlerts == {i \in Open : Cardinality({j \in Open : j > i}) < Limit}

NoForecast == [s \in Symbol |-> "unasked"]

Idle == [pc |-> "idle", todo |-> {}, price |-> "none", verdict |-> "open",
         forecast |-> NoForecast]

TypeOK ==
    /\ <<deployed, skipped>> \in Deployments
    /\ stored \in 0 .. Rows
    /\ age \in [Row -> {"fresh", "due", "stale"}]
    /\ outcome \in [Row -> Outcome \union {"open"}]
    /\ tracker \in [Tracker -> [pc: {"idle", "cycle", "write", "expire"},
                                todo: SUBSET Row,
                                price: Quote \union {"none"},
                                verdict: Outcome \union {"open"},
                                forecast: [Symbol -> {"unasked", "agrees", "disagrees"}]]]
    /\ heard \in [Tracker -> SUBSET Symbol]
    /\ missed \in [Tracker -> SUBSET Row]
    /\ troubles \in 0 .. MaxTroubles

Init ==
    /\ \E d \in Deployments : deployed = d[1] /\ skipped = d[2]
    /\ stored = 0
    /\ age = [i \in Row |-> "fresh"]
    /\ outcome = [i \in Row |-> "open"]
    /\ tracker = [t \in Tracker |-> Idle]
    /\ heard = [t \in Tracker |-> {}]
    /\ missed = [t \in Tracker |-> {}]
    /\ troubles = 0

-----------------------------------------------------------------------------
(* What goes on around the trackers: notify() inserts, and time passes. *)

Insert ==
    /\ stored < Rows
    /\ stored' = stored + 1
    /\ UNCHANGED <<deployed, skipped, age, outcome, tracker, heard, missed, troubles>>

(* A row grows stale after every older one; when it is due depends on its  *)
(* timeframe.                                                              *)
Ripen(i) ==
    /\ i \in Stored
    /\ \/ age[i] = "fresh" /\ age' = [age EXCEPT ![i] = "due"]
       \/ /\ age[i] = "due"
          /\ \A j \in 1 .. (i - 1) : age[j] = "stale"
          /\ age' = [age EXCEPT ![i] = "stale"]
    /\ UNCHANGED <<deployed, stored, skipped, outcome, tracker, heard, missed, troubles>>

-----------------------------------------------------------------------------
(* A cycle: the skipped rows among those of the query are passed over, and *)
(* the others taken newest first.                                          *)

Start(t) ==
    /\ t \in deployed
    /\ tracker[t].pc = "idle"
    /\ tracker' = [tracker EXCEPT ![t].pc = "cycle", ![t].todo = OpenAlerts \ skipped]
    /\ UNCHANGED <<deployed, stored, skipped, age, outcome, heard, missed, troubles>>

Current(t, i) == i \in tracker[t].todo /\ \A j \in tracker[t].todo : j <= i

(* The tracker goes on to the next row. *)
Done(t, i) ==
    [tracker[t] EXCEPT !.pc = "cycle", !.todo = @ \ {i}, !.price = "none", !.verdict = "open"]

(* No source has a quote for the row, or the write of its outcome raised   *)
(* without effect; the next cycle finds it open.                           *)
LeaveOpen(t, i) ==
    /\ tracker[t].pc \in {"cycle", "write"}
    /\ Current(t, i)
    /\ troubles < MaxTroubles
    /\ troubles' = troubles + 1
    /\ tracker' = [tracker EXCEPT ![t] = Done(t, i)]
    /\ UNCHANGED <<deployed, stored, skipped, age, outcome, heard, missed>>

(* Mutant: a row is never too old. *)
EvaluateLevels(i, quote) ==
    CASE quote = "target" -> "WIN"
      [] quote = "stop"   -> "LOSS"
      [] OTHER            -> "open"

(* evaluate_outcome: the levels come before the age. *)
Evaluate(i, quote) ==
    CASE quote = "target"  -> "WIN"
      [] quote = "stop"    -> "LOSS"
      [] age[i] = "fresh"  -> "open"
      [] OTHER             -> "EXPIRED"

(* Mutant: the answer is returned in place of the outcome. *)
TightenedAnswer(quote, answer) == IF answer = "disagrees" THEN answer ELSE "open"

(* _maybe_tighten_stop_on_forecast: the tightened stop is the cushion at   *)
(* least, so it is above a slight profit and takes the row at once; below  *)
(* an ample one it lasts no longer than this call.                         *)
Tightened(quote, answer) ==
    IF answer = "disagrees" /\ quote = "slight" THEN "LOSS" ELSE "open"

Consults(i, quote) == Forecasting /\ Evaluate(i, quote) = "open" /\ quote \in {"slight", "ample"}

(* The cached answer for the symbol, or else that of the service, where an *)
(* error counts as agreement.                                              *)
Answers(t, i) ==
    IF tracker[t].forecast[SymbolOf[i]] # "unasked"
    THEN {tracker[t].forecast[SymbolOf[i]]}
    ELSE {"agrees", "disagrees"}

(* The verdict on a row; an open one ends its turn. *)
Decided(t, i, quote, verdict) ==
    IF verdict = "open"
    THEN Done(t, i)
    ELSE [tracker[t] EXCEPT !.pc = "write", !.price = quote, !.verdict = verdict]

Judge(t, i, quote) ==
    /\ tracker[t].pc = "cycle"
    /\ Current(t, i)
    /\ ~Consults(i, quote)
    /\ tracker' = [tracker EXCEPT ![t] = Decided(t, i, quote, Evaluate(i, quote))]
    /\ UNCHANGED <<deployed, stored, skipped, age, outcome, heard, missed, troubles>>

JudgeByForecast(t, i, quote) ==
    /\ tracker[t].pc = "cycle"
    /\ Current(t, i)
    /\ Consults(i, quote)
    /\ \E answer \in Answers(t, i) :
          /\ tracker' = [tracker EXCEPT ![t] =
                            [Decided(t, i, quote, Tightened(quote, answer))
                                EXCEPT !.forecast[SymbolOf[i]] = answer]]
          /\ heard' = IF tracker[t].forecast[SymbolOf[i]] = "unasked" /\ answer = "disagrees"
                      THEN [heard EXCEPT ![t] = @ \union {SymbolOf[i]}]
                      ELSE heard
    /\ UNCHANGED <<deployed, stored, skipped, age, outcome, missed, troubles>>

(* update_outcome, which does not ask whether the row is still open. *)
Record(t, i, value) ==
    /\ outcome' = [outcome EXCEPT ![i] = value]
    /\ missed' = [u \in Tracker |-> IF u # t /\ i \in tracker[u].todo
                                    THEN missed[u] \union {i} ELSE missed[u]]

Write(t, i) ==
    /\ tracker[t].pc = "write"
    /\ Current(t, i)
    /\ Record(t, i, tracker[t].verdict)
    /\ tracker' = [tracker EXCEPT ![t] = Done(t, i)]
    /\ UNCHANGED <<deployed, stored, skipped, age, heard, troubles>>

(* Mutants: one forecast cache for the process; rows expired by age alone. *)
EndCycleWithForecasts(t) ==
    /\ tracker[t].pc = "cycle"
    /\ tracker[t].todo = {}
    /\ tracker' = [tracker EXCEPT ![t].pc = "idle"]
    /\ heard' = [heard EXCEPT ![t] = {}]
    /\ missed' = [missed EXCEPT ![t] = {}]
    /\ UNCHANGED <<deployed, stored, skipped, age, outcome, troubles>>

EndCycleWithOldRows(t) ==
    /\ tracker[t].pc = "cycle"
    /\ tracker[t].todo = {}
    /\ tracker' = [tracker EXCEPT ![t] =
                      IF t \in Looping
                      THEN [Idle EXCEPT !.pc = "expire",
                                        !.todo = {i \in Stored : age[i] = "stale"}]
                      ELSE Idle]
    /\ heard' = [heard EXCEPT ![t] = {}]
    /\ missed' = [missed EXCEPT ![t] = {}]
    /\ UNCHANGED <<deployed, stored, skipped, age, outcome, troubles>>

(* A tracker that has looked up the stale rows. *)
Expiring == [Idle EXCEPT !.pc = "expire", !.todo = {i \in OpenAlerts : age[i] = "stale"}]

(* After the rows a cron process ends, and a loop looks for stale ones;    *)
(* the forecast cache is gone with the call.                               *)
EndCycle(t) ==
    /\ tracker[t].pc = "cycle"
    /\ tracker[t].todo = {}
    /\ tracker' = [tracker EXCEPT ![t] =
                      IF t \in Looping THEN Expiring ELSE Idle]
    /\ heard' = [heard EXCEPT ![t] = {}]
    /\ missed' = [missed EXCEPT ![t] = {}]
    /\ UNCHANGED <<deployed, stored, skipped, age, outcome, troubles>>

(* The market is closed, or the query failed; the loop looks for stale     *)
(* rows all the same.                                                      *)
SkipCycle(t) ==
    /\ t \in deployed \intersect Looping
    /\ tracker[t].pc = "idle"
    /\ tracker' = [tracker EXCEPT ![t] = Expiring]
    /\ UNCHANGED <<deployed, stored, skipped, age, outcome, heard, missed, troubles>>

(* expire_stale_alerts. *)
ExpireStale(t, i) ==
    /\ tracker[t].pc = "expire"
    /\ Current(t, i)
    /\ Record(t, i, "EXPIRED")
    /\ tracker' = [tracker EXCEPT ![t].todo = @ \ {i}]
    /\ UNCHANGED <<deployed, stored, skipped, age, heard, troubles>>

EndExpiry(t) ==
    /\ tracker[t].pc = "expire"
    /\ tracker[t].todo = {}
    /\ tracker' = [tracker EXCEPT ![t] = Idle]
    /\ missed' = [missed EXCEPT ![t] = {}]
    /\ UNCHANGED <<deployed, stored, skipped, age, outcome, heard, troubles>>

(* The process ends in the middle, and cron or the container starts        *)
(* another; or a write of expire_stale_alerts raises and ends the pass.    *)
Kill(t) ==
    /\ tracker[t].pc # "idle"
    /\ troubles < MaxTroubles
    /\ troubles' = troubles + 1
    /\ tracker' = [tracker EXCEPT ![t] = Idle]
    /\ heard' = [heard EXCEPT ![t] = {}]
    /\ missed' = [missed EXCEPT ![t] = {}]
    /\ UNCHANGED <<deployed, stored, skipped, age, outcome>>

Work(t) ==
    \/ Start(t)
    \/ EndCycle(t)
    \/ EndExpiry(t)
    \/ \E i \in Row :
          \/ Write(t, i)
          \/ ExpireStale(t, i)
          \/ \E quote \in Quote : Judge(t, i, quote) \/ JudgeByForecast(t, i, quote)

Next ==
    \/ Insert
    \/ \E i \in Row : Ripen(i)
    \/ \E t \in Tracker :
          \/ Work(t)
          \/ SkipCycle(t)
          \/ Kill(t)
          \/ \E i \in Row : LeaveOpen(t, i)

(* Time passes, and the trackers in operation keep going: cron starts a    *)
(* cycle every quarter of an hour, and a loop never returns (but may meet  *)
(* a closed market or a failed query every time).                          *)
Fairness ==
    /\ WF_vars(\E i \in Row : Ripen(i))
    /\ \A t \in Tracker : WF_vars(Work(t))

Spec == Init /\ [][Next]_vars /\ Fairness

-----------------------------------------------------------------------------
(* A tracker is about to judge a row that has its outcome already only if  *)
(* another tracker wrote it after this one's query: no cycle takes up a    *)
(* row that was resolved before it began, whatever was killed in between.  *)
OverwriteNeedsOverlap ==
    \A t \in Tracker : \A i \in tracker[t].todo :
        outcome[i] # "open" => i \in missed[t]

(* So where one tracker is in operation, as deployed, an outcome is final. *)
FinalWhenAlone ==
    [][(\E t \in Tracker : deployed = {t}) =>
           \A i \in Row : outcome[i] # "open" => outcome'[i] = outcome[i]]_vars

(* A position in profit is closed as a loss only after the forecast, asked *)
(* in this very cycle, disagreed for its symbol (_check_forecast_agrees    *)
(* may answer for another row of the symbol, but never from an earlier     *)
(* cycle).                                                                 *)
LossInProfitHasForecast ==
    \A t \in Tracker : \A i \in Row :
        /\ tracker[t].pc = "write"
        /\ Current(t, i)
        /\ tracker[t].price = "slight"
        /\ tracker[t].verdict = "LOSS"
        => SymbolOf[i] \in heard[t]

(* Without a loop to expire them the skipped rows stay open for ever, and  *)
(* Limit of them hide every older row from the query for good.             *)
OutOfReach(i) ==
    /\ deployed \intersect Looping = {}
    /\ \/ i \in skipped
       \/ Cardinality({j \in Open \intersect skipped : j > i}) >= Limit

(* Every row is resolved in the end, except those the deployment never     *)
(* reaches: fetch_open_alerts and run_tracker_cycle leave no other open.   *)
ResolvedOrOutOfReach ==
    \A i \in Row : i \in Stored ~> (outcome[i] # "open" \/ OutOfReach(i))
=============================================================================
