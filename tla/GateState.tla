----------------------------- MODULE GateState -----------------------------
(***************************************************************************)
(* The Redis state behind validate_and_filter(): the dedup keys            *)
(* dedup:alert:<timeframe>:<direction>:<symbol> and the WATCH cycle        *)
(* counters watch:decay:<timeframe>:<symbol>, for one timeframe.           *)
(*                                                                         *)
(* Each run of the decision step is a process of its own.  It takes its    *)
(* candidates one by one, passes over those that the per-candidate gates   *)
(* reject (CandidateGates) and claims a key for each other one (SET NX),   *)
(* drops its WATCHes when a directional alert was accepted, else drops the *)
(* decayed ones and caps the rest, counts what it keeps, and clears the    *)
(* state of the symbols that went directional.  The cron runs are          *)
(* serialised by flock, a !scan of the Discord bot is not, so runs         *)
(* interleave between any two Redis calls.                                 *)
(*                                                                         *)
(* A batch may hold the same candidate twice, so a run keeps the positions *)
(* of what it has accepted, as the lists of alert objects do.              *)
(*                                                                         *)
(* Every Redis call may fail; the third failure opens the run's circuit    *)
(* breaker and the calls are then left out until its window has passed.    *)
(* The client re-sends a call whose reply timed out.  The ranking of the   *)
(* WATCHes is left open: any choice of the right size may be kept.         *)
(***************************************************************************)
EXTENDS Naturals, Sequences, FiniteSets

CONSTANTS
    Run,            \* runs of the decision step
    Cron,           \* those started by cron, one at a time under flock
    NoRun,          \* not a run: the key is free
    Symbol,
    Batches,        \* what the candidates of a run may be: sequences of <<symbol, direction>>
    Passing,        \* the candidates that pass the per-candidate gates of each run
    DecayCycles,    \* WATCH_DECAY_CYCLES
    WatchMax,       \* the WATCH cap of the regime (WATCH_MAX_*)
    StressedMax,    \* WATCH_MAX_STRESSED, with the circuit open
    Threshold,      \* REDIS_FAILURE_THRESHOLD
    MaxAttempts,    \* retry.max_attempts of the decision workflow
    MaxExpiry,      \* bound: how often the keys of a symbol expire
    MaxTroubles     \* bound: Redis failures, lost replies and exceptions in all

Direction == {"LONG", "SHORT", "WATCH"}
Candidate == Symbol \X Direction
Directional == Symbol \X {"LONG", "SHORT"}

ASSUME GateAssumption ==
    /\ NoRun \notin Run
    /\ Cron \subseteq Run
    /\ Batches \subseteq Seq(Candidate)
    /\ Passing \in [Run -> SUBSET Candidate]
    /\ {DecayCycles, Threshold, MaxAttempts} \subseteq Nat \ {0}
    /\ {WatchMax, StressedMax, MaxTroubles} \subseteq Nat
    /\ MaxExpiry \in [Symbol -> Nat]

VARIABLES
    key,        \* Redis: who set the dedup key of a candidate, NoRun if it is free
    cycles,     \* Redis: the WATCH cycle counter of a symbol
    pc,         \* where a run is
    batch,      \* its candidates
    next,       \* the index of the candidate it takes next
    alerts,     \* the positions of those it has accepted and not dropped
    pending,    \* the positions the current loop has not visited
    attempt,    \* the attempt of the step
    fails,      \* failure_count of its circuit breaker
    expired,    \* bound: how often the keys of a symbol have expired
    troubles,   \* history: failures, lost replies and exceptions so far
    troubled,   \* history: the runs that met one
    stolen,     \* history: keys cleared while the run that set them was at work
    repeats,    \* history: how often a run let WATCHes of a symbol through, since its
                \* counter was reset or expired
    sent        \* history: the runs that returned an alert, since its key last expired

redis == <<key, cycles>>
local == <<batch, next, attempt>>
met == <<fails, troubles, troubled>>
history == <<stolen, repeats, sent>>
vars == <<redis, local, pc, alerts, pending, met, expired, history>>

Stages == {"evaluate", "decay", "count", "graduate", "clear", "report"}

SymbolAt(r, i) == batch[r][i][1]

(* The candidates of a run that are alerts still; the positions of the     *)
(* WATCHes among them, and of the others.                                  *)
Held(r) == {batch[r][i] : i \in alerts[r]}
Watches(r) == {i \in alerts[r] : batch[r][i][2] = "WATCH"}
Graduates(r) == alerts[r] \ Watches(r)

TypeOK ==
    /\ key \in [Candidate -> Run \union {NoRun}]
    /\ cycles \in [Symbol -> Nat]
    /\ pc \in [Run -> {"idle", "done", "dead"} \union Stages]
    /\ batch \in [Run -> Batches \union {<<>>}]
    /\ next \in [Run -> Nat \ {0}]
    /\ \A r \in Run : next[r] <= Len(batch[r]) + 1
    /\ alerts \in [Run -> SUBSET Nat]
    /\ pending \in [Run -> SUBSET Nat]
    /\ \A r \in Run : pending[r] \subseteq alerts[r] /\ alerts[r] \subseteq 1 .. Len(batch[r])
    /\ attempt \in [Run -> 1 .. MaxAttempts]
    /\ fails \in [Run -> 0 .. Threshold]
    /\ expired \in [Symbol -> Nat]
    /\ troubles \in Nat
    /\ troubled \subseteq Run
    /\ stolen \in Nat
    /\ repeats \in [Symbol -> Nat]
    /\ sent \in [Directional -> SUBSET Run]

Init ==
    /\ key = [c \in Candidate |-> NoRun]
    /\ cycles = [s \in Symbol |-> 0]
    /\ pc = [r \in Run |-> "idle"]
    /\ batch = [r \in Run |-> <<>>]
    /\ next = [r \in Run |-> 1]
    /\ alerts = [r \in Run |-> {}]
    /\ pending = [r \in Run |-> {}]
    /\ attempt = [r \in Run |-> 1]
    /\ fails = [r \in Run |-> 0]
    /\ expired = [s \in Symbol |-> 0]
    /\ troubles = 0
    /\ troubled = {}
    /\ stolen = 0
    /\ repeats = [s \in Symbol |-> 0]
    /\ sent = [c \in Directional |-> {}]

-----------------------------------------------------------------------------
(* How the Redis calls of a run go: they are left out while its circuit is *)
(* open; one answers; one is sent again because its reply is lost; n raise.*)

Open(r) == fails[r] = Threshold

Skipped(r) == Open(r) /\ UNCHANGED met

Answered(r) == ~Open(r) /\ UNCHANGED met

Meets(r, n) ==
    /\ ~Open(r)
    /\ troubles + n <= MaxTroubles
    /\ troubles' = troubles + n
    /\ troubled' = troubled \union {r}

Resent(r) == Meets(r, 1) /\ UNCHANGED fails

Raised(r, n) ==
    /\ fails[r] + n <= Threshold
    /\ Meets(r, n)
    /\ fails' = [fails EXCEPT ![r] = @ + n]

-----------------------------------------------------------------------------
(* The candidates, one by one: _try_dedup_set.                             *)

Start(r) ==
    /\ pc[r] = "idle"
    /\ r \in Cron => \A q \in Cron : pc[q] \notin Stages
    /\ \E b \in Batches : batch' = [batch EXCEPT ![r] = b]
    /\ pc' = [pc EXCEPT ![r] = "evaluate"]
    /\ UNCHANGED <<redis, next, attempt, alerts, pending, met, expired, history>>

Claimed(r, c) == IF key[c] = NoRun THEN [key EXCEPT ![c] = r] ELSE key

Accept(r) == alerts' = [alerts EXCEPT ![r] = @ \union {next[r]}]

(* Mutant: the key is read, and then set without NX. *)
TrySetWithoutNX(r, c) ==
    /\ Answered(r) \/ Skipped(r)
    /\ Accept(r)
    /\ key' = [key EXCEPT ![c] = r]

(* A SET that is sent again finds its own key, and the candidate is        *)
(* dropped; a failing one lets it through, whether it was applied or not.  *)
TrySet(r, c) ==
    \/ Skipped(r) /\ Accept(r) /\ UNCHANGED key
    \/ /\ Answered(r)
       /\ key' = Claimed(r, c)
       /\ IF key[c] = NoRun THEN Accept(r) ELSE UNCHANGED alerts
    \/ Resent(r) /\ key' = Claimed(r, c) /\ UNCHANGED alerts
    \/ Raised(r, 1) /\ Accept(r) /\ key' \in {key, Claimed(r, c)}

Rejected(r, c) == c \notin Passing[r] /\ UNCHANGED <<key, alerts, met>>

(* Mutant: a dropped candidate takes the next one with it. *)
EvaluateSkipping(r) ==
    /\ pc[r] = "evaluate"
    /\ next[r] <= Len(batch[r])
    /\ LET c == batch[r][next[r]]
       IN  Rejected(r, c) \/ (c \in Passing[r] /\ TrySet(r, c))
    /\ next' = [next EXCEPT ![r] = IF alerts' = alerts THEN @ + 2 ELSE @ + 1]
    /\ UNCHANGED <<cycles, pc, batch, attempt, pending, expired, history>>

(* A candidate that is rejected touches no key. *)
Evaluate(r) ==
    /\ pc[r] = "evaluate"
    /\ next[r] <= Len(batch[r])
    /\ LET c == batch[r][next[r]]
       IN  Rejected(r, c) \/ (c \in Passing[r] /\ TrySet(r, c))
    /\ next' = [next EXCEPT ![r] = @ + 1]
    /\ UNCHANGED <<cycles, pc, batch, attempt, pending, expired, history>>

(* The batch is through.  The last state of each WATCH is read for the    *)
(* ranking, and any of those calls may raise; then the WATCHes are dropped *)
(* if there is a directional alert.                                        *)
Rank(r) ==
    /\ pc[r] = "evaluate"
    /\ next[r] = Len(batch[r]) + 1
    /\ \/ UNCHANGED met
       \/ \E n \in 1 .. Cardinality(Watches(r)) : Raised(r, n)
    /\ LET kept == IF Graduates(r) = {} THEN Watches(r) ELSE Graduates(r)
       IN  /\ pc' = [pc EXCEPT ![r] = IF Graduates(r) = {} THEN "decay" ELSE "graduate"]
           /\ alerts' = [alerts EXCEPT ![r] = kept]
           /\ pending' = [pending EXCEPT ![r] = kept]
    /\ UNCHANGED <<redis, local, expired, history>>

-----------------------------------------------------------------------------
(* The WATCHes: decay, cap, count.                                         *)

Visit(r, i) == i \in pending[r] /\ pending' = [pending EXCEPT ![r] = @ \ {i}]

Drop(r, i) == alerts' = [alerts EXCEPT ![r] = @ \ {i}]

(* _get_watch_cycles answers 0 when it fails or is left out. *)
DropDecayed(r) ==
    /\ pc[r] = "decay"
    /\ \E i \in pending[r] :
          /\ Visit(r, i)
          /\ \/ (Skipped(r) \/ Raised(r, 1)) /\ UNCHANGED alerts
             \/ /\ Answered(r)
                /\ IF cycles[SymbolAt(r, i)] >= DecayCycles THEN Drop(r, i) ELSE UNCHANGED alerts
    /\ UNCHANGED <<redis, local, pc, expired, history>>

Limit(r) == IF Open(r) /\ StressedMax < WatchMax THEN StressedMax ELSE WatchMax

Cut(S, n) == IF Cardinality(S) <= n THEN {S} ELSE {T \in SUBSET S : Cardinality(T) = n}

Cap(r) ==
    /\ pc[r] = "decay"
    /\ pending[r] = {}
    /\ \E kept \in Cut(alerts[r], Limit(r)) :
          /\ alerts' = [alerts EXCEPT ![r] = kept]
          /\ pending' = [pending EXCEPT ![r] = kept]
    /\ pc' = [pc EXCEPT ![r] = "count"]
    /\ UNCHANGED <<redis, local, met, expired, history>>

(* No WATCH of this symbol has been counted by the run yet. *)
First(r, s) == \A j \in alerts[r] : SymbolAt(r, j) = s => j \in pending[r]

(* _incr_watch_cycles: HINCRBY and the TTL, in a pipeline that may be sent *)
(* twice.                                                                  *)
Count(r) ==
    /\ pc[r] = "count"
    /\ \E i \in pending[r] : LET s == SymbolAt(r, i) IN
          /\ Visit(r, i)
          /\ repeats' = [repeats EXCEPT ![s] = IF First(r, s) THEN @ + 1 ELSE @]
          /\ \/ Skipped(r) /\ UNCHANGED cycles
             \/ Answered(r) /\ cycles' = [cycles EXCEPT ![s] = @ + 1]
             \/ Resent(r) /\ cycles' = [cycles EXCEPT ![s] = @ + 2]
             \/ Raised(r, 1) /\ cycles' \in {cycles, [cycles EXCEPT ![s] = @ + 1]}
    /\ UNCHANGED <<key, local, pc, alerts, expired, stolen, sent>>

-----------------------------------------------------------------------------
(* The symbols that went directional start afresh.                         *)

(* _reset_watch_cycles; an exception leaves the rest of its loop out. *)
Graduate(r) ==
    /\ pc[r] = "graduate"
    /\ \/ Skipped(r) /\ pending' = [pending EXCEPT ![r] = {}] /\ UNCHANGED <<cycles, repeats>>
       \/ \E i \in pending[r] :
             LET reset(f) == [f EXCEPT ![SymbolAt(r, i)] = 0]
             IN  \/ /\ Answered(r) \/ Resent(r)
                    /\ Visit(r, i)
                    /\ cycles' = reset(cycles)
                    /\ repeats' = reset(repeats)
                 \/ /\ Raised(r, 1)
                    /\ pending' = [pending EXCEPT ![r] = {}]
                    /\ \/ cycles' = reset(cycles) /\ repeats' = reset(repeats)
                       \/ UNCHANGED <<cycles, repeats>>
    /\ UNCHANGED <<key, local, pc, alerts, expired, stolen, sent>>

Free(r, s, D) ==
    LET taken == {c \in {s} \X D : key[c] \notin {r, NoRun} /\ pc[key[c]] \in Stages}
    IN  /\ key' = [c \in Candidate |-> IF c \in {s} \X D THEN NoRun ELSE key[c]]
        /\ stolen' = stolen + Cardinality(taken)

(* Mutant: only the WATCH key is cleared. *)
ClearWatch(r) ==
    /\ pc[r] = "clear"
    /\ \E i \in pending[r] :
          /\ Answered(r)
          /\ Visit(r, i)
          /\ Free(r, SymbolAt(r, i), {"WATCH"})
    /\ UNCHANGED <<cycles, local, pc, alerts, expired, repeats, sent>>

(* _reset_dedup_keys, in the order LONG, SHORT, WATCH. *)
Clear(r) ==
    /\ pc[r] = "clear"
    /\ \/ Skipped(r) /\ pending' = [pending EXCEPT ![r] = {}] /\ UNCHANGED <<key, stolen>>
       \/ \E i \in pending[r] :
             \/ /\ Answered(r) \/ Resent(r)
                /\ Visit(r, i)
                /\ Free(r, SymbolAt(r, i), Direction)
             \/ /\ Raised(r, 1)
                /\ pending' = [pending EXCEPT ![r] = {}]
                /\ \E D \in {{}, {"LONG"}, {"LONG", "SHORT"}, Direction} :
                      Free(r, SymbolAt(r, i), D)
    /\ UNCHANGED <<cycles, local, pc, alerts, expired, repeats, sent>>

LoopEnds(r) ==
    /\ pc[r] \in {"count", "graduate", "clear"}
    /\ pending[r] = {}
    /\ pc' = [pc EXCEPT ![r] = IF @ = "graduate" THEN "clear" ELSE "report"]
    /\ pending' = [pending EXCEPT ![r] =
                      IF pc[r] = "graduate" THEN alerts[r] ELSE {}]
    /\ UNCHANGED <<redis, local, alerts, met, expired, history>>

(* The process exits, and its memory is gone. *)
Exit(r, how) ==
    /\ pc' = [pc EXCEPT ![r] = how]
    /\ batch' = [batch EXCEPT ![r] = <<>>]
    /\ next' = [next EXCEPT ![r] = 1]
    /\ attempt' = [attempt EXCEPT ![r] = 1]
    /\ alerts' = [alerts EXCEPT ![r] = {}]
    /\ pending' = [pending EXCEPT ![r] = {}]
    /\ fails' = [fails EXCEPT ![r] = 0]

Report(r) ==
    /\ pc[r] = "report"
    /\ sent' = [c \in Directional |-> IF c \in Held(r) THEN sent[c] \union {r} ELSE sent[c]]
    /\ Exit(r, "done")
    /\ UNCHANGED <<redis, troubles, troubled, expired, stolen, repeats>>

-----------------------------------------------------------------------------
(* The environment *)

(* An exception leaves the step, and run_workflow() tries it again. *)
Retry(r) ==
    /\ pc[r] \in Stages
    /\ attempt[r] < MaxAttempts
    /\ troubles < MaxTroubles
    /\ troubles' = troubles + 1
    /\ troubled' = troubled \union {r}
    /\ attempt' = [attempt EXCEPT ![r] = @ + 1]
    /\ pc' = [pc EXCEPT ![r] = "evaluate"]
    /\ next' = [next EXCEPT ![r] = 1]
    /\ alerts' = [alerts EXCEPT ![r] = {}]
    /\ pending' = [pending EXCEPT ![r] = {}]
    /\ UNCHANGED <<redis, batch, fails, expired, history>>

(* It is killed, or the last attempt raised. *)
Crash(r) ==
    /\ pc[r] \in Stages
    /\ Exit(r, "dead")
    /\ UNCHANGED <<redis, troubles, troubled, expired, history>>

(* A key reaches its TTL of 300 s or 900 s, long after the run that set it *)
(* is through with the step.                                               *)
Expire(c) ==
    /\ key[c] # NoRun
    /\ pc[key[c]] \notin Stages
    /\ expired[c[1]] < MaxExpiry[c[1]]
    /\ expired' = [expired EXCEPT ![c[1]] = @ + 1]
    /\ key' = [key EXCEPT ![c] = NoRun]
    /\ sent' = [d \in Directional |-> IF d = c THEN {} ELSE sent[d]]
    /\ UNCHANGED <<cycles, local, pc, alerts, pending, met, stolen, repeats>>

(* A cycle counter reaches its TTL, a day after it was last counted: long  *)
(* after the runs that counted it are through.                             *)
Forget(s) ==
    /\ cycles[s] # 0
    /\ \A r \in Run : pc[r] \in {"count", "report"} =>
          \A i \in alerts[r] \ pending[r] : SymbolAt(r, i) # s
    /\ expired[s] < MaxExpiry[s]
    /\ expired' = [expired EXCEPT ![s] = @ + 1]
    /\ cycles' = [cycles EXCEPT ![s] = 0]
    /\ repeats' = [repeats EXCEPT ![s] = 0]
    /\ UNCHANGED <<key, local, pc, alerts, pending, met, stolen, sent>>

Step(r) ==
    \/ Start(r) \/ Evaluate(r) \/ Rank(r) \/ DropDecayed(r) \/ Cap(r) \/ Count(r)
    \/ Graduate(r) \/ Clear(r) \/ LoopEnds(r) \/ Report(r)

Next ==
    \/ \E r \in Run : Step(r) \/ Retry(r) \/ Crash(r)
    \/ \E c \in Candidate : Expire(c)
    \/ \E s \in Symbol : Forget(s)

Spec == Init /\ [][Next]_vars

-----------------------------------------------------------------------------
(* Properties *)

(* A WATCH stops repeating: since its symbol last went directional, or     *)
(* since its counter last expired (_incr_watch_cycles sets a TTL of a day  *)
(* each time), at most WATCH_DECAY_CYCLES runs let it through, and one     *)
(* more for each failure.  Reading the counter and incrementing it are     *)
(* separate calls; what keeps two runs from both passing is the dedup key, *)
(* so a key that a graduating run clears under a run at work costs one     *)
(* repeat as well.                                                         *)
RepeatsBounded ==
    \A s \in Symbol : repeats[s] <= DecayCycles + troubles + stolen

(* A directional dedup key belongs to a run that is still at work, or that *)
(* died or met a failure: a run that returns in good order clears the keys *)
(* of its own alerts, so no symbol stays silenced by an earlier run.       *)
DirectionalKeyIsLive ==
    \A c \in Directional :
        key[c] \in Run \ troubled => pc[key[c]] \in Stages \union {"dead"}

(* CHANGELOG.md, "Gate-level alert deduplication with configurable TTL for *)
(* directional and WATCH alerts": within the TTL of its key a directional  *)
(* alert leaves the gates once.                                            *)
DirectionalSentOnce ==
    \A c \in Directional : Cardinality(sent[c]) <= 1
=============================================================================
