--------------------------- MODULE SnapshotQueue ---------------------------
(***************************************************************************)
(* The Redis lists snapshots:15m and snapshots:1h between the collectors   *)
(* and the merger.  A pipeline run flushes the list of its own timeframe,  *)
(* runs its collectors in parallel, and merges what it then finds in that  *)
(* list.  Every collector pushes to both lists, whichever run it belongs   *)
(* to, and runs of both timeframes overlap; a !scan overlaps a run of its  *)
(* own timeframe as well.                                                  *)
(*                                                                         *)
(* One symbol is modelled: the merger treats the symbols one by one.  A    *)
(* collector of a run contributes one signal to it.  A list is the set of  *)
(* its entries: the merge neither counts the copies a retry leaves nor     *)
(* depends on their order, except when LRANGE_CAP cuts the oldest off,     *)
(* which is one of the troubles of a read.                                 *)
(***************************************************************************)
EXTENDS Integers, FiniteSets

CONSTANTS
    Run,            \* pipeline runs
    Cron,           \* those under flock, one at a time per timeframe
    Collector,      \* each has a source and type of its own
    Score,          \* the score of the signal a collector of a run finds
    Forecast,       \* the collector of the price_forecast signals
    Trend,          \* the collector of the technical_trend signals
    Stale,          \* pairs of a forecast and a trend whose prices are over 15% apart
    MinTypes,       \* MERGER_MIN_TYPES_15M, MERGER_MIN_TYPES_1H
    MaxAttempts,    \* retry.max_attempts of each collector workflow
    MaxExpiry,      \* bound: how often a list expires
    MaxTroubles     \* bound: errors, cut reads and kills in all

Timeframe == {"15m", "1h"}
Entry == Run \X Collector

Magnitude(e) == IF Score[e] > 0 THEN Score[e] ELSE -Score[e]

(* Signals of one source, type and sign: the merge keeps the strongest. *)
SameSignal(e, f) == e[2] = f[2] /\ (Score[e] >= 0 <=> Score[f] >= 0)

(* A score stands for the pair (score, confidence) the merge compares. *)
ASSUME QueueAssumption ==
    /\ Cron \subseteq Run
    /\ Score \in [Entry -> Int]
    /\ Stale \subseteq Entry \X Entry
    /\ \A e, f \in Entry : SameSignal(e, f) /\ e # f => Magnitude(e) # Magnitude(f)
    /\ {MinTypes, MaxExpiry, MaxTroubles} \subseteq Nat
    /\ MaxAttempts \in [Collector -> Nat \ {0}]

VARIABLES
    list,        \* Redis: snapshots:<timeframe>
    ttl,         \* Redis: whether the list has a TTL
    pc,          \* where a run is
    frame,       \* its timeframe
    at,          \* the next call of a collector, and the list it is for
    attempt,     \* the attempt of its store step
    merged,      \* the signals a run hands to the decision
    muted,       \* those of them it hands on with score 0 and confidence 0.10
    expired,     \* bound: how often a list has expired
    troubles,    \* bound: errors, cut reads and kills so far
    older,       \* history: what had been pushed when a run flushed
    stored,      \* history: the entries whose store step returned
    abandoned,   \* history: those whose store step gave up or was killed
    robbed       \* history: runs whose list was emptied, not read in full, or lost out

redis == <<list, ttl>>
collect == <<at, attempt, stored, abandoned>>
vars == <<redis, pc, frame, collect, merged, muted, expired, troubles, older, robbed>>

Working == {"flush", "collect", "merge"}
Storing == {"push", "expire"} \X Timeframe
Waiting == <<"wait", "15m">>
Over == <<"over", "15m">>

TypeOK ==
    /\ list \in [Timeframe -> SUBSET Entry]
    /\ ttl \in [Timeframe -> BOOLEAN]
    /\ \A tf \in Timeframe : ttl[tf] => list[tf] # {}
    /\ pc \in [Run -> Working \union {"idle", "done", "dead"}]
    /\ frame \in [Run -> Timeframe]
    /\ at \in [Entry -> Storing \union {Waiting, Over}]
    /\ attempt \in [Entry -> Nat]
    /\ \A e \in Entry : attempt[e] \in 1 .. MaxAttempts[e[2]]
    /\ merged \in [Run -> SUBSET Entry]
    /\ muted \in [Run -> SUBSET Entry]
    /\ expired \in 0 .. MaxExpiry
    /\ troubles \in 0 .. MaxTroubles
    /\ older \in [Run -> SUBSET Entry]
    /\ stored \in SUBSET Entry
    /\ abandoned \in SUBSET Entry
    /\ stored \intersect abandoned = {}
    /\ robbed \in SUBSET Run

Init ==
    /\ list = [tf \in Timeframe |-> {}]
    /\ ttl = [tf \in Timeframe |-> FALSE]
    /\ pc = [r \in Run |-> "idle"]
    /\ frame = [r \in Run |-> "15m"]
    /\ at = [e \in Entry |-> Waiting]
    /\ attempt = [e \in Entry |-> 1]
    /\ merged = [r \in Run |-> {}]
    /\ muted = [r \in Run |-> {}]
    /\ expired = 0
    /\ troubles = 0
    /\ older = [r \in Run |-> {}]
    /\ stored = {}
    /\ abandoned = {}
    /\ robbed = {}

-----------------------------------------------------------------------------
(* flush-stale-snapshots *)

Trouble == troubles < MaxTroubles /\ troubles' = troubles + 1

(* flock admits one cron run per timeframe; !scan takes no lock. *)
Start(r) ==
    /\ pc[r] = "idle"
    /\ \E tf \in Timeframe :
          /\ r \in Cron => \A q \in Cron : frame[q] = tf => pc[q] \notin Working
          /\ frame' = [frame EXCEPT ![r] = tf]
    /\ pc' = [pc EXCEPT ![r] = "flush"]
    /\ UNCHANGED <<redis, collect, merged, muted, expired, troubles, older, robbed>>

(* The runs that rely on what list tf holds. *)
Users(tf) == {q \in Run : pc[q] \in {"collect", "merge"} /\ frame[q] = tf}

Emptied(tf) ==
    /\ list' = [list EXCEPT ![tf] = {}]
    /\ ttl' = [ttl EXCEPT ![tf] = FALSE]
    /\ robbed' = robbed \union Users(tf)

Collecting(r) ==
    /\ pc' = [pc EXCEPT ![r] = "collect"]
    /\ at' = [e \in Entry |-> IF e[1] = r THEN <<"push", "15m">> ELSE at[e]]
    /\ older' = [older EXCEPT ![r] = list["15m"] \union list["1h"]]
    /\ UNCHANGED <<frame, attempt, merged, muted, expired, stored, abandoned>>

(* Mutant: the flush takes the lists of both timeframes. *)
FlushAll(r) ==
    /\ pc[r] = "flush"
    /\ list' = [tf \in Timeframe |-> {}]
    /\ ttl' = [tf \in Timeframe |-> FALSE]
    /\ robbed' = robbed \union Users(frame[r])
    /\ Collecting(r)
    /\ UNCHANGED troubles

(* A flush that fails is logged and the collectors run all the same; the   *)
(* DEL may have been carried out before its reply was lost.                *)
Flush(r) ==
    /\ pc[r] = "flush"
    /\ \/ Emptied(frame[r]) /\ UNCHANGED troubles
       \/ Trouble /\ UNCHANGED <<redis, robbed>>
       \/ Trouble /\ Emptied(frame[r])
    /\ Collecting(r)

-----------------------------------------------------------------------------
(* The store step of a collector: LPUSH and EXPIRE for 15m, then for 1h.   *)

Pushed(e) == [list EXCEPT ![at[e][2]] = @ \union {e}]

Push(e) ==
    /\ at[e] \in {"push"} \X Timeframe
    /\ list' = Pushed(e)
    /\ at' = [at EXCEPT ![e][1] = "expire"]
    /\ UNCHANGED <<ttl, pc, frame, attempt, merged, muted, expired, troubles, older,
                   stored, abandoned, robbed>>

Advance(e) ==
    \/ /\ at[e][2] = "15m"
       /\ at' = [at EXCEPT ![e] = <<"push", "1h">>]
       /\ UNCHANGED <<attempt, stored>>
    \/ /\ at[e][2] = "1h"
       /\ at' = [at EXCEPT ![e] = Over]
       /\ attempt' = [attempt EXCEPT ![e] = 1]
       /\ stored' = stored \union {e}

(* EXPIRE of a list that is gone does nothing. *)
Renewed(tf) == [ttl EXCEPT ![tf] = list[tf] # {}]

(* Mutant: whatever list was pushed to, the TTL goes to the 15m one. *)
SetTtlOf15m(e) ==
    /\ at[e] \in {"expire"} \X Timeframe
    /\ ttl' = Renewed("15m")
    /\ Advance(e)
    /\ UNCHANGED <<list, pc, frame, merged, muted, expired, troubles, older, abandoned, robbed>>

SetTtl(e) ==
    /\ at[e] \in {"expire"} \X Timeframe
    /\ ttl' = Renewed(at[e][2])
    /\ Advance(e)
    /\ UNCHANGED <<list, pc, frame, merged, muted, expired, troubles, older, abandoned, robbed>>

(* Mutant: one attempt too many. *)
MayRetryOnceMore(e) == attempt[e] <= MaxAttempts[e[2]]

MayRetry(e) == attempt[e] < MaxAttempts[e[2]]

(* A call raises, carried out or not.  The store step starts again from    *)
(* its first push, or gives up; the other collectors go on.                *)
StoreRaises(e) ==
    /\ at[e] \in Storing
    /\ Trouble
    /\ \/ UNCHANGED redis
       \/ at[e][1] = "push" /\ list' = Pushed(e) /\ UNCHANGED ttl
       \/ at[e][1] = "expire" /\ ttl' = Renewed(at[e][2]) /\ UNCHANGED list
    /\ \/ /\ MayRetry(e)
          /\ attempt' = [attempt EXCEPT ![e] = @ + 1]
          /\ at' = [at EXCEPT ![e] = <<"push", "15m">>]
          /\ UNCHANGED abandoned
       \/ /\ ~MayRetry(e)
          /\ attempt' = [attempt EXCEPT ![e] = 1]
          /\ at' = [at EXCEPT ![e] = Over]
          /\ abandoned' = abandoned \union {e}
    /\ UNCHANGED <<pc, frame, merged, muted, expired, older, stored, robbed>>

-----------------------------------------------------------------------------
(* merge() *)

(* The merger runs when the thread pool has joined every collector. *)
Join(r) ==
    /\ pc[r] = "collect"
    /\ \A c \in Collector : at[<<r, c>>] = Over
    /\ pc' = [pc EXCEPT ![r] = "merge"]
    /\ UNCHANGED <<redis, frame, collect, merged, muted, expired, troubles, older, robbed>>

Types(S) == {e[2] : e \in S}

(* sig_by_type.  As a mutant of Strongest: the sign is not part of the key *)
(* under which a signal is kept.                                           *)
StrongestOfType(S) ==
    {e \in S : \A f \in S : e[2] = f[2] => Magnitude(e) >= Magnitude(f)}

Strongest(S) ==
    {e \in S : \A f \in S : SameSignal(e, f) => Magnitude(e) >= Magnitude(f)}

(* A symbol with signals of too few types is dropped. *)
Read(S) == IF Cardinality(Types(S)) < MinTypes THEN {} ELSE Strongest(S)

(* The TimesFM guard compares one forecast with one trend signal: the      *)
(* strongest of either sign, the one that comes first if both signs are    *)
(* equally strong.  A forecast made from a stale price is muted.           *)
GuardMutes(S) ==
    LET compared == {p \in StrongestOfType(S) \X StrongestOfType(S) :
                        p[1][2] = Forecast /\ p[2][2] = Trend}
    IN  IF compared = {} THEN {{}}
        ELSE {IF p \in Stale THEN {p[1]} ELSE {} : p \in compared}

HandOn(r, S) ==
    /\ merged' = [merged EXCEPT ![r] = S]
    /\ \E m \in GuardMutes(S) : muted' = [muted EXCEPT ![r] = m]

(* Entries go missing when the list is longer than LRANGE_CAP, when they   *)
(* do not parse, and all of them when Redis does not answer.  Of the       *)
(* symbols only the MERGE_LIMIT strongest are handed on.                   *)
Merge(r) ==
    /\ pc[r] = "merge"
    /\ pc' = [pc EXCEPT ![r] = "done"]
    /\ \/ /\ HandOn(r, Read(list[frame[r]]))
          /\ UNCHANGED <<troubles, robbed>>
       \/ /\ Trouble
          /\ \E S \in SUBSET list[frame[r]] : HandOn(r, Read(S))
          /\ robbed' = robbed \union {r}
       \/ /\ robbed' = robbed \union {r}
          /\ UNCHANGED <<merged, muted, troubles>>
    /\ UNCHANGED <<redis, frame, collect, expired, older>>

-----------------------------------------------------------------------------
(* The environment: a run is killed, a list reaches its TTL. *)

Crash(r) ==
    /\ pc[r] \in Working
    /\ Trouble
    /\ pc' = [pc EXCEPT ![r] = "dead"]
    /\ abandoned' = abandoned \union {e \in Entry : e[1] = r /\ at[e] \in Storing}
    /\ at' = [e \in Entry |-> IF e[1] = r THEN Over ELSE at[e]]
    /\ attempt' = [e \in Entry |-> IF e[1] = r THEN 1 ELSE attempt[e]]
    /\ UNCHANGED <<redis, frame, merged, muted, expired, older, stored, robbed>>

Expire(tf) ==
    /\ ttl[tf]
    /\ expired < MaxExpiry
    /\ expired' = expired + 1
    /\ Emptied(tf)
    /\ UNCHANGED <<pc, frame, collect, merged, muted, troubles, older>>

Next ==
    \/ \E r \in Run : Start(r) \/ Flush(r) \/ Join(r) \/ Merge(r) \/ Crash(r)
    \/ \E e \in Entry : Push(e) \/ SetTtl(e) \/ StoreRaises(e)
    \/ \E tf \in Timeframe : Expire(tf)

Spec == Init /\ [][Next]_vars

-----------------------------------------------------------------------------
(* Properties *)

OwnSignals(r) == {e \in stored : e[1] = r}

(* A run hands a signal on with the score it has, unless it is a forecast  *)
(* whose price is off that of a trend signal handed on with it.            *)
HeardAsIs(r, f) ==
    f \in muted[r] =>
        f[2] = Forecast /\ \E g \in merged[r] : g[2] = Trend /\ <<f, g>> \in Stale

(* A run whose list was neither emptied behind its back nor cut, and whose *)
(* symbol was not outranked, hands on, for every collector whose store     *)
(* step returned, its signal or a stronger one of the same source, type    *)
(* and sign, whatever the runs of the other timeframe flushed and pushed   *)
(* meanwhile; fewer types than merge() asks for are excepted.  It does so  *)
(* with the score found, but for one case: merge() replaces a forecast     *)
(* whose price deviates by more than 15% from that of the trend signal by  *)
(* a neutral one.                                                          *)
OwnSignalsMerged ==
    \A r \in Run \ robbed :
        pc[r] = "done" /\ Cardinality(Types(OwnSignals(r))) >= MinTypes =>
            \A e \in OwnSignals(r) : \E f \in merged[r] :
                SameSignal(e, f) /\ Magnitude(f) >= Magnitude(e) /\ HeardAsIs(r, f)

(* A list without a TTL is never left to itself: some entry of it belongs  *)
(* to a store step that is still under way, or that was given up between   *)
(* LPUSH and EXPIRE.                                                       *)
TtlRestored ==
    \A tf \in Timeframe :
        list[tf] # {} /\ ~ttl[tf] =>
            \E e \in list[tf] : at[e] \in Storing \/ e \in abandoned

(* orchestrator-base.yaml on the flush: "Prevents mixing old and fresh     *)
(* collector data in the merger."  A run merges nothing that had already   *)
(* been pushed, to either list, when it flushed.                           *)
NoStaleData == \A r \in Run : merged[r] \intersect older[r] = {}
=============================================================================
