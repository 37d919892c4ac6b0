------------------------ MODULE SnapshotQueue_proofs ------------------------
(***************************************************************************)
(* Proofs about SnapshotQueue, for any runs and collectors, any scores and *)
(* attempts and any number of failures and expirations.                    *)
(***************************************************************************)
EXTENDS SnapshotQueue, FiniteSetTheorems, TLAPS

-----------------------------------------------------------------------------
(* Type correctness *)

Place == Storing \union {Waiting, Over}

LEMMA Places ==
    /\ \A tf \in Timeframe : <<"push", tf>> \in Storing /\ <<"expire", tf>> \in Storing
    /\ Waiting \notin Storing /\ Over \notin Storing
    /\ {"15m", "1h"} = Timeframe
BY DEF Storing, Waiting, Over, Timeframe

(* A collector after its LPUSH is at the EXPIRE of the same list. *)
LEMMA PushMoves ==
    ASSUME TypeOK, NEW e \in Entry, Push(e)
    PROVE  /\ at[e][2] \in Timeframe /\ at[e] = <<"push", at[e][2]>>
           /\ at' = [at EXCEPT ![e] = <<"expire", at[e][2]>>]
<1>1. at[e] \in {"push"} \X Timeframe
    BY DEF Push
<1> DEFINE there == [at[e] EXCEPT ![1] = "expire"]
<1>2. there = <<"expire", at[e][2]>>
    BY <1>1
<1>3. at' = [at EXCEPT ![e] = there]
    BY DEF Push
<1> HIDE DEF there
<1>4. QED
    BY <1>1, <1>2, <1>3

(* The parts of TypeOK that some group of actions leaves alone. *)
ListsOK ==
    /\ list \in [Timeframe -> SUBSET Entry]
    /\ ttl \in [Timeframe -> BOOLEAN]
    /\ \A tf \in Timeframe : ttl[tf] => list[tf] # {}

RunsOK ==
    /\ pc \in [Run -> Working \union {"idle", "done", "dead"}]
    /\ frame \in [Run -> Timeframe]
    /\ merged \in [Run -> SUBSET Entry]
    /\ muted \in [Run -> SUBSET Entry]
    /\ older \in [Run -> SUBSET Entry]
    /\ robbed \in SUBSET Run

CollectOK ==
    /\ at \in [Entry -> Place]
    /\ attempt \in [Entry -> Nat]
    /\ \A e \in Entry : attempt[e] \in 1 .. MaxAttempts[e[2]]
    /\ stored \in SUBSET Entry
    /\ abandoned \in SUBSET Entry
    /\ stored \intersect abandoned = {}

BoundsOK == expired \in 0 .. MaxExpiry /\ troubles \in 0 .. MaxTroubles

LEMMA TypeParts == TypeOK <=> ListsOK /\ RunsOK /\ CollectOK /\ BoundsOK
BY DEF TypeOK, ListsOK, RunsOK, CollectOK, BoundsOK, Place

(* A collector stores exactly while its run is at the collectors, and once: *)
(* when it is over its signal is either stored or abandoned.               *)
Phases ==
    \A e \in Entry :
        LET r == e[1]
        IN  /\ pc[r] \in {"idle", "flush"} => at[e] = Waiting /\ e \notin stored \union abandoned
            /\ pc[r] = "collect" =>
                  (at[e] \in Storing /\ e \notin stored \union abandoned) \/ at[e] = Over
            /\ pc[r] \in {"merge", "done", "dead"} => at[e] = Over

Typed == ListsOK /\ RunsOK /\ CollectOK /\ BoundsOK /\ Phases

LEMMA TypedInit == Init => Typed
BY QueueAssumption, Places
   DEF Init, Typed, ListsOK, RunsOK, CollectOK, BoundsOK, Phases, Place, Entry, Working, Timeframe

LEMMA StoringMeansCollecting ==
    ASSUME Typed, NEW e \in Entry, at[e] \in Storing
    PROVE  /\ pc[e[1]] = "collect" /\ e[1] \in Run /\ e[2] \in Collector
           /\ e \notin stored /\ e \notin abandoned
BY Places DEF Typed, RunsOK, Working, Phases, Entry, Storing, Waiting, Over

(* Lists that are emptied, pushed to or given a TTL remain lists. *)
LEMMA EmptiedLists ==
    ASSUME ListsOK, NEW tf \in Timeframe, Emptied(tf)
    PROVE  ListsOK'
BY DEF ListsOK, Emptied

LEMMA PushedLists ==
    ASSUME ListsOK, NEW e \in Entry, at[e][2] \in Timeframe, list' = Pushed(e), ttl' = ttl
    PROVE  ListsOK'
BY DEF ListsOK, Pushed

LEMMA RenewedLists ==
    ASSUME ListsOK, NEW tf \in Timeframe, ttl' = Renewed(tf), list' = list
    PROVE  ListsOK'
BY DEF ListsOK, Renewed

LEMMA TroubleBounds == ASSUME BoundsOK, Trouble, expired' = expired PROVE BoundsOK'
BY QueueAssumption DEF BoundsOK, Trouble

LEMMA StartTyped == ASSUME Typed, NEW r \in Run, Start(r) PROVE Typed'
<1>1. ListsOK' /\ CollectOK' /\ BoundsOK'
    BY DEF Typed, Start, ListsOK, CollectOK, BoundsOK, redis, collect
<1>2. RunsOK'
    BY DEF Typed, Start, RunsOK, Working
<1>3. Phases'
    BY DEF Typed, Start, RunsOK, Phases, collect, Entry
<1>4. QED
    BY <1>1, <1>2, <1>3 DEF Typed

LEMMA FlushTyped == ASSUME Typed, NEW r \in Run, Flush(r) PROVE Typed'
<1>1. frame[r] \in Timeframe /\ Collecting(r) /\ pc[r] = "flush"
    BY DEF Typed, RunsOK, Flush
<1>2. ListsOK'
    BY <1>1, EmptiedLists DEF Typed, Flush, ListsOK, redis
<1>3. BoundsOK'
    BY TroubleBounds DEF Typed, Flush, BoundsOK, Collecting
<1>4. robbed' \in SUBSET Run
    BY DEF Typed, RunsOK, Flush, Emptied, Users, redis
<1>5. RunsOK'
    BY <1>1, <1>4, Places DEF Typed, RunsOK, ListsOK, Collecting, Working
<1>6. CollectOK'
    BY <1>1, Places DEF Typed, CollectOK, Collecting, Place
<1>7. Phases'
    BY <1>1, Places DEF Typed, RunsOK, Phases, Collecting, Entry
<1>8. QED
    BY <1>2, <1>3, <1>5, <1>6, <1>7 DEF Typed

LEMMA PushTyped == ASSUME Typed, NEW e \in Entry, Push(e) PROVE Typed'
<1>0. TypeOK
    BY TypeParts DEF Typed
<1>1. /\ at[e][2] \in Timeframe /\ at[e] \in Storing
      /\ at' = [at EXCEPT ![e] = <<"expire", at[e][2]>>]
    BY <1>0, PushMoves, Places
<1>2. ListsOK'
    BY <1>1, PushedLists DEF Typed, Push
<1>3. RunsOK' /\ BoundsOK'
    BY DEF Typed, Push, RunsOK, BoundsOK
<1>4. /\ pc[e[1]] = "collect" /\ e \notin stored /\ e \notin abandoned
      /\ UNCHANGED <<pc, attempt, stored, abandoned>>
    BY <1>1, StoringMeansCollecting DEF Push
<1> DEFINE there == <<"expire", at[e][2]>>
<1>5. there \in Storing
    BY <1>1, Places
<1>6. at' = [at EXCEPT ![e] = there]
    BY <1>1
<1> HIDE DEF there
<1>7. CollectOK'
    BY <1>4, <1>5, <1>6 DEF Typed, CollectOK, Place
<1>8. Phases'
    BY <1>4, <1>5, <1>6 DEF Typed, CollectOK, Phases
<1>9. QED
    BY <1>2, <1>3, <1>7, <1>8 DEF Typed

LEMMA SetTtlTyped == ASSUME Typed, NEW e \in Entry, SetTtl(e) PROVE Typed'
<1>1. /\ at[e][2] \in Timeframe /\ at[e] \in Storing
      /\ pc[e[1]] = "collect" /\ e \notin stored /\ e \notin abandoned /\ e[2] \in Collector
    BY StoringMeansCollecting DEF SetTtl, Storing
<1>2. ListsOK'
    BY <1>1, RenewedLists DEF Typed, SetTtl
<1>3. RunsOK' /\ BoundsOK'
    BY DEF Typed, SetTtl, RunsOK, BoundsOK
<1>4. CASE at[e][2] = "15m"
  <2>1. at' = [at EXCEPT ![e] = <<"push", "1h">>] /\ UNCHANGED <<attempt, stored, abandoned, pc>>
      BY <1>4 DEF SetTtl, Advance
  <2>2. CollectOK'
      BY <2>1, Places DEF Typed, CollectOK, Place
  <2>3. Phases'
      BY <1>1, <2>1, Places DEF Typed, CollectOK, Phases
  <2>4. QED
      BY <1>2, <1>3, <2>2, <2>3 DEF Typed
<1>5. CASE at[e][2] = "1h"
  <2>1. /\ at' = [at EXCEPT ![e] = Over] /\ attempt' = [attempt EXCEPT ![e] = 1]
        /\ stored' = stored \union {e} /\ UNCHANGED <<abandoned, pc>>
      BY <1>5 DEF SetTtl, Advance
  <2>2. CollectOK'
      BY <1>1, <2>1, Places, QueueAssumption DEF Typed, CollectOK, Place
  <2>3. Phases'
      BY <1>1, <2>1, Places DEF Typed, CollectOK, Phases
  <2>4. QED
      BY <1>2, <1>3, <2>2, <2>3 DEF Typed
<1>6. QED
    BY <1>1, <1>4, <1>5 DEF Timeframe

LEMMA StoreRaisesTyped == ASSUME Typed, NEW e \in Entry, StoreRaises(e) PROVE Typed'
<1>1. /\ at[e][2] \in Timeframe /\ at[e] \in Storing
      /\ pc[e[1]] = "collect" /\ e \notin stored /\ e \notin abandoned /\ e[2] \in Collector
    BY StoringMeansCollecting DEF StoreRaises, Storing
<1>2. ListsOK'
    BY <1>1, RenewedLists, PushedLists DEF Typed, StoreRaises, redis, ListsOK
<1>3. RunsOK' /\ BoundsOK'
    BY TroubleBounds DEF Typed, StoreRaises, RunsOK
<1>4. CASE MayRetry(e)
  <2>1. /\ at' = [at EXCEPT ![e] = <<"push", "15m">>] /\ attempt' = [attempt EXCEPT ![e] = @ + 1]
        /\ UNCHANGED <<stored, abandoned, pc>>
      BY <1>4 DEF StoreRaises
  <2>a. attempt[e] + 1 \in Nat /\ attempt[e] + 1 \in 1 .. MaxAttempts[e[2]]
      BY <1>1, <1>4, QueueAssumption DEF Typed, CollectOK, MayRetry
  <2>2. CollectOK'
      BY <2>1, <2>a, Places DEF Typed, CollectOK, Place
  <2>3. Phases'
      BY <1>1, <2>1, Places DEF Typed, CollectOK, Phases
  <2>4. QED
      BY <1>2, <1>3, <2>2, <2>3 DEF Typed
<1>5. CASE ~MayRetry(e)
  <2>1. /\ at' = [at EXCEPT ![e] = Over] /\ attempt' = [attempt EXCEPT ![e] = 1]
        /\ abandoned' = abandoned \union {e} /\ UNCHANGED <<stored, pc>>
      BY <1>5 DEF StoreRaises
  <2>2. CollectOK'
      BY <1>1, <2>1, Places, QueueAssumption DEF Typed, CollectOK, Place
  <2>3. Phases'
      BY <1>1, <2>1, Places DEF Typed, CollectOK, Phases
  <2>4. QED
      BY <1>2, <1>3, <2>2, <2>3 DEF Typed
<1>6. QED
    BY <1>4, <1>5

LEMMA JoinTyped == ASSUME Typed, NEW r \in Run, Join(r) PROVE Typed'
<1>1. ListsOK' /\ CollectOK' /\ BoundsOK' /\ RunsOK'
    BY DEF Typed, Join, ListsOK, CollectOK, BoundsOK, RunsOK, redis, collect, Working
<1>2. ASSUME NEW e \in Entry, e[1] = r PROVE at[e] = Over
    BY <1>2 DEF Join, Entry
<1>3. Phases'
    BY <1>2 DEF Typed, Join, RunsOK, Phases, collect, Entry
<1>4. QED
    BY <1>1, <1>3 DEF Typed

LEMMA ReadSubset == ASSUME NEW S PROVE Read(S) \subseteq S
BY DEF Read, Strongest

(* The guard mutes a forecast whose price is off that of a trend signal    *)
(* handed on as well, or nothing.                                          *)
LEMMA GuardMutesStale ==
    ASSUME NEW S, NEW m \in GuardMutes(S), NEW f \in m
    PROVE  f \in S /\ f[2] = Forecast /\ \E g \in S : g[2] = Trend /\ <<f, g>> \in Stale
<1> DEFINE compared == {p \in StrongestOfType(S) \X StrongestOfType(S) :
                            p[1][2] = Forecast /\ p[2][2] = Trend}
<1>1. GuardMutes(S) \subseteq {{}} \union {IF p \in Stale THEN {p[1]} ELSE {} : p \in compared}
    BY DEF GuardMutes
<1>2. PICK p \in compared : p \in Stale /\ m = {p[1]}
    BY <1>1
<1>3. p \in StrongestOfType(S) \X StrongestOfType(S) /\ p[1][2] = Forecast /\ p[2][2] = Trend
    BY <1>2
<1>4. p = <<p[1], p[2]>> /\ p[1] \in S /\ p[2] \in S
    BY <1>3 DEF StrongestOfType
<1>5. f = p[1] /\ <<f, p[2]>> \in Stale
    BY <1>2, <1>4
<1>6. QED
    BY <1>3, <1>4, <1>5

LEMMA HandOnTyped ==
    ASSUME RunsOK, NEW r \in Run, NEW S \in SUBSET Entry, HandOn(r, S)
    PROVE  merged' \in [Run -> SUBSET Entry] /\ muted' \in [Run -> SUBSET Entry]
<1>1. PICK m \in GuardMutes(S) : muted' = [muted EXCEPT ![r] = m]
    BY DEF HandOn
<1>2. m \subseteq S
    BY GuardMutesStale
<1>3. QED
    BY <1>1, <1>2 DEF HandOn, RunsOK

LEMMA MergeTyped == ASSUME Typed, NEW r \in Run, Merge(r) PROVE Typed'
<1>1. ListsOK' /\ CollectOK'
    BY DEF Typed, Merge, ListsOK, CollectOK, redis, collect
<1>2. BoundsOK'
    BY TroubleBounds DEF Typed, Merge, BoundsOK
<1>3. list[frame[r]] \subseteq Entry
    BY DEF Typed, ListsOK, RunsOK
<1>4. merged' \in [Run -> SUBSET Entry] /\ muted' \in [Run -> SUBSET Entry]
      /\ robbed' \in SUBSET Run
  <2>1. \A S \in SUBSET list[frame[r]] : Read(S) \in SUBSET Entry
      BY <1>3, ReadSubset
  <2>2. \/ UNCHANGED <<merged, muted>>
        \/ \E S \in SUBSET Entry : HandOn(r, S)
      BY <2>1 DEF Merge
  <2>3. QED
      BY <2>2, HandOnTyped DEF Typed, Merge, RunsOK
<1>5. RunsOK'
    BY <1>4 DEF Typed, Merge, RunsOK
<1>6. Phases'
    BY DEF Typed, Merge, RunsOK, Phases, collect, Entry
<1>7. QED
    BY <1>1, <1>2, <1>5, <1>6 DEF Typed

LEMMA CrashTyped == ASSUME Typed, NEW r \in Run, Crash(r) PROVE Typed'
<1>1. ListsOK' /\ RunsOK' /\ BoundsOK'
    BY TroubleBounds DEF Typed, Crash, ListsOK, RunsOK, redis
<1>2. \A e \in Entry : 1 \in 1 .. MaxAttempts[e[2]]
    BY QueueAssumption DEF Entry
<1>3. \A e \in Entry : at[e] \in Storing => e \notin stored
    BY StoringMeansCollecting
<1>4. CollectOK'
    BY <1>2, <1>3 DEF Typed, Crash, CollectOK, Place
<1>5. Phases'
    BY Places DEF Typed, Crash, RunsOK, CollectOK, Phases, Entry, Working
<1>6. QED
    BY <1>1, <1>4, <1>5 DEF Typed

LEMMA ExpireTyped == ASSUME Typed, NEW tf \in Timeframe, Expire(tf) PROVE Typed'
<1>1. ListsOK'
    BY EmptiedLists DEF Typed, Expire
<1>2. CollectOK' /\ RunsOK' /\ Phases'
    BY DEF Typed, Expire, Emptied, Users, CollectOK, RunsOK, Phases, collect
<1>3. BoundsOK'
    BY QueueAssumption DEF Typed, Expire, BoundsOK
<1>4. QED
    BY <1>1, <1>2, <1>3 DEF Typed

LEMMA TypedStep == Typed /\ [Next]_vars => Typed'
<1> SUFFICES ASSUME Typed, [Next]_vars PROVE Typed'
    OBVIOUS
<1>1. CASE UNCHANGED vars
    BY <1>1 DEF vars, redis, collect, Typed, ListsOK, RunsOK, CollectOK, BoundsOK, Phases
<1>2. QED
    BY <1>1, StartTyped, FlushTyped, JoinTyped, MergeTyped, CrashTyped, PushTyped, SetTtlTyped,
       StoreRaisesTyped, ExpireTyped DEF Next

(* The variables keep their types; no signal is both stored and abandoned. *)
THEOREM TypeCorrect == Spec => []TypeOK
BY TypedInit, TypedStep, TypeParts, PTL DEF Spec, Typed

-----------------------------------------------------------------------------
(* The TTL *)

(* A store step that will still come to the EXPIRE of a list, or that was  *)
(* given up: once it is at the list of 1h it has left the one of 15m.      *)
Behind(e, tf) ==
    \/ e \in abandoned
    \/ at[e] \in Storing /\ (tf = "15m" => at[e][2] = "15m")

(* TtlRestored as it is kept: it is not enough that some store step is     *)
(* under way, since one that has renewed the TTL of 15m is so as well.     *)
TtlInv ==
    \A tf \in Timeframe : list[tf] # {} /\ ~ttl[tf] => \E e \in list[tf] : Behind(e, tf)

LEMMA TtlInit == Init => TtlInv
BY DEF Init, TtlInv

(* The only actions that take an entry off the list or a store step from   *)
(* its place are those of the entry itself and of its run.                 *)
LEMMA StartTtl == ASSUME Typed, TtlInv, NEW r \in Run, Start(r) PROVE TtlInv'
BY DEF Start, TtlInv, Behind, redis, collect

LEMMA JoinTtl == ASSUME Typed, TtlInv, NEW r \in Run, Join(r) PROVE TtlInv'
BY DEF Join, TtlInv, Behind, redis, collect

LEMMA MergeTtl == ASSUME Typed, TtlInv, NEW r \in Run, Merge(r) PROVE TtlInv'
BY DEF Merge, TtlInv, Behind, redis, collect

LEMMA EmptiedTtl ==
    ASSUME Typed, TtlInv, NEW t \in Timeframe, Emptied(t),
           \A e \in Entry, tf \in Timeframe : Behind(e, tf) => Behind(e, tf)'
    PROVE  TtlInv'
<1> SUFFICES ASSUME NEW tf \in Timeframe, list'[tf] # {}, ~ttl'[tf]
             PROVE  \E e \in list'[tf] : Behind(e, tf)'
    BY DEF TtlInv
<1>1. list'[tf] = list[tf] /\ ttl'[tf] = ttl[tf]
    BY DEF Emptied, Typed, ListsOK
<1>2. QED
    BY <1>1 DEF TtlInv, Typed, ListsOK

LEMMA ExpireTtl == ASSUME Typed, TtlInv, NEW t \in Timeframe, Expire(t) PROVE TtlInv'
<1>1. \A e \in Entry, tf \in Timeframe : Behind(e, tf) => Behind(e, tf)'
    BY DEF Expire, Behind, collect
<1>2. Emptied(t)
    BY DEF Expire
<1>3. QED
    BY <1>1, <1>2, EmptiedTtl

LEMMA FlushTtl == ASSUME Typed, TtlInv, NEW r \in Run, Flush(r) PROVE TtlInv'
<1>1. frame[r] \in Timeframe
    BY DEF Typed, RunsOK
<1>2. \A e \in Entry, tf \in Timeframe : Behind(e, tf) => Behind(e, tf)'
    BY Places DEF Flush, Collecting, Behind, Storing
<1>3. CASE Emptied(frame[r])
    BY <1>1, <1>2, <1>3, EmptiedTtl
<1>4. CASE UNCHANGED redis
    BY <1>2, <1>4 DEF TtlInv, Typed, ListsOK, redis
<1>5. QED
    BY <1>3, <1>4 DEF Flush, redis

LEMMA CrashTtl == ASSUME Typed, TtlInv, NEW r \in Run, Crash(r) PROVE TtlInv'
<1>1. \A e \in Entry, tf \in Timeframe : Behind(e, tf) => Behind(e, tf)'
    BY DEF Crash, Behind, Typed, CollectOK
<1>2. QED
    BY <1>1 DEF TtlInv, Typed, ListsOK, Crash, redis

(* A collector that has pushed is behind with the list it pushed to. *)
LEMMA PushTtl == ASSUME Typed, TtlInv, NEW e \in Entry, Push(e) PROVE TtlInv'
<1>1. /\ at[e][2] \in Timeframe /\ at[e] \in Storing
      /\ at' = [at EXCEPT ![e] = <<"expire", at[e][2]>>]
    BY PushMoves, TypeParts, Places DEF Typed
<1> DEFINE t == at[e][2]
<1>2. at'[e] = <<"expire", t>> /\ at'[e] \in Storing /\ at'[e][2] = t
    BY <1>1, Places DEF Typed, CollectOK
<1>3. \A f \in Entry, tf \in Timeframe : Behind(f, tf) => Behind(f, tf)'
    BY <1>1, <1>2 DEF Push, Behind, Typed, CollectOK
<1> SUFFICES ASSUME NEW tf \in Timeframe, list'[tf] # {}, ~ttl'[tf]
             PROVE  \E f \in list'[tf] : Behind(f, tf)'
    BY DEF TtlInv
<1>4. ttl'[tf] = ttl[tf] /\ list[tf] \subseteq list'[tf] /\ list[tf] \subseteq Entry
    BY DEF Push, Pushed, Typed, ListsOK
<1>5. CASE list[tf] # {}
    BY <1>3, <1>4, <1>5 DEF TtlInv
<1>6. CASE list[tf] = {}
  <2>1. tf = t /\ e \in list'[tf]
      BY <1>1, <1>6 DEF Push, Pushed, Typed, ListsOK
  <2>2. Behind(e, tf)'
      BY <1>2, <2>1 DEF Behind
  <2>3. QED
      BY <2>1, <2>2
<1>7. QED
    BY <1>5, <1>6

LEMMA SetTtlTtl == ASSUME Typed, TtlInv, NEW e \in Entry, SetTtl(e) PROVE TtlInv'
<1>1. /\ at[e][2] \in Timeframe /\ at[e] \in Storing /\ ttl' = Renewed(at[e][2])
      /\ UNCHANGED <<list, abandoned>> /\ Advance(e)
    BY DEF SetTtl, Storing
<1> SUFFICES ASSUME NEW tf \in Timeframe, list[tf] # {}, ~ttl'[tf]
             PROVE  \E f \in list[tf] : Behind(f, tf)'
    BY <1>1 DEF TtlInv
<1>2. tf # at[e][2] /\ ~ttl[tf]
    BY <1>1 DEF Renewed, Typed, ListsOK
<1>3. PICK f \in list[tf] : Behind(f, tf)
    BY <1>2 DEF TtlInv
<1>4. f \in Entry
    BY DEF Typed, ListsOK
<1>5. CASE f # e
  <2>1. at'[f] = at[f]
      BY <1>1, <1>4, <1>5 DEF Advance, Typed, CollectOK
  <2>2. QED
      BY <1>1, <1>3, <2>1 DEF Behind
<1>6. CASE f = e /\ at[e][2] = "15m"
  <2>1. tf = "1h" /\ at'[e] = <<"push", "1h">>
      BY <1>1, <1>2, <1>6 DEF Advance, Typed, CollectOK, Timeframe
  <2>2. QED
      BY <1>3, <1>6, <2>1, Places DEF Behind, Timeframe
<1>7. CASE f = e /\ at[e][2] = "1h"
  <2>1. tf = "15m"
      BY <1>2, <1>7 DEF Timeframe
  <2>2. e \in abandoned
      BY <1>3, <1>7, <2>1 DEF Behind
  <2>3. QED
      BY <1>1, <1>3, <1>7, <2>2 DEF Behind
<1>8. QED
    BY <1>1, <1>5, <1>6, <1>7 DEF Timeframe

(* A store step that starts again has both lists before it. *)
LEMMA StoreRaisesTtl == ASSUME Typed, TtlInv, NEW e \in Entry, StoreRaises(e) PROVE TtlInv'
<1>1. at[e][2] \in Timeframe /\ at[e] \in Storing
    BY DEF StoreRaises, Storing
<1>2. \A tf \in Timeframe : Behind(e, tf)'
  <2>1. CASE MayRetry(e)
    <3>1. at'[e] = <<"push", "15m">>
        BY <2>1 DEF StoreRaises, Typed, CollectOK
    <3>2. QED
        BY <3>1, Places DEF Behind, Timeframe
  <2>2. CASE ~MayRetry(e)
      BY <2>2 DEF StoreRaises, Behind
  <2>3. QED
      BY <2>1, <2>2
<1>3. \A f \in Entry, tf \in Timeframe : Behind(f, tf) => Behind(f, tf)'
    BY <1>2 DEF StoreRaises, Behind, Typed, CollectOK
<1> SUFFICES ASSUME NEW tf \in Timeframe, list'[tf] # {}, ~ttl'[tf]
             PROVE  \E f \in list'[tf] : Behind(f, tf)'
    BY DEF TtlInv
<1>4. CASE e \in list'[tf]
    BY <1>2, <1>4
<1>5. CASE e \notin list'[tf]
  <2>1. list'[tf] = list[tf] /\ list[tf] \subseteq Entry
      BY <1>1, <1>5 DEF StoreRaises, redis, Pushed, Typed, ListsOK
  <2>2. ~ttl[tf]
      BY <1>1, <2>1 DEF StoreRaises, redis, Renewed, Typed, ListsOK
  <2>3. QED
      BY <1>3, <2>1, <2>2 DEF TtlInv
<1>6. QED
    BY <1>4, <1>5

LEMMA TtlStep == Typed /\ TtlInv /\ [Next]_vars => TtlInv'
<1> SUFFICES ASSUME Typed, TtlInv, [Next]_vars PROVE TtlInv'
    OBVIOUS
<1>1. CASE UNCHANGED vars
    BY <1>1 DEF vars, redis, collect, TtlInv, Behind
<1>2. QED
    BY <1>1, StartTtl, FlushTtl, JoinTtl, MergeTtl, CrashTtl, PushTtl, SetTtlTtl,
       StoreRaisesTtl, ExpireTtl DEF Next

LEMMA TtlInvSuffices == Typed /\ TtlInv => TtlRestored
BY DEF TtlInv, TtlRestored, Behind

(* A list without a TTL has an entry whose store step will still renew it, *)
(* or was given up between LPUSH and EXPIRE.                               *)
THEOREM TtlAlwaysRestored == Spec => []TtlRestored
<1>1. Init => Typed /\ TtlInv
    BY TypedInit, TtlInit
<1>2. Typed /\ TtlInv /\ [Next]_vars => (Typed /\ TtlInv)'
    BY TypedStep, TtlStep
<1>3. QED
    BY <1>1, <1>2, TtlInvSuffices, PTL DEF Spec

-----------------------------------------------------------------------------
(* What a run hands on *)

(* The store step of e has pushed to the list tf in its present attempt. *)
Reached(e, tf) ==
    \/ e \in stored
    \/ at[e] = <<"expire", tf>>
    \/ tf = "15m" /\ at[e] \in {"push", "expire"} \X {"1h"}

(* What the collectors of a run have pushed is in the list it will read. *)
PushedInv ==
    \A r \in Run \ robbed : pc[r] \in {"collect", "merge"} =>
        \A e \in Entry : e[1] = r /\ Reached(e, frame[r]) => e \in list[frame[r]]

(* Every entry has a strongest one of its kind, which is what a reading of *)
(* the list keeps of it.                                                   *)
Topped(S) ==
    \A e \in S : \E f \in Strongest(S) : SameSignal(e, f) /\ Magnitude(f) >= Magnitude(e)

Readable == \A tf \in Timeframe : IsFiniteSet(Types(list[tf])) /\ Topped(list[tf])

LEMMA MagnitudeType == ASSUME NEW e \in Entry PROVE Magnitude(e) \in Nat
<1>1. Score[e] \in Int
    BY QueueAssumption
<1>2. QED
    BY <1>1 DEF Magnitude

LEMMA SameSignalEquivalence ==
    ASSUME NEW e \in Entry, NEW f \in Entry, NEW g \in Entry
    PROVE  /\ SameSignal(e, e)
           /\ SameSignal(e, f) => SameSignal(f, e)
           /\ SameSignal(e, f) /\ SameSignal(f, g) => SameSignal(e, g)
BY DEF SameSignal

(* One more entry either becomes the strongest of its kind or leaves the   *)
(* strongest one what it was.                                              *)
LEMMA ToppedPush ==
    ASSUME NEW S \in SUBSET Entry, NEW x \in Entry, Topped(S)
    PROVE  Topped(S \union {x})
<1> DEFINE T == S \union {x}
<1>1. \A e \in T : Magnitude(e) \in Nat
    BY MagnitudeType
<1>2. ASSUME NEW g \in Strongest(S), SameSignal(x, g)
      PROVE  \E f \in Strongest(T) :
                SameSignal(x, f) /\ Magnitude(f) >= Magnitude(x) /\ Magnitude(f) >= Magnitude(g)
  <2>1. g \in S /\ \A h \in S : SameSignal(g, h) => Magnitude(g) >= Magnitude(h)
      BY DEF Strongest
  <2>2. CASE Magnitude(g) >= Magnitude(x)
    <3>1. g \in Strongest(T)
        BY <2>1, <2>2 DEF Strongest
    <3>2. QED
        BY <1>1, <1>2, <2>1, <2>2, <3>1
  <2>3. CASE Magnitude(x) >= Magnitude(g)
    <3>1. ASSUME NEW h \in T, SameSignal(x, h) PROVE Magnitude(x) >= Magnitude(h)
      <4>1. CASE h \in S
        <5>1. SameSignal(g, h)
            BY <1>2, <2>1, <3>1, SameSignalEquivalence
        <5>2. QED
            BY <1>1, <2>1, <2>3, <4>1, <5>1
      <4>2. CASE h = x
          BY <1>1, <4>2
      <4>3. QED
          BY <4>1, <4>2
    <3>2. x \in Strongest(T)
        BY <3>1 DEF Strongest
    <3>3. QED
        BY <1>1, <2>1, <2>3, <3>2, SameSignalEquivalence
  <2>4. QED
      BY <1>1, <2>1, <2>2, <2>3
<1>3. ASSUME NEW g \in Strongest(S), ~SameSignal(x, g)
      PROVE  g \in Strongest(T)
    BY <1>3, SameSignalEquivalence DEF Strongest
<1>4. ASSUME NEW e \in S
      PROVE  \E f \in Strongest(T) : SameSignal(e, f) /\ Magnitude(f) >= Magnitude(e)
  <2>1. PICK g \in Strongest(S) : SameSignal(e, g) /\ Magnitude(g) >= Magnitude(e)
      BY DEF Topped
  <2>2. g \in S
      BY DEF Strongest
  <2>3. CASE SameSignal(x, g)
    <3>1. PICK f \in Strongest(T) :
             SameSignal(x, f) /\ Magnitude(f) >= Magnitude(x) /\ Magnitude(f) >= Magnitude(g)
        BY <1>2, <2>3
    <3>2. f \in T
        BY DEF Strongest
    <3>3. SameSignal(e, f)
        BY <2>1, <2>2, <2>3, <3>1, <3>2, SameSignalEquivalence
    <3>4. QED
        BY <1>1, <2>1, <2>2, <3>1, <3>2, <3>3
  <2>4. CASE ~SameSignal(x, g)
      BY <1>3, <2>1, <2>4
  <2>5. QED
      BY <2>3, <2>4
<1>5. \E f \in Strongest(T) : SameSignal(x, f) /\ Magnitude(f) >= Magnitude(x)
  <2>1. CASE \E e \in S : SameSignal(x, e)
    <3>1. PICK e \in S : SameSignal(x, e)
        BY <2>1
    <3>2. PICK g \in Strongest(S) : SameSignal(e, g)
        BY DEF Topped
    <3>3. SameSignal(x, g)
        BY <3>1, <3>2, SameSignalEquivalence DEF Strongest
    <3>4. QED
        BY <1>2, <3>3
  <2>2. CASE \A e \in S : ~SameSignal(x, e)
    <3>1. x \in Strongest(T)
        BY <1>1, <2>2 DEF Strongest
    <3>2. QED
        BY <1>1, <3>1, SameSignalEquivalence
  <2>3. QED
      BY <2>1, <2>2
<1>6. QED
    BY <1>4, <1>5 DEF Topped

LEMMA ReadableNothing == IsFiniteSet(Types({})) /\ Topped({})
BY FS_EmptySet DEF Types, Topped

LEMMA ReadablePush ==
    ASSUME NEW S \in SUBSET Entry, NEW x \in Entry, IsFiniteSet(Types(S)), Topped(S)
    PROVE  IsFiniteSet(Types(S \union {x})) /\ Topped(S \union {x})
<1>1. Types(S \union {x}) = Types(S) \union {x[2]}
    BY DEF Types
<1>2. IsFiniteSet(Types(S) \union {x[2]})
    BY FS_AddElement
<1>3. Topped(S \union {x})
    BY ToppedPush
<1>4. QED
    BY <1>1, <1>2, <1>3

(* What a reading of the whole list keeps: enough types of one's own are   *)
(* enough types in all, and each entry has its strongest.                  *)
LEMMA ReadKeeps ==
    ASSUME NEW S \in SUBSET Entry, IsFiniteSet(Types(S)), Topped(S),
           NEW T \in SUBSET S, Cardinality(Types(T)) >= MinTypes, NEW e \in T
    PROVE  \E f \in Read(S) : SameSignal(e, f) /\ Magnitude(f) >= Magnitude(e)
<1>1. Types(T) \subseteq Types(S)
    BY DEF Types
<1>2. /\ Cardinality(Types(T)) <= Cardinality(Types(S))
      /\ Cardinality(Types(T)) \in Nat /\ Cardinality(Types(S)) \in Nat
    BY <1>1, FS_Subset, FS_CardinalityType
<1>3. Read(S) = Strongest(S)
    BY <1>2, QueueAssumption DEF Read
<1>4. QED
    BY <1>3 DEF Topped

(* A list is emptied, or grows by one entry, or stays what it is. *)
LEMMA ListsMove ==
    ASSUME Typed, [Next]_vars
    PROVE  \A tf \in Timeframe :
              list'[tf] \in {{}, list[tf]} \union {list[tf] \union {e} : e \in Entry}
<1>1. ASSUME NEW e \in Entry, list' = Pushed(e), NEW tf \in Timeframe
      PROVE  list'[tf] \in {list[tf], list[tf] \union {e}}
    BY <1>1 DEF Pushed, Typed, ListsOK
<1>2. ASSUME NEW t \in Timeframe, Emptied(t), NEW tf \in Timeframe
      PROVE  list'[tf] \in {{}, list[tf]}
    BY <1>2 DEF Emptied, Typed, ListsOK
<1>3. ASSUME NEW r \in Run, Flush(r), NEW tf \in Timeframe
      PROVE  list'[tf] \in {{}, list[tf]}
    BY <1>2, <1>3 DEF Flush, redis, Typed, RunsOK
<1>4. ASSUME NEW e \in Entry, StoreRaises(e), NEW tf \in Timeframe
      PROVE  list'[tf] \in {list[tf], list[tf] \union {e}}
    BY <1>1, <1>4 DEF StoreRaises, redis
<1>5. CASE list' = list
    BY <1>5
<1>6. CASE \E r \in Run : Start(r) \/ Join(r) \/ Merge(r) \/ Crash(r)
    BY <1>5, <1>6 DEF Start, Join, Merge, Crash, redis
<1>7. CASE \E e \in Entry : Push(e) \/ SetTtl(e)
    BY <1>1, <1>5, <1>7 DEF Push, SetTtl
<1>8. CASE \E tf \in Timeframe : Expire(tf)
    BY <1>2, <1>8 DEF Expire
<1>9. CASE UNCHANGED vars
    BY <1>5, <1>9 DEF vars, redis
<1>10. QED
    BY <1>3, <1>4, <1>6, <1>7, <1>8, <1>9 DEF Next

LEMMA ReadableStep == Typed /\ Readable /\ [Next]_vars => Readable'
<1> SUFFICES ASSUME Typed, Readable, [Next]_vars, NEW tf \in Timeframe
             PROVE  IsFiniteSet(Types(list'[tf])) /\ Topped(list'[tf])
    BY DEF Readable, Topped
<1>1. /\ list[tf] \in SUBSET Entry
      /\ IsFiniteSet(Types(list[tf])) /\ Topped(list[tf])
    BY DEF Typed, ListsOK, Readable
<1>2. list'[tf] = {} \/ list'[tf] = list[tf] \/ \E e \in Entry : list'[tf] = list[tf] \union {e}
    BY ListsMove
<1>3. QED
    BY <1>1, <1>2, ReadableNothing, ReadablePush

(* No step gives a run back a list that was taken from it, nor brings a    *)
(* run to the collectors or the merge except by Flush and Join.            *)
LEMMA StartPushed == ASSUME Typed, PushedInv, NEW r \in Run, Start(r) PROVE PushedInv'
BY DEF Start, PushedInv, Reached, redis, collect, Typed, RunsOK

LEMMA EmptiedRobs ==
    ASSUME Typed, NEW t \in Timeframe, Emptied(t), NEW q \in Run \ robbed',
           pc[q] \in {"collect", "merge"}
    PROVE  q \notin robbed /\ list'[frame[q]] = list[frame[q]]
BY DEF Emptied, Users, Typed, ListsOK, RunsOK

LEMMA FlushPushed == ASSUME Typed, PushedInv, NEW r \in Run, Flush(r) PROVE PushedInv'
<1> SUFFICES ASSUME NEW q \in Run \ robbed', pc'[q] \in {"collect", "merge"},
                    NEW e \in Entry, e[1] = q, Reached(e, frame[q])'
             PROVE  e \in list'[frame'[q]]
    BY DEF PushedInv
<1>1. Collecting(r) /\ pc[r] = "flush" /\ frame[r] \in Timeframe
    BY DEF Flush, Typed, RunsOK
<1>2. CASE q = r
  <2>1. at'[e] = <<"push", "15m">> /\ e \notin stored'
      BY <1>1, <1>2 DEF Collecting, Typed, Phases
  <2>2. QED
      BY <2>1 DEF Reached
<1>3. CASE q # r
  <2>1. pc[q] \in {"collect", "merge"} /\ frame'[q] = frame[q]
      BY <1>1, <1>3 DEF Collecting, Typed, RunsOK
  <2>2. Reached(e, frame[q])
      BY <1>1, <1>3, <2>1 DEF Collecting, Reached
  <2>3. q \notin robbed /\ list'[frame[q]] = list[frame[q]]
      BY <1>1, <2>1, EmptiedRobs DEF Flush, redis
  <2>4. QED
      BY <2>1, <2>2, <2>3 DEF PushedInv
<1>4. QED
    BY <1>2, <1>3

LEMMA ExpirePushed == ASSUME Typed, PushedInv, NEW t \in Timeframe, Expire(t) PROVE PushedInv'
<1> SUFFICES ASSUME NEW q \in Run \ robbed', pc'[q] \in {"collect", "merge"},
                    NEW e \in Entry, e[1] = q, Reached(e, frame[q])'
             PROVE  e \in list'[frame'[q]]
    BY DEF PushedInv
<1>1. Emptied(t) /\ UNCHANGED <<pc, frame, at, stored>>
    BY DEF Expire, collect
<1>2. q \notin robbed /\ list'[frame[q]] = list[frame[q]]
    BY <1>1, EmptiedRobs
<1>3. QED
    BY <1>1, <1>2 DEF PushedInv, Reached

LEMMA JoinPushed == ASSUME Typed, PushedInv, NEW r \in Run, Join(r) PROVE PushedInv'
BY DEF Join, PushedInv, Reached, redis, collect, Typed, RunsOK

LEMMA MergePushed == ASSUME Typed, PushedInv, NEW r \in Run, Merge(r) PROVE PushedInv'
BY DEF Merge, PushedInv, Reached, redis, collect, Typed, RunsOK

LEMMA CrashPushed == ASSUME Typed, PushedInv, NEW r \in Run, Crash(r) PROVE PushedInv'
<1> SUFFICES ASSUME NEW q \in Run \ robbed, pc'[q] \in {"collect", "merge"},
                    NEW e \in Entry, e[1] = q, Reached(e, frame[q])'
             PROVE  e \in list[frame[q]]
    BY DEF PushedInv, Crash, redis
<1>1. q # r /\ pc[q] = pc'[q]
    BY DEF Crash, Typed, RunsOK
<1>2. at'[e] = at[e] /\ stored' = stored /\ frame' = frame
    BY <1>1 DEF Crash
<1>3. QED
    BY <1>1, <1>2 DEF PushedInv, Reached

(* What the own call of a collector does: every other entry has reached    *)
(* what it had, and no list loses an entry.                                *)
LEMMA OwnCallPushed ==
    ASSUME Typed, PushedInv, UNCHANGED <<pc, frame, robbed>>, NEW e \in Entry,
           \A tf \in Timeframe : list[tf] \subseteq list'[tf],
           \A f \in Entry, tf \in Timeframe : f # e /\ Reached(f, tf)' => Reached(f, tf),
           \A tf \in Timeframe : Reached(e, tf)' => Reached(e, tf) \/ e \in list'[tf]
    PROVE  PushedInv'
<1> SUFFICES ASSUME NEW q \in Run \ robbed, pc[q] \in {"collect", "merge"},
                    NEW f \in Entry, f[1] = q, Reached(f, frame[q])'
             PROVE  f \in list'[frame[q]]
    BY DEF PushedInv
<1>1. frame[q] \in Timeframe
    BY DEF Typed, RunsOK
<1>2. CASE Reached(f, frame[q])
    BY <1>1, <1>2 DEF PushedInv
<1>3. CASE ~Reached(f, frame[q])
    BY <1>1, <1>3
<1>4. QED
    BY <1>2, <1>3

LEMMA PushPushed == ASSUME Typed, PushedInv, NEW e \in Entry, Push(e) PROVE PushedInv'
<1>1. /\ at[e][2] \in Timeframe /\ at[e] = <<"push", at[e][2]>>
      /\ at' = [at EXCEPT ![e] = <<"expire", at[e][2]>>]
    BY PushMoves, TypeParts DEF Typed
<1>2. UNCHANGED <<pc, frame, robbed, stored>>
    BY DEF Push
<1>3. \A tf \in Timeframe : list[tf] \subseteq list'[tf]
    BY DEF Push, Pushed, Typed, ListsOK
<1>4. e \in list'[at[e][2]]
    BY <1>1 DEF Push, Pushed, Typed, ListsOK
<1>5. \A f \in Entry, tf \in Timeframe : f # e /\ Reached(f, tf)' => Reached(f, tf)
    BY <1>1, <1>2 DEF Reached, Typed, CollectOK
<1>6. ASSUME NEW tf \in Timeframe, Reached(e, tf)'
      PROVE  Reached(e, tf) \/ e \in list'[tf]
  <2>1. at'[e] = <<"expire", at[e][2]>>
      BY <1>1 DEF Typed, CollectOK
  <2>2. CASE tf = at[e][2]
      BY <1>4, <2>2
  <2>3. CASE tf # at[e][2]
      BY <1>1, <1>2, <1>6, <2>1, <2>3 DEF Reached
  <2>4. QED
      BY <2>2, <2>3
<1>7. QED
    BY <1>2, <1>3, <1>5, <1>6, OwnCallPushed

LEMMA SetTtlPushed == ASSUME Typed, PushedInv, NEW e \in Entry, SetTtl(e) PROVE PushedInv'
<1>1. at[e] = <<"expire", at[e][2]>> /\ at[e][2] \in Timeframe /\ Advance(e)
    BY DEF SetTtl
<1>2. UNCHANGED <<list, pc, frame, robbed>>
    BY DEF SetTtl
<1>3. \A f \in Entry, tf \in Timeframe : f # e /\ Reached(f, tf)' => Reached(f, tf)
    BY <1>1 DEF Advance, Reached, Typed, CollectOK
<1>4. ASSUME NEW tf \in Timeframe, Reached(e, tf)' PROVE Reached(e, tf)
  <2>1. CASE at[e][2] = "15m"
    <3>1. at'[e] = <<"push", "1h">> /\ stored' = stored
        BY <1>1, <2>1 DEF Advance, Typed, CollectOK
    <3>2. QED
        BY <1>1, <1>4, <2>1, <3>1 DEF Reached
  <2>2. CASE at[e][2] = "1h"
      BY <1>1, <2>2 DEF Reached, Timeframe
  <2>3. QED
      BY <1>1, <2>1, <2>2 DEF Timeframe
<1>5. QED
    BY <1>2, <1>3, <1>4, OwnCallPushed

LEMMA StoreRaisesPushed ==
    ASSUME Typed, PushedInv, NEW e \in Entry, StoreRaises(e) PROVE PushedInv'
<1>1. UNCHANGED <<pc, frame, robbed, stored>> /\ at[e] \in Storing
    BY DEF StoreRaises
<1>2. \A tf \in Timeframe : list[tf] \subseteq list'[tf]
    BY DEF StoreRaises, redis, Pushed, Typed, ListsOK
<1>3. at'[e] \in {<<"push", "15m">>, Over} /\ \A f \in Entry : f # e => at'[f] = at[f]
    BY DEF StoreRaises, Typed, CollectOK
<1>4. \A f \in Entry, tf \in Timeframe : f # e /\ Reached(f, tf)' => Reached(f, tf)
    BY <1>1, <1>3 DEF Reached
<1>5. \A tf \in Timeframe : ~Reached(e, tf)'
    BY <1>1, <1>3, StoringMeansCollecting DEF Reached, Over
<1>6. QED
    BY <1>1, <1>2, <1>4, <1>5, OwnCallPushed

LEMMA PushedStep == Typed /\ PushedInv /\ [Next]_vars => PushedInv'
<1> SUFFICES ASSUME Typed, PushedInv, [Next]_vars PROVE PushedInv'
    OBVIOUS
<1>1. CASE UNCHANGED vars
    BY <1>1 DEF vars, redis, collect, PushedInv, Reached
<1>2. QED
    BY <1>1, StartPushed, FlushPushed, JoinPushed, MergePushed, CrashPushed, PushPushed,
       SetTtlPushed, StoreRaisesPushed, ExpirePushed DEF Next

(* What OwnSignalsMerged says of one run. *)
OwnMerged(r) ==
    \A e \in OwnSignals(r) : \E f \in merged[r] :
        SameSignal(e, f) /\ Magnitude(f) >= Magnitude(e) /\ HeardAsIs(r, f)

(* The merge of a run that was not robbed reads a list with all its own.   *)
LEMMA MergeOwn ==
    ASSUME Typed, PushedInv, Readable, NEW r \in Run, Merge(r), r \notin robbed',
           Cardinality(Types(OwnSignals(r))) >= MinTypes
    PROVE  OwnMerged(r)'
<1> DEFINE S == Read(list[frame[r]])
<1>1. pc[r] = "merge" /\ r \notin robbed /\ frame[r] \in Timeframe
    BY DEF Merge, Typed, RunsOK
<1>2. HandOn(r, S)
    BY <1>1 DEF Merge
<1>3. OwnSignals(r) \in SUBSET list[frame[r]] /\ OwnSignals(r)' = OwnSignals(r)
    BY <1>1 DEF OwnSignals, PushedInv, Reached, Typed, CollectOK, Merge, collect
<1>4. /\ list[frame[r]] \in SUBSET Entry
      /\ IsFiniteSet(Types(list[frame[r]])) /\ Topped(list[frame[r]])
    BY <1>1 DEF Typed, ListsOK, Readable
<1>5. \A e \in OwnSignals(r) : \E f \in S : SameSignal(e, f) /\ Magnitude(f) >= Magnitude(e)
    BY <1>3, <1>4, ReadKeeps
<1> HIDE DEF S
<1>6. PICK m \in GuardMutes(S) : merged'[r] = S /\ muted'[r] = m
    BY <1>2 DEF HandOn, Typed, RunsOK
<1>7. \A f : HeardAsIs(r, f)'
    BY <1>6, GuardMutesStale DEF HeardAsIs
<1>8. QED
    BY <1>3, <1>5, <1>6, <1>7 DEF OwnMerged, SameSignal, Magnitude

(* A run that is done stores nothing more and merges nothing more. *)
LEMMA DoneStays ==
    ASSUME Typed, [Next]_vars, NEW r \in Run, pc'[r] = "done", pc[r] = "done", r \notin robbed'
    PROVE  /\ merged'[r] = merged[r] /\ muted'[r] = muted[r]
           /\ OwnSignals(r)' = OwnSignals(r) /\ r \notin robbed
<1>1. robbed \subseteq robbed'
    BY DEF Next, Start, Flush, Join, Merge, Crash, Push, SetTtl, StoreRaises, Expire, Emptied,
           vars, redis
<1>2. ASSUME NEW q \in Run, Merge(q) PROVE q # r
    BY <1>2 DEF Merge
<1>3. ASSUME NEW q \in Run, Merge(q) PROVE merged'[r] = merged[r] /\ muted'[r] = muted[r]
    BY <1>2, <1>3 DEF Merge, HandOn, Typed, RunsOK
<1>4. merged'[r] = merged[r] /\ muted'[r] = muted[r]
    BY <1>3 DEF Next, Start, Flush, Join, Crash, Push, SetTtl, StoreRaises, Expire, Collecting, vars
<1>5. stored' = stored \/ \E e \in Entry : SetTtl(e) /\ stored' = stored \union {e}
    BY DEF Next, Start, Flush, Join, Merge, Crash, Push, SetTtl, Advance, StoreRaises, Expire,
           Collecting, collect, vars
<1>6. ASSUME NEW e \in Entry, SetTtl(e) PROVE e[1] # r
    BY <1>6, StoringMeansCollecting DEF SetTtl, Storing
<1>7. QED
    BY <1>1, <1>4, <1>5, <1>6 DEF OwnSignals

LEMMA OwnStep ==
    Typed /\ PushedInv /\ Readable /\ OwnSignalsMerged /\ [Next]_vars => OwnSignalsMerged'
<1> SUFFICES ASSUME Typed, PushedInv, Readable, OwnSignalsMerged, [Next]_vars,
                    NEW r \in Run \ robbed', pc'[r] = "done",
                    Cardinality(Types(OwnSignals(r)')) >= MinTypes
             PROVE  OwnMerged(r)'
    BY DEF OwnSignalsMerged, OwnMerged, Types
<1>1. CASE pc[r] = "done"
  <2>1. /\ merged'[r] = merged[r] /\ muted'[r] = muted[r]
        /\ OwnSignals(r)' = OwnSignals(r) /\ r \notin robbed
      BY <1>1, DoneStays
  <2>2. OwnMerged(r)
      BY <1>1, <2>1 DEF OwnSignalsMerged, OwnMerged
  <2>3. \A f : HeardAsIs(r, f)' <=> HeardAsIs(r, f)
      BY <2>1 DEF HeardAsIs
  <2>4. QED
      BY <2>1, <2>2, <2>3 DEF OwnMerged, SameSignal, Magnitude
<1>2. CASE pc[r] # "done"
  <2>1. Merge(r)
      BY <1>2 DEF Next, Start, Flush, Join, Merge, Crash, Push, SetTtl, StoreRaises, Expire,
                  Collecting, vars, Typed, RunsOK
  <2>2. OwnSignals(r)' = OwnSignals(r)
      BY <2>1 DEF Merge, collect, OwnSignals
  <2>3. QED
      BY <2>1, <2>2, MergeOwn
<1>3. QED
    BY <1>1, <1>2

LEMMA OwnInit == Init => PushedInv /\ Readable /\ OwnSignalsMerged
<1> SUFFICES ASSUME Init PROVE PushedInv /\ Readable /\ OwnSignalsMerged
    OBVIOUS
<1>1. PushedInv /\ OwnSignalsMerged
    BY DEF Init, PushedInv, OwnSignalsMerged
<1>2. Readable
    BY ReadableNothing DEF Init, Readable
<1>3. QED
    BY <1>1, <1>2

(* A run that was left its list hands on, for every collector whose store  *)
(* step returned, its signal or a stronger one of the same kind, with its  *)
(* own score unless it is a forecast from a stale price.                   *)
THEOREM OwnSignalsAreMerged == Spec => []OwnSignalsMerged
<1> DEFINE Inv == Typed /\ PushedInv /\ Readable /\ OwnSignalsMerged
<1>1. Init => Inv
    BY TypedInit, OwnInit
<1>2. Inv /\ [Next]_vars => Inv'
    BY TypedStep, PushedStep, ReadableStep, OwnStep
<1>3. QED
    BY <1>1, <1>2, PTL DEF Spec
=============================================================================
