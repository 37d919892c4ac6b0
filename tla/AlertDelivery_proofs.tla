------------------------ MODULE AlertDelivery_proofs ------------------------
(***************************************************************************)
(* Proofs about AlertDelivery, for every set of runs and alerts, every     *)
(* number of retries and both settings of the execution bridge.            *)
(***************************************************************************)
EXTENDS AlertDelivery, FiniteSetTheorems, TLAPS

Delivering == {"execute", "post", "mark", "send"}

(* A run holds a row id exactly while it delivers the alert of that row.  *)
Pointers == \A r \in Run : cur[r] # 0 <=> pc[r] \in Delivering

TypeInv == TypeOK /\ Pointers

(* The type invariant by store, so that a step is checked against the     *)
(* part it writes.                                                        *)
RedisType ==
    /\ held \subseteq Key
    /\ epoch \in [Key -> Nat]
    /\ won \subseteq Alert \X Nat
    /\ suppressed \subseteq Alert

StoreType ==
    /\ rows \in Seq(Alert)
    /\ marked \subseteq RowIds
    /\ audit \subseteq RowIds \X Status
    /\ orders \subseteq Nat
    /\ announced \subseteq Alert

ListType ==
    /\ inbox \in [Run -> SUBSET Alert]
    /\ queue \in [Run -> SUBSET Alert]

PlaceType ==
    /\ pc \in [Run -> Active \union {"done", "dead"}]
    /\ cur \in [Run -> 0 .. Len(rows)]

CountType ==
    /\ attempt \in [Run -> 1 .. MaxAttempts]
    /\ dfail \in [Run -> 0 .. CbThreshold]

Typed == RedisType /\ StoreType /\ ListType /\ PlaceType /\ CountType /\ Pointers

LEMMA TypeParts == TypeInv <=> Typed
BY DEF Typed, TypeInv, TypeOK, RedisType, StoreType, ListType, PlaceType, CountType

-----------------------------------------------------------------------------
(* Lemmas on the alerts table *)

(* Appending a row keeps the ids and contents of the others and records   *)
(* exactly one more alert.                                                *)
LEMMA RowAppended ==
    ASSUME rows \in Seq(Alert), NEW a \in Alert, rows' = Append(rows, a)
    PROVE  /\ rows' \in Seq(Alert)
           /\ Len(rows') = Len(rows) + 1
           /\ RowIds' = RowIds \union {Len(rows) + 1}
           /\ \A i \in RowIds : rows'[i] = rows[i]
           /\ rows'[Len(rows) + 1] = a
           /\ Recorded' = Recorded \union {a}
<1>1. /\ rows' \in Seq(Alert)
      /\ Len(rows') = Len(rows) + 1
      /\ Len(rows) \in Nat
      /\ \A i \in 1 .. Len(rows) : rows'[i] = rows[i]
      /\ rows'[Len(rows) + 1] = a
    OBVIOUS
<1>2. RowIds' = RowIds \union {Len(rows) + 1}
    BY <1>1 DEF RowIds
<1>3. Recorded' = Recorded \union {a}
    BY <1>1, <1>2 DEF Recorded, RowIds
<1>4. QED
    BY <1>1, <1>2, <1>3 DEF RowIds

(* A row id of a delivering run is the id of a row. *)
LEMMA RowOfCur ==
    ASSUME TypeInv, NEW r \in Run, pc[r] \in Delivering
    PROVE  cur[r] \in RowIds /\ rows[cur[r]] \in Alert
BY DEF TypeInv, TypeOK, Pointers, RowIds

-----------------------------------------------------------------------------
(* Type correctness *)

LEMMA TypeInit == Init => TypeInv
<1> SUFFICES ASSUME Init PROVE TypeInv
    OBVIOUS
<1>1. MaxAttempts \in Nat \ {0}
    BY DeliveryAssumption DEF MaxAttempts
<1>2. TypeOK
    BY <1>1, DeliveryAssumption DEF Init, TypeOK, Active, RowIds
<1>3. Pointers
    BY DEF Init, Pointers, Delivering
<1>4. QED
    BY <1>2, <1>3 DEF TypeInv

LEMMA TypeStep == TypeInv /\ [Next]_vars => TypeInv'
<1> SUFFICES ASSUME Typed, [Next]_vars PROVE Typed'
    BY TypeParts, PTL
<1>0. TypeInv
    BY TypeParts
<1>a. MaxAttempts \in Nat /\ MaxPosts <= MaxAttempts /\ MaxSends <= MaxAttempts
    BY DeliveryAssumption DEF MaxAttempts
<1>b. MaxAttempts' = MaxAttempts
    BY DEF MaxAttempts
<1>c. 1 \in 1 .. MaxAttempts /\ 0 \in 0 .. CbThreshold
    BY <1>a, DeliveryAssumption DEF MaxAttempts
<1>d. Len(rows) \in Nat /\ 0 \in 0 .. Len(rows)
    BY DEF Typed, StoreType
<1> USE DeliveryAssumption DEF Typed, Status, Active, Delivering
<1>1. ASSUME NEW r \in Run, Claim(r) PROVE Typed'
  <2> PICK a \in inbox[r] :
        /\ inbox' = [inbox EXCEPT ![r] = @ \ {a}]
        /\ ClaimWon(r, a) \/ ClaimDuplicate(r, a) \/ ClaimReplyLost(r, a) \/ ClaimFailOpen(r, a)
      BY <1>1 DEF Claim
  <2>1. a \in Alert /\ KeyOf[a] \in Key
      BY DEF ListType
  <2>2. RedisType'
      BY <1>1, <2>1 DEF Claim, ClaimWon, ClaimDuplicate, ClaimReplyLost, ClaimFailOpen, RedisType
  <2>3. ListType'
      BY <2>1 DEF ClaimWon, ClaimDuplicate, ClaimReplyLost, ClaimFailOpen, ListType
  <2>4. QED
      BY <1>1, <1>b, <2>2, <2>3
         DEF Claim, postgres, StoreType, PlaceType, CountType, Pointers, RowIds
<1>2. ASSUME NEW r \in Run, Cap(r) PROVE Typed'
  <2> USE <1>2 DEF Cap, redis, postgres
  <2>1. \A S \in SUBSET Alert, n \in Nat : \A T \in Top(S, n) : T \subseteq Alert
      BY DEF Top
  <2>2. ListType'
      BY <2>1 DEF ListType, Watch
  <2>3. PlaceType' /\ Pointers'
      BY DEF PlaceType, Pointers
  <2>4. QED
      BY <1>b, <2>2, <2>3 DEF RedisType, StoreType, CountType, RowIds
<1>3. ASSUME NEW r \in Run, Persist(r) PROVE Typed'
  <2> PICK a \in queue[r] : Insert(r, a) \/ InsertFails(r, a)
      BY <1>3 DEF Persist
  <2>1. a \in Alert
      BY DEF ListType
  <2>2. \/ rows' = rows /\ RowIds' = RowIds
        \/ /\ rows' = Append(rows, a)
           /\ rows' \in Seq(Alert)
           /\ RowIds' = RowIds \union {Len(rows) + 1}
           /\ Len(rows') = Len(rows) + 1
      BY <2>1, RowAppended DEF Insert, InsertFails, StoreType, RowIds
  <2>3. RedisType' /\ StoreType'
      BY <1>3, <2>2 DEF Persist, redis, RedisType, StoreType
  <2>4. ListType'
      BY <1>3 DEF Persist, Insert, InsertFails, Finish, ListType
  <2>5. CountType'
      BY <1>3, <1>b, <1>c DEF Persist, Insert, InsertFails, Finish, CountType
  <2>6. /\ Insert(r, a) => PlaceType' /\ Pointers'
        /\ InsertFails(r, a) => PlaceType' /\ Pointers'
    <3>1. ASSUME Insert(r, a) PROVE PlaceType' /\ Pointers'
      <4>1. Len(rows') = Len(rows) + 1
          BY <3>1, <2>1, RowAppended DEF Insert, StoreType
      <4>2. cur' \in [Run -> 0 .. Len(rows')] /\ cur'[r] # 0
          BY <3>1, <1>d, <4>1 DEF Insert, PlaceType
      <4>3. pc' \in [Run -> Active \union {"done", "dead"}] /\ pc'[r] \in Delivering
          BY <3>1 DEF Insert, PlaceType
      <4>4. \A q \in Run \ {r} : cur'[q] = cur[q] /\ pc'[q] = pc[q]
          BY <3>1 DEF Insert, PlaceType
      <4>5. QED
          BY <4>2, <4>3, <4>4 DEF PlaceType, Pointers
    <3>2. ASSUME InsertFails(r, a) PROVE PlaceType' /\ Pointers'
      <4>1. Len(rows') \in Nat /\ Len(rows) <= Len(rows')
          BY <1>d, <2>2 DEF StoreType
      <4>2. cur' \in [Run -> 0 .. Len(rows')] /\ cur'[r] = 0
          BY <3>2, <1>d, <4>1 DEF InsertFails, Finish, PlaceType
      <4>3. pc' \in [Run -> Active \union {"done", "dead"}] /\ pc'[r] \notin Delivering
          BY <3>2 DEF InsertFails, Finish, PlaceType
      <4>4. \A q \in Run \ {r} : cur'[q] = cur[q] /\ pc'[q] = pc[q]
          BY <3>2 DEF InsertFails, Finish, PlaceType
      <4>5. QED
          BY <4>2, <4>3, <4>4 DEF PlaceType, Pointers
    <3>3. QED
        BY <3>1, <3>2
  <2>7. QED
      BY <2>3, <2>4, <2>5, <2>6
<1>4. ASSUME NEW r \in Run, Dispatch(r) PROVE Typed'
  <2> USE <1>4 DEF Dispatch, redis, postgres
  <2>1. PlaceType' /\ Pointers'
      BY DEF PlaceType, Pointers
  <2>2. QED
      BY <1>b, <2>1 DEF RedisType, StoreType, ListType, CountType, RowIds
<1>5. ASSUME NEW r \in Run, Post(r) PROVE Typed'
  <2> USE <1>5 DEF Post, PostAccepted, PostRetried, PostFailed
  <2>1. cur[r] \in RowIds /\ cur[r] \in Nat
      BY <1>0, RowOfCur DEF RowIds
  <2>2. audit' \subseteq RowIds \X Status
      BY <2>1 DEF Audited, StoreType
  <2>3. orders' \subseteq Nat
      BY <2>1 DEF StoreType
  <2>4. PlaceType' /\ Pointers'
      BY DEF PlaceType, Pointers
  <2>5. CountType'
      BY <1>a, <1>b, <1>c DEF CountType
  <2>6. QED
      BY <2>2, <2>3, <2>4, <2>5 DEF redis, RedisType, StoreType, ListType, RowIds
<1>6. ASSUME NEW r \in Run, Mark(r) PROVE Typed'
  <2> USE <1>6 DEF Mark, redis
  <2>1. cur[r] \in RowIds
      BY <1>0, RowOfCur
  <2>2. StoreType'
      BY <2>1 DEF StoreType, RowIds
  <2>3. PlaceType' /\ Pointers'
      BY DEF PlaceType, Pointers
  <2>4. QED
      BY <1>b, <2>2, <2>3 DEF RedisType, ListType, CountType
<1>7. ASSUME NEW r \in Run, Send(r) PROVE Typed'
  <2> USE <1>7 DEF Send, SendSkipped, SendAnswered, SendRetried, SendFailed
  <2>1. rows[cur[r]] \in Alert
      BY <1>0, RowOfCur
  <2>2. StoreType'
      BY <2>1 DEF postgres, StoreType, RowIds
  <2>3. ListType'
      BY DEF Finish, ListType
  <2>4. PlaceType' /\ Pointers'
    <3>1. SendRetried(r) => PlaceType' /\ Pointers'
        BY DEF postgres, PlaceType, Pointers
    <3>2. Finish(r, rows[cur[r]]) => PlaceType' /\ Pointers'
        BY <1>d DEF Finish, postgres, PlaceType, Pointers
    <3>3. QED
        BY <3>1, <3>2
  <2>5. attempt' \in [Run -> 1 .. MaxAttempts]
      BY <1>a, <1>c DEF Finish, CountType
  <2>6. dfail' \in [Run -> 0 .. CbThreshold]
      BY DEF CountType
  <2>7. QED
      BY <1>b, <2>2, <2>3, <2>4, <2>5, <2>6 DEF redis, RedisType, CountType
<1>8. ASSUME NEW r \in Run, Return(r) \/ Crash(r) PROVE Typed'
  <2>1. /\ UNCHANGED <<redis, postgres, orders, announced>>
        /\ \E how \in {"done", "dead"} : Exit(r, how)
      BY <1>8 DEF Return, Crash
  <2> PICK how \in {"done", "dead"} : Exit(r, how)
      BY <2>1
  <2>2. RedisType' /\ StoreType'
      BY <2>1 DEF redis, postgres, RedisType, StoreType, RowIds
  <2>3. ListType' /\ CountType'
      BY <1>b, <1>c DEF Exit, ListType, CountType
  <2>4. PlaceType' /\ Pointers'
      BY <1>d, <2>1 DEF Exit, postgres, PlaceType, Pointers
  <2>5. QED
      BY <2>2, <2>3, <2>4
<1>9. ASSUME NEW k \in Key, Expire(k) PROVE Typed'
  <2> USE <1>9 DEF Expire, postgres, local
  <2>1. RedisType'
      BY DEF RedisType
  <2>2. QED
      BY <1>b, <2>1 DEF StoreType, ListType, PlaceType, CountType, Pointers, RowIds
<1>10. CASE UNCHANGED vars
    BY <1>10, <1>b DEF vars, redis, postgres, local, RedisType, StoreType, ListType,
                       PlaceType, CountType, Pointers, RowIds
<1>11. QED
    BY <1>1, <1>2, <1>3, <1>4, <1>5, <1>6, <1>7, <1>8, <1>9, <1>10 DEF Next, Step

(* Every variable keeps its type; a run has a row id exactly while it     *)
(* delivers the alert of that row.                                        *)
THEOREM TypeCorrect == Spec => [](TypeOK /\ Pointers)
<1>1. QED
    BY TypeInit, TypeStep, PTL DEF Spec, TypeInv

-----------------------------------------------------------------------------
(* Safety of the stores.  PersistFirst, OneOrderPerAlert and              *)
(* WatchNeverOrdered speak of the rows alone; what makes them inductive   *)
(* is where an alert can be while its run has not recorded it yet.        *)

(* An alert is in the hands of its own run only, and it is recorded only  *)
(* after it has left the inbox.                                           *)
Ownership ==
    \A r \in Run :
        /\ \A a \in inbox[r] \union queue[r] : RunOf[a] = r
        /\ \A a \in inbox[r] : a \notin queue[r] /\ a \notin Recorded

(* Of the alerts a run has admitted, only the one it is delivering has a  *)
(* row; in the execution branch that alert is LONG or SHORT.              *)
InHand ==
    \A r \in Run :
        /\ \A a \in queue[r] : a \in Recorded => cur[r] # 0 /\ a = rows[cur[r]]
        /\ pc[r] \in {"execute", "post", "mark"} => rows[cur[r]] \in Directional

OneRowPerAlert == \A i, j \in RowIds : rows[i] = rows[j] => i = j

SafeInv ==
    /\ Ownership
    /\ InHand
    /\ OneRowPerAlert
    /\ PersistFirst
    /\ WatchNeverOrdered

LEMMA SafeInit == Init => SafeInv
<1> SUFFICES ASSUME Init PROVE SafeInv
    OBVIOUS
<1>1. RowIds = {} /\ Recorded = {}
    BY DEF Init, RowIds, Recorded
<1>2. QED
    BY <1>1, DeliveryAssumption
       DEF Init, SafeInv, Ownership, InHand, OneRowPerAlert, PersistFirst, WatchNeverOrdered

(* A step that leaves the alerts table alone leaves alone what is read    *)
(* from it.                                                               *)
LEMMA RowsKept ==
    ASSUME UNCHANGED rows
    PROVE  /\ RowIds' = RowIds
           /\ Recorded' = Recorded
           /\ OneRowPerAlert => OneRowPerAlert'
BY DEF RowIds, Recorded, OneRowPerAlert

LEMMA SafeStep == TypeInv /\ SafeInv /\ [Next]_vars => SafeInv'
<1> SUFFICES ASSUME TypeInv, Ownership, InHand, OneRowPerAlert, PersistFirst,
                    WatchNeverOrdered, [Next]_vars
             PROVE  SafeInv'
    BY DEF SafeInv
<1>t. Typed
    BY TypeParts
<1>1. ASSUME NEW r \in Run, Claim(r) PROVE SafeInv'
  <2> PICK a \in inbox[r] :
        /\ inbox' = [inbox EXCEPT ![r] = @ \ {a}]
        /\ ClaimWon(r, a) \/ ClaimDuplicate(r, a) \/ ClaimReplyLost(r, a) \/ ClaimFailOpen(r, a)
      BY <1>1 DEF Claim
  <2>1. UNCHANGED <<rows, orders, announced, pc, cur>>
      BY <1>1 DEF Claim, postgres
  <2>2. /\ queue' \in {queue, [queue EXCEPT ![r] = @ \union {a}]}
        /\ a \notin Recorded /\ RunOf[a] = r
      BY DEF ClaimWon, ClaimDuplicate, ClaimReplyLost, ClaimFailOpen, Ownership
  <2>3. Ownership'
      BY <1>t, <2>1, <2>2, RowsKept DEF Ownership, Typed, ListType
  <2>4. InHand'
      BY <1>t, <2>1, <2>2, RowsKept DEF InHand, Typed, ListType
  <2>5. QED
      BY <2>1, <2>3, <2>4, RowsKept DEF SafeInv, PersistFirst, WatchNeverOrdered
<1>2. ASSUME NEW r \in Run, Cap(r) PROVE SafeInv'
  <2>1. UNCHANGED <<rows, orders, announced, cur, inbox>>
      BY <1>2 DEF Cap, postgres
  <2>2. \A S \in SUBSET Alert, n \in Nat : \A T \in Top(S, n) : T \subseteq S
      BY DEF Top
  <2> PICK D \in Top(queue[r] \intersect Directional, MaxDirectional),
           W \in Top(queue[r] \intersect Watch, 1) :
              queue' = [queue EXCEPT ![r] = D \union W]
      BY <1>2 DEF Cap
  <2>a. queue[r] \intersect Directional \in SUBSET Alert /\ queue[r] \intersect Watch \in SUBSET Alert
      BY <1>t DEF Typed, ListType, Watch
  <2>b. D \subseteq queue[r] /\ W \subseteq queue[r]
      BY <2>2, <2>a, DeliveryAssumption
  <2>3. \A q \in Run : queue'[q] \subseteq queue[q]
      BY <1>t, <2>b DEF Typed, ListType
  <2>4. Ownership'
      BY <2>1, <2>3, RowsKept DEF Ownership
  <2>5. InHand'
      BY <1>2, <1>t, <2>1, <2>3, RowsKept DEF Cap, InHand, Typed, PlaceType
  <2>6. QED
      BY <2>1, <2>4, <2>5, RowsKept DEF SafeInv, PersistFirst, WatchNeverOrdered
<1>3. ASSUME NEW r \in Run, Persist(r) PROVE SafeInv'
  <2> PICK a \in queue[r] : Insert(r, a) \/ InsertFails(r, a)
      BY <1>3 DEF Persist
  <2>1. UNCHANGED <<orders, announced, inbox>>
      BY <1>3 DEF Persist
  <2>2. a \in Alert /\ RunOf[a] = r /\ cur[r] = 0 /\ a \notin Recorded
      BY <1>3, <1>t DEF Persist, Ownership, InHand, Typed, ListType, PlaceType, Pointers, Delivering
  <2>3. CASE rows' = rows
    <3>1. InsertFails(r, a)
        BY <1>t, <2>2, <2>3, RowAppended DEF Insert, Typed, StoreType
    <3>2. Ownership'
        BY <1>t, <2>1, <2>3, <3>1, RowsKept DEF InsertFails, Finish, Ownership, Typed, ListType
    <3>3. InHand'
        BY <1>t, <2>2, <2>3, <3>1, RowsKept
           DEF InsertFails, Finish, InHand, Typed, ListType, PlaceType
    <3>4. QED
        BY <2>1, <2>3, <3>2, <3>3, RowsKept DEF SafeInv, PersistFirst, WatchNeverOrdered
  <2>4. CASE rows' = Append(rows, a)
    <3>1. /\ RowIds' = RowIds \union {Len(rows) + 1}
          /\ \A i \in RowIds : rows'[i] = rows[i] /\ rows[i] \in Recorded
          /\ rows'[Len(rows) + 1] = a
          /\ Recorded' = Recorded \union {a}
        BY <1>t, <2>2, <2>4, RowAppended DEF Typed, StoreType, Recorded
    <3>2. OneRowPerAlert'
        BY <2>2, <3>1 DEF OneRowPerAlert
    <3>3. PersistFirst' /\ WatchNeverOrdered'
        BY <2>1, <3>1 DEF PersistFirst, WatchNeverOrdered
    <3>4. Ownership'
        BY <1>t, <2>1, <2>2, <3>1 DEF Insert, InsertFails, Finish, Ownership, Typed, ListType
    <3>5. \A q \in Run \ {r} : queue'[q] = queue[q] /\ cur'[q] = cur[q] /\ pc'[q] = pc[q]
        BY <1>t DEF Insert, InsertFails, Finish, Typed, ListType, PlaceType
    <3>6. \A q \in Run : cur[q] # 0 => cur[q] \in RowIds
        BY <1>t DEF Typed, StoreType, PlaceType, RowIds
    <3>7. ASSUME NEW q \in Run \ {r}
          PROVE  /\ \A b \in queue'[q] : b \in Recorded' => cur'[q] # 0 /\ b = rows'[cur'[q]]
                 /\ pc'[q] \in {"execute", "post", "mark"} => rows'[cur'[q]] \in Directional
        BY <1>t, <2>2, <3>1, <3>5, <3>6
           DEF InHand, Ownership, Typed, Pointers, Delivering
    <3>8. /\ \A b \in queue'[r] : b \in Recorded' => cur'[r] # 0 /\ b = rows'[cur'[r]]
          /\ pc'[r] \in {"execute", "post", "mark"} => rows'[cur'[r]] \in Directional
      <4>1. CASE Insert(r, a)
          BY <4>1, <1>t, <2>2, <3>1 DEF Insert, InHand, Typed, StoreType, ListType, PlaceType
      <4>2. CASE InsertFails(r, a)
          BY <4>2, <1>t, <2>2, <3>1 DEF InsertFails, Finish, InHand, Typed, ListType, PlaceType
      <4>3. QED
          BY <4>1, <4>2
    <3>9. InHand'
        BY <3>7, <3>8 DEF InHand
    <3>10. QED
        BY <3>2, <3>3, <3>4, <3>9 DEF SafeInv
  <2>5. QED
      BY <2>3, <2>4 DEF Insert, InsertFails
<1>4. ASSUME NEW r \in Run, Dispatch(r) PROVE SafeInv'
  <2>1. UNCHANGED <<rows, orders, announced, inbox, queue, cur>>
      BY <1>4 DEF Dispatch, postgres
  <2>2. InHand'
      BY <1>4, <1>t, <2>1, RowsKept DEF Dispatch, InHand, Typed, PlaceType
  <2>3. QED
      BY <2>1, <2>2, RowsKept DEF SafeInv, Ownership, PersistFirst, WatchNeverOrdered
<1>5. ASSUME NEW r \in Run, Post(r) PROVE SafeInv'
  <2>1. UNCHANGED <<rows, announced, inbox, queue, cur>>
      BY <1>5 DEF Post
  <2>2. orders' \subseteq orders \union {cur[r]}
      BY <1>5 DEF Post, PostAccepted, PostRetried, PostFailed
  <2>3. cur[r] \in RowIds /\ rows[cur[r]] \in Directional
      BY <1>5, RowOfCur DEF Post, InHand, Delivering
  <2>4. InHand'
      BY <1>5, <1>t, <2>1, RowsKept
         DEF Post, PostAccepted, PostRetried, PostFailed, InHand, Typed, PlaceType
  <2>5. PersistFirst' /\ WatchNeverOrdered'
      BY <2>1, <2>2, <2>3, RowsKept DEF PersistFirst, WatchNeverOrdered
  <2>6. QED
      BY <2>1, <2>4, <2>5, RowsKept DEF SafeInv, Ownership
<1>6. ASSUME NEW r \in Run, Mark(r) PROVE SafeInv'
  <2>1. UNCHANGED <<rows, orders, announced, inbox, queue, cur>>
      BY <1>6 DEF Mark
  <2>2. InHand'
      BY <1>6, <1>t, <2>1, RowsKept DEF Mark, InHand, Typed, PlaceType
  <2>3. QED
      BY <2>1, <2>2, RowsKept DEF SafeInv, Ownership, PersistFirst, WatchNeverOrdered
<1>7. ASSUME NEW r \in Run, Send(r) PROVE SafeInv'
  <2>1. UNCHANGED <<rows, orders, inbox>>
      BY <1>7 DEF Send, postgres
  <2>2. announced' \subseteq announced \union {rows[cur[r]]}
      BY <1>7 DEF Send, SendSkipped, SendAnswered, SendRetried, SendFailed
  <2>3. rows[cur[r]] \in Recorded
      BY <1>7, RowOfCur DEF Send, Delivering, Recorded
  <2>4. \/ UNCHANGED <<queue, pc, cur>>
        \/ Finish(r, rows[cur[r]])
      BY <1>7 DEF Send, SendSkipped, SendAnswered, SendRetried, SendFailed
  <2>5. Ownership'
      BY <1>t, <2>1, <2>4, RowsKept DEF Finish, Ownership, Typed, ListType
  <2>6. InHand'
      BY <1>t, <2>1, <2>4, RowsKept DEF Finish, InHand, Typed, ListType, PlaceType
  <2>7. QED
      BY <2>1, <2>2, <2>3, <2>5, <2>6, RowsKept DEF SafeInv, PersistFirst, WatchNeverOrdered
<1>8. ASSUME NEW r \in Run, Return(r) \/ Crash(r) PROVE SafeInv'
  <2> PICK how \in {"done", "dead"} : Exit(r, how)
      BY <1>8 DEF Return, Crash
  <2>1. UNCHANGED <<rows, orders, announced>>
      BY <1>8 DEF Return, Crash, postgres
  <2>2. Ownership'
      BY <1>t, <2>1, RowsKept DEF Exit, Ownership, Typed, ListType
  <2>3. InHand'
      BY <1>t, <2>1, RowsKept DEF Exit, InHand, Typed, ListType, PlaceType
  <2>4. QED
      BY <2>1, <2>2, <2>3, RowsKept DEF SafeInv, PersistFirst, WatchNeverOrdered
<1>9. ASSUME \/ \E k \in Key : Expire(k)
             \/ UNCHANGED vars
      PROVE  SafeInv'
  <2>1. UNCHANGED <<rows, orders, announced, inbox, queue, pc, cur>>
      BY <1>9 DEF Expire, vars, postgres, local
  <2>2. QED
      BY <2>1, RowsKept
         DEF SafeInv, Ownership, InHand, PersistFirst, WatchNeverOrdered
<1>10. QED
    BY <1>1, <1>2, <1>3, <1>4, <1>5, <1>6, <1>7, <1>8, <1>9 DEF Next, Step

(* Persist-first: in every reachable state what is announced or ordered   *)
(* has a row, whatever crashes, lost replies and retries came before.     *)
THEOREM PersistFirstHolds == Spec => []PersistFirst
<1>1. SafeInv => PersistFirst
    BY DEF SafeInv
<1>2. QED
    BY <1>1, TypeInit, TypeStep, SafeInit, SafeStep, PTL DEF Spec

(* WATCH alerts are never ordered. *)
THEOREM WatchNeverOrderedHolds == Spec => []WatchNeverOrdered
<1>1. SafeInv => WatchNeverOrdered
    BY DEF SafeInv
<1>2. QED
    BY <1>1, TypeInit, TypeStep, SafeInit, SafeStep, PTL DEF Spec

(* No alert has two orders: an alert has at most one row, since its run   *)
(* inserts it at most once, and every POST for it carries the key of that *)
(* row.                                                                   *)
THEOREM OneOrderPerAlertHolds == Spec => []OneOrderPerAlert
<1>1. SafeInv => OneOrderPerAlert
    BY DEF SafeInv, OneRowPerAlert, PersistFirst, OneOrderPerAlert
<1>2. QED
    BY <1>1, TypeInit, TypeStep, SafeInit, SafeStep, PTL DEF Spec

-----------------------------------------------------------------------------
(* The audit trail and the dispatched flag *)

LEMMA AuditStep == AuditIsTruthful /\ [Next]_vars => AuditIsTruthful'
<1> SUFFICES ASSUME AuditIsTruthful, [Next]_vars PROVE AuditIsTruthful'
    OBVIOUS
<1>1. ASSUME NEW r \in Run, Post(r) PROVE AuditIsTruthful'
  <2>1. orders \subseteq orders'
      BY <1>1 DEF Post, PostAccepted, PostRetried, PostFailed
  <2>2. \A p \in audit' : p \in audit \/ p[2] # "success" \/ p[1] \in orders'
      BY <1>1 DEF Post, PostAccepted, PostRetried, PostFailed, Audited
  <2>3. QED
      BY <2>1, <2>2 DEF AuditIsTruthful
<1>2. ASSUME UNCHANGED <<audit, orders>> PROVE AuditIsTruthful'
    BY <1>2 DEF AuditIsTruthful
<1>3. QED
    BY <1>1, <1>2
       DEF Next, Step, Claim, Cap, Persist, Dispatch, Mark, Send, Return, Crash, Expire,
           vars, postgres

(* A success in execution_deliveries is backed by an order trade-execute  *)
(* accepted: no retry, failure or later upsert breaks that.               *)
THEOREM AuditIsTruthfulHolds == Spec => []AuditIsTruthful
<1>1. Init => AuditIsTruthful
    BY DEF Init, AuditIsTruthful
<1>2. QED
    BY <1>1, AuditStep, PTL DEF Spec

(* A run that is about to mark its row holds the acknowledgement. *)
AckInHand == \A r \in Run : pc[r] = "mark" => cur[r] \in orders

MarkInv == MarkedMeansAcked /\ AckInHand

LEMMA MarkStep ==
    ASSUME ~DryRun
    PROVE  TypeInv /\ MarkInv /\ [Next]_vars => MarkInv'
<1> SUFFICES ASSUME Typed, MarkedMeansAcked, AckInHand, [Next]_vars PROVE MarkInv'
    BY TypeParts DEF MarkInv
<1> USE DEF Typed, PlaceType, MarkInv, MarkedMeansAcked, AckInHand
<1>1. ASSUME NEW r \in Run, Claim(r) \/ Cap(r) PROVE MarkInv'
    BY <1>1 DEF Claim, Cap, postgres
<1>2. ASSUME NEW r \in Run, Persist(r) PROVE MarkInv'
    BY <1>2 DEF Persist, Insert, InsertFails, Finish
<1>3. ASSUME NEW r \in Run, Dispatch(r) PROVE MarkInv'
    BY <1>3 DEF Dispatch, postgres
<1>4. ASSUME NEW r \in Run, Post(r) PROVE MarkInv'
    BY <1>4 DEF Post, PostAccepted, PostRetried, PostFailed
<1>5. ASSUME NEW r \in Run, Mark(r) PROVE MarkInv'
    BY <1>5 DEF Mark
<1>6. ASSUME NEW r \in Run, Send(r) PROVE MarkInv'
    BY <1>6 DEF Send, SendSkipped, SendAnswered, SendRetried, SendFailed, Finish, postgres
<1>7. ASSUME NEW r \in Run, Return(r) \/ Crash(r) PROVE MarkInv'
  <2>1. PICK how \in {"done", "dead"} : Exit(r, how)
      BY <1>7 DEF Return, Crash
  <2>2. UNCHANGED <<marked, orders>>
      BY <1>7 DEF Return, Crash, postgres
  <2>3. QED
      BY <2>1, <2>2 DEF Exit
<1>8. ASSUME \/ \E k \in Key : Expire(k)
             \/ UNCHANGED vars
      PROVE  MarkInv'
    BY <1>8 DEF Expire, vars, postgres, local
<1>9. QED
    BY <1>1, <1>2, <1>3, <1>4, <1>5, <1>6, <1>7, <1>8 DEF Next, Step

(* Unless the bridge runs dry, a row marked as dispatched was accepted by *)
(* trade-execute.                                                         *)
THEOREM MarkedMeansAckedHolds ==
    ASSUME ~DryRun
    PROVE  Spec => []MarkedMeansAcked
<1>1. Init => MarkInv
    BY DEF Init, MarkInv, MarkedMeansAcked, AckInHand
<1>2. MarkInv => MarkedMeansAcked
    BY DEF MarkInv
<1>3. TypeInv /\ MarkInv /\ [Next]_vars => MarkInv'
    BY MarkStep
<1>4. QED
    BY <1>1, <1>2, <1>3, TypeInit, TypeStep, PTL DEF Spec

-----------------------------------------------------------------------------
(* Deduplication *)

(* A key that was won in the present window is set. *)
Windows ==
    \A x \in won :
        /\ x[2] <= epoch[KeyOf[x[1]]]
        /\ x[2] = epoch[KeyOf[x[1]]] => KeyOf[x[1]] \in held

DedupInv == Windows /\ OneWinnerPerWindow

LEMMA DedupStep == TypeInv /\ DedupInv /\ [Next]_vars => DedupInv'
<1> SUFFICES ASSUME Typed, Windows, OneWinnerPerWindow, [Next]_vars PROVE DedupInv'
    BY TypeParts DEF DedupInv
<1>t. /\ epoch \in [Key -> Nat]
      /\ \A x \in won : KeyOf[x[1]] \in Key /\ x[2] \in Nat
    BY DeliveryAssumption DEF Typed, RedisType
<1>1. ASSUME NEW r \in Run, Claim(r) PROVE DedupInv'
  <2> PICK a \in inbox[r] :
        ClaimWon(r, a) \/ ClaimDuplicate(r, a) \/ ClaimReplyLost(r, a) \/ ClaimFailOpen(r, a)
      BY <1>1 DEF Claim
  <2>1. KeyOf[a] \in Key
      BY DeliveryAssumption DEF Typed, ListType
  <2>2. epoch' = epoch
      BY <1>1 DEF Claim
  <2>3. CASE ClaimWon(r, a)
    <3>1. \A x \in won : KeyOf[x[1]] = KeyOf[a] => x[2] # epoch[KeyOf[a]]
        BY <2>3 DEF ClaimWon, Windows
    <3>2. \A x \in won' : x \in won \/ (x[1] = a /\ x[2] = epoch[KeyOf[a]] /\ x = <<a, epoch[KeyOf[a]]>>)
        BY <2>3 DEF ClaimWon
    <3>3. OneWinnerPerWindow'
        BY <3>1, <3>2 DEF OneWinnerPerWindow
    <3>4. Windows'
        BY <1>t, <2>1, <2>2, <2>3, <3>2 DEF ClaimWon, Windows
    <3>5. QED
        BY <3>3, <3>4 DEF DedupInv
  <2>4. CASE won' = won /\ held \subseteq held'
      BY <2>2, <2>4 DEF DedupInv, Windows, OneWinnerPerWindow
  <2>5. QED
      BY <2>3, <2>4 DEF ClaimDuplicate, ClaimReplyLost, ClaimFailOpen
<1>2. ASSUME NEW k \in Key, Expire(k) PROVE DedupInv'
  <2>1. \A x \in won : x[2] <= epoch[KeyOf[x[1]]]
      BY DEF Windows
  <2>2. \A x \in won : KeyOf[x[1]] = k => x[2] < epoch'[k]
      BY <1>2, <1>t, <2>1 DEF Expire
  <2>3. \A x \in won : KeyOf[x[1]] # k => epoch'[KeyOf[x[1]]] = epoch[KeyOf[x[1]]]
      BY <1>2, <1>t DEF Expire
  <2>4. epoch'[k] \in Nat
      BY <1>2, <1>t DEF Expire
  <2>5. Windows'
      BY <1>2, <1>t, <2>2, <2>3, <2>4 DEF Expire, Windows
  <2>6. QED
      BY <1>2, <2>5 DEF Expire, DedupInv, OneWinnerPerWindow
<1>3. ASSUME UNCHANGED redis PROVE DedupInv'
    BY <1>3 DEF redis, DedupInv, Windows, OneWinnerPerWindow
<1>4. QED
    BY <1>1, <1>2, <1>3
       DEF Next, Step, Cap, Persist, Dispatch, Post, Mark, Send, Return, Crash, vars

(* The dedup key has at most one winner per window, however many runs     *)
(* race for it.                                                           *)
THEOREM OneWinnerPerWindowHolds == Spec => []OneWinnerPerWindow
<1>1. Init => DedupInv
    BY DEF Init, DedupInv, Windows, OneWinnerPerWindow
<1>2. DedupInv => OneWinnerPerWindow
    BY DEF DedupInv
<1>3. QED
    BY <1>1, <1>2, TypeInit, TypeStep, DedupStep, PTL DEF Spec

-----------------------------------------------------------------------------
(* The caps of one run *)

(* The alerts a run has recorded, or may still record. *)
Mine(r) == {a \in Recorded : RunOf[a] = r}
Share(r) == queue[r] \union Mine(r)

Within(S) ==
    /\ Cardinality(S \intersect Directional) <= MaxDirectional
    /\ Cardinality(S \intersect Watch) <= 1

(* Before the caps are applied nothing is recorded; afterwards the share   *)
(* only shrinks, because a row that is inserted comes from the queue.      *)
CapAt(r) ==
    /\ IsFiniteSet(Share(r))
    /\ pc[r] = "claim" => Mine(r) = {}
    /\ pc[r] # "claim" => Within(Share(r))

CapInv == \A r \in Run : CapAt(r)

LEMMA WithinSubset ==
    ASSUME NEW S, NEW T, IsFiniteSet(S), Within(S), T \subseteq S
    PROVE  IsFiniteSet(T) /\ Within(T)
<1>1. ASSUME NEW C, NEW n \in Nat, Cardinality(S \intersect C) <= n
      PROVE  Cardinality(T \intersect C) <= n
  <2>1. IsFiniteSet(S \intersect C)
      BY FS_Subset
  <2>2. /\ IsFiniteSet(T \intersect C)
        /\ Cardinality(T \intersect C) <= Cardinality(S \intersect C)
      BY <2>1, FS_Subset
  <2>3. Cardinality(T \intersect C) \in Nat
      BY <2>2, FS_CardinalityType
  <2>4. Cardinality(S \intersect C) \in Nat
      BY <2>1, FS_CardinalityType
  <2>5. QED
      BY <1>1, <2>2, <2>3, <2>4
<1>2. IsFiniteSet(T)
    BY FS_Subset
<1>3. Cardinality(T \intersect Directional) <= MaxDirectional
    BY <1>1, DeliveryAssumption DEF Within
<1>4. Cardinality(T \intersect Watch) <= 1
    BY <1>1 DEF Within
<1>5. QED
    BY <1>2, <1>3, <1>4 DEF Within

LEMMA EmptyWithin == IsFiniteSet({}) /\ Within({})
<1>1. {} \intersect Directional = {} /\ {} \intersect Watch = {}
    OBVIOUS
<1>2. IsFiniteSet({}) /\ Cardinality({}) = 0
    BY FS_EmptySet
<1>3. QED
    BY <1>1, <1>2, DeliveryAssumption DEF Within

(* The slice keeps no more than its limit. *)
LEMMA TopSize ==
    ASSUME NEW S, IsFiniteSet(S), NEW n \in Nat, NEW T \in Top(S, n)
    PROVE  T \subseteq S /\ Cardinality(T) <= n
<1>1. CASE Cardinality(S) <= n
    BY <1>1 DEF Top
<1>2. CASE ~(Cardinality(S) <= n)
    BY <1>2 DEF Top
<1>3. QED
    BY <1>1, <1>2

(* A step that lets no share grow, and takes no run back to its claims. *)
LEMMA CapShrinks ==
    ASSUME CapInv,
           \A r \in Run : Share(r)' \subseteq Share(r) /\ Mine(r)' \subseteq Share(r)',
           \A r \in Run : \/ pc'[r] = "claim" /\ pc[r] = "claim" /\ Mine(r)' \subseteq Mine(r)
                          \/ pc'[r] # "claim" /\ pc[r] # "claim"
                          \/ pc'[r] # "claim" /\ Share(r)' = {}
    PROVE  CapInv'
<1> SUFFICES ASSUME NEW r \in Run PROVE CapAt(r)'
    BY DEF CapInv
<1>1. CapAt(r) /\ IsFiniteSet(Share(r))
    BY DEF CapInv, CapAt
<1>2. IsFiniteSet(Share(r)')
    BY <1>1, FS_Subset
<1>3. CASE pc'[r] = "claim" /\ pc[r] = "claim" /\ Mine(r)' \subseteq Mine(r)
    BY <1>1, <1>2, <1>3 DEF CapAt
<1>4. CASE pc'[r] # "claim" /\ pc[r] # "claim"
  <2>1. Within(Share(r))
      BY <1>1, <1>4 DEF CapAt
  <2>2. Within(Share(r)')
      BY <1>1, <2>1, WithinSubset
  <2>3. Within(Share(r))'
      BY <2>2 DEF Within
  <2>4. QED
      BY <1>2, <1>4, <2>3 DEF CapAt
<1>5. CASE pc'[r] # "claim" /\ Share(r)' = {}
  <2>1. Within(Share(r)')
      BY <1>5, EmptyWithin
  <2>2. Within(Share(r))'
      BY <2>1 DEF Within
  <2>3. QED
      BY <1>2, <1>5, <2>2 DEF CapAt
<1>6. QED
    BY <1>3, <1>4, <1>5

LEMMA SharesKept ==
    ASSUME UNCHANGED rows
    PROVE  /\ \A r \in Run : Mine(r)' = Mine(r)
           /\ \A r \in Run : queue'[r] \subseteq queue[r] => Share(r)' \subseteq Share(r)
           /\ \A r \in Run : Mine(r)' \subseteq Share(r)'
<1>1. Recorded' = Recorded
    BY RowsKept
<1>2. \A r \in Run : Mine(r)' = Mine(r)
    BY <1>1 DEF Mine
<1>3. \A r \in Run : Share(r)' = queue'[r] \union Mine(r)'
    BY DEF Share
<1>4. \A r \in Run : Share(r) = queue[r] \union Mine(r)
    BY DEF Share
<1>5. QED
    BY <1>2, <1>3, <1>4

LEMMA ClaimCaps == ASSUME Typed, CapInv, NEW r \in Run, Claim(r) PROVE CapInv'
<1> SUFFICES ASSUME NEW q \in Run PROVE CapAt(q)'
    BY DEF CapInv
<1>1. PICK a \in inbox[r] :
        ClaimWon(r, a) \/ ClaimDuplicate(r, a) \/ ClaimReplyLost(r, a) \/ ClaimFailOpen(r, a)
    BY DEF Claim
<1>2. UNCHANGED <<rows, pc>> /\ pc[r] = "claim"
    BY DEF Claim, postgres
<1>3. Mine(q)' = Mine(q) /\ Share(q)' = queue'[q] \union Mine(q)' /\ Share(q) = queue[q] \union Mine(q)
    BY <1>2, SharesKept DEF Share
<1>4. CapAt(q)
    BY DEF CapInv
<1>5. queue' \in {queue, [queue EXCEPT ![r] = @ \union {a}]}
    BY <1>1 DEF ClaimWon, ClaimDuplicate, ClaimReplyLost, ClaimFailOpen
<1>6. CASE q # r
  <2>1. Share(q)' = Share(q)
      BY <1>3, <1>5, <1>6 DEF Typed, ListType
  <2>2. IsFiniteSet(Share(q)')
      BY <1>4, <2>1 DEF CapAt
  <2>3. Within(Share(q)) => Within(Share(q)')
      BY <2>1
  <2>4. Within(Share(q)') => Within(Share(q))'
      BY DEF Within
  <2>5. QED
      BY <1>2, <1>3, <1>4, <2>2, <2>3, <2>4 DEF CapAt
<1>7. CASE q = r
  <2>1. Share(q)' \subseteq Share(q) \union {a}
      BY <1>3, <1>5 DEF Typed, ListType
  <2>2. IsFiniteSet(Share(q) \union {a})
      BY <1>4, FS_AddElement DEF CapAt
  <2>3. IsFiniteSet(Share(q)')
      BY <2>1, <2>2, FS_Subset
  <2>4. QED
      BY <1>2, <1>3, <1>4, <1>7, <2>3 DEF CapAt
<1>8. QED
    BY <1>6, <1>7

LEMMA CapCaps == ASSUME Typed, CapInv, NEW r \in Run, Cap(r) PROVE CapInv'
<1> SUFFICES ASSUME NEW q \in Run PROVE CapAt(q)'
    BY DEF CapInv
<1>1. UNCHANGED rows /\ pc[r] = "claim" /\ pc' = [pc EXCEPT ![r] = "deliver"]
    BY DEF Cap, postgres
<1>2. Mine(q)' = Mine(q) /\ Share(q)' = queue'[q] \union Mine(q)' /\ Share(q) = queue[q] \union Mine(q)
    BY <1>1, SharesKept DEF Share
<1>3. CapAt(q)
    BY DEF CapInv
<1>4. PICK D \in Top(queue[r] \intersect Directional, MaxDirectional),
           W \in Top(queue[r] \intersect Watch, 1) :
              queue' = [queue EXCEPT ![r] = D \union W]
    BY DEF Cap
<1>5. CASE q # r
  <2>1. Share(q)' = Share(q) /\ pc'[q] = pc[q]
      BY <1>1, <1>2, <1>4, <1>5 DEF Typed, ListType, PlaceType
  <2>2. IsFiniteSet(Share(q)')
      BY <1>3, <2>1 DEF CapAt
  <2>3. Within(Share(q)) => Within(Share(q)')
      BY <2>1
  <2>4. Within(Share(q)') => Within(Share(q))'
      BY DEF Within
  <2>5. QED
      BY <1>2, <1>3, <2>1, <2>2, <2>3, <2>4 DEF CapAt
<1>6. CASE q = r
  <2>1. Mine(r) = {} /\ IsFiniteSet(queue[r])
      BY <1>1, <1>2, <1>3, <1>6 DEF CapAt
  <2>2. IsFiniteSet(queue[r] \intersect Directional)
      BY <2>1, FS_Subset
  <2>3. IsFiniteSet(queue[r] \intersect Watch)
      BY <2>1, FS_Subset
  <2>4. D \subseteq queue[r] \intersect Directional /\ Cardinality(D) <= MaxDirectional
      BY <2>2, TopSize, DeliveryAssumption
  <2>5. W \subseteq queue[r] \intersect Watch /\ Cardinality(W) <= 1
      BY <2>3, TopSize
  <2>6. Share(q)' = D \union W
      BY <1>2, <1>4, <1>6, <2>1 DEF Typed, ListType
  <2>7. (D \union W) \intersect Directional = D /\ (D \union W) \intersect Watch = W
      BY <2>4, <2>5 DEF Watch
  <2>8. Within(D \union W)
      BY <2>4, <2>5, <2>7 DEF Within
  <2>9. D \union W \subseteq queue[r]
      BY <2>4, <2>5
  <2>10. IsFiniteSet(D \union W)
      BY <2>1, <2>9, FS_Subset
  <2>11. Within(Share(q)')
      BY <2>6, <2>8
  <2>12. Within(Share(q))'
      BY <2>11 DEF Within
  <2>13. IsFiniteSet(Share(q)') /\ pc'[q] = "deliver"
      BY <1>1, <1>6, <2>6, <2>10 DEF Typed, PlaceType
  <2>14. QED
      BY <2>12, <2>13 DEF CapAt
<1>7. QED
    BY <1>5, <1>6

(* A row that is inserted is one of the share already. *)
LEMMA PersistCaps == ASSUME Typed, Ownership, CapInv, NEW r \in Run, Persist(r) PROVE CapInv'
<1>1. PICK a \in queue[r] : Insert(r, a) \/ InsertFails(r, a)
    BY DEF Persist
<1>2. a \in Alert /\ RunOf[a] = r
    BY DEF Typed, ListType, Ownership
<1>3. Recorded' \subseteq Recorded \union {a}
    BY <1>1, <1>2, RowAppended, RowsKept DEF Insert, InsertFails, Typed, StoreType
<1>4. \A q \in Run : queue'[q] \subseteq queue[q]
    BY <1>1 DEF Insert, InsertFails, Finish, Typed, ListType
<1>5. pc[r] = "deliver" /\ pc'[r] # "claim" /\ \A q \in Run \ {r} : pc'[q] = pc[q]
    BY <1>1 DEF Persist, Insert, InsertFails, Finish, Typed, PlaceType
<1>6. \A q \in Run \ {r} : Mine(q)' \subseteq Mine(q)
    BY <1>2, <1>3 DEF Mine
<1>7. Mine(r)' \subseteq Mine(r) \union {a}
    BY <1>3 DEF Mine
<1>8. ASSUME NEW q \in Run
      PROVE  Share(q)' \subseteq Share(q) /\ Mine(q)' \subseteq Share(q)'
  <2>1. Mine(q)' \subseteq Share(q)
      BY <1>6, <1>7 DEF Share
  <2>2. QED
      BY <1>4, <2>1 DEF Share
<1>9. ASSUME NEW q \in Run
      PROVE  \/ pc'[q] = "claim" /\ pc[q] = "claim" /\ Mine(q)' \subseteq Mine(q)
             \/ pc'[q] # "claim" /\ pc[q] # "claim"
    BY <1>5, <1>6
<1>10. QED
    BY <1>8, <1>9, CapShrinks

LEMMA OtherCaps ==
    ASSUME Typed, CapInv, NEW r \in Run,
           Dispatch(r) \/ Post(r) \/ Mark(r) \/ Send(r) \/ Return(r) \/ Crash(r)
    PROVE  CapInv'
<1>1. UNCHANGED rows
    BY DEF Dispatch, Post, Mark, Send, Return, Crash, postgres
<1>2. \A q \in Run : queue'[q] \subseteq queue[q]
    BY DEF Dispatch, Post, Mark, Send, SendSkipped, SendAnswered, SendRetried, SendFailed, Finish,
           Return, Crash, Exit, Typed, ListType
<1>3. \A q \in Run \ {r} : pc'[q] = pc[q]
    BY DEF Dispatch, Post, PostAccepted, PostRetried, PostFailed, Mark, Send, SendSkipped,
           SendAnswered, SendRetried, SendFailed, Finish, Return, Crash, Exit, Typed, PlaceType
<1>4. CASE Crash(r)
  <2>1. pc'[r] = "dead" /\ queue'[r] = {}
      BY <1>4 DEF Crash, Exit, Typed, PlaceType, ListType
  <2>2. pc[r] = "claim" => Share(r)' = {}
      BY <1>1, <2>1, SharesKept DEF CapInv, CapAt, Share
  <2>3. \A q \in Run : \/ pc'[q] = "claim" /\ pc[q] = "claim" /\ Mine(q)' \subseteq Mine(q)
                       \/ pc'[q] # "claim" /\ pc[q] # "claim"
                       \/ pc'[q] # "claim" /\ Share(q)' = {}
      BY <1>1, <1>3, <2>1, <2>2, SharesKept
  <2>4. QED
      BY <1>1, <1>2, <2>3, SharesKept, CapShrinks
<1>5. CASE Dispatch(r) \/ Post(r) \/ Mark(r) \/ Send(r) \/ Return(r)
  <2>1. pc[r] # "claim" /\ pc'[r] # "claim"
      BY <1>5 DEF Dispatch, Post, PostAccepted, PostRetried, PostFailed, Mark, Send, SendSkipped,
                  SendAnswered, SendRetried, SendFailed, Finish, Return, Exit, Typed, PlaceType
  <2>2. \A q \in Run : \/ pc'[q] = "claim" /\ pc[q] = "claim" /\ Mine(q)' \subseteq Mine(q)
                       \/ pc'[q] # "claim" /\ pc[q] # "claim"
      BY <1>1, <1>3, <2>1, SharesKept
  <2>3. QED
      BY <1>1, <1>2, <2>2, SharesKept, CapShrinks
<1>6. QED
    BY <1>4, <1>5

LEMMA CapStep == TypeInv /\ SafeInv /\ CapInv /\ [Next]_vars => CapInv'
<1> SUFFICES ASSUME Typed, Ownership, CapInv, [Next]_vars PROVE CapInv'
    BY TypeParts DEF SafeInv
<1>1. ASSUME \/ \E k \in Key : Expire(k)
             \/ UNCHANGED vars
      PROVE  CapInv'
  <2>1. UNCHANGED <<rows, queue, pc>>
      BY <1>1 DEF Expire, vars, postgres, local
  <2>2. \A q \in Run : queue'[q] \subseteq queue[q]
      BY <2>1
  <2>3. \A q \in Run : \/ pc'[q] = "claim" /\ pc[q] = "claim" /\ Mine(q)' \subseteq Mine(q)
                       \/ pc'[q] # "claim" /\ pc[q] # "claim"
      BY <2>1, SharesKept
  <2>4. QED
      BY <2>1, <2>2, <2>3, SharesKept, CapShrinks
<1>2. QED
    BY <1>1, ClaimCaps, CapCaps, PersistCaps, OtherCaps DEF Next, Step

LEMMA CapInit == Init => CapInv
<1> SUFFICES ASSUME Init, NEW r \in Run PROVE CapAt(r)
    BY DEF CapInv
<1>1. Recorded = {}
    BY DEF Init, Recorded, RowIds
<1>2. Mine(r) = {} /\ Share(r) = {} /\ pc[r] = "claim"
    BY <1>1 DEF Init, Mine, Share
<1>3. QED
    BY <1>2, EmptyWithin DEF CapAt

LEMMA CapsFollow == CapInv => CapsHold
<1> SUFFICES ASSUME CapInv, NEW r \in Run PROVE Within(Mine(r))
    BY DEF CapsHold, Within, Mine
<1>1. CapAt(r)
    BY DEF CapInv
<1>2. CASE pc[r] = "claim"
    BY <1>1, <1>2, EmptyWithin DEF CapAt
<1>3. CASE pc[r] # "claim"
  <2>1. Within(Share(r)) /\ IsFiniteSet(Share(r)) /\ Mine(r) \subseteq Share(r)
      BY <1>1, <1>3 DEF CapAt, Share
  <2>2. QED
      BY <2>1, WithinSubset
<1>4. QED
    BY <1>2, <1>3

(* No run records more directional alerts or more WATCHes than the caps   *)
(* allow, whatever is won, lost or let through by a failing Redis.        *)
THEOREM CapsHoldAlways == Spec => []CapsHold
<1>1. QED
    BY TypeInit, TypeStep, SafeInit, SafeStep, CapInit, CapStep, CapsFollow, PTL DEF Spec

-----------------------------------------------------------------------------
(* Refinement *)

Ordered == {rows[i] : i \in orders}

LEMMA LedgerStep == TypeInv /\ SafeInv /\ [Next]_vars => [Ledger!Next]_Ledger!ledger
<1> SUFFICES ASSUME TypeInv, SafeInv, [Next]_vars PROVE [Ledger!Next]_Ledger!ledger
    OBVIOUS
<1>t. Typed
    BY TypeParts
<1>s. UNCHANGED <<Recorded, Ordered, announced>> => UNCHANGED Ledger!ledger
    BY DEF Ledger!ledger, Ordered
<1>1. ASSUME NEW r \in Run, Persist(r) PROVE [Ledger!Next]_Ledger!ledger
  <2> PICK a \in queue[r] : Insert(r, a) \/ InsertFails(r, a)
      BY <1>1 DEF Persist
  <2>1. a \in Alert /\ a \notin Recorded
      BY <1>1, <1>t DEF Persist, SafeInv, InHand, Typed, ListType, PlaceType, Pointers, Delivering
  <2>2. CASE rows' = Append(rows, a)
    <3>1. Recorded' = Recorded \union {a}
        BY <1>t, <2>1, <2>2, RowAppended DEF Typed, StoreType
    <3>2. Ordered' = Ordered
      <4>1. orders' = orders /\ orders \subseteq RowIds
          BY <1>1 DEF Persist, SafeInv, PersistFirst
      <4>2. \A i \in RowIds : rows'[i] = rows[i]
          BY <1>t, <2>1, <2>2, RowAppended DEF Typed, StoreType
      <4>3. QED
          BY <4>1, <4>2 DEF Ordered
    <3>3. Ledger!Record(a)
        BY <1>1, <2>1, <3>1, <3>2 DEF Persist, Ledger!Record, Ordered
    <3>4. QED
        BY <2>1, <3>3 DEF Ledger!Next
  <2>3. CASE rows' = rows
      BY <1>1, <1>s, <2>3, RowsKept DEF Persist, Ordered
  <2>4. QED
      BY <2>2, <2>3 DEF Insert, InsertFails
<1>2. ASSUME NEW r \in Run, Post(r) PROVE [Ledger!Next]_Ledger!ledger
  <2>1. UNCHANGED <<rows, announced>>
      BY <1>2 DEF Post
  <2>2. cur[r] \in RowIds /\ rows[cur[r]] \in Alert /\ rows[cur[r]] \in Directional
      BY <1>2, RowOfCur DEF Post, SafeInv, InHand, Delivering
  <2>3. CASE orders' = orders
      BY <1>s, <2>1, <2>3, RowsKept DEF Ordered
  <2>4. CASE orders' = orders \union {cur[r]}
    <3>1. Ordered' = Ordered \union {rows[cur[r]]}
        BY <2>1, <2>4 DEF Ordered
    <3>2. PICK a \in Alert : a = rows[cur[r]]
        BY <2>2
    <3>3. Ledger!Order(a)
        BY <2>1, <2>2, <3>1, <3>2, RowsKept DEF Ledger!Order, Ordered, Recorded
    <3>4. QED
        BY <3>3 DEF Ledger!Next
  <2>5. QED
      BY <1>2, <2>3, <2>4 DEF Post, PostAccepted, PostRetried, PostFailed
<1>3. ASSUME NEW r \in Run, Send(r) PROVE [Ledger!Next]_Ledger!ledger
  <2>1. UNCHANGED <<rows, orders>>
      BY <1>3 DEF Send, postgres
  <2>2. rows[cur[r]] \in Alert /\ rows[cur[r]] \in Recorded
      BY <1>3, RowOfCur DEF Send, Delivering, Recorded
  <2>3. CASE announced' = announced
      BY <1>s, <2>1, <2>3, RowsKept DEF Ordered
  <2>4. CASE announced' = announced \union {rows[cur[r]]}
    <3>1. PICK a \in Alert : a = rows[cur[r]]
        BY <2>2
    <3>2. Ledger!Announce(a)
        BY <2>1, <2>2, <2>4, <3>1, RowsKept DEF Ledger!Announce, Ordered
    <3>3. QED
        BY <3>2 DEF Ledger!Next
  <2>5. QED
      BY <1>3, <2>3, <2>4 DEF Send, SendSkipped, SendAnswered, SendRetried, SendFailed
<1>4. ASSUME UNCHANGED <<rows, orders, announced>> PROVE [Ledger!Next]_Ledger!ledger
    BY <1>4, <1>s, RowsKept DEF Ordered
<1>5. QED
    BY <1>1, <1>2, <1>3, <1>4
       DEF Next, Step, Claim, Cap, Dispatch, Mark, Return, Crash, Expire, vars, postgres

(* The delivery path implements the ledger: an alert is recorded once,    *)
(* before it is ordered or announced; only directional alerts are         *)
(* ordered; nothing is ever undone.                                       *)
THEOREM Refinement == Spec => ImplementsLedger
<1>1. Init => Ledger!Init
    BY DEF Init, Ledger!Init, Recorded, RowIds
<1>2. QED
    BY <1>1, TypeInit, TypeStep, SafeInit, SafeStep, LedgerStep, PTL
       DEF Spec, ImplementsLedger, Ledger!Spec

-----------------------------------------------------------------------------
(* The work a run has left.  That it goes down with every step of the run, *)
(* whatever the others do, is why notify() ends as long as it keeps        *)
(* running.                                                                *)

Ended == {"done", "dead"}

(* The attempts of the call a run is making. *)
Tries(r) == IF pc[r] = "post" THEN MaxPosts ELSE IF pc[r] = "send" THEN MaxSends ELSE 1

(* A run delivers one of the alerts it has admitted, and only counts the   *)
(* attempts of a call that it retries.                                     *)
WorkAt(r) ==
    /\ IsFiniteSet(inbox[r]) /\ IsFiniteSet(queue[r])
    /\ pc[r] # "claim" => inbox[r] = {}
    /\ pc[r] \in Ended => queue[r] = {}
    /\ pc[r] \in Delivering => rows[cur[r]] \in queue[r]
    /\ attempt[r] <= Tries(r)

WorkInv == \A r \in Run : WorkAt(r)

(* The steps an admitted alert can take, and those that remain of the one  *)
(* in hand.                                                                *)
Item == MaxPosts + MaxSends + 3

Rest(r) ==
    CASE pc[r] = "claim" -> Item + 1
      [] pc[r] = "deliver" -> Item
      [] pc[r] = "execute" -> Item - 1
      [] pc[r] = "post" -> MaxPosts + MaxSends + 2 - attempt[r]
      [] pc[r] = "mark" -> MaxSends + 1
      [] pc[r] = "send" -> MaxSends + 1 - attempt[r]
      [] OTHER -> 0

Load(i, q, x) == i * (Item + 1) + q * Item + x

Work(r) == Load(Cardinality(inbox[r]), Cardinality(queue[r]), Rest(r))

(* A run has a number of steps left, and none only when it has ended. *)
WorkBounded == \A r \in Run : Work(r) \in Nat /\ (Work(r) = 0 <=> pc[r] \in Ended)

(* Every step of a run leaves it less to do, and no step of another run,   *)
(* no expiration and no crash gives it more.                               *)
WorkShrinks ==
    [][\A r \in Run : Work(r)' <= Work(r) /\ (Step(r) => Work(r)' < Work(r))]_vars

LEMMA ItemType == Item \in Nat /\ Item > 4 /\ Item' = Item
BY DeliveryAssumption DEF Item

LEMMA Products ==
    ASSUME NEW n \in Nat, NEW a \in Nat
    PROVE  /\ a * n \in Nat
           /\ (a + 1) * n = a * n + n
           /\ a >= 1 => a * n >= n
<1>1. a * n \in Nat /\ (a + 1) * n = a * n + n
    OBVIOUS
<1>2. ASSUME a >= 1 PROVE a * n >= n
  <2>1. PICK b \in Nat : a = b + 1
      BY <1>2
  <2>2. b * n \in Nat /\ (b + 1) * n = b * n + n
      OBVIOUS
  <2>3. QED
      BY <2>1, <2>2
<1>3. QED
    BY <1>1, <1>2

LEMMA LoadType ==
    ASSUME NEW i \in Nat, NEW q \in Nat, NEW x \in Nat
    PROVE  /\ Load(i, q, x) \in Nat
           /\ Load(i, q, x) = 0 <=> i = 0 /\ q = 0 /\ x = 0
<1>1. Item \in Nat /\ Item + 1 \in Nat /\ Item > 4
    BY ItemType
<1>2. /\ i * (Item + 1) \in Nat /\ q * Item \in Nat
      /\ i >= 1 => i * (Item + 1) >= Item + 1
      /\ q >= 1 => q * Item >= Item
    BY <1>1, Products
<1>3. 0 * (Item + 1) = 0 /\ 0 * Item = 0
    BY <1>1
<1> DEFINE m == i * (Item + 1)
           n == q * Item
<1>4. /\ m \in Nat /\ n \in Nat /\ (m = 0 <=> i = 0) /\ (n = 0 <=> q = 0)
      /\ Load(i, q, x) = m + n + x
    BY <1>1, <1>2, <1>3 DEF Load
<1> HIDE DEF m, n
<1>5. QED
    BY <1>4

(* One alert less in the inbox, though it may go to the queue. *)
LEMMA LoadClaimed ==
    ASSUME NEW i \in Nat, NEW q \in Nat, NEW x \in Nat
    PROVE  /\ Load(i, q, x) < Load(i + 1, q, x)
           /\ Load(i, q + 1, x) < Load(i + 1, q, x)
<1>1. Item \in Nat /\ Item + 1 \in Nat /\ Item > 4
    BY ItemType
<1>2. /\ i * (Item + 1) \in Nat /\ q * Item \in Nat
      /\ (i + 1) * (Item + 1) = i * (Item + 1) + (Item + 1)
      /\ (q + 1) * Item = q * Item + Item
    BY <1>1, Products
<1> DEFINE m == i * (Item + 1)
           n == q * Item
<1>3. /\ m \in Nat /\ n \in Nat
      /\ Load(i, q, x) = m + n + x
      /\ Load(i + 1, q, x) = m + (Item + 1) + n + x
      /\ Load(i, q + 1, x) = m + (n + Item) + x
    BY <1>1, <1>2 DEF Load
<1> HIDE DEF m, n
<1>4. QED
    BY <1>1, <1>3

(* Fewer alerts in the queue, or the same, and less of the one in hand. *)
LEMMA LoadQueued ==
    ASSUME NEW i \in Nat, NEW q \in Nat, NEW p \in Nat, p <= q,
           NEW x \in Nat, NEW y \in Nat
    PROVE  /\ y < x => Load(i, p, y) < Load(i, q, x)
           /\ y <= x => Load(i, p, y) <= Load(i, q, x)
           /\ p + 1 = q /\ y < x + Item => Load(i, p, y) < Load(i, q, x)
<1>1. Item \in Nat /\ Item + 1 \in Nat
    BY ItemType
<1>2. PICK d \in Nat : q = p + d
    BY q - p \in Nat
<1>3. /\ i * (Item + 1) \in Nat /\ p * Item \in Nat /\ d * Item \in Nat
      /\ d >= 1 => d * Item >= Item
    BY <1>1, Products
<1>4. (p + d) * Item = p * Item + d * Item
    BY <1>1
<1> DEFINE m == i * (Item + 1)
           n == p * Item
           k == d * Item
<1>5. /\ m \in Nat /\ n \in Nat /\ k \in Nat /\ (d >= 1 => k >= Item)
      /\ Load(i, p, y) = m + n + y
      /\ Load(i, q, x) = m + (n + k) + x
    BY <1>2, <1>3, <1>4 DEF Load
<1> HIDE DEF m, n, k
<1>6. p + 1 = q => d >= 1
    BY <1>2
<1>7. QED
    BY <1>1, <1>5, <1>6

LEMMA WorkType ==
    ASSUME Typed, NEW r \in Run, WorkAt(r)
    PROVE  /\ Cardinality(inbox[r]) \in Nat /\ Cardinality(queue[r]) \in Nat
           /\ Rest(r) \in Nat
           /\ Rest(r) = 0 <=> pc[r] \in Ended
<1>1. /\ pc[r] \in Active \union Ended
      /\ attempt[r] \in Nat /\ attempt[r] >= 1 /\ attempt[r] <= Tries(r)
      /\ MaxPosts \in Nat /\ MaxSends \in Nat
    BY DeliveryAssumption DEF Typed, PlaceType, CountType, WorkAt, Ended
<1>2. Rest(r) \in Nat /\ (Rest(r) = 0 <=> pc[r] \in Ended)
    BY <1>1 DEF Rest, Tries, Item, Active, Ended
<1>3. QED
    BY <1>2, FS_CardinalityType DEF WorkAt

(* The rows that exist stay, whatever happens. *)
LEMMA RowsStay == ASSUME Typed, [Next]_vars PROVE \A i \in RowIds : rows'[i] = rows[i]
<1>1. ASSUME NEW r \in Run, Persist(r) PROVE \A i \in RowIds : rows'[i] = rows[i]
  <2>1. PICK a \in queue[r] : rows' = rows \/ rows' = Append(rows, a)
      BY <1>1 DEF Persist, Insert, InsertFails
  <2>2. a \in Alert /\ rows \in Seq(Alert)
      BY DEF Typed, ListType, StoreType
  <2>3. QED
      BY <2>1, <2>2, RowAppended
<1>2. QED
    BY <1>1 DEF Next, Step, Claim, Cap, Dispatch, Post, Mark, Send, Return, Crash, Expire,
                vars, postgres

(* A run whose memory a step leaves alone. *)
Untouched(q) ==
    /\ inbox'[q] = inbox[q] /\ queue'[q] = queue[q] /\ pc'[q] = pc[q]
    /\ cur'[q] = cur[q] /\ attempt'[q] = attempt[q]

LEMMA UntouchedWork ==
    ASSUME Typed, NEW q \in Run, WorkAt(q), Untouched(q),
           \A i \in RowIds : rows'[i] = rows[i]
    PROVE  WorkAt(q)' /\ Work(q)' = Work(q)
<1>1. Tries(q)' = Tries(q) /\ Rest(q)' = Rest(q)
    BY DEF Untouched, Tries, Rest, Item
<1>2. pc[q] \in Delivering => cur[q] \in RowIds
    BY TypeParts, RowOfCur
<1>3. WorkAt(q)'
    BY <1>1, <1>2 DEF Untouched, WorkAt
<1>4. Work(q)' = Work(q)
    BY <1>1 DEF Untouched, Work, Load, Item
<1>5. QED
    BY <1>3, <1>4

(* What a step of a run makes of its work. *)
Worked(r) == WorkAt(r)' /\ Work(r)' \in Nat /\ Work(r)' < Work(r)

Alone(r) == \A q \in Run \ {r} : Untouched(q)

(* A step that gets further with the alert in hand. *)
LEMMA Progress ==
    ASSUME Typed, NEW r \in Run, WorkAt(r), WorkAt(r)',
           inbox'[r] = inbox[r], queue'[r] \subseteq queue[r],
           Rest(r)' \in Nat, Rest(r)' < Rest(r)
    PROVE  Worked(r)
<1> DEFINE i == Cardinality(inbox[r])
           q == Cardinality(queue[r])
           p == Cardinality(queue'[r])
           x == Rest(r)
           y == Rest(r)'
<1>1. /\ i \in Nat /\ q \in Nat /\ x \in Nat /\ y \in Nat /\ y < x
    BY WorkType
<1>2. p \in Nat /\ p <= q
    BY FS_Subset, FS_CardinalityType DEF WorkAt
<1>3. Work(r) = Load(i, q, x) /\ Work(r)' = Load(i, p, y)
    BY DEF Work, Load, Item
<1> HIDE DEF i, q, p, x, y
<1>4. Work(r)' \in Nat
    BY <1>1, <1>2, <1>3, LoadType
<1>5. Work(r)' < Work(r)
    BY <1>1, <1>2, <1>3, LoadQueued
<1>6. QED
    BY <1>4, <1>5 DEF Worked

(* The run is through with an alert, and takes the next. *)
LEMMA Finishing ==
    ASSUME Typed, NEW r \in Run, WorkAt(r), pc[r] \in {"deliver", "send"},
           NEW a \in queue[r], Finish(r, a), inbox' = inbox
    PROVE  Worked(r)
<1> DEFINE i == Cardinality(inbox[r])
           q == Cardinality(queue[r])
           p == Cardinality(queue'[r])
           x == Rest(r)
<1>1. /\ pc'[r] = "deliver" /\ cur'[r] = 0 /\ attempt'[r] = 1
      /\ queue'[r] = queue[r] \ {a}
    BY DEF Finish, Typed, PlaceType, CountType, ListType
<1>2. inbox[r] = {} /\ IsFiniteSet(queue[r])
    BY DEF WorkAt
<1>3. /\ IsFiniteSet(queue'[r])
      /\ p = q - 1 /\ p \in Nat
    BY <1>1, <1>2, FS_RemoveElement, FS_CardinalityType
<1>4. Rest(r)' = Item /\ Tries(r)' = 1
    BY <1>1 DEF Rest, Tries, Item
<1>5. WorkAt(r)'
    BY <1>1, <1>2, <1>3, <1>4 DEF WorkAt, Delivering, Ended
<1>6. /\ i \in Nat /\ q \in Nat /\ x \in Nat /\ x # 0
    BY WorkType DEF Ended
<1>7. Work(r) = Load(i, q, x) /\ Work(r)' = Load(i, p, Item)
    BY <1>4 DEF Work, Load, Item
<1> HIDE DEF i, q, p, x
<1>8. Item < x + Item /\ Item \in Nat /\ p <= q /\ p + 1 = q
    BY <1>3, <1>6, ItemType
<1>9. Work(r)' \in Nat
    BY <1>3, <1>6, <1>7, <1>8, LoadType
<1>10. Work(r)' < Work(r)
    BY <1>3, <1>6, <1>7, <1>8, LoadQueued
<1>11. QED
    BY <1>5, <1>9, <1>10 DEF Worked

LEMMA ClaimWorks ==
    ASSUME Typed, Ownership, NEW r \in Run, WorkAt(r), Claim(r) PROVE Worked(r) /\ Alone(r)
<1>1. PICK a \in inbox[r] :
        /\ inbox' = [inbox EXCEPT ![r] = @ \ {a}]
        /\ queue' = queue \/ queue' = [queue EXCEPT ![r] = @ \union {a}]
    BY DEF Claim, ClaimWon, ClaimDuplicate, ClaimReplyLost, ClaimFailOpen
<1>2. /\ inbox'[r] = inbox[r] \ {a}
      /\ queue'[r] = queue[r] \/ queue'[r] = queue[r] \union {a}
      /\ UNCHANGED <<pc, cur, attempt>> /\ pc[r] = "claim" /\ a \notin queue[r]
    BY <1>1 DEF Typed, ListType, Claim, Ownership
<1>3. Alone(r)
    BY <1>1, <1>2 DEF Alone, Untouched, Typed, ListType
<1> DEFINE i == Cardinality(inbox'[r])
           j == Cardinality(inbox[r])
           q == Cardinality(queue[r])
           p == Cardinality(queue'[r])
           x == Rest(r)
<1>4. IsFiniteSet(inbox[r]) /\ IsFiniteSet(queue[r]) /\ j \in Nat /\ q \in Nat /\ x \in Nat
    BY WorkType DEF WorkAt
<1>5. IsFiniteSet(inbox'[r]) /\ i = j - 1 /\ i \in Nat
    BY <1>2, <1>4, FS_RemoveElement, FS_CardinalityType
<1>6. IsFiniteSet(queue'[r]) /\ (p = q \/ p = q + 1)
    BY <1>2, <1>4, FS_AddElement
<1>6a. p \in Nat
    BY <1>6, FS_CardinalityType
<1>7. Rest(r)' = x /\ Tries(r)' = Tries(r)
    BY <1>2 DEF Rest, Tries, Item
<1>8. WorkAt(r)'
    BY <1>2, <1>5, <1>6, <1>7 DEF WorkAt, Delivering, Ended
<1>9. Work(r) = Load(j, q, x) /\ Work(r)' = Load(i, p, x)
    BY <1>7 DEF Work, Load, Item
<1> HIDE DEF i, j, q, p, x
<1>10. j = i + 1
    BY <1>4, <1>5
<1>11. Work(r)' \in Nat
    BY <1>4, <1>5, <1>6a, <1>9, LoadType
<1>12. Work(r)' < Work(r)
    BY <1>4, <1>5, <1>6, <1>9, <1>10, LoadClaimed
<1>13. QED
    BY <1>3, <1>8, <1>11, <1>12 DEF Worked

LEMMA CapWorks ==
    ASSUME Typed, NEW r \in Run, WorkAt(r), Cap(r) PROVE Worked(r) /\ Alone(r)
<1>1. PICK kept \in SUBSET queue[r] : queue' = [queue EXCEPT ![r] = kept]
  <2>1. PICK D \in Top(queue[r] \intersect Directional, MaxDirectional),
             W \in Top(queue[r] \intersect Watch, 1) :
                queue' = [queue EXCEPT ![r] = D \union W]
      BY DEF Cap
  <2>2. D \subseteq queue[r] /\ W \subseteq queue[r]
      BY DEF Top
  <2>3. D \union W \subseteq queue[r]
      BY <2>2
  <2>4. QED
      BY <2>1, <2>3
<1>2. /\ queue'[r] = kept /\ pc[r] = "claim" /\ pc'[r] = "deliver" /\ inbox[r] = {}
      /\ UNCHANGED <<inbox, cur, attempt>>
    BY <1>1 DEF Cap, Typed, ListType, PlaceType
<1>3. Alone(r)
    BY <1>1, <1>2 DEF Cap, Alone, Untouched, Typed, ListType, PlaceType
<1>4. Rest(r) = Item + 1 /\ Rest(r)' = Item /\ Tries(r)' = Tries(r)
    BY <1>2 DEF Rest, Tries, Item
<1>5. IsFiniteSet(kept)
    BY FS_Subset DEF WorkAt
<1>6. WorkAt(r)'
    BY <1>2, <1>4, <1>5 DEF WorkAt, Delivering, Ended
<1>7. Rest(r)' \in Nat /\ Rest(r)' < Rest(r)
    BY <1>4, ItemType
<1>8. Worked(r)
    BY <1>1, <1>2, <1>6, <1>7, Progress
<1>9. QED
    BY <1>3, <1>8

LEMMA PersistWorks ==
    ASSUME Typed, NEW r \in Run, WorkAt(r), Persist(r) PROVE Worked(r) /\ Alone(r)
<1>1. PICK a \in queue[r] : Insert(r, a) \/ InsertFails(r, a)
    BY DEF Persist
<1>2. UNCHANGED inbox /\ pc[r] = "deliver" /\ a \in Alert
    BY DEF Persist, Typed, ListType
<1>3. CASE InsertFails(r, a)
  <2>1. Finish(r, a)
      BY <1>3 DEF InsertFails
  <2>2. Alone(r)
      BY <1>2, <2>1 DEF Finish, Alone, Untouched, Typed, ListType, PlaceType, CountType
  <2>3. QED
      BY <1>2, <2>1, <2>2, Finishing
<1>4. CASE Insert(r, a)
  <2>1. /\ UNCHANGED <<queue, attempt>>
        /\ cur'[r] = Len(rows) + 1
        /\ pc'[r] \in {"execute", "send"}
        /\ \A q \in Run \ {r} : cur'[q] = cur[q] /\ pc'[q] = pc[q]
      BY <1>4 DEF Insert, Typed, PlaceType
  <2>2. Alone(r)
      BY <1>2, <2>1 DEF Alone, Untouched
  <2>3. rows'[cur'[r]] = a
      BY <1>2, <1>4, <2>1, RowAppended DEF Insert, Typed, StoreType
  <2>4. attempt[r] = 1
      BY <1>2 DEF WorkAt, Tries, Typed, CountType
  <2>5. 1 <= Tries(r)'
      BY DeliveryAssumption DEF Tries
  <2>6. WorkAt(r)'
      BY <1>2, <2>1, <2>3, <2>4, <2>5 DEF WorkAt, Ended
  <2>7. Rest(r) = Item /\ Rest(r)' \in {Item - 1, MaxSends}
      BY <1>2, <2>1, <2>4, DeliveryAssumption DEF Rest, Item
  <2>8. Rest(r)' \in Nat /\ Rest(r)' < Rest(r)
      BY <2>7, DeliveryAssumption DEF Item
  <2>9. Worked(r)
      BY <1>2, <2>1, <2>6, <2>8, Progress
  <2>10. QED
      BY <2>2, <2>9
<1>5. QED
    BY <1>1, <1>3, <1>4

(* The steps between the insert and the end of the Discord send that keep  *)
(* to the row: they go forward, or try once more.                          *)
LEMMA Forward ==
    ASSUME Typed, NEW r \in Run, WorkAt(r), pc[r] \in Delivering, pc'[r] \in Delivering,
           UNCHANGED <<rows, inbox, queue, cur>>,
           attempt'[r] \in Nat, attempt'[r] >= 1, attempt'[r] <= Tries(r)',
           \A q \in Run \ {r} : pc'[q] = pc[q] /\ attempt'[q] = attempt[q],
           Rest(r)' < Rest(r)
    PROVE  Worked(r) /\ Alone(r)
<1>1. Alone(r)
    BY DEF Alone, Untouched
<1>2. WorkAt(r)'
    BY DEF WorkAt, Ended, Delivering
<1>3. Rest(r)' \in Nat
    BY DeliveryAssumption DEF Rest, Tries, Delivering, Item
<1>4. Worked(r)
    BY <1>2, <1>3, Progress
<1>5. QED
    BY <1>1, <1>4

LEMMA DispatchWorks ==
    ASSUME Typed, NEW r \in Run, WorkAt(r), Dispatch(r) PROVE Worked(r) /\ Alone(r)
<1>1. /\ pc[r] = "execute" /\ pc'[r] \in {"post", "send"}
      /\ UNCHANGED <<rows, inbox, queue, cur, attempt>>
      /\ \A q \in Run \ {r} : pc'[q] = pc[q]
    BY DEF Dispatch, postgres, Typed, PlaceType
<1>2. attempt[r] = 1
    BY <1>1 DEF WorkAt, Tries, Typed, CountType
<1>3. 1 <= Tries(r)' /\ Rest(r)' < Rest(r)
    BY <1>1, <1>2, DeliveryAssumption DEF Tries, Rest, Item
<1>4. QED
    BY <1>1, <1>2, <1>3, Forward DEF Delivering

LEMMA PostWorks ==
    ASSUME Typed, NEW r \in Run, WorkAt(r), Post(r) PROVE Worked(r) /\ Alone(r)
<1>1. pc[r] = "post" /\ UNCHANGED <<rows, inbox, queue, cur>>
    BY DEF Post
<1>2. attempt[r] \in Nat /\ attempt[r] >= 1 /\ attempt[r] <= MaxPosts
    BY <1>1 DEF WorkAt, Tries, Typed, CountType
<1>3. CASE PostRetried(r)
  <2>1. pc' = pc /\ attempt'[r] = attempt[r] + 1 /\ attempt[r] < MaxPosts
      BY <1>3 DEF PostRetried, Typed, CountType
  <2>2. \A q \in Run \ {r} : pc'[q] = pc[q] /\ attempt'[q] = attempt[q]
      BY <1>3, <2>1 DEF PostRetried, Typed, CountType
  <2>3. attempt'[r] <= Tries(r)' /\ Rest(r)' < Rest(r)
      BY <1>1, <1>2, <2>1, DeliveryAssumption DEF Tries, Rest, Item
  <2>4. QED
      BY <1>1, <1>2, <2>1, <2>2, <2>3, Forward DEF Delivering
<1>4. CASE PostAccepted(r) \/ PostFailed(r)
  <2>1. pc'[r] \in {"mark", "send"} /\ attempt'[r] = 1
      BY <1>4 DEF PostAccepted, PostFailed, Typed, PlaceType, CountType
  <2>2. \A q \in Run \ {r} : pc'[q] = pc[q] /\ attempt'[q] = attempt[q]
      BY <1>4 DEF PostAccepted, PostFailed, Typed, PlaceType, CountType
  <2>3. attempt'[r] <= Tries(r)' /\ Rest(r)' < Rest(r)
      BY <1>1, <1>2, <2>1, DeliveryAssumption DEF Tries, Rest, Item
  <2>4. QED
      BY <1>1, <2>1, <2>2, <2>3, Forward DEF Delivering
<1>5. QED
    BY <1>3, <1>4 DEF Post

LEMMA MarkWorks ==
    ASSUME Typed, NEW r \in Run, WorkAt(r), Mark(r) PROVE Worked(r) /\ Alone(r)
<1>1. /\ pc[r] = "mark" /\ pc'[r] = "send"
      /\ UNCHANGED <<rows, inbox, queue, cur, attempt>>
      /\ \A q \in Run \ {r} : pc'[q] = pc[q]
    BY DEF Mark, Typed, PlaceType
<1>2. attempt[r] = 1
    BY <1>1 DEF WorkAt, Tries, Typed, CountType
<1>3. 1 <= Tries(r)' /\ Rest(r)' < Rest(r)
    BY <1>1, <1>2, DeliveryAssumption DEF Tries, Rest, Item
<1>4. QED
    BY <1>1, <1>2, <1>3, Forward DEF Delivering

LEMMA SendWorks ==
    ASSUME Typed, NEW r \in Run, WorkAt(r), Send(r) PROVE Worked(r) /\ Alone(r)
<1>1. /\ pc[r] = "send" /\ UNCHANGED <<rows, inbox>>
      /\ rows[cur[r]] \in queue[r]
    BY DEF Send, postgres, WorkAt, Delivering
<1>2. CASE Finish(r, rows[cur[r]])
  <2>1. Alone(r)
      BY <1>1, <1>2 DEF Finish, Alone, Untouched, Typed, ListType, PlaceType, CountType
  <2>2. Worked(r)
      BY <1>1, <1>2, Finishing
  <2>3. QED
      BY <2>1, <2>2
<1>3. CASE SendRetried(r)
  <2>1. /\ UNCHANGED <<queue, pc, cur>>
        /\ attempt[r] \in Nat /\ attempt[r] >= 1 /\ attempt[r] < MaxSends
        /\ attempt'[r] = attempt[r] + 1
        /\ \A q \in Run \ {r} : attempt'[q] = attempt[q]
      BY <1>3 DEF SendRetried, Typed, CountType
  <2>2. attempt'[r] <= Tries(r)' /\ Rest(r)' < Rest(r)
      BY <1>1, <2>1, DeliveryAssumption DEF Tries, Rest
  <2>3. QED
      BY <1>1, <2>1, <2>2, Forward DEF Delivering
<1>4. QED
    BY <1>2, <1>3 DEF Send, SendSkipped, SendAnswered, SendFailed

LEMMA ExitWorks ==
    ASSUME Typed, NEW r \in Run, WorkAt(r), pc[r] \in Active,
           NEW how \in Ended, Exit(r, how)
    PROVE  Worked(r) /\ Alone(r)
<1>1. /\ pc'[r] = how /\ inbox'[r] = {} /\ queue'[r] = {} /\ attempt'[r] = 1
    BY DEF Exit, Typed, ListType, PlaceType, CountType
<1>2. Alone(r)
    BY DEF Exit, Alone, Untouched, Typed, ListType, PlaceType, CountType
<1>3. Rest(r)' = 0 /\ Tries(r)' = 1
    BY <1>1 DEF Rest, Tries, Ended
<1>4. IsFiniteSet({}) /\ Cardinality({}) = 0
    BY FS_EmptySet
<1>5. WorkAt(r)'
    BY <1>1, <1>3, <1>4 DEF WorkAt, Delivering, Ended
<1> DEFINE i == Cardinality(inbox[r])
           q == Cardinality(queue[r])
           x == Rest(r)
<1>6. i \in Nat /\ q \in Nat /\ x \in Nat /\ x # 0
    BY WorkType DEF Active, Ended
<1>7. Work(r) = Load(i, q, x) /\ Work(r)' = Load(0, 0, 0)
    BY <1>1, <1>3, <1>4 DEF Work, Load, Item
<1> HIDE DEF i, q, x
<1>8. Load(0, 0, 0) = 0 /\ Load(i, q, x) \in Nat /\ Load(i, q, x) # 0
    BY <1>6, LoadType
<1>9. QED
    BY <1>2, <1>5, <1>7, <1>8 DEF Worked

LEMMA StepWorks ==
    ASSUME Typed, Ownership, NEW r \in Run, WorkAt(r), Step(r) \/ Crash(r)
    PROVE  Worked(r) /\ Alone(r)
<1>1. ASSUME Return(r) PROVE Worked(r) /\ Alone(r)
    BY <1>1, ExitWorks DEF Return, Active, Ended
<1>2. ASSUME Crash(r) PROVE Worked(r) /\ Alone(r)
    BY <1>2, ExitWorks DEF Crash, Ended
<1>3. QED
    BY <1>1, <1>2, ClaimWorks, CapWorks, PersistWorks, DispatchWorks, PostWorks, MarkWorks,
       SendWorks DEF Step

LEMMA WorkInit == Init => WorkInv
<1> SUFFICES ASSUME Init, NEW r \in Run PROVE WorkAt(r)
    BY DEF WorkInv
<1>1. /\ pc[r] = "claim" /\ inbox[r] = {a \in Alert : RunOf[a] = r} /\ queue[r] = {}
      /\ attempt[r] = 1
    BY DEF Init
<1>2. QED
    BY <1>1, BatchesAreFinite, FS_EmptySet DEF WorkAt, Tries, Delivering, Ended

(* Every step keeps the invariant, and raises the work of no run. *)
LEMMA WorkStep ==
    TypeInv /\ SafeInv /\ WorkInv /\ [Next]_vars =>
        /\ WorkInv'
        /\ \A r \in Run : Work(r)' <= Work(r) /\ (Step(r) => Work(r)' < Work(r))
<1> SUFFICES ASSUME Typed, Ownership, WorkInv, [Next]_vars, NEW r \in Run
             PROVE  WorkAt(r)' /\ Work(r)' <= Work(r) /\ (Step(r) => Work(r)' < Work(r))
    BY TypeParts DEF SafeInv, WorkInv
<1>1. WorkAt(r) /\ Work(r) \in Nat
    BY WorkType, LoadType DEF WorkInv, Work
<1>2. \A i \in RowIds : rows'[i] = rows[i]
    BY RowsStay
<1>3. Untouched(r) => WorkAt(r)' /\ Work(r)' = Work(r)
    BY <1>1, <1>2, UntouchedWork
<1>4. ASSUME NEW q \in Run, Step(q) \/ Crash(q) PROVE Worked(q) /\ Alone(q)
    BY <1>4, StepWorks DEF WorkInv
<1>5. Worked(r) \/ Untouched(r)
  <2>1. CASE \E q \in Run : Step(q) \/ Crash(q)
      BY <1>4, <2>1 DEF Alone
  <2>2. CASE \E k \in Key : Expire(k)
      BY <2>2 DEF Expire, local, Untouched
  <2>3. CASE UNCHANGED vars
      BY <2>3 DEF vars, local, Untouched
  <2>4. QED
      BY <2>1, <2>2, <2>3 DEF Next
<1>6. CASE Worked(r)
    BY <1>1, <1>6 DEF Worked
<1>7. CASE Untouched(r)
  <2>1. Step(r) => Work(r)' < Work(r)
      BY <1>4 DEF Worked
  <2>2. QED
      BY <1>1, <1>3, <1>7, <2>1
<1>8. QED
    BY <1>5, <1>6, <1>7

LEMMA WorkCounts == TypeInv /\ WorkInv => WorkBounded
<1> SUFFICES ASSUME Typed, WorkInv, NEW r \in Run
             PROVE  Work(r) \in Nat /\ (Work(r) = 0 <=> pc[r] \in Ended)
    BY TypeParts DEF WorkBounded
<1>1. WorkAt(r)
    BY DEF WorkInv
<1>2. /\ Work(r) \in Nat
      /\ Work(r) = 0 <=> /\ Cardinality(inbox[r]) = 0 /\ Cardinality(queue[r]) = 0
                         /\ Rest(r) = 0
    BY <1>1, WorkType, LoadType DEF Work
<1>3. pc[r] \in Ended => Cardinality(inbox[r]) = 0 /\ Cardinality(queue[r]) = 0
    BY <1>1, FS_EmptySet DEF WorkAt, Ended
<1>4. Rest(r) = 0 <=> pc[r] \in Ended
    BY <1>1, WorkType
<1>5. QED
    BY <1>2, <1>3, <1>4

(* A run of notify() has a bounded number of steps left, which every step  *)
(* of its own reduces and no other run, failure or expiration raises; at   *)
(* none it has returned or was killed.                                     *)
THEOREM RunsRunOut == Spec => []WorkBounded /\ WorkShrinks
<1>1. QED
    BY TypeInit, TypeStep, SafeInit, SafeStep, WorkInit, WorkStep, WorkCounts, PTL
       DEF Spec, WorkShrinks
=============================================================================
