-------------------------- MODULE GateState_proofs --------------------------
(***************************************************************************)
(* Proofs about GateState, for any runs, symbols and batches, any          *)
(* thresholds and any number of failures and expirations.                  *)
(***************************************************************************)
EXTENDS GateState, FiniteSetTheorems, TLAPS

-----------------------------------------------------------------------------
(* The definitions the proofs rest on *)

Memoryless == {"idle", "done", "dead"}

(* A process that is not at work has nothing in its memory; the alerts of  *)
(* one that is at work, and the runs at work, were added one by one.       *)
MemoryOK ==
    /\ \A r \in Run : pc[r] \in Memoryless => alerts[r] = {} /\ fails[r] = 0 /\ next[r] = 1
    /\ \A r \in Run : IsFiniteSet(alerts[r])
    /\ IsFiniteSet({r \in Run : pc[r] \in Stages})

(* A directional key of a run that has met no failure belongs to an alert  *)
(* the run holds, up to the clearing of its symbol.                        *)
HeldAt(r) ==
    /\ fails[r] = 0
    /\ \A c \in Directional : key[c] = r =>
          /\ pc[r] \in {"evaluate", "graduate", "clear", "dead"}
          /\ pc[r] \in {"evaluate", "graduate"} => c \in Held(r)
          /\ pc[r] = "clear" => \E i \in pending[r] : SymbolAt(r, i) = c[1]

HeldInv == \A r \in Run \ troubled : HeldAt(r)

-----------------------------------------------------------------------------
(* Type correctness *)

RedisOK ==
    /\ key \in [Candidate -> Run \union {NoRun}]
    /\ cycles \in [Symbol -> Nat]

LocalOK ==
    /\ batch \in [Run -> Batches \union {<<>>}]
    /\ next \in [Run -> Nat \ {0}]
    /\ \A r \in Run : next[r] <= Len(batch[r]) + 1
    /\ attempt \in [Run -> 1 .. MaxAttempts]

RunsOK ==
    /\ pc \in [Run -> Memoryless \union Stages]
    /\ alerts \in [Run -> SUBSET Nat]
    /\ pending \in [Run -> SUBSET Nat]

(* What a run has accepted are positions of its batch, and what its loop   *)
(* has still to visit is among them.                                       *)
PositionsOK ==
    \A r \in Run : pending[r] \subseteq alerts[r] /\ alerts[r] \subseteq 1 .. Len(batch[r])

MetOK ==
    /\ fails \in [Run -> 0 .. Threshold]
    /\ troubles \in Nat
    /\ troubled \subseteq Run

HistoryOK ==
    /\ expired \in [Symbol -> Nat]
    /\ stolen \in Nat
    /\ repeats \in [Symbol -> Nat]
    /\ sent \in [Directional -> SUBSET Run]

LEMMA TypeParts ==
    TypeOK <=> RedisOK /\ LocalOK /\ RunsOK /\ PositionsOK /\ MetOK /\ HistoryOK
BY DEF TypeOK, RedisOK, LocalOK, RunsOK, PositionsOK, MetOK, HistoryOK, Memoryless

Typed == RedisOK /\ LocalOK /\ RunsOK /\ PositionsOK /\ MetOK /\ HistoryOK /\ MemoryOK

LEMMA TypedInit == Init => Typed
<1> SUFFICES ASSUME Init PROVE Typed
    OBVIOUS
<1>1. RedisOK /\ RunsOK /\ PositionsOK /\ HistoryOK
    BY DEF Init, RedisOK, RunsOK, PositionsOK, HistoryOK, Memoryless
<1>2. LocalOK /\ MetOK
    BY GateAssumption DEF Init, LocalOK, MetOK
<1>3. {r \in Run : pc[r] \in Stages} = {}
    BY DEF Init, Stages
<1>4. MemoryOK
    BY <1>3, FS_EmptySet DEF Init, MemoryOK
<1>5. QED
    BY <1>1, <1>2, <1>4 DEF Typed

(* How the calls of one run go: nothing to note, or one trouble or more. *)
Meeting(r) ==
    \/ UNCHANGED met
    \/ Resent(r)
    \/ \E n \in Nat \ {0} : Raised(r, n)

LEMMA OneCall ==
    ASSUME NEW r \in Run, Skipped(r) \/ Answered(r) \/ Resent(r) \/ Raised(r, 1)
    PROVE  Meeting(r)
BY DEF Skipped, Answered, Meeting

LEMMA MeetingFrame ==
    ASSUME MetOK, NEW r \in Run, Meeting(r)
    PROVE  /\ MetOK' /\ troubles' >= troubles
           /\ \A q \in Run \ {r} : fails'[q] = fails[q]
           /\ fails' = fails \/ troubles' >= troubles + 1
           /\ r \notin troubled' => UNCHANGED met
           /\ troubled \subseteq troubled'
<1>1. CASE UNCHANGED met
    BY <1>1 DEF met, MetOK
<1>2. CASE Resent(r)
    BY <1>2 DEF Resent, Meets, MetOK
<1>3. ASSUME NEW n \in Nat \ {0}, Raised(r, n)
      PROVE  /\ MetOK' /\ troubles' >= troubles + 1
             /\ \A q \in Run \ {r} : fails'[q] = fails[q]
             /\ r \in troubled' /\ troubled \subseteq troubled'
  <2>1. /\ fails[r] + n <= Threshold /\ fails' = [fails EXCEPT ![r] = @ + n]
        /\ troubles' = troubles + n /\ troubled' = troubled \union {r}
      BY <1>3 DEF Raised, Meets
  <2>2. fails[r] \in 0 .. Threshold /\ troubles \in Nat /\ Threshold \in Nat
      BY GateAssumption DEF MetOK
  <2>3. fails[r] + n \in 0 .. Threshold /\ troubles + n \in Nat /\ troubles + n >= troubles + 1
      BY <2>1, <2>2
  <2>4. fails' \in [Run -> 0 .. Threshold]
      BY <2>1, <2>3 DEF MetOK
  <2>5. QED
      BY <2>1, <2>3, <2>4 DEF MetOK
<1>4. QED
    BY <1>1, <1>2, <1>3 DEF Meeting, met, MetOK

(* The candidate a run is at. *)
LEMMA CandidateAt ==
    ASSUME LocalOK, NEW r \in Run, next[r] <= Len(batch[r])
    PROVE  batch[r][next[r]] \in Candidate
<1>1. batch[r] \in Seq(Candidate) /\ next[r] \in Nat \ {0}
    BY GateAssumption DEF LocalOK
<1>2. QED
    BY <1>1

(* The alert at a position a run has accepted. *)
LEMMA AlertAt ==
    ASSUME LocalOK, PositionsOK, NEW r \in Run, NEW i \in alerts[r]
    PROVE  batch[r][i] \in Candidate /\ SymbolAt(r, i) \in Symbol
<1>1. batch[r] \in Seq(Candidate) /\ i \in 1 .. Len(batch[r])
    BY GateAssumption DEF LocalOK, PositionsOK
<1>2. batch[r][i] \in Candidate
    BY <1>1
<1>3. QED
    BY <1>2 DEF SymbolAt, Candidate

(* What a step of one run does to its positions. *)
Positioned(r) == pending'[r] \subseteq alerts'[r] /\ alerts'[r] \subseteq 1 .. Len(batch'[r])

LEMMA FewerPositions ==
    ASSUME PositionsOK, NEW r \in Run, batch' = batch,
           alerts'[r] \subseteq alerts[r], pending'[r] \subseteq alerts'[r]
    PROVE  Positioned(r)
BY DEF PositionsOK, Positioned

(* What a step of one run does to the memory of all. *)
OwnMemory(r) ==
    /\ \A q \in Run \ {r} :
          /\ pc'[q] = pc[q] /\ alerts'[q] = alerts[q]
          /\ fails'[q] = fails[q] /\ next'[q] = next[q]
          /\ pending'[q] = pending[q] /\ batch'[q] = batch[q]
    /\ \E c : alerts'[r] \subseteq alerts[r] \union {c}
    /\ Positioned(r)
    /\ pc'[r] \in Memoryless => alerts'[r] = {} /\ fails'[r] = 0 /\ next'[r] = 1

LEMMA OwnMemoryStep ==
    ASSUME MemoryOK, PositionsOK, NEW r \in Run, OwnMemory(r) PROVE MemoryOK' /\ PositionsOK'
<1>1. \A q \in Run : pc'[q] \in Memoryless => alerts'[q] = {} /\ fails'[q] = 0 /\ next'[q] = 1
    BY DEF MemoryOK, OwnMemory
<1>2. IsFiniteSet(alerts'[r])
  <2>1. PICK c : alerts'[r] \subseteq alerts[r] \union {c}
      BY DEF OwnMemory
  <2>2. IsFiniteSet(alerts[r] \union {c})
      BY FS_AddElement DEF MemoryOK
  <2>3. QED
      BY <2>1, <2>2, FS_Subset
<1>3. \A q \in Run : IsFiniteSet(alerts'[q])
    BY <1>2 DEF MemoryOK, OwnMemory
<1>4. IsFiniteSet({q \in Run : pc'[q] \in Stages})
  <2> DEFINE W == {q \in Run : pc[q] \in Stages}
             V == {q \in Run : pc'[q] \in Stages}
  <2>1. V \in SUBSET (W \union {r})
      BY DEF OwnMemory
  <2>2. IsFiniteSet(W)
      BY DEF MemoryOK
  <2> HIDE DEF W, V
  <2>3. IsFiniteSet(W \union {r})
      BY <2>2, FS_AddElement
  <2>4. IsFiniteSet(V)
      BY <2>1, <2>3, FS_Subset
  <2>5. QED
      BY <2>4 DEF V
<1>5. PositionsOK'
    BY DEF PositionsOK, OwnMemory, Positioned
<1>6. QED
    BY <1>1, <1>3, <1>4, <1>5 DEF MemoryOK

LEMMA StagesMemoryless == Stages \intersect Memoryless = {}
BY DEF Stages, Memoryless

LEMMA StartTyped == ASSUME Typed, NEW r \in Run, Start(r) PROVE Typed' /\ OwnMemory(r)
<1>1. RedisOK' /\ MetOK' /\ HistoryOK'
    BY DEF Typed, Start, RedisOK, MetOK, HistoryOK, redis, met, history
<1>2. LocalOK'
  <2>1. PICK b \in Batches : batch' = [batch EXCEPT ![r] = b]
      BY DEF Start
  <2>2. Len(b) \in Nat /\ next[r] = 1
      BY GateAssumption DEF Start, Typed, MemoryOK, Memoryless
  <2>3. QED
      BY <2>1, <2>2 DEF Typed, Start, LocalOK
<1>3. RunsOK'
    BY DEF Typed, Start, RunsOK, Stages
<1>4. Positioned(r)
    BY DEF Typed, Start, MemoryOK, PositionsOK, Memoryless, Positioned
<1>5. \A q \in Run \ {r} : batch'[q] = batch[q]
    BY DEF Start, Typed, LocalOK
<1>6. OwnMemory(r)
    BY <1>4, <1>5, StagesMemoryless DEF Typed, Start, RunsOK, OwnMemory, met, Stages
<1>7. QED
    BY <1>1, <1>2, <1>3, <1>6, OwnMemoryStep DEF Typed

(* What the SET of one candidate does. *)
LEMMA TrySetTyped ==
    ASSUME RedisOK, MetOK, NEW r \in Run, NEW c \in Candidate, TrySet(r, c)
    PROVE  /\ key' \in {key, Claimed(r, c)}
           /\ alerts' = alerts \/ alerts' = [alerts EXCEPT ![r] = @ \union {next[r]}]
           /\ Meeting(r)
BY OneCall DEF TrySet, Accept, Skipped, Answered

LEMMA ClaimedKey ==
    ASSUME RedisOK, NEW r \in Run, NEW c \in Candidate
    PROVE  Claimed(r, c) \in [Candidate -> Run \union {NoRun}]
BY DEF RedisOK, Claimed

LEMMA EvaluateTyped == ASSUME Typed, NEW r \in Run, Evaluate(r) PROVE Typed' /\ OwnMemory(r)
<1> DEFINE c == batch[r][next[r]]
<1>1. c \in Candidate
    BY CandidateAt DEF Typed, Evaluate
<1>2. Rejected(r, c) \/ TrySet(r, c)
    BY DEF Evaluate
<1> HIDE DEF c
<1>3. /\ key' \in {key, Claimed(r, c)}
      /\ alerts' = alerts \/ alerts' = [alerts EXCEPT ![r] = @ \union {next[r]}]
      /\ Meeting(r)
    BY <1>1, <1>2, TrySetTyped DEF Rejected, Meeting, Typed
<1>4. RedisOK'
    BY <1>1, <1>3, ClaimedKey DEF Evaluate, Typed, RedisOK
<1>5. LocalOK'
  <2>1. next' = [next EXCEPT ![r] = @ + 1] /\ UNCHANGED <<batch, attempt>> /\ next[r] <= Len(batch[r])
      BY DEF Evaluate
  <2>2. next[r] \in Nat \ {0} /\ Len(batch[r]) \in Nat
      BY GateAssumption DEF Typed, LocalOK
  <2>3. next[r] + 1 \in Nat \ {0} /\ next[r] + 1 <= Len(batch[r]) + 1
      BY <2>1, <2>2
  <2>4. QED
      BY <2>1, <2>3 DEF Typed, LocalOK
<1>6. RunsOK'
    BY <1>3 DEF Evaluate, Typed, RunsOK, LocalOK
<1>7. MetOK' /\ \A q \in Run \ {r} : fails'[q] = fails[q]
    BY <1>3, MeetingFrame DEF Typed
<1>8. HistoryOK'
    BY DEF Evaluate, Typed, HistoryOK, history
<1>9. OwnMemory(r)
  <2>1. pc'[r] \notin Memoryless
      BY DEF Evaluate, Memoryless
  <2>2. \A q \in Run \ {r} : pc'[q] = pc[q] /\ alerts'[q] = alerts[q] /\ next'[q] = next[q]
                             /\ pending'[q] = pending[q]
      BY <1>3 DEF Evaluate, Typed, RunsOK, LocalOK
  <2>3. alerts[r] \subseteq alerts'[r] /\ alerts'[r] \subseteq alerts[r] \union {next[r]}
      BY <1>3 DEF Typed, RunsOK
  <2>4. next[r] \in 1 .. Len(batch[r])
    <3>1. next[r] \in Nat \ {0} /\ next[r] <= Len(batch[r]) /\ Len(batch[r]) \in Nat
        BY GateAssumption DEF Evaluate, Typed, LocalOK
    <3>2. QED
        BY <3>1
  <2>5. Positioned(r)
      BY <2>3, <2>4 DEF Evaluate, Typed, PositionsOK, Positioned
  <2>6. QED
      BY <1>7, <2>1, <2>2, <2>3, <2>5 DEF Evaluate, OwnMemory
<1>10. QED
    BY <1>4, <1>5, <1>6, <1>7, <1>8, <1>9, OwnMemoryStep DEF Typed

LEMMA RankMeeting == ASSUME MemoryOK, NEW r \in Run, Rank(r) PROVE Meeting(r)
<1>1. IsFiniteSet(alerts[r]) /\ Watches(r) \subseteq alerts[r]
    BY DEF MemoryOK, Watches
<1>2. Cardinality(Watches(r)) \in Nat
    BY <1>1, FS_Subset, FS_CardinalityType
<1>3. \A n \in 1 .. Cardinality(Watches(r)) : n \in Nat \ {0}
    BY <1>2
<1>4. QED
    BY <1>3 DEF Rank, Meeting

(* The ranking keeps the WATCHes, or what is none. *)
LEMMA RankKeeps ==
    ASSUME RunsOK, NEW r \in Run, Rank(r)
    PROVE  /\ alerts' = [alerts EXCEPT ![r] = alerts'[r]]
           /\ pending' = [pending EXCEPT ![r] = alerts'[r]]
           /\ alerts'[r] = IF Graduates(r) = {} THEN Watches(r) ELSE Graduates(r)
           /\ alerts'[r] \subseteq alerts[r]
           /\ pc'[r] = IF Graduates(r) = {} THEN "decay" ELSE "graduate"
BY DEF Rank, RunsOK, Watches, Graduates

LEMMA RankTyped == ASSUME Typed, NEW r \in Run, Rank(r) PROVE Typed' /\ OwnMemory(r)
<1>1. Meeting(r)
    BY RankMeeting DEF Typed
<1>2. RedisOK' /\ LocalOK' /\ HistoryOK'
    BY DEF Rank, Typed, RedisOK, LocalOK, HistoryOK, redis, local, history
<1>3. /\ alerts' = [alerts EXCEPT ![r] = alerts'[r]]
      /\ pending' = [pending EXCEPT ![r] = alerts'[r]]
      /\ alerts'[r] \subseteq alerts[r]
    BY RankKeeps DEF Typed
<1>4. pc' \in [Run -> Memoryless \union Stages] /\ \A q \in Run \ {r} : pc'[q] = pc[q]
    BY DEF Rank, Typed, RunsOK, Stages
<1>5. RunsOK'
  <2>1. alerts'[r] \in SUBSET Nat
      BY <1>3 DEF Typed, RunsOK
  <2>2. QED
      BY <1>3, <1>4, <2>1 DEF Typed, RunsOK
<1>6. MetOK' /\ \A q \in Run \ {r} : fails'[q] = fails[q]
    BY <1>1, MeetingFrame DEF Typed
<1>7. OwnMemory(r)
  <2>1. pc'[r] \in Stages
      BY DEF Rank, Typed, RunsOK, Stages
  <2>2. \A q \in Run \ {r} : pc'[q] = pc[q] /\ alerts'[q] = alerts[q] /\ next'[q] = next[q]
                             /\ pending'[q] = pending[q] /\ batch'[q] = batch[q]
      BY <1>3, <1>4 DEF Rank, Typed, RunsOK, local
  <2>3. pending'[r] = alerts'[r]
      BY <1>3 DEF Typed, RunsOK
  <2>4. Positioned(r)
      BY <1>3, <2>3, FewerPositions DEF Rank, Typed, local
  <2>5. QED
      BY <1>3, <1>6, <2>1, <2>2, <2>4, StagesMemoryless DEF OwnMemory
<1>8. QED
    BY <1>2, <1>5, <1>6, <1>7, OwnMemoryStep DEF Typed

(* A loop visits the next alert, or is left. *)
LEMMA Visited ==
    ASSUME RunsOK, NEW r \in Run, NEW i, Visit(r, i)
    PROVE  /\ pending' \in [Run -> SUBSET Nat]
           /\ pending'[r] = pending[r] \ {i} /\ i \in pending[r]
           /\ \A q \in Run \ {r} : pending'[q] = pending[q]
<1>1. /\ pending' = [pending EXCEPT ![r] = pending[r] \ {i}] /\ pending[r] \ {i} \in SUBSET Nat
      /\ i \in pending[r]
    BY DEF Visit, RunsOK
<1>2. QED
    BY <1>1 DEF RunsOK

LEMMA Emptied ==
    ASSUME RunsOK, NEW r \in Run, pending' = [pending EXCEPT ![r] = {}]
    PROVE  /\ pending' \in [Run -> SUBSET Nat]
           /\ pending'[r] = {}
           /\ \A q \in Run \ {r} : pending'[q] = pending[q]
BY DEF RunsOK

LEMMA DropDecayedTyped == ASSUME Typed, NEW r \in Run, DropDecayed(r) PROVE Typed' /\ OwnMemory(r)
<1>1. PICK i \in pending[r] :
         /\ Visit(r, i)
         /\ \/ (Skipped(r) \/ Raised(r, 1)) /\ UNCHANGED alerts
            \/ /\ Answered(r)
               /\ IF cycles[SymbolAt(r, i)] >= DecayCycles THEN Drop(r, i) ELSE UNCHANGED alerts
    BY DEF DropDecayed
<1>2. Meeting(r)
    BY <1>1, OneCall
<1>3. alerts' = alerts \/ alerts' = [alerts EXCEPT ![r] = @ \ {i}]
    BY <1>1 DEF Drop
<1>4. RedisOK' /\ LocalOK' /\ HistoryOK'
    BY DEF DropDecayed, Typed, RedisOK, LocalOK, HistoryOK, redis, local, history
<1>5. RunsOK'
  <2>1. pc' = pc
      BY DEF DropDecayed
  <2>2. alerts' \in [Run -> SUBSET Nat]
      BY <1>3 DEF Typed, RunsOK
  <2>3. pending' \in [Run -> SUBSET Nat]
      BY <1>1, Visited DEF Typed
  <2>4. QED
      BY <2>1, <2>2, <2>3 DEF Typed, RunsOK
<1>6. MetOK' /\ \A q \in Run \ {r} : fails'[q] = fails[q]
    BY <1>2, MeetingFrame DEF Typed
<1>7. OwnMemory(r)
  <2>1. pc'[r] \notin Memoryless
      BY DEF DropDecayed, Memoryless
  <2>2. \A q \in Run \ {r} : pc'[q] = pc[q] /\ alerts'[q] = alerts[q] /\ next'[q] = next[q]
                             /\ batch'[q] = batch[q]
      BY <1>3 DEF DropDecayed, Typed, RunsOK, local
  <2>3. alerts'[r] \subseteq alerts[r] /\ alerts[r] \ {i} \subseteq alerts'[r]
      BY <1>3 DEF Typed, RunsOK
  <2>4. pending'[r] = pending[r] \ {i} /\ \A q \in Run \ {r} : pending'[q] = pending[q]
      BY <1>1, Visited DEF Typed
  <2>5. pending'[r] \subseteq alerts'[r]
      BY <2>3, <2>4 DEF Typed, PositionsOK
  <2>6. Positioned(r)
      BY <2>3, <2>5, FewerPositions DEF DropDecayed, Typed, local
  <2>7. QED
      BY <1>6, <2>1, <2>2, <2>3, <2>4, <2>6 DEF OwnMemory
<1>8. QED
    BY <1>4, <1>5, <1>6, <1>7, OwnMemoryStep DEF Typed

(* The cap keeps some of the WATCHes there are. *)
LEMMA CutSubset == ASSUME NEW S, NEW n, NEW T \in Cut(S, n) PROVE T \subseteq S
BY DEF Cut

LEMMA CapTyped == ASSUME Typed, NEW r \in Run, Cap(r) PROVE Typed' /\ OwnMemory(r)
<1>1. PICK kept \in Cut(alerts[r], Limit(r)) :
         /\ alerts' = [alerts EXCEPT ![r] = kept]
         /\ pending' = [pending EXCEPT ![r] = kept]
    BY DEF Cap
<1>2. kept \subseteq alerts[r]
    BY CutSubset
<1>3. RedisOK' /\ LocalOK' /\ HistoryOK' /\ MetOK'
    BY DEF Cap, Typed, RedisOK, LocalOK, HistoryOK, MetOK, redis, local, history, met
<1>4. RunsOK'
  <2>1. kept \in SUBSET Nat
      BY <1>2 DEF Typed, RunsOK
  <2>2. alerts' \in [Run -> SUBSET Nat] /\ pending' \in [Run -> SUBSET Nat]
      BY <1>1, <2>1 DEF Typed, RunsOK
  <2>3. QED
      BY <2>2 DEF Cap, Typed, RunsOK, Stages
<1>5. alerts'[r] = kept /\ pending'[r] = kept
    BY <1>1 DEF Typed, RunsOK
<1>6. Positioned(r)
    BY <1>2, <1>5, FewerPositions DEF Cap, Typed, local
<1>7. OwnMemory(r)
    BY <1>1, <1>2, <1>5, <1>6, StagesMemoryless
       DEF Cap, Typed, RunsOK, OwnMemory, met, local, Memoryless
<1>8. QED
    BY <1>3, <1>4, <1>7, OwnMemoryStep DEF Typed

LEMMA CountTyped == ASSUME Typed, NEW r \in Run, Count(r) PROVE Typed' /\ OwnMemory(r)
<1>1. PICK i \in pending[r], s \in Symbol :
         /\ Visit(r, i) /\ s = SymbolAt(r, i)
         /\ repeats' = [repeats EXCEPT ![s] = IF First(r, s) THEN @ + 1 ELSE @]
         /\ \/ Skipped(r) /\ UNCHANGED cycles
            \/ Answered(r) /\ cycles' = [cycles EXCEPT ![s] = @ + 1]
            \/ Resent(r) /\ cycles' = [cycles EXCEPT ![s] = @ + 2]
            \/ Raised(r, 1) /\ cycles' \in {cycles, [cycles EXCEPT ![s] = @ + 1]}
  <2>1. \A i \in pending[r] : SymbolAt(r, i) \in Symbol
      BY AlertAt DEF Typed, PositionsOK
  <2>2. QED
      BY <2>1 DEF Count
<1>2. Meeting(r)
    BY <1>1, OneCall
<1>3. RedisOK'
    BY <1>1 DEF Count, Typed, RedisOK
<1>4. HistoryOK'
  <2>1. repeats' \in [Symbol -> Nat]
      BY <1>1 DEF Typed, HistoryOK
  <2>2. QED
      BY <2>1 DEF Count, Typed, HistoryOK
<1>5. LocalOK'
    BY DEF Count, Typed, LocalOK, local
<1>6. RunsOK'
    BY <1>1, Visited DEF Count, Typed, RunsOK
<1>7. MetOK' /\ \A q \in Run \ {r} : fails'[q] = fails[q]
    BY <1>2, MeetingFrame DEF Typed
<1>8. OwnMemory(r)
  <2>1. pending'[r] \subseteq pending[r] /\ \A q \in Run \ {r} : pending'[q] = pending[q]
      BY <1>1, Visited DEF Typed
  <2>2. Positioned(r)
      BY <2>1, FewerPositions DEF Count, Typed, PositionsOK, local
  <2>3. QED
      BY <1>7, <2>1, <2>2 DEF Count, OwnMemory, local, Memoryless
<1>9. QED
    BY <1>3, <1>4, <1>5, <1>6, <1>7, <1>8, OwnMemoryStep DEF Typed

LEMMA GraduateTyped == ASSUME Typed, NEW r \in Run, Graduate(r) PROVE Typed' /\ OwnMemory(r)
<1>1. Meeting(r)
    BY OneCall DEF Graduate
<1>2. /\ cycles' = cycles \/ \E s : cycles' = [cycles EXCEPT ![s] = 0]
      /\ repeats' = repeats \/ \E s : repeats' = [repeats EXCEPT ![s] = 0]
    BY DEF Graduate
<1>3. RedisOK'
    BY <1>2 DEF Graduate, Typed, RedisOK
<1>4. HistoryOK'
    BY <1>2 DEF Graduate, Typed, HistoryOK
<1>5. LocalOK'
    BY DEF Graduate, Typed, LocalOK, local
<1>6. pending' = [pending EXCEPT ![r] = {}] \/ \E i \in pending[r] : Visit(r, i)
    BY DEF Graduate
<1>7. RunsOK'
  <2>1. pending' \in [Run -> SUBSET Nat]
      BY <1>6, Visited, Emptied DEF Typed
  <2>2. QED
      BY <2>1 DEF Graduate, Typed, RunsOK
<1>8. MetOK' /\ \A q \in Run \ {r} : fails'[q] = fails[q]
    BY <1>1, MeetingFrame DEF Typed
<1>9. OwnMemory(r)
  <2>1. pending'[r] \subseteq pending[r] /\ \A q \in Run \ {r} : pending'[q] = pending[q]
      BY <1>6, Visited, Emptied DEF Typed
  <2>2. Positioned(r)
      BY <2>1, FewerPositions DEF Graduate, Typed, PositionsOK, local
  <2>3. QED
      BY <1>8, <2>1, <2>2 DEF Graduate, OwnMemory, local, Memoryless
<1>10. QED
    BY <1>3, <1>4, <1>5, <1>7, <1>8, <1>9, OwnMemoryStep DEF Typed

(* The keys of one symbol that are cleared under other runs at work. *)
Taken(r, s, D) == {c \in {s} \X D : key[c] \notin {r, NoRun} /\ pc[key[c]] \in Stages}

LEMMA FreeEffect ==
    ASSUME NEW r, NEW s, NEW D \in SUBSET Direction, Free(r, s, D)
    PROVE  /\ key' = [c \in Candidate |-> IF c \in {s} \X D THEN NoRun ELSE key[c]]
           /\ stolen' = stolen + Cardinality(Taken(r, s, D))
           /\ Cardinality(Taken(r, s, D)) \in Nat
           /\ Taken(r, s, D) # {} => Cardinality(Taken(r, s, D)) >= 1
<1> DEFINE T == Taken(r, s, D)
<1>1. IsFiniteSet({} \union {<<s, "LONG">>})
    BY FS_EmptySet, FS_AddElement
<1>2. IsFiniteSet({} \union {<<s, "LONG">>} \union {<<s, "SHORT">>})
    BY <1>1, FS_AddElement
<1>3. IsFiniteSet({} \union {<<s, "LONG">>} \union {<<s, "SHORT">>} \union {<<s, "WATCH">>})
    BY <1>2, FS_AddElement
<1>4. T \in SUBSET ({} \union {<<s, "LONG">>} \union {<<s, "SHORT">>} \union {<<s, "WATCH">>})
  <2>1. \A c \in T : c = <<s, c[2]>> /\ c[2] \in D
      BY DEF Taken
  <2>2. \A c \in T : c[2] \in {"LONG", "SHORT", "WATCH"}
      BY <2>1 DEF Direction
  <2> HIDE DEF T
  <2>3. QED
      BY <2>1, <2>2
<1> HIDE DEF T
<1>5. IsFiniteSet(T)
    BY <1>3, <1>4, FS_Subset
<1>6. Cardinality(T) \in Nat /\ (Cardinality(T) = 0 <=> T = {})
    BY <1>5, FS_CardinalityType, FS_EmptySet
<1>7. T # {} => Cardinality(T) >= 1
    BY <1>6
<1>8. /\ key' = [c \in Candidate |-> IF c \in {s} \X D THEN NoRun ELSE key[c]]
      /\ stolen' = stolen + Cardinality(T)
    BY DEF Free, T, Taken
<1>9. QED
    BY <1>6, <1>7, <1>8 DEF T

LEMMA FreeTyped ==
    ASSUME RedisOK, HistoryOK, NEW r, NEW s, NEW D \in SUBSET Direction, Free(r, s, D)
    PROVE  key' \in [Candidate -> Run \union {NoRun}] /\ stolen' \in Nat /\ stolen' >= stolen
<1>1. stolen \in Nat /\ Cardinality(Taken(r, s, D)) \in Nat
      /\ stolen' = stolen + Cardinality(Taken(r, s, D))
    BY FreeEffect DEF HistoryOK
<1>2. key' = [c \in Candidate |-> IF c \in {s} \X D THEN NoRun ELSE key[c]]
    BY FreeEffect
<1>3. QED
    BY <1>1, <1>2 DEF RedisOK

LEMMA ClearFrees ==
    ASSUME Typed, NEW r \in Run, Clear(r)
    PROVE  \/ UNCHANGED <<key, stolen>>
           \/ \E s \in Symbol : \E D \in SUBSET Direction : Free(r, s, D)
<1>1. \A D \in {{}, {"LONG"}, {"LONG", "SHORT"}, Direction} : D \in SUBSET Direction
    BY DEF Direction
<1>2. \A i \in pending[r] : SymbolAt(r, i) \in Symbol
    BY AlertAt DEF Typed, PositionsOK
<1>3. QED
    BY <1>1, <1>2 DEF Clear

LEMMA ClearTyped == ASSUME Typed, NEW r \in Run, Clear(r) PROVE Typed' /\ OwnMemory(r)
<1>1. Meeting(r)
    BY OneCall DEF Clear
<1>2. key' \in [Candidate -> Run \union {NoRun}] /\ stolen' \in Nat
    BY ClearFrees, FreeTyped DEF Typed, RedisOK, HistoryOK
<1>3. RedisOK' /\ HistoryOK' /\ LocalOK'
    BY <1>2 DEF Clear, Typed, RedisOK, HistoryOK, LocalOK, local
<1>4. pending' = [pending EXCEPT ![r] = {}] \/ \E i \in pending[r] : Visit(r, i)
    BY DEF Clear
<1>5. RunsOK'
  <2>1. pending' \in [Run -> SUBSET Nat]
      BY <1>4, Visited, Emptied DEF Typed
  <2>2. QED
      BY <2>1 DEF Clear, Typed, RunsOK
<1>6. MetOK' /\ \A q \in Run \ {r} : fails'[q] = fails[q]
    BY <1>1, MeetingFrame DEF Typed
<1>7. OwnMemory(r)
  <2>1. pending'[r] \subseteq pending[r] /\ \A q \in Run \ {r} : pending'[q] = pending[q]
      BY <1>4, Visited, Emptied DEF Typed
  <2>2. Positioned(r)
      BY <2>1, FewerPositions DEF Clear, Typed, PositionsOK, local
  <2>3. QED
      BY <1>6, <2>1, <2>2 DEF Clear, OwnMemory, local, Memoryless
<1>8. QED
    BY <1>3, <1>5, <1>6, <1>7, OwnMemoryStep DEF Typed

LEMMA LoopEndsTyped == ASSUME Typed, NEW r \in Run, LoopEnds(r) PROVE Typed' /\ OwnMemory(r)
<1>1. RedisOK' /\ LocalOK' /\ HistoryOK' /\ MetOK'
    BY DEF LoopEnds, Typed, RedisOK, LocalOK, HistoryOK, MetOK, redis, local, history, met
<1>2. pending'[r] \subseteq alerts[r] /\ alerts' = alerts
    BY DEF LoopEnds, Typed, RunsOK
<1>3. pc' = [pc EXCEPT ![r] = IF pc[r] = "graduate" THEN "clear" ELSE "report"]
    BY DEF LoopEnds
<1>4. RunsOK'
    BY <1>2, <1>3 DEF LoopEnds, Typed, RunsOK, Stages
<1>5. Positioned(r)
    BY <1>2, FewerPositions DEF LoopEnds, Typed, local
<1>6. OwnMemory(r)
    BY <1>3, <1>5 DEF LoopEnds, Typed, RunsOK, OwnMemory, met, local, Memoryless
<1>7. QED
    BY <1>1, <1>4, <1>6, OwnMemoryStep DEF Typed

LEMMA ExitTyped ==
    ASSUME Typed, NEW r \in Run, NEW how \in {"done", "dead"}, Exit(r, how)
    PROVE  LocalOK' /\ RunsOK' /\ fails' \in [Run -> 0 .. Threshold] /\ OwnMemory(r)
<1>1. Len(<<>>) = 0 /\ 1 \in 1 .. MaxAttempts /\ 0 \in 0 .. Threshold
    BY GateAssumption
<1>2. LocalOK' /\ fails' \in [Run -> 0 .. Threshold]
    BY <1>1 DEF Exit, Typed, LocalOK, MetOK
<1>3. RunsOK'
    BY DEF Exit, Typed, RunsOK, Memoryless
<1>4. OwnMemory(r)
    BY DEF Exit, Typed, RunsOK, MetOK, LocalOK, OwnMemory, Positioned
<1>5. QED
    BY <1>2, <1>3, <1>4

LEMMA ReportTyped == ASSUME Typed, NEW r \in Run, Report(r) PROVE Typed' /\ OwnMemory(r)
<1>1. LocalOK' /\ RunsOK' /\ fails' \in [Run -> 0 .. Threshold] /\ OwnMemory(r)
    BY ExitTyped DEF Report
<1>2. RedisOK' /\ HistoryOK'
    BY DEF Report, Typed, RedisOK, HistoryOK, redis
<1>3. MetOK'
    BY <1>1 DEF Report, Typed, MetOK
<1>4. QED
    BY <1>1, <1>2, <1>3, OwnMemoryStep DEF Typed

LEMMA CrashTyped == ASSUME Typed, NEW r \in Run, Crash(r) PROVE Typed' /\ OwnMemory(r)
<1>1. LocalOK' /\ RunsOK' /\ fails' \in [Run -> 0 .. Threshold] /\ OwnMemory(r)
    BY ExitTyped DEF Crash
<1>2. RedisOK' /\ HistoryOK'
    BY DEF Crash, Typed, RedisOK, HistoryOK, redis, history
<1>3. MetOK'
    BY <1>1 DEF Crash, Typed, MetOK
<1>4. QED
    BY <1>1, <1>2, <1>3, OwnMemoryStep DEF Typed

LEMMA RetryTyped == ASSUME Typed, NEW r \in Run, Retry(r) PROVE Typed' /\ OwnMemory(r)
<1>1. RedisOK' /\ HistoryOK' /\ MetOK'
    BY DEF Retry, Typed, RedisOK, HistoryOK, MetOK, redis, history
<1>2. LocalOK'
  <2>1. attempt[r] + 1 \in 1 .. MaxAttempts
      BY GateAssumption DEF Retry, Typed, LocalOK
  <2>2. Len(batch[r]) \in Nat
      BY GateAssumption DEF Typed, LocalOK
  <2>3. QED
      BY <2>1, <2>2 DEF Retry, Typed, LocalOK
<1>3. RunsOK'
    BY DEF Retry, Typed, RunsOK, Stages
<1>4. OwnMemory(r)
    BY StagesMemoryless DEF Retry, Typed, RunsOK, LocalOK, OwnMemory, Positioned, Memoryless
<1>5. QED
    BY <1>1, <1>2, <1>3, <1>4, OwnMemoryStep DEF Typed

LEMMA ExpireTyped == ASSUME Typed, NEW c \in Candidate, Expire(c) PROVE Typed'
<1>1. LocalOK' /\ RunsOK' /\ PositionsOK' /\ MetOK' /\ MemoryOK'
    BY DEF Expire, Typed, LocalOK, RunsOK, PositionsOK, MetOK, MemoryOK, local, met
<1>2. RedisOK'
    BY DEF Expire, Typed, RedisOK
<1>3. c[1] \in Symbol
    BY DEF Candidate
<1>4. HistoryOK'
    BY <1>3 DEF Expire, Typed, HistoryOK
<1>5. QED
    BY <1>1, <1>2, <1>4 DEF Typed

LEMMA ForgetTyped == ASSUME Typed, NEW s \in Symbol, Forget(s) PROVE Typed'
<1>1. LocalOK' /\ RunsOK' /\ PositionsOK' /\ MetOK' /\ MemoryOK'
    BY DEF Forget, Typed, LocalOK, RunsOK, PositionsOK, MetOK, MemoryOK, local, met
<1>2. RedisOK' /\ HistoryOK'
    BY DEF Forget, Typed, RedisOK, HistoryOK
<1>3. QED
    BY <1>1, <1>2 DEF Typed

(* Whatever a run does is its own: the memory of the others stays. *)
LEMMA OwnStep ==
    ASSUME Typed, NEW r \in Run, Step(r) \/ Retry(r) \/ Crash(r)
    PROVE  Typed' /\ OwnMemory(r)
BY StartTyped, EvaluateTyped, RankTyped, DropDecayedTyped, CapTyped, CountTyped, GraduateTyped,
   ClearTyped, LoopEndsTyped, ReportTyped, RetryTyped, CrashTyped DEF Step

LEMMA TypedStep == Typed /\ [Next]_vars => Typed'
<1> SUFFICES ASSUME Typed, [Next]_vars PROVE Typed'
    OBVIOUS
<1>1. CASE UNCHANGED vars
    BY <1>1 DEF vars, redis, local, met, history, Typed, RedisOK, LocalOK, RunsOK, PositionsOK,
                MetOK, HistoryOK, MemoryOK
<1>2. QED
    BY <1>1, OwnStep, ExpireTyped, ForgetTyped DEF Next

(* The variables keep their types, the counters included. *)
THEOREM TypeCorrect == Spec => []TypeOK
BY TypedInit, TypedStep, TypeParts, PTL DEF Spec, Typed

-----------------------------------------------------------------------------
(* The keys of the directional alerts *)

(* The keys of the other runs: none comes to them by a step of this one. *)
LEMMA HeldElsewhere ==
    ASSUME Typed, HeldInv, NEW r \in Run, OwnMemory(r),
           \A c \in Directional : \A q \in Run \ {r} : key'[c] = q => key[c] = q,
           troubled \subseteq troubled',
           r \notin troubled' => HeldAt(r)'
    PROVE  HeldInv'
<1> SUFFICES ASSUME NEW q \in Run \ troubled', q # r PROVE HeldAt(q)'
    BY DEF HeldInv
<1>1. HeldAt(q)
    BY DEF HeldInv
<1>2. pc'[q] = pc[q] /\ alerts'[q] = alerts[q] /\ fails'[q] = fails[q] /\ pending'[q] = pending[q]
      /\ batch'[q] = batch[q]
    BY DEF OwnMemory
<1>3. \A c \in Directional : key'[c] = q => key[c] = q
    OBVIOUS
<1>4. Held(q)' = Held(q) /\ \A i : SymbolAt(q, i)' = SymbolAt(q, i)
    BY <1>2 DEF Held, SymbolAt
<1>5. QED
    BY <1>1, <1>2, <1>3, <1>4 DEF HeldAt

(* The alerts a run has accepted stay its alerts. *)
LEMMA HeldOn ==
    ASSUME NEW r \in Run, batch'[r] = batch[r]
    PROVE  /\ alerts[r] \subseteq alerts'[r] => Held(r) \subseteq Held(r)'
           /\ alerts'[r] \subseteq alerts[r] => Held(r)' \subseteq Held(r)
           /\ \A i \in alerts'[r] : batch[r][i] \in Held(r)'
           /\ \A i : SymbolAt(r, i)' = SymbolAt(r, i)
BY DEF Held, SymbolAt

(* A directional alert is to be graduated. *)
LEMMA HeldGraduates ==
    ASSUME NEW r \in Run, NEW c \in Directional, c \in Held(r)
    PROVE  \E i \in Graduates(r) : batch[r][i] = c /\ SymbolAt(r, i) = c[1]
<1>1. PICK i \in alerts[r] : batch[r][i] = c
    BY DEF Held
<1>2. c[2] # "WATCH"
    BY DEF Directional
<1>3. i \in Graduates(r)
    BY <1>1, <1>2 DEF Graduates, Watches
<1>4. QED
    BY <1>1, <1>3 DEF SymbolAt

(* A run that has met nothing so far, and meets nothing in its step. *)
LEMMA Untroubled ==
    ASSUME Typed, HeldInv, NEW r \in Run, r \notin troubled', Meeting(r)
    PROVE  /\ HeldAt(r) /\ ~Open(r) /\ UNCHANGED met
           /\ ~Skipped(r) /\ ~Resent(r) /\ \A n \in Nat \ {0} : ~Raised(r, n)
<1>1. UNCHANGED met /\ troubled \subseteq troubled'
    BY MeetingFrame DEF Typed
<1>2. HeldAt(r)
    BY <1>1 DEF HeldInv
<1>3. fails[r] = 0 /\ Threshold # 0
    BY <1>2, GateAssumption DEF HeldAt
<1>4. ~Open(r)
    BY <1>3 DEF Open
<1>5. QED
    BY <1>1, <1>2, <1>4 DEF Skipped, Resent, Raised, Meets

LEMMA StartHeld == ASSUME Typed, HeldInv, NEW r \in Run, Start(r) PROVE HeldInv'
<1>1. OwnMemory(r)
    BY StartTyped
<1>2. UNCHANGED <<key, fails, troubled>> /\ pc[r] = "idle"
    BY DEF Start, redis, met
<1>3. r \notin troubled => HeldAt(r)'
    BY <1>2 DEF HeldInv, HeldAt
<1>4. QED
    BY <1>1, <1>2, <1>3, HeldElsewhere

LEMMA EvaluateHeld == ASSUME Typed, HeldInv, NEW r \in Run, Evaluate(r) PROVE HeldInv'
<1> DEFINE c == batch[r][next[r]]
<1>1. OwnMemory(r)
    BY EvaluateTyped
<1>2. c \in Candidate
    BY CandidateAt DEF Typed, Evaluate
<1>3. Rejected(r, c) \/ TrySet(r, c)
    BY DEF Evaluate
<1>4. pc[r] = "evaluate" /\ UNCHANGED pc
    BY DEF Evaluate
<1> HIDE DEF c
<1>5. key' \in {key, Claimed(r, c)} /\ Meeting(r)
    BY <1>2, <1>3, TrySetTyped DEF Rejected, Meeting, Typed
<1>6. troubled \subseteq troubled'
    BY <1>5, MeetingFrame DEF Typed
<1>7. \A d \in Candidate : key'[d] = key[d] \/ (d = c /\ key'[d] = r)
    BY <1>5 DEF Claimed, Typed, RedisOK
<1>8. \A d \in Directional : \A q \in Run \ {r} : key'[d] = q => key[d] = q
    BY <1>7 DEF Directional, Candidate, Direction
<1>9. ASSUME r \notin troubled' PROVE HeldAt(r)'
  <2>1. HeldAt(r) /\ ~Skipped(r) /\ ~Resent(r) /\ ~Raised(r, 1) /\ UNCHANGED met
      BY <1>5, <1>9, Untroubled
  <2>2. \/ UNCHANGED <<key, alerts>>
        \/ key' = Claimed(r, c) /\ key[c] = NoRun /\ Accept(r)
        \/ key' = Claimed(r, c) /\ key[c] # NoRun /\ UNCHANGED alerts
      BY <1>3, <2>1 DEF Rejected, TrySet
  <2>3. \A d \in Directional : key'[d] = r => d \in Held(r)'
    <3>1. \A d \in Directional : key[d] = r => d \in Held(r)
        BY <1>4, <2>1 DEF HeldAt
    <3>2. batch'[r] = batch[r]
        BY DEF Evaluate
    <3>3. CASE UNCHANGED <<key, alerts>>
        BY <3>2, <3>1, <3>3, HeldOn
    <3>4. CASE key' = Claimed(r, c) /\ key[c] = NoRun /\ Accept(r)
      <4>1. alerts'[r] = alerts[r] \union {next[r]}
          BY <3>4 DEF Accept, Typed, RunsOK
      <4>2. Held(r) \subseteq Held(r)' /\ c \in Held(r)'
          BY <3>2, <4>1, HeldOn DEF c
      <4>3. QED
          BY <1>7, <3>1, <4>2 DEF Directional, Candidate, Direction
    <3>5. CASE key' = Claimed(r, c) /\ key[c] # NoRun /\ UNCHANGED alerts
        BY <3>2, <3>1, <3>5, HeldOn DEF Claimed
    <3>6. QED
        BY <2>2, <3>3, <3>4, <3>5
  <2>4. fails'[r] = 0 /\ pc'[r] = "evaluate"
      BY <1>4, <2>1 DEF HeldAt, met
  <2>5. QED
      BY <2>3, <2>4 DEF HeldAt
<1>10. QED
    BY <1>1, <1>6, <1>8, <1>9, HeldElsewhere

(* The directional alerts survive the ranking, and send the run to the     *)
(* graduations.                                                            *)
LEMMA RankHeld == ASSUME Typed, HeldInv, NEW r \in Run, Rank(r) PROVE HeldInv'
<1>1. OwnMemory(r)
    BY RankTyped
<1>2. UNCHANGED key /\ pc[r] = "evaluate"
    BY DEF Rank, redis
<1>3. Meeting(r)
    BY RankMeeting DEF Typed
<1>4. troubled \subseteq troubled'
    BY <1>3, MeetingFrame DEF Typed
<1>5. ASSUME r \notin troubled' PROVE HeldAt(r)'
  <2>1. HeldAt(r) /\ UNCHANGED met
      BY <1>3, <1>5, Untroubled
  <2>2. fails'[r] = 0
      BY <2>1 DEF HeldAt, met
  <2>3. ASSUME NEW c \in Directional, key'[c] = r
        PROVE  pc'[r] = "graduate" /\ c \in Held(r)'
    <3>1. c \in Held(r)
        BY <1>2, <2>1, <2>3 DEF HeldAt
    <3>2. PICK i \in Graduates(r) : batch[r][i] = c
        BY <3>1, HeldGraduates
    <3>3. pc'[r] = "graduate" /\ i \in alerts'[r]
        BY <3>2, RankKeeps DEF Typed
    <3>4. batch'[r] = batch[r]
        BY DEF Rank, local
    <3>5. QED
        BY <3>2, <3>3, <3>4, HeldOn
  <2>4. QED
      BY <2>2, <2>3 DEF HeldAt
<1>6. QED
    BY <1>1, <1>2, <1>4, <1>5, HeldElsewhere

(* The steps that handle WATCHes: the run has no directional key left. *)
LEMMA WatchesHeld ==
    ASSUME Typed, HeldInv, NEW r \in Run, DropDecayed(r) \/ Cap(r) \/ Count(r)
    PROVE  HeldInv'
<1>1. OwnMemory(r)
    BY DropDecayedTyped, CapTyped, CountTyped
<1>2. UNCHANGED key /\ pc[r] \in {"decay", "count"}
    BY DEF DropDecayed, Cap, Count, redis
<1>3. Meeting(r)
    BY OneCall DEF DropDecayed, Cap, Count, Meeting
<1>4. troubled \subseteq troubled'
    BY <1>3, MeetingFrame DEF Typed
<1>5. ASSUME r \notin troubled' PROVE HeldAt(r)'
  <2>1. HeldAt(r) /\ UNCHANGED met
      BY <1>3, <1>5, Untroubled
  <2>2. QED
      BY <1>2, <2>1 DEF HeldAt, met
<1>6. QED
    BY <1>1, <1>2, <1>4, <1>5, HeldElsewhere

LEMMA GraduateHeld == ASSUME Typed, HeldInv, NEW r \in Run, Graduate(r) PROVE HeldInv'
<1>1. OwnMemory(r)
    BY GraduateTyped
<1>2. UNCHANGED <<key, pc, alerts, batch>> /\ pc[r] = "graduate"
    BY DEF Graduate, local
<1>3. Meeting(r)
    BY OneCall DEF Graduate
<1>4. troubled \subseteq troubled'
    BY <1>3, MeetingFrame DEF Typed
<1>5. ASSUME r \notin troubled' PROVE HeldAt(r)'
  <2>1. HeldAt(r) /\ UNCHANGED met
      BY <1>3, <1>5, Untroubled
  <2>2. Held(r)' = Held(r)
      BY <1>2 DEF Held
  <2>3. QED
      BY <1>2, <2>1, <2>2 DEF HeldAt, met
<1>6. QED
    BY <1>1, <1>2, <1>4, <1>5, HeldElsewhere

(* A symbol that is visited has none of its keys left. *)
LEMMA ClearHeld == ASSUME Typed, HeldInv, NEW r \in Run, Clear(r) PROVE HeldInv'
<1>1. OwnMemory(r)
    BY ClearTyped
<1>2. UNCHANGED <<pc, alerts, batch>> /\ pc[r] = "clear"
    BY DEF Clear, local
<1>3. Meeting(r)
    BY OneCall DEF Clear
<1>4. troubled \subseteq troubled'
    BY <1>3, MeetingFrame DEF Typed
<1>5. \A c \in Candidate : key'[c] \in {key[c], NoRun}
  <2>1. ASSUME NEW s \in Symbol, NEW D \in SUBSET Direction, Free(r, s, D)
        PROVE  \A c \in Candidate : key'[c] \in {key[c], NoRun}
      BY <2>1 DEF Free
  <2>2. QED
      BY <2>1, ClearFrees DEF Typed
<1>6. \A c \in Directional : c \in Candidate
    BY DEF Directional, Candidate, Direction
<1>7. \A c \in Directional : \A q \in Run : key'[c] = q => key[c] = q
    BY <1>5, <1>6, GateAssumption
<1>8. ASSUME r \notin troubled' PROVE HeldAt(r)'
  <2>1. HeldAt(r) /\ UNCHANGED met /\ ~Skipped(r) /\ ~Resent(r) /\ ~Raised(r, 1)
      BY <1>3, <1>8, Untroubled
  <2>2. PICK i \in pending[r] : Visit(r, i) /\ Free(r, SymbolAt(r, i), Direction)
      BY <2>1 DEF Clear
  <2>3. pending'[r] = pending[r] \ {i}
      BY <2>2, Visited DEF Typed
  <2>4. ASSUME NEW c \in Directional, key'[c] = r
        PROVE  \E j \in pending'[r] : SymbolAt(r, j)' = c[1]
    <3>1. PICK j \in pending[r] : SymbolAt(r, j) = c[1]
        BY <1>2, <1>7, <2>1, <2>4 DEF HeldAt
    <3>2. j # i
      <4>1. key'[c] = IF c \in {SymbolAt(r, i)} \X Direction THEN NoRun ELSE key[c]
          BY <1>6, <2>2 DEF Free
      <4>2. c = <<c[1], c[2]>> /\ c[2] \in Direction
          BY DEF Directional, Direction
      <4>3. c[1] # SymbolAt(r, i)
          BY <2>4, <4>1, <4>2, GateAssumption
      <4>4. QED
          BY <3>1, <4>3
    <3>3. SymbolAt(r, j)' = SymbolAt(r, j)
        BY <1>2 DEF SymbolAt
    <3>4. QED
        BY <2>3, <3>1, <3>2, <3>3
  <2>5. fails'[r] = 0 /\ pc'[r] = "clear"
      BY <1>2, <2>1 DEF HeldAt, met
  <2>6. QED
      BY <2>4, <2>5 DEF HeldAt
<1>9. QED
    BY <1>1, <1>4, <1>7, <1>8, HeldElsewhere

(* Every symbol of an alert the run holds is to be cleared. *)
LEMMA LoopEndsHeld == ASSUME Typed, HeldInv, NEW r \in Run, LoopEnds(r) PROVE HeldInv'
<1>1. OwnMemory(r)
    BY LoopEndsTyped
<1>2. UNCHANGED <<key, fails, troubled>>
    BY DEF LoopEnds, redis, met
<1>3. ASSUME r \notin troubled PROVE HeldAt(r)'
  <2>1. HeldAt(r) /\ fails'[r] = 0
      BY <1>2, <1>3 DEF HeldInv, HeldAt
  <2>2. ASSUME NEW c \in Directional, key'[c] = r
        PROVE  pc'[r] = "clear" /\ \E i \in pending'[r] : SymbolAt(r, i)' = c[1]
    <3>1. pc[r] = "graduate" /\ c \in Held(r)
        BY <1>2, <2>1, <2>2 DEF HeldAt, LoopEnds
    <3>2. PICK i \in alerts[r] : SymbolAt(r, i) = c[1]
        BY <3>1, HeldGraduates DEF Graduates
    <3>3. pc'[r] = "clear" /\ pending'[r] = alerts[r] /\ SymbolAt(r, i)' = SymbolAt(r, i)
        BY <3>1 DEF LoopEnds, Typed, RunsOK, local, SymbolAt
    <3>4. QED
        BY <3>2, <3>3
  <2>3. QED
      BY <2>1, <2>2 DEF HeldAt
<1>4. QED
    BY <1>1, <1>2, <1>3, HeldElsewhere

(* A run that returns has none left, and one that dies keeps its own. *)
LEMMA ExitHeld ==
    ASSUME Typed, HeldInv, NEW r \in Run, Report(r) \/ Crash(r)
    PROVE  HeldInv'
<1>1. OwnMemory(r)
    BY ReportTyped, CrashTyped
<1>2. UNCHANGED <<key, troubled>>
    BY DEF Report, Crash, redis
<1>3. fails'[r] = 0 /\ (pc[r] = "report" \/ pc'[r] = "dead")
    BY DEF Report, Crash, Exit, Typed, MetOK, RunsOK
<1>4. r \notin troubled => HeldAt(r)'
    BY <1>2, <1>3 DEF HeldInv, HeldAt
<1>5. QED
    BY <1>1, <1>2, <1>4, HeldElsewhere

LEMMA RetryHeld == ASSUME Typed, HeldInv, NEW r \in Run, Retry(r) PROVE HeldInv'
<1>1. OwnMemory(r)
    BY RetryTyped
<1>2. UNCHANGED key /\ troubled \subseteq troubled' /\ r \in troubled'
    BY DEF Retry, redis
<1>3. QED
    BY <1>1, <1>2, HeldElsewhere

LEMMA ExpireHeld == ASSUME Typed, HeldInv, NEW c \in Candidate, Expire(c) PROVE HeldInv'
<1> SUFFICES ASSUME NEW q \in Run \ troubled' PROVE HeldAt(q)'
    BY DEF HeldInv
<1>1. UNCHANGED <<pc, batch, alerts, pending, fails, troubled>> /\ key' = [key EXCEPT ![c] = NoRun]
    BY DEF Expire, met, local
<1>2. \A d \in Candidate : key'[d] = q => key[d] = q
    BY <1>1, GateAssumption DEF Typed, RedisOK
<1>3. \A d \in Directional : d \in Candidate
    BY DEF Directional, Candidate, Direction
<1>4. Held(q)' = Held(q) /\ \A i : SymbolAt(q, i)' = SymbolAt(q, i)
    BY <1>1 DEF Held, SymbolAt
<1>5. QED
    BY <1>1, <1>2, <1>3, <1>4 DEF HeldInv, HeldAt

(* A step that touches neither a directional key nor the memory of a run. *)
LEMMA SameHeld ==
    ASSUME HeldInv, UNCHANGED <<key, pc, batch, alerts, pending, fails, troubled>>
    PROVE  HeldInv'
<1> SUFFICES ASSUME NEW q \in Run \ troubled' PROVE HeldAt(q)'
    BY DEF HeldInv
<1>1. Held(q)' = Held(q) /\ \A i : SymbolAt(q, i)' = SymbolAt(q, i)
    BY DEF Held, SymbolAt
<1>2. QED
    BY <1>1 DEF HeldInv, HeldAt

LEMMA ForgetHeld == ASSUME HeldInv, NEW s \in Symbol, Forget(s) PROVE HeldInv'
BY SameHeld DEF Forget, met, local

LEMMA HeldInit == Init => HeldInv
<1> SUFFICES ASSUME Init PROVE HeldInv
    OBVIOUS
<1>1. \A c \in Directional : c \in Candidate
    BY DEF Directional, Candidate, Direction
<1>2. QED
    BY <1>1, GateAssumption DEF Init, HeldInv, HeldAt

LEMMA HeldStep == Typed /\ HeldInv /\ [Next]_vars => HeldInv'
<1> SUFFICES ASSUME Typed, HeldInv, [Next]_vars PROVE HeldInv'
    OBVIOUS
<1>1. CASE UNCHANGED vars
    BY <1>1, SameHeld DEF vars, redis, local, met
<1>2. ASSUME NEW r \in Run, Step(r) PROVE HeldInv'
    BY <1>2, StartHeld, EvaluateHeld, RankHeld, WatchesHeld, GraduateHeld, ClearHeld,
       LoopEndsHeld, ExitHeld DEF Step
<1>3. QED
    BY <1>1, <1>2, ExitHeld, RetryHeld, ExpireHeld, ForgetHeld DEF Next

LEMMA HeldKeysAreLive == HeldInv => DirectionalKeyIsLive
BY DEF HeldInv, HeldAt, DirectionalKeyIsLive, Stages

(* Whatever the interleaving, a directional dedup key that is set belongs  *)
(* to a run still at work, to one that died, or to one that met a failure. *)
THEOREM DirectionalKeysAreLive == Spec => []DirectionalKeyIsLive
BY TypedInit, TypedStep, HeldInit, HeldStep, HeldKeysAreLive, PTL DEF Spec

-----------------------------------------------------------------------------
(* What the alerts of a run are *)

AlertsPassing == \A r \in Run : Held(r) \subseteq Passing[r]

(* A step leaves the alerts of the other runs alone.  It adds at most one  *)
(* candidate to those of its own, and that candidate has passed.           *)
LEMMA AlertsMove ==
    ASSUME Typed, NEW r \in Run, Step(r) \/ Retry(r) \/ Crash(r)
    PROVE  /\ \A q \in Run \ {r} : Held(q)' = Held(q)
           /\ Held(r)' \subseteq Held(r) \union Passing[r]
<1>1. OwnMemory(r)
    BY OwnStep
<1>2. \A q \in Run \ {r} : Held(q)' = Held(q)
    BY <1>1 DEF OwnMemory, Held
<1>3. CASE Evaluate(r)
  <2> DEFINE c == batch[r][next[r]]
  <2>1. (Rejected(r, c) \/ (c \in Passing[r] /\ TrySet(r, c))) /\ UNCHANGED batch
    BY <1>3 DEF Evaluate
  <2>2. UNCHANGED alerts \/ (c \in Passing[r] /\ Accept(r))
    BY <2>1 DEF Rejected, TrySet
  <2>3. alerts'[r] \subseteq alerts[r] \/ (c \in Passing[r] /\ alerts'[r] = alerts[r] \union {next[r]})
    BY <2>2 DEF Accept, Typed, RunsOK
  <2>4. QED
    BY <1>2, <2>1, <2>3 DEF Held
<1>4. CASE alerts'[r] = {}
    BY <1>2, <1>4 DEF Held
<1>5. CASE alerts'[r] \subseteq alerts[r] /\ UNCHANGED batch
    BY <1>2, <1>5, HeldOn
<1>6. CASE Start(r)
    BY <1>4, <1>6 DEF Start, Typed, MemoryOK, Memoryless
<1>7. CASE Rank(r)
    BY <1>5, <1>7, RankKeeps DEF Rank, local, Typed
<1>8. CASE DropDecayed(r)
  <2>1. (\E i : UNCHANGED alerts \/ Drop(r, i)) /\ UNCHANGED batch
    BY <1>8 DEF DropDecayed, local
  <2>2. alerts'[r] \subseteq alerts[r]
    BY <2>1 DEF Drop, Typed, RunsOK
  <2>3. QED
    BY <1>5, <2>1, <2>2
<1>9. CASE Cap(r)
  <2>1. PICK kept \in Cut(alerts[r], Limit(r)) : alerts' = [alerts EXCEPT ![r] = kept]
    BY <1>9 DEF Cap
  <2>2. alerts'[r] \subseteq alerts[r] /\ UNCHANGED batch
    BY <1>9, <2>1, CutSubset DEF Cap, local, Typed, RunsOK
  <2>3. QED
    BY <1>5, <2>2
<1>10. CASE Report(r) \/ Retry(r) \/ Crash(r)
    BY <1>4, <1>10 DEF Report, Retry, Crash, Exit, Typed, RunsOK
<1>11. CASE Count(r) \/ Graduate(r) \/ Clear(r) \/ LoopEnds(r)
    BY <1>5, <1>11 DEF Count, Graduate, Clear, LoopEnds, local
<1>12. QED
    BY <1>3, <1>6, <1>7, <1>8, <1>9, <1>10, <1>11 DEF Step

LEMMA PassingStep == Typed /\ AlertsPassing /\ [Next]_vars => AlertsPassing'
<1> SUFFICES ASSUME Typed, AlertsPassing, [Next]_vars PROVE AlertsPassing'
    OBVIOUS
<1>1. CASE UNCHANGED <<alerts, batch>>
  <2>1. \A r \in Run : Held(r)' = Held(r)
    BY <1>1 DEF Held
  <2>2. QED
    BY <2>1 DEF AlertsPassing
<1>2. ASSUME NEW r \in Run, Step(r) \/ Retry(r) \/ Crash(r) PROVE AlertsPassing'
  <2>1. /\ \A q \in Run \ {r} : Held(q)' = Held(q)
        /\ Held(r)' \subseteq Held(r) \union Passing[r]
    BY <1>2, AlertsMove
  <2>2. QED
    BY <2>1 DEF AlertsPassing
<1>3. ASSUME NEW c \in Candidate, Expire(c) PROVE UNCHANGED <<alerts, batch>>
    BY <1>3 DEF Expire, local
<1>4. ASSUME NEW s \in Symbol, Forget(s) PROVE UNCHANGED <<alerts, batch>>
    BY <1>4 DEF Forget, local
<1>5. UNCHANGED vars => UNCHANGED <<alerts, batch>>
    BY DEF vars, local
<1>6. QED
    BY <1>1, <1>2, <1>3, <1>4, <1>5 DEF Next

(* However its step is interrupted and repeated, a run holds no alert that *)
(* its own gates have not let pass.                                        *)
THEOREM AlertsHavePassed == Spec => []AlertsPassing
<1>1. Init => AlertsPassing
    BY DEF Init, AlertsPassing, Held
<1>2. QED
    BY <1>1, TypedInit, TypedStep, PassingStep, PTL DEF Spec
=============================================================================
