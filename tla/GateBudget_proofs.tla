-------------------------- MODULE GateBudget_proofs --------------------------
(***************************************************************************)
(* The proof that a WATCH stops repeating (RepeatsBounded of GateState),   *)
(* whatever the interleaving of the runs.                                  *)
(***************************************************************************)
EXTENDS GateState_proofs

-----------------------------------------------------------------------------
(* The inductive invariant *)

(* The WATCHes of s among the alerts of a run; after the ranking it has no *)
(* other alerts than WATCHes, as long as it counts them.                   *)
Copies(r, s) == {i \in alerts[r] : batch[r][i] = <<s, "WATCH">>}

WatchesOnly ==
    \A r \in Run : pc[r] \in {"decay", "count"} =>
        \A i \in alerts[r] : batch[r][i][2] = "WATCH"

(* The runs that may still let WATCHes of s through: those that hold some, *)
(* none of them counted, and those whose open circuit lets any pass.       *)
Holds(r, s) ==
    /\ Copies(r, s) # {}
    /\ pc[r] \in {"evaluate", "decay", "count"}
    /\ pc[r] = "count" => Copies(r, s) \subseteq pending[r]

Hopeful(s) == {r \in Run : Holds(r, s) \/ (pc[r] = "evaluate" /\ Open(r))}

(* Of those the dedup key admits one; each other one has cost a failure,   *)
(* or a key that was cleared under it, as has one whose circuit is open.   *)
Extra(s) == {r \in Hopeful(s) : Open(r) \/ r # key[<<s, "WATCH">>]}

(* Those that no longer depend on the cycle counter. *)
Certain(s) ==
    {r \in Hopeful(s) :
        \/ Open(r)
        \/ pc[r] = "decay" /\ ~(Copies(r, s) \subseteq pending[r])
        \/ pc[r] = "count"}

Paid == troubles + stolen

(* RepeatsBounded with the runs in flight: the counter falls behind the    *)
(* repeats by no more than what has been paid.                             *)
BudgetAt(s) ==
    /\ Cardinality(Extra(s)) <= Paid
    /\ repeats[s] + Cardinality(Extra(s)) <= cycles[s] + Paid
    /\ repeats[s] + Cardinality(Certain(s)) <= DecayCycles + Paid

Budget == \A s \in Symbol : BudgetAt(s)

-----------------------------------------------------------------------------
(* Lemmas on the sizes *)

LEMMA Grown ==
    ASSUME NEW A, NEW B, NEW q, IsFiniteSet(A), B \subseteq A \union {q}
    PROVE  /\ IsFiniteSet(B)
           /\ Cardinality(A) \in Nat /\ Cardinality(B) \in Nat
           /\ Cardinality(B) <= Cardinality(A) + 1
<1>1. IsFiniteSet(A \union {q}) /\ Cardinality(A \union {q}) <= Cardinality(A) + 1
  <2>1. Cardinality(A) \in Nat
      BY FS_CardinalityType
  <2>2. /\ IsFiniteSet(A \union {q})
        /\ Cardinality(A \union {q}) = IF q \in A THEN Cardinality(A) ELSE Cardinality(A) + 1
      BY FS_AddElement
  <2>3. QED
      BY <2>1, <2>2
<1>2. IsFiniteSet(B) /\ Cardinality(B) <= Cardinality(A \union {q})
    BY <1>1, FS_Subset
<1>3. Cardinality(A) \in Nat
    BY FS_CardinalityType
<1>4. Cardinality(B) \in Nat
    BY <1>2, FS_CardinalityType
<1>5. Cardinality(A \union {q}) \in Nat
    BY <1>1, FS_CardinalityType
<1>6. QED
    BY <1>1, <1>2, <1>3, <1>4, <1>5

LEMMA NotGrown ==
    ASSUME NEW A, NEW B, IsFiniteSet(A), B \subseteq A
    PROVE  /\ Cardinality(A) \in Nat /\ Cardinality(B) \in Nat
           /\ Cardinality(B) <= Cardinality(A)
<1>1. IsFiniteSet(B) /\ Cardinality(B) <= Cardinality(A)
    BY FS_Subset
<1>2. Cardinality(B) \in Nat
    BY <1>1, FS_CardinalityType
<1>3. Cardinality(A) \in Nat
    BY FS_CardinalityType
<1>4. QED
    BY <1>1, <1>2, <1>3

LEMMA Shrunk ==
    ASSUME NEW A, NEW B, NEW q \in A, IsFiniteSet(A), B \subseteq A \ {q}
    PROVE  /\ Cardinality(A) \in Nat /\ Cardinality(B) \in Nat
           /\ Cardinality(B) <= Cardinality(A) - 1
<1>1. IsFiniteSet(A \ {q}) /\ Cardinality(A \ {q}) = Cardinality(A) - 1
    BY FS_RemoveElement
<1>2. Cardinality(B) \in Nat /\ Cardinality(B) <= Cardinality(A \ {q})
    BY <1>1, NotGrown
<1>3. Cardinality(A) \in Nat
    BY FS_CardinalityType
<1>4. QED
    BY <1>1, <1>2, <1>3

(* The runs that may let a WATCH through are at work, so there are only    *)
(* finitely many.                                                          *)
LEMMA HopefulFinite ==
    ASSUME Typed, NEW s
    PROVE  IsFiniteSet(Hopeful(s)) /\ IsFiniteSet(Extra(s)) /\ IsFiniteSet(Certain(s))
<1>1. Hopeful(s) \subseteq {r \in Run : pc[r] \in Stages}
    BY DEF Hopeful, Holds, Stages
<1>2. IsFiniteSet(Hopeful(s))
    BY <1>1, FS_Subset DEF Typed, MemoryOK
<1>3. Extra(s) \subseteq Hopeful(s) /\ Certain(s) \subseteq Hopeful(s)
    BY DEF Extra, Certain
<1>4. IsFiniteSet(Extra(s))
    BY <1>2, <1>3, FS_Subset
<1>5. IsFiniteSet(Certain(s))
    BY <1>2, <1>3, FS_Subset
<1>6. QED
    BY <1>2, <1>4, <1>5

(* All but the owner of the key are extra. *)
LEMMA HopefulNearlyExtra ==
    ASSUME Typed, NEW s
    PROVE  /\ Cardinality(Hopeful(s)) \in Nat /\ Cardinality(Extra(s)) \in Nat
           /\ Cardinality(Hopeful(s)) <= Cardinality(Extra(s)) + 1
           /\ Cardinality(Certain(s)) \in Nat
           /\ Cardinality(Certain(s)) <= Cardinality(Hopeful(s))
<1>1. Hopeful(s) \subseteq Extra(s) \union {key[<<s, "WATCH">>]}
    BY DEF Extra
<1>2. IsFiniteSet(Hopeful(s)) /\ IsFiniteSet(Extra(s))
    BY HopefulFinite
<1>3. /\ Cardinality(Hopeful(s)) \in Nat /\ Cardinality(Extra(s)) \in Nat
      /\ Cardinality(Hopeful(s)) <= Cardinality(Extra(s)) + 1
    BY <1>1, <1>2, Grown
<1>4. Certain(s) \subseteq Hopeful(s)
    BY DEF Certain
<1>5. Cardinality(Certain(s)) \in Nat /\ Cardinality(Certain(s)) <= Cardinality(Hopeful(s))
    BY <1>2, <1>4, NotGrown
<1>6. QED
    BY <1>3, <1>5

LEMMA NaturalCounts ==
    ASSUME Typed, NEW s \in Symbol
    PROVE  /\ repeats[s] \in Nat /\ cycles[s] \in Nat /\ troubles \in Nat /\ stolen \in Nat
           /\ Paid \in Nat /\ DecayCycles \in Nat \ {0}
BY GateAssumption DEF Typed, RedisOK, MetOK, HistoryOK, Paid

LEMMA NaturalCountsNext ==
    ASSUME Typed', NEW s \in Symbol
    PROVE  repeats'[s] \in Nat /\ cycles'[s] \in Nat /\ Paid' \in Nat
<1>1. repeats'[s] \in Nat /\ cycles'[s] \in Nat
    BY DEF Typed, RedisOK, HistoryOK
<1>2. troubles' \in Nat /\ stolen' \in Nat
    BY DEF Typed, MetOK, HistoryOK
<1> DEFINE a == troubles'
           b == stolen'
           c == Paid'
<1>3. c = a + b
    BY DEF Paid
<1>4. a \in Nat /\ b \in Nat
    BY <1>2
<1> HIDE DEF a, b, c
<1>5. c \in Nat
    BY <1>3, <1>4
<1>6. QED
    BY <1>1, <1>5 DEF c

-----------------------------------------------------------------------------
(* Steps that leave the counts of a symbol alone *)

(* The set of runs in flight grows by one run at most, which is paid for,  *)
(* or does not grow.                                                       *)
LEMMA QuietBudget ==
    ASSUME Typed, Typed', NEW s \in Symbol, BudgetAt(s), NEW q,
           Extra(s)' \subseteq Extra(s) \union {q},
           Certain(s)' \subseteq Certain(s) \union {q},
           repeats'[s] = repeats[s], cycles'[s] >= cycles[s],
           \/ Paid' >= Paid + 1
           \/ Paid' >= Paid /\ Extra(s)' \subseteq Extra(s) /\ Certain(s)' \subseteq Certain(s)
    PROVE  BudgetAt(s)'
<1> DEFINE e == Cardinality(Extra(s))
           f == Cardinality(Extra(s)')
           k == Cardinality(Certain(s))
           l == Cardinality(Certain(s)')
<1>1. IsFiniteSet(Extra(s)) /\ IsFiniteSet(Certain(s))
    BY HopefulFinite
<1>2. e \in Nat /\ f \in Nat /\ f <= e + 1
    BY <1>1, Grown
<1>3. k \in Nat /\ l \in Nat /\ l <= k + 1
    BY <1>1, Grown
<1>4. Extra(s)' \subseteq Extra(s) => f <= e
    BY <1>1, NotGrown
<1>5. Certain(s)' \subseteq Certain(s) => l <= k
    BY <1>1, NotGrown
<1>6. /\ repeats[s] \in Nat /\ cycles[s] \in Nat /\ Paid \in Nat /\ DecayCycles \in Nat
    BY NaturalCounts
<1>7. cycles'[s] \in Nat /\ Paid' \in Nat
    BY NaturalCountsNext
<1>8. e <= Paid /\ repeats[s] + e <= cycles[s] + Paid /\ repeats[s] + k <= DecayCycles + Paid
    BY DEF BudgetAt
<1>9. (Paid' >= Paid + 1) \/ (Paid' >= Paid /\ f <= e /\ l <= k)
    BY <1>4, <1>5
<1> HIDE DEF e, f, k, l
<1>10. f <= Paid' /\ repeats[s] + f <= cycles'[s] + Paid' /\ repeats[s] + l <= DecayCycles + Paid'
    BY <1>2, <1>3, <1>6, <1>7, <1>8, <1>9
<1>11. QED
    BY <1>10 DEF BudgetAt, f, l

(* The standing of the other runs stays. *)
LEMMA Elsewhere ==
    ASSUME NEW r \in Run, OwnMemory(r), NEW s
    PROVE  /\ \A q \in Run \ {r} : q \in Hopeful(s)' <=> q \in Hopeful(s)
           /\ \A q \in Run \ {r} : q \in Certain(s)' <=> q \in Certain(s)
           /\ \A q \in Run \ {r} :
                 q \in Extra(s)' => q \in Extra(s) \/ q = key[<<s, "WATCH">>]
           /\ (\A q \in Run \ {r} : key[<<s, "WATCH">>] = q => key'[<<s, "WATCH">>] = q) =>
                 \A q \in Run \ {r} : q \in Extra(s)' => q \in Extra(s)
<1> SUFFICES ASSUME NEW q \in Run \ {r}
             PROVE  /\ q \in Hopeful(s)' <=> q \in Hopeful(s)
                    /\ q \in Certain(s)' <=> q \in Certain(s)
                    /\ q \in Extra(s)' => q \in Extra(s) \/ q = key[<<s, "WATCH">>]
                    /\ (key[<<s, "WATCH">>] = q => key'[<<s, "WATCH">>] = q) =>
                           (q \in Extra(s)' => q \in Extra(s))
    OBVIOUS
<1>1. /\ pc'[q] = pc[q] /\ alerts'[q] = alerts[q] /\ pending'[q] = pending[q]
      /\ fails'[q] = fails[q] /\ batch'[q] = batch[q]
    BY DEF OwnMemory
<1>2. Open(q)' <=> Open(q)
    BY <1>1 DEF Open
<1>3. Copies(q, s)' = Copies(q, s)
    BY <1>1 DEF Copies
<1>4. Holds(q, s)' <=> Holds(q, s)
    BY <1>1, <1>3 DEF Holds
<1>5. q \in Hopeful(s)' <=> q \in Hopeful(s)
    BY <1>1, <1>2, <1>4 DEF Hopeful
<1>6. q \in Certain(s)' <=> q \in Certain(s)
    BY <1>1, <1>2, <1>3, <1>5 DEF Certain
<1>7. q \in Extra(s)' => q \in Extra(s) \/ q = key[<<s, "WATCH">>]
    BY <1>2, <1>5 DEF Extra
<1>8. ASSUME key[<<s, "WATCH">>] = q => key'[<<s, "WATCH">>] = q, q \in Extra(s)'
      PROVE  q \in Extra(s)
    BY <1>2, <1>5, <1>8 DEF Extra
<1>9. QED
    BY <1>5, <1>6, <1>7, <1>8

LEMMA AllRuns ==
    ASSUME NEW s
    PROVE  Extra(s) \subseteq Run /\ Certain(s) \subseteq Run
           /\ Extra(s)' \subseteq Run /\ Certain(s)' \subseteq Run
BY DEF Extra, Certain, Hopeful

(* A step of a run that takes no key from another: the run is no more in   *)
(* flight than before, or has paid.                                        *)
LEMMA OwnBudget ==
    ASSUME Typed, Typed', NEW r \in Run, OwnMemory(r), NEW s \in Symbol, BudgetAt(s),
           \A q \in Run \ {r} : key[<<s, "WATCH">>] = q => key'[<<s, "WATCH">>] = q,
           repeats'[s] = repeats[s], cycles'[s] >= cycles[s],
           \/ Paid' >= Paid + 1
           \/ /\ Paid' >= Paid
              /\ r \in Extra(s)' => r \in Extra(s)
              /\ r \in Certain(s)' => r \in Certain(s)
    PROVE  BudgetAt(s)'
<1>1. /\ \A q \in Run \ {r} : q \in Extra(s)' => q \in Extra(s)
      /\ \A q \in Run \ {r} : q \in Certain(s)' => q \in Certain(s)
    BY Elsewhere
<1>2. Extra(s)' \subseteq Extra(s) \union {r} /\ Certain(s)' \subseteq Certain(s) \union {r}
    BY <1>1, AllRuns
<1>3. \/ Paid' >= Paid + 1
      \/ Paid' >= Paid /\ Extra(s)' \subseteq Extra(s) /\ Certain(s)' \subseteq Certain(s)
    BY <1>1, AllRuns
<1>4. QED
    BY <1>2, <1>3, QuietBudget

(* A failure or a lost reply is paid for at once. *)
LEMMA MeetingPays ==
    ASSUME Typed, NEW r \in Run, Meeting(r), stolen' = stolen
    PROVE  Paid' >= Paid + 1 \/ (UNCHANGED met /\ Paid' = Paid)
<1>1. troubles \in Nat /\ stolen \in Nat
    BY DEF Typed, MetOK, HistoryOK
<1>2. CASE UNCHANGED met
    BY <1>2 DEF met, Paid
<1>3. CASE Resent(r)
  <2>1. troubles' = troubles + 1
      BY <1>3 DEF Resent, Meets
  <2>2. QED
      BY <1>1, <2>1 DEF Paid
<1>4. ASSUME NEW n \in Nat \ {0}, Raised(r, n) PROVE Paid' >= Paid + 1
  <2>1. troubles' = troubles + n
      BY <1>4 DEF Raised, Meets
  <2>2. QED
      BY <1>1, <2>1 DEF Paid
<1>5. QED
    BY <1>2, <1>3, <1>4 DEF Meeting

(* The runs in flight depend on their memory and on the keys. *)
LEMMA SameRuns ==
    ASSUME UNCHANGED <<key, pc, batch, alerts, pending, fails>>, NEW s
    PROVE  Extra(s)' = Extra(s) /\ Certain(s)' = Certain(s)
<1>1. \A r : Copies(r, s)' = Copies(r, s) /\ (Open(r)' <=> Open(r))
    BY DEF Copies, Open
<1>2. Hopeful(s)' = Hopeful(s)
    BY <1>1 DEF Hopeful, Holds
<1>3. QED
    BY <1>1, <1>2 DEF Extra, Certain

(* A run that is past the counting, or not yet started, lets none through. *)
LEMMA NotHopeful ==
    ASSUME NEW r, NEW s, pc[r] \notin {"evaluate", "decay", "count"}
    PROVE  r \notin Hopeful(s) /\ r \notin Extra(s) /\ r \notin Certain(s)
BY DEF Hopeful, Holds, Extra, Certain

LEMMA NotHopefulNext ==
    ASSUME NEW r, NEW s, pc'[r] \notin {"evaluate", "decay", "count"}
    PROVE  r \notin Hopeful(s)' /\ r \notin Extra(s)' /\ r \notin Certain(s)'
BY DEF Hopeful, Holds, Extra, Certain

LEMMA QuietStep ==
    ASSUME Typed, Typed', Budget, NEW r \in Run, OwnMemory(r),
           UNCHANGED <<key, cycles, repeats>>,
           \/ Paid' >= Paid + 1
           \/ /\ Paid' = Paid
              /\ \A s \in Symbol : /\ r \in Extra(s)' => r \in Extra(s)
                                   /\ r \in Certain(s)' => r \in Certain(s)
    PROVE  Budget'
<1> SUFFICES ASSUME NEW s \in Symbol PROVE BudgetAt(s)'
    BY DEF Budget
<1>1. BudgetAt(s)
    BY DEF Budget
<1>2. repeats[s] \in Nat /\ cycles[s] \in Nat /\ Paid \in Nat
    BY NaturalCounts
<1>3. repeats'[s] = repeats[s] /\ cycles'[s] >= cycles[s]
    BY <1>2
<1>4. Paid' = Paid => Paid' >= Paid
    BY <1>2
<1>5. \/ Paid' >= Paid + 1
      \/ /\ Paid' >= Paid
         /\ r \in Extra(s)' => r \in Extra(s)
         /\ r \in Certain(s)' => r \in Certain(s)
    BY <1>4
<1>6. \A q \in Run \ {r} : key[<<s, "WATCH">>] = q => key'[<<s, "WATCH">>] = q
    OBVIOUS
<1>7. QED
    BY <1>1, <1>3, <1>5, <1>6, OwnBudget

(* The steps that take a run out of the game, or into it with no alert. *)
LEMMA OutsideBudget ==
    ASSUME Typed, Budget, NEW r \in Run,
           Start(r) \/ LoopEnds(r) \/ Report(r) \/ Crash(r) \/ Retry(r)
    PROVE  Budget'
<1>1. Typed' /\ OwnMemory(r)
    BY OwnStep DEF Step
<1>2. UNCHANGED <<key, cycles, repeats, stolen>>
    BY DEF Start, LoopEnds, Report, Crash, Retry, redis, history
<1>3. troubles \in Nat /\ stolen \in Nat
    BY DEF Typed, MetOK, HistoryOK
<1>4. CASE Start(r)
  <2>1. Paid' = Paid
      BY <1>2, <1>4 DEF Start, met, Paid
  <2>2. alerts'[r] = {} /\ fails'[r] = 0 /\ pc'[r] = "evaluate"
      BY <1>4 DEF Start, met, Typed, MemoryOK, RunsOK, Memoryless
  <2>3. ~Open(r)'
      BY <2>2, GateAssumption DEF Open
  <2>4. \A s \in Symbol : r \notin Hopeful(s)'
      BY <2>2, <2>3 DEF Hopeful, Holds, Copies
  <2>5. \A s \in Symbol : r \notin Extra(s)' /\ r \notin Certain(s)'
      BY <2>4 DEF Extra, Certain
  <2>6. QED
      BY <1>1, <1>2, <2>1, <2>5, QuietStep
<1>5. CASE LoopEnds(r) \/ Report(r) \/ Crash(r)
  <2>1. Paid' = Paid
      BY <1>2, <1>5 DEF LoopEnds, Report, Crash, met, Paid
  <2>2. pc'[r] \in {"clear", "report", "done", "dead"}
      BY <1>5 DEF LoopEnds, Report, Crash, Exit, Typed, RunsOK
  <2>3. \A s \in Symbol : r \notin Extra(s)' /\ r \notin Certain(s)'
      BY <2>2, NotHopefulNext
  <2>4. QED
      BY <1>1, <1>2, <2>1, <2>3, QuietStep
<1>6. CASE Retry(r)
  <2>1. troubles' = troubles + 1
      BY <1>6 DEF Retry
  <2>2. Paid' >= Paid + 1
      BY <1>2, <1>3, <2>1 DEF Paid
  <2>3. QED
      BY <1>1, <1>2, <2>2, QuietStep
<1>7. QED
    BY <1>4, <1>5, <1>6

(* The ranking sends on the WATCHes the run holds, all still to be checked *)
(* for decay.                                                              *)
LEMMA RankBudget == ASSUME Typed, Budget, NEW r \in Run, Rank(r) PROVE Budget'
<1>1. Typed' /\ OwnMemory(r)
    BY RankTyped
<1>2. UNCHANGED <<key, cycles, repeats, stolen>> /\ pc[r] = "evaluate"
    BY DEF Rank, redis, history
<1>3. Paid' >= Paid + 1 \/ (UNCHANGED met /\ Paid' = Paid)
    BY <1>2, RankMeeting, MeetingPays DEF Typed
<1>4. ASSUME UNCHANGED met, NEW s \in Symbol
      PROVE  (r \in Extra(s)' => r \in Extra(s)) /\ (r \in Certain(s)' => r \in Certain(s))
  <2>1. Open(r)' <=> Open(r)
      BY <1>4 DEF met, Open
  <2>2. CASE Graduates(r) = {}
    <3>1. pc'[r] = "decay" /\ alerts'[r] \subseteq alerts[r] /\ pending'[r] = alerts'[r]
        BY <2>2, RankKeeps DEF Typed, RunsOK
    <3>2. Copies(r, s)' \subseteq Copies(r, s) /\ Copies(r, s)' \subseteq pending'[r]
        BY <3>1 DEF Rank, local, Copies
    <3>3. r \in Hopeful(s)' => r \in Hopeful(s)
        BY <1>2, <3>1, <3>2 DEF Hopeful, Holds
    <3>4. r \in Extra(s)' => r \in Extra(s)
        BY <1>2, <2>1, <3>3 DEF Extra
    <3>5. r \in Certain(s)' => r \in Certain(s)
        BY <2>1, <3>1, <3>2, <3>3 DEF Certain
    <3>6. QED
        BY <3>4, <3>5
  <2>3. CASE Graduates(r) # {}
    <3>1. pc'[r] = "graduate"
        BY <2>3, RankKeeps DEF Typed
    <3>2. QED
        BY <3>1, NotHopefulNext
  <2>4. QED
      BY <2>2, <2>3
<1>5. QED
    BY <1>1, <1>2, <1>3, <1>4, QuietStep

(* The cap keeps WATCHes that have passed the check for decay. *)
LEMMA CapBudget == ASSUME Typed, Budget, NEW r \in Run, Cap(r) PROVE Budget'
<1>1. Typed' /\ OwnMemory(r)
    BY CapTyped
<1>2. UNCHANGED <<key, cycles, repeats, stolen, fails, troubles>>
      /\ pc[r] = "decay" /\ pending[r] = {}
    BY DEF Cap, redis, history, met
<1>3. Paid' = Paid
    BY <1>2 DEF Paid
<1>4. PICK kept \in Cut(alerts[r], Limit(r)) : alerts' = [alerts EXCEPT ![r] = kept]
    BY DEF Cap
<1>5. alerts'[r] \subseteq alerts[r] /\ pc'[r] = "count" /\ UNCHANGED batch
    BY <1>4, CutSubset DEF Cap, Typed, RunsOK, local
<1>6. Open(r)' <=> Open(r)
    BY <1>2 DEF Open
<1>7. ASSUME NEW s \in Symbol
      PROVE  (r \in Extra(s)' => r \in Extra(s)) /\ (r \in Certain(s)' => r \in Certain(s))
  <2>1. Copies(r, s)' \subseteq Copies(r, s)
      BY <1>5 DEF Copies
  <2>2. r \in Hopeful(s)' => r \in Hopeful(s) /\ r \in Certain(s)
      BY <1>2, <1>5, <2>1 DEF Hopeful, Holds, Certain
  <2>3. r \in Extra(s)' => r \in Extra(s)
      BY <1>2, <1>6, <2>2 DEF Extra
  <2>4. r \in Certain(s)' => r \in Hopeful(s)'
      BY DEF Certain
  <2>5. QED
      BY <2>2, <2>3, <2>4
<1>8. QED
    BY <1>1, <1>2, <1>3, <1>7, QuietStep

(* The standing of a run that stays at its stage: by its own key, its own  *)
(* alerts, its own circuit.                                                *)
LEMMA SameStanding ==
    ASSUME NEW r, NEW s, UNCHANGED <<pc, met>>,
           Copies(r, s)' = Copies(r, s),
           Copies(r, s) \ pending'[r] = Copies(r, s) \ pending[r],
           key'[<<s, "WATCH">>] = key[<<s, "WATCH">>]
    PROVE  /\ r \in Hopeful(s)' <=> r \in Hopeful(s)
           /\ r \in Extra(s)' <=> r \in Extra(s)
           /\ r \in Certain(s)' <=> r \in Certain(s)
<1>1. Open(r)' <=> Open(r)
    BY DEF Open, met
<1>2. /\ Copies(r, s)' \subseteq pending'[r] <=> Copies(r, s) \subseteq pending[r]
      /\ Holds(r, s)' <=> Holds(r, s)
    BY DEF Holds
<1>3. r \in Hopeful(s)' <=> r \in Hopeful(s)
    BY <1>1, <1>2 DEF Hopeful
<1>4. r \in Extra(s)' <=> r \in Extra(s)
    BY <1>1, <1>3 DEF Extra
<1>5. r \in Certain(s)' <=> r \in Certain(s)
    BY <1>1, <1>2, <1>3 DEF Certain
<1>6. QED
    BY <1>3, <1>4, <1>5

(* A candidate that is accepted either has claimed the key, or comes of an *)
(* open circuit, or of a failure.                                          *)
LEMMA EvaluateBudget == ASSUME Typed, Budget, NEW r \in Run, Evaluate(r) PROVE Budget'
<1> DEFINE c == batch[r][next[r]]
<1>1. Typed' /\ OwnMemory(r)
    BY EvaluateTyped
<1>2. c \in Candidate
    BY CandidateAt DEF Typed, Evaluate
<1>3. Rejected(r, c) \/ TrySet(r, c)
    BY DEF Evaluate
<1>4. pc[r] = "evaluate" /\ UNCHANGED <<pc, batch, pending, cycles, repeats, stolen>>
    BY DEF Evaluate, history
<1> HIDE DEF c
<1>5. key' \in {key, Claimed(r, c)} /\ Meeting(r)
    BY <1>2, <1>3, TrySetTyped DEF Rejected, Meeting, Typed
<1>6. Paid' >= Paid + 1 \/ (UNCHANGED met /\ Paid' = Paid)
    BY <1>4, <1>5, MeetingPays
<1> SUFFICES ASSUME NEW s \in Symbol PROVE BudgetAt(s)'
    BY DEF Budget
<1>7. BudgetAt(s) /\ repeats[s] \in Nat /\ cycles[s] \in Nat /\ Paid \in Nat
    BY NaturalCounts DEF Budget
<1>8. \A q \in Run : key[<<s, "WATCH">>] = q => key'[<<s, "WATCH">>] = q
  <2>1. <<s, "WATCH">> \in Candidate
      BY DEF Candidate, Direction
  <2>2. \A d \in Candidate : key[d] # NoRun => key'[d] = key[d]
      BY <1>5 DEF Claimed, Typed, RedisOK
  <2>3. QED
      BY <2>1, <2>2, GateAssumption
<1>9. ASSUME UNCHANGED met
      PROVE  (r \in Extra(s)' => r \in Extra(s)) /\ (r \in Certain(s)' => r \in Certain(s))
  <2>1. CASE Open(r)
      BY <1>4, <2>1 DEF Hopeful, Extra, Certain
  <2>2. CASE UNCHANGED <<key, alerts>>
    <3>1. Copies(r, s)' = Copies(r, s)
        BY <1>4, <2>2 DEF Copies
    <3>2. QED
        BY <1>4, <1>9, <2>2, <3>1, SameStanding
  <2>3. CASE ~Open(r) /\ key[c] = NoRun /\ key' = Claimed(r, c) /\ Accept(r)
    <3>1. ~Open(r)'
        BY <1>9, <2>3 DEF Open, met
    <3>2. r \notin Certain(s)'
        BY <1>4, <3>1 DEF Certain
    <3>3. CASE c = <<s, "WATCH">>
      <4>1. key'[<<s, "WATCH">>] = r
          BY <1>2, <2>3, <3>3 DEF Claimed, Typed, RedisOK
      <4>2. r \notin Extra(s)'
          BY <3>1, <4>1 DEF Extra
      <4>3. QED
          BY <3>2, <4>2
    <3>4. CASE c # <<s, "WATCH">>
      <4>1. key'[<<s, "WATCH">>] = key[<<s, "WATCH">>]
        <5>1. <<s, "WATCH">> \in Candidate
            BY DEF Candidate, Direction
        <5>2. QED
            BY <2>3, <3>4, <5>1 DEF Claimed, Typed, RedisOK
      <4>2. Copies(r, s)' = Copies(r, s)
        <5>1. alerts'[r] = alerts[r] \union {next[r]} /\ batch[r][next[r]] # <<s, "WATCH">>
            BY <2>3, <3>4 DEF Accept, Typed, RunsOK, c
        <5>2. QED
            BY <1>4, <5>1 DEF Copies
      <4>3. QED
          BY <1>4, <1>9, <4>1, <4>2, SameStanding
    <3>5. QED
        BY <3>3, <3>4
  <2>4. CASE ~Open(r) /\ key[c] # NoRun /\ key' = Claimed(r, c) /\ UNCHANGED alerts
    <3>1. UNCHANGED key
        BY <2>4 DEF Claimed
    <3>2. QED
        BY <2>2, <2>4, <3>1
  <2>5. troubles \in Nat /\ troubles' = troubles
      BY <1>9 DEF met, Typed, MetOK
  <2>6. ~Resent(r) /\ ~Raised(r, 1)
      BY <2>5 DEF Resent, Raised, Meets
  <2>7. \/ Open(r)
        \/ UNCHANGED <<key, alerts>>
        \/ ~Open(r) /\ key[c] = NoRun /\ key' = Claimed(r, c) /\ Accept(r)
        \/ ~Open(r) /\ key[c] # NoRun /\ key' = Claimed(r, c) /\ UNCHANGED alerts
      BY <1>3, <2>6 DEF Rejected, TrySet, Skipped, Answered
  <2>8. QED
      BY <2>1, <2>2, <2>3, <2>4, <2>7
<1>10. /\ repeats'[s] = repeats[s] /\ cycles'[s] >= cycles[s]
       /\ Paid' = Paid => Paid' >= Paid
    BY <1>4, <1>7
<1>11. \/ Paid' >= Paid + 1
       \/ /\ Paid' >= Paid
          /\ r \in Extra(s)' => r \in Extra(s)
          /\ r \in Certain(s)' => r \in Certain(s)
    BY <1>6, <1>9, <1>10
<1>12. QED
    BY <1>1, <1>7, <1>8, <1>10, <1>11, OwnBudget

(* After the ranking, what a run holds of a symbol are WATCHes. *)
LEMMA CopyAt ==
    ASSUME Typed, WatchesOnly, NEW r \in Run, pc[r] \in {"decay", "count"},
           NEW i \in alerts[r], NEW s
    PROVE  i \in Copies(r, s) <=> SymbolAt(r, i) = s
<1>1. batch[r][i] \in Candidate /\ batch[r][i][2] = "WATCH"
    BY AlertAt DEF Typed, WatchesOnly
<1>2. batch[r][i] = <<SymbolAt(r, i), "WATCH">>
    BY <1>1 DEF Candidate, SymbolAt
<1>3. QED
    BY <1>2 DEF Copies

(* A WATCH passes the check for decay while its counter is low: the runs   *)
(* that may let it through, all of them, then fit into the budget.         *)
LEMMA PassBudget ==
    ASSUME Typed, Typed', NEW s \in Symbol, BudgetAt(s), cycles[s] < DecayCycles,
           Extra(s)' = Extra(s), Certain(s)' \subseteq Hopeful(s),
           repeats'[s] = repeats[s], cycles'[s] = cycles[s], Paid' = Paid
    PROVE  BudgetAt(s)'
<1> DEFINE e == Cardinality(Extra(s))
           f == Cardinality(Extra(s)')
           h == Cardinality(Hopeful(s))
           l == Cardinality(Certain(s)')
<1>1. h \in Nat /\ e \in Nat /\ h <= e + 1
    BY HopefulNearlyExtra
<1>2. l \in Nat /\ l <= h
    BY HopefulFinite, NotGrown
<1>3. f = e
    OBVIOUS
<1>4. repeats[s] \in Nat /\ cycles[s] \in Nat /\ Paid \in Nat /\ DecayCycles \in Nat
    BY NaturalCounts
<1>5. e <= Paid /\ repeats[s] + e <= cycles[s] + Paid
    BY DEF BudgetAt
<1> HIDE DEF e, f, h, l
<1>6. repeats[s] + l <= DecayCycles + Paid
    BY <1>1, <1>2, <1>4, <1>5
<1>7. f <= Paid' /\ repeats'[s] + f <= cycles'[s] + Paid' /\ repeats'[s] + l <= DecayCycles + Paid'
    BY <1>3, <1>5, <1>6
<1>8. QED
    BY <1>7 DEF BudgetAt, f, l

LEMMA DropDecayedBudget ==
    ASSUME Typed, WatchesOnly, Budget, NEW r \in Run, DropDecayed(r) PROVE Budget'
<1>1. Typed' /\ OwnMemory(r)
    BY DropDecayedTyped
<1>2. pc[r] = "decay" /\ UNCHANGED <<key, pc, batch, cycles, repeats, stolen>>
    BY DEF DropDecayed, redis, local, history
<1>3. PICK i \in pending[r] :
         /\ Visit(r, i)
         /\ \/ (Skipped(r) \/ Raised(r, 1)) /\ UNCHANGED alerts
            \/ /\ Answered(r)
               /\ IF cycles[SymbolAt(r, i)] >= DecayCycles THEN Drop(r, i) ELSE UNCHANGED alerts
    BY DEF DropDecayed
<1>4. Meeting(r)
    BY <1>3, OneCall
<1>5. Paid' >= Paid + 1 \/ (UNCHANGED met /\ Paid' = Paid)
    BY <1>2, <1>4, MeetingPays
<1>6. pending'[r] = pending[r] \ {i} /\ i \in alerts[r] /\ i \in pending[r]
    BY <1>3, Visited DEF Typed, PositionsOK
<1> SUFFICES ASSUME NEW s \in Symbol PROVE BudgetAt(s)'
    BY DEF Budget
<1>7. /\ BudgetAt(s) /\ repeats[s] \in Nat /\ cycles[s] \in Nat /\ Paid \in Nat
      /\ DecayCycles \in Nat
    BY NaturalCounts DEF Budget
<1>8. /\ repeats'[s] = repeats[s] /\ cycles'[s] = cycles[s] /\ cycles'[s] >= cycles[s]
      /\ Paid' = Paid => Paid' >= Paid
    BY <1>2, <1>7
<1>9. \A q \in Run \ {r} : key[<<s, "WATCH">>] = q => key'[<<s, "WATCH">>] = q
    BY <1>2
<1>10. CASE Paid' >= Paid + 1
    BY <1>1, <1>7, <1>8, <1>9, <1>10, OwnBudget
<1>11. CASE UNCHANGED met /\ Paid' = Paid
  <2>1. CASE (r \in Extra(s)' => r \in Extra(s)) /\ (r \in Certain(s)' => r \in Certain(s))
      BY <1>1, <1>7, <1>8, <1>9, <1>11, <2>1, OwnBudget
  <2>2. UNCHANGED alerts \/ alerts'[r] = alerts[r] \ {i}
      BY <1>3 DEF Drop, Typed, RunsOK
  <2>3. CASE SymbolAt(r, i) # s
    <3>1. i \notin Copies(r, s)
        BY <1>2, <1>6, <2>3, CopyAt
    <3>2. Copies(r, s)' = Copies(r, s)
        BY <1>2, <2>2, <3>1 DEF Copies
    <3>3. Copies(r, s) \ pending'[r] = Copies(r, s) \ pending[r]
        BY <1>6, <3>1
    <3>4. QED
        BY <1>2, <1>11, <2>1, <3>2, <3>3, SameStanding
  <2>4. CASE UNCHANGED alerts /\ Open(r)
    <3>1. Copies(r, s)' = Copies(r, s)
        BY <1>2, <2>4 DEF Copies
    <3>2. r \in Hopeful(s)' => r \in Hopeful(s)
        BY <1>2, <3>1 DEF Hopeful, Holds
    <3>3. QED
        BY <1>2, <2>1, <2>4, <3>2 DEF Extra, Certain
  <2>5. CASE Drop(r, i)
    <3>1. Copies(r, s)' = Copies(r, s) \ {i}
        BY <1>2, <2>5 DEF Drop, Typed, RunsOK, Copies
    <3>2. Copies(r, s)' \ pending'[r] \subseteq Copies(r, s) \ pending[r]
        BY <1>6, <3>1
    <3>3. r \in Hopeful(s)' => r \in Hopeful(s)
        BY <1>2, <3>1 DEF Hopeful, Holds
    <3>4. Open(r)' <=> Open(r)
        BY <1>11 DEF met, Open
    <3>5. r \in Extra(s)' => r \in Extra(s)
        BY <1>2, <3>3, <3>4 DEF Extra
    <3>6. r \in Certain(s)' => r \in Certain(s)
        BY <1>2, <3>2, <3>3, <3>4 DEF Certain
    <3>7. QED
        BY <2>1, <3>5, <3>6
  <2>6. CASE SymbolAt(r, i) = s /\ UNCHANGED alerts /\ cycles[s] < DecayCycles
    <3>1. \A q \in Run : Open(q)' <=> Open(q)
        BY <1>11 DEF met, Open
    <3>2. \A q \in Run \ {r} : q \in Hopeful(s)' <=> q \in Hopeful(s)
        BY <1>1, Elsewhere
    <3>3. Copies(r, s)' = Copies(r, s)
        BY <1>2, <2>6 DEF Copies
    <3>4. r \in Hopeful(s)' <=> r \in Hopeful(s)
        BY <1>2, <3>3 DEF Hopeful, Holds
    <3>5. Hopeful(s) \subseteq Run /\ Hopeful(s)' \subseteq Run
        BY DEF Hopeful
    <3>6. Hopeful(s)' = Hopeful(s)
        BY <3>2, <3>4, <3>5
    <3>7. Extra(s)' = Extra(s)
        BY <1>2, <3>1, <3>5, <3>6 DEF Extra
    <3>8. Certain(s)' \subseteq Hopeful(s)
        BY <3>6 DEF Certain
    <3>9. QED
        BY <1>1, <1>7, <1>8, <1>11, <2>6, <3>7, <3>8, PassBudget
  <2>7. troubles' = troubles /\ troubles \in Nat
      BY <1>11 DEF met, Typed, MetOK
  <2>8. ~Raised(r, 1)
      BY <2>7 DEF Raised, Meets
  <2>9. QED
      BY <1>3, <1>7, <2>3, <2>4, <2>5, <2>6, <2>8 DEF Skipped
<1>12. QED
    BY <1>5, <1>10, <1>11

-----------------------------------------------------------------------------
(* The counts and the resets *)

(* A WATCH that is counted leaves the runs in flight. *)
LEMMA CountedBudget ==
    ASSUME Typed, Typed', NEW s \in Symbol, BudgetAt(s), NEW r,
           r \in Certain(s), Certain(s)' \subseteq Certain(s) \ {r},
           Extra(s)' \subseteq Extra(s), repeats'[s] = repeats[s] + 1,
           \/ Paid' >= Paid /\ cycles'[s] >= cycles[s] + 1
           \/ Paid' >= Paid + 1 /\ cycles'[s] >= cycles[s]
           \/ Paid' >= Paid /\ cycles'[s] >= cycles[s]
              /\ r \in Extra(s) /\ Extra(s)' \subseteq Extra(s) \ {r}
    PROVE  BudgetAt(s)'
<1> DEFINE e == Cardinality(Extra(s))
           f == Cardinality(Extra(s)')
           k == Cardinality(Certain(s))
           l == Cardinality(Certain(s)')
           p == Paid'
           n == cycles'[s]
<1>1. IsFiniteSet(Extra(s)) /\ IsFiniteSet(Certain(s))
    BY HopefulFinite
<1>2. e \in Nat /\ f \in Nat /\ f <= e
    BY <1>1, NotGrown
<1>3. k \in Nat /\ l \in Nat /\ l <= k - 1
    BY <1>1, Shrunk
<1>4. (r \in Extra(s) /\ Extra(s)' \subseteq Extra(s) \ {r}) => f <= e - 1
    BY <1>1, Shrunk
<1>5. repeats[s] \in Nat /\ cycles[s] \in Nat /\ Paid \in Nat /\ DecayCycles \in Nat
    BY NaturalCounts
<1>6. n \in Nat /\ p \in Nat
    BY NaturalCountsNext
<1>7. e <= Paid /\ repeats[s] + e <= cycles[s] + Paid /\ repeats[s] + k <= DecayCycles + Paid
    BY DEF BudgetAt
<1>8. \/ p >= Paid /\ n >= cycles[s] + 1
      \/ p >= Paid + 1 /\ n >= cycles[s]
      \/ p >= Paid /\ n >= cycles[s] /\ f <= e - 1
    BY <1>4
<1> HIDE DEF e, f, k, l, p, n
<1>9. f <= p /\ repeats[s] + 1 + f <= n + p /\ repeats[s] + 1 + l <= DecayCycles + p
    BY <1>2, <1>3, <1>5, <1>6, <1>7, <1>8
<1>10. QED
    BY <1>9 DEF BudgetAt, f, l, p, n

LEMMA CountBudget ==
    ASSUME Typed, WatchesOnly, Budget, NEW r \in Run, Count(r) PROVE Budget'
<1>1. Typed' /\ OwnMemory(r)
    BY CountTyped
<1>2. pc[r] = "count" /\ UNCHANGED <<key, pc, batch, alerts, stolen>>
    BY DEF Count, local
<1>3. PICK i \in pending[r], t \in Symbol :
         /\ Visit(r, i) /\ t = SymbolAt(r, i)
         /\ repeats' = [repeats EXCEPT ![t] = IF First(r, t) THEN @ + 1 ELSE @]
         /\ \/ Skipped(r) /\ UNCHANGED cycles
            \/ Answered(r) /\ cycles' = [cycles EXCEPT ![t] = @ + 1]
            \/ Resent(r) /\ cycles' = [cycles EXCEPT ![t] = @ + 2]
            \/ Raised(r, 1) /\ cycles' \in {cycles, [cycles EXCEPT ![t] = @ + 1]}
  <2>1. \A i \in pending[r] : SymbolAt(r, i) \in Symbol
      BY AlertAt DEF Typed, PositionsOK
  <2>2. QED
      BY <2>1 DEF Count
<1>4. Meeting(r)
    BY <1>3, OneCall
<1>5. Paid' >= Paid + 1 \/ (UNCHANGED met /\ Paid' = Paid)
    BY <1>2, <1>4, MeetingPays
<1>6. pending'[r] = pending[r] \ {i} /\ i \in alerts[r]
    BY <1>3, Visited DEF Typed, PositionsOK
<1>7. \A s : Copies(r, s)' = Copies(r, s)
    BY <1>2 DEF Copies
<1>8. \A j \in alerts[r] : \A s : j \in Copies(r, s) <=> SymbolAt(r, j) = s
    BY <1>2, CopyAt
<1>9. \A s : First(r, s) <=> Copies(r, s) \subseteq pending[r]
    BY <1>8 DEF First, Copies
<1> SUFFICES ASSUME NEW s \in Symbol PROVE BudgetAt(s)'
    BY DEF Budget
<1>10. BudgetAt(s) /\ repeats[s] \in Nat /\ cycles[s] \in Nat /\ Paid \in Nat
    BY NaturalCounts DEF Budget
<1>11. \A q \in Run \ {r} : key[<<s, "WATCH">>] = q => key'[<<s, "WATCH">>] = q
    BY <1>2
<1>12. Paid' = Paid => Paid' >= Paid
    BY <1>10
<1>13. CASE s # t
  <2>1. repeats'[s] = repeats[s] /\ cycles'[s] = cycles[s]
      BY <1>3, <1>13 DEF Typed, RedisOK, HistoryOK
  <2>2. cycles'[s] >= cycles[s]
      BY <1>10, <2>1
  <2>3. ASSUME UNCHANGED met
        PROVE  (r \in Extra(s)' => r \in Extra(s)) /\ (r \in Certain(s)' => r \in Certain(s))
    <3>1. i \notin Copies(r, s)
        BY <1>3, <1>6, <1>13, <1>8
    <3>2. Copies(r, s) \ pending'[r] = Copies(r, s) \ pending[r]
        BY <1>6, <3>1
    <3>3. QED
        BY <1>2, <1>7, <2>3, <3>2, SameStanding
  <2>4. \/ Paid' >= Paid + 1
        \/ /\ Paid' >= Paid
           /\ r \in Extra(s)' => r \in Extra(s)
           /\ r \in Certain(s)' => r \in Certain(s)
      BY <1>5, <1>12, <2>3
  <2>5. QED
      BY <1>1, <1>10, <1>11, <2>1, <2>2, <2>4, OwnBudget
<1>14. i \in Copies(r, t)
    BY <1>3, <1>6, <1>8
<1>15. t = s => r \notin Hopeful(s)'
    BY <1>2, <1>6, <1>7, <1>14 DEF Hopeful, Holds
<1>16. CASE s = t /\ ~First(r, s)
  <2>1. repeats'[s] = repeats[s]
      BY <1>3, <1>16 DEF Typed, HistoryOK
  <2>2. cycles'[s] \in {cycles[s], cycles[s] + 1, cycles[s] + 2}
      BY <1>3, <1>16 DEF Typed, RedisOK
  <2>3. cycles'[s] >= cycles[s]
      BY <1>10, <2>2
  <2>4. r \notin Extra(s)' /\ r \notin Certain(s)'
      BY <1>15, <1>16 DEF Extra, Certain
  <2>5. \/ Paid' >= Paid + 1
        \/ /\ Paid' >= Paid
           /\ r \in Extra(s)' => r \in Extra(s)
           /\ r \in Certain(s)' => r \in Certain(s)
      BY <1>5, <1>12, <2>4
  <2>6. QED
      BY <1>1, <1>10, <1>11, <2>1, <2>3, <2>5, OwnBudget
<1>17. CASE s = t /\ First(r, s)
  <2>1. repeats'[s] = repeats[s] + 1
      BY <1>3, <1>17 DEF Typed, HistoryOK
  <2>2. r \in Hopeful(s) /\ r \in Certain(s)
      BY <1>2, <1>17, <1>9, <1>14 DEF Hopeful, Holds, Certain
  <2>3. r \notin Hopeful(s)'
      BY <1>17, <1>15
  <2>4. r \notin Extra(s)' /\ r \notin Certain(s)'
      BY <2>3 DEF Extra, Certain
  <2>5. /\ \A q \in Run \ {r} : q \in Extra(s)' => q \in Extra(s)
        /\ \A q \in Run \ {r} : q \in Certain(s)' => q \in Certain(s)
      BY <1>1, <1>11, Elsewhere
  <2>6. Extra(s)' \subseteq Extra(s) \ {r} /\ Certain(s)' \subseteq Certain(s) \ {r}
      BY <2>4, <2>5, AllRuns
  <2>7. Extra(s)' \subseteq Extra(s)
      BY <2>6
  <2>8. \/ Skipped(r) /\ cycles'[s] = cycles[s]
        \/ cycles'[s] = cycles[s] + 1 /\ Answered(r)
        \/ cycles'[s] = cycles[s] + 2 /\ Resent(r)
        \/ cycles'[s] \in {cycles[s], cycles[s] + 1} /\ Raised(r, 1)
      BY <1>3, <1>17 DEF Typed, RedisOK
  <2>9. Paid' >= Paid
    <3>1. Paid' \in Nat
        BY <1>1, NaturalCountsNext
    <3>2. QED
        BY <1>5, <1>10, <3>1
  <2>10. CASE Skipped(r) /\ cycles'[s] = cycles[s]
    <3>1. r \in Extra(s)
        BY <2>2, <2>10 DEF Extra, Skipped
    <3>2. cycles'[s] >= cycles[s]
        BY <1>10, <2>10
    <3>3. QED
        BY <1>1, <1>10, <2>1, <2>2, <2>6, <2>7, <2>9, <3>1, <3>2, CountedBudget
  <2>11. CASE cycles'[s] >= cycles[s] + 1
      BY <1>1, <1>10, <2>1, <2>2, <2>6, <2>7, <2>9, <2>11, CountedBudget
  <2>12. CASE cycles'[s] >= cycles[s] /\ Raised(r, 1)
    <3>1. troubles' = troubles + 1 /\ troubles \in Nat /\ stolen \in Nat
        BY <2>12 DEF Raised, Meets, Typed, MetOK, HistoryOK
    <3>2. Paid' >= Paid + 1
        BY <1>2, <3>1 DEF Paid
    <3>3. QED
        BY <1>1, <1>10, <2>1, <2>2, <2>6, <2>7, <2>12, <3>2, CountedBudget
  <2>13. \/ Skipped(r) /\ cycles'[s] = cycles[s]
         \/ cycles'[s] >= cycles[s] + 1
         \/ cycles'[s] >= cycles[s] /\ Raised(r, 1)
      BY <1>10, <2>8
  <2>14. QED
      BY <2>10, <2>11, <2>12, <2>13
<1>18. QED
    BY <1>13, <1>17, <1>16

(* After a reset only the runs in flight are left to pay for. *)
LEMMA ResetBudget ==
    ASSUME Typed, Typed', NEW s \in Symbol, BudgetAt(s),
           Extra(s)' \subseteq Extra(s), Certain(s)' \subseteq Certain(s),
           repeats'[s] = 0, cycles'[s] = 0, Paid' >= Paid
    PROVE  BudgetAt(s)'
<1> DEFINE e == Cardinality(Extra(s))
           f == Cardinality(Extra(s)')
           k == Cardinality(Certain(s))
           l == Cardinality(Certain(s)')
           h == Cardinality(Hopeful(s))
           p == Paid'
<1>1. IsFiniteSet(Extra(s)) /\ IsFiniteSet(Certain(s))
    BY HopefulFinite
<1>2. e \in Nat /\ f \in Nat /\ f <= e
    BY <1>1, NotGrown
<1>3. k \in Nat /\ l \in Nat /\ l <= k
    BY <1>1, NotGrown
<1>4. h \in Nat /\ k <= h /\ h <= e + 1
    BY HopefulNearlyExtra
<1>5. Paid \in Nat /\ DecayCycles \in Nat \ {0}
    BY NaturalCounts
<1>6. p \in Nat
    BY NaturalCountsNext
<1>7. e <= Paid /\ p >= Paid
    BY DEF BudgetAt
<1> HIDE DEF e, f, k, l, h, p
<1>8. f <= p /\ 0 + f <= 0 + p /\ 0 + l <= DecayCycles + p
    BY <1>2, <1>3, <1>4, <1>5, <1>6, <1>7
<1>9. QED
    BY <1>8 DEF BudgetAt, f, l, p

LEMMA GraduateBudget == ASSUME Typed, Budget, NEW r \in Run, Graduate(r) PROVE Budget'
<1>1. Typed' /\ OwnMemory(r)
    BY GraduateTyped
<1>2. pc'[r] = "graduate" /\ UNCHANGED <<key, stolen>>
    BY DEF Graduate
<1>3. Meeting(r)
    BY OneCall DEF Graduate
<1>4. \/ UNCHANGED <<cycles, repeats>>
      \/ \E t \in Symbol : /\ cycles' = [cycles EXCEPT ![t] = 0]
                           /\ repeats' = [repeats EXCEPT ![t] = 0]
  <2>1. \A i \in pending[r] : SymbolAt(r, i) \in Symbol
      BY AlertAt DEF Typed, PositionsOK
  <2>2. QED
      BY <2>1 DEF Graduate
<1> SUFFICES ASSUME NEW s \in Symbol PROVE BudgetAt(s)'
    BY DEF Budget
<1>5. BudgetAt(s) /\ repeats[s] \in Nat /\ cycles[s] \in Nat /\ Paid \in Nat
    BY NaturalCounts DEF Budget
<1>6. \A q \in Run \ {r} : key[<<s, "WATCH">>] = q => key'[<<s, "WATCH">>] = q
    BY <1>2
<1>7. r \notin Extra(s)' /\ r \notin Certain(s)'
    BY <1>2, NotHopefulNext
<1>8. Paid' >= Paid
  <2>1. Paid' >= Paid + 1 \/ Paid' = Paid
      BY <1>2, <1>3, MeetingPays
  <2>2. Paid' \in Nat
      BY <1>1, NaturalCountsNext
  <2>3. QED
      BY <1>5, <2>1, <2>2
<1>9. CASE repeats'[s] = repeats[s] /\ cycles'[s] = cycles[s]
  <2>1. cycles'[s] >= cycles[s]
      BY <1>5, <1>9
  <2>2. QED
      BY <1>1, <1>5, <1>6, <1>7, <1>8, <1>9, <2>1, OwnBudget
<1>10. CASE repeats'[s] = 0 /\ cycles'[s] = 0
  <2>1. /\ \A q \in Run \ {r} : q \in Extra(s)' => q \in Extra(s)
        /\ \A q \in Run \ {r} : q \in Certain(s)' => q \in Certain(s)
      BY <1>1, <1>6, Elsewhere
  <2>2. Extra(s)' \subseteq Extra(s) /\ Certain(s)' \subseteq Certain(s)
      BY <1>7, <2>1, AllRuns
  <2>3. QED
      BY <1>1, <1>5, <1>8, <1>10, <2>2, ResetBudget
<1>11. \/ repeats'[s] = repeats[s] /\ cycles'[s] = cycles[s]
       \/ repeats'[s] = 0 /\ cycles'[s] = 0
    BY <1>4 DEF Typed, RedisOK, HistoryOK
<1>12. QED
    BY <1>9, <1>10, <1>11

-----------------------------------------------------------------------------
(* The keys that are freed *)

(* A WATCH key that is cleared under a run at work is paid for. *)
LEMMA FreePays ==
    ASSUME Typed, NEW r \in Run, NEW t \in Symbol, NEW D \in SUBSET Direction, Free(r, t, D),
           NEW s \in Symbol, NEW q \in Run \ {r},
           key[<<s, "WATCH">>] = q, key'[<<s, "WATCH">>] # q, pc[q] \in Stages
    PROVE  stolen' >= stolen + 1
<1>1. /\ key' = [c \in Candidate |-> IF c \in {t} \X D THEN NoRun ELSE key[c]]
      /\ stolen' = stolen + Cardinality(Taken(r, t, D))
      /\ Cardinality(Taken(r, t, D)) \in Nat
      /\ Taken(r, t, D) # {} => Cardinality(Taken(r, t, D)) >= 1
    BY FreeEffect
<1>2. <<s, "WATCH">> \in Candidate
    BY DEF Candidate, Direction
<1>3. <<s, "WATCH">> \in {t} \X D
    BY <1>1, <1>2
<1>4. <<s, "WATCH">> \in Taken(r, t, D)
    BY <1>3, GateAssumption DEF Taken
<1>5. stolen \in Nat
    BY DEF Typed, HistoryOK
<1> DEFINE n == Cardinality(Taken(r, t, D))
<1>6. n \in Nat /\ n >= 1 /\ stolen' = stolen + n
    BY <1>1, <1>4
<1> HIDE DEF n
<1>7. QED
    BY <1>5, <1>6

LEMMA ClearBudget == ASSUME Typed, Budget, NEW r \in Run, Clear(r) PROVE Budget'
<1>1. Typed' /\ OwnMemory(r)
    BY ClearTyped
<1>2. pc'[r] = "clear" /\ UNCHANGED <<cycles, repeats>>
    BY DEF Clear
<1>3. Meeting(r)
    BY OneCall DEF Clear
<1>4. troubles' >= troubles /\ troubles \in Nat /\ troubles' \in Nat
    BY <1>1, <1>3, MeetingFrame DEF Typed, MetOK
<1>5. stolen' >= stolen /\ stolen \in Nat /\ stolen' \in Nat
  <2>1. stolen \in Nat /\ stolen' \in Nat
      BY <1>1 DEF Typed, HistoryOK
  <2>2. CASE UNCHANGED <<key, stolen>>
      BY <2>1, <2>2
  <2>3. ASSUME NEW t \in Symbol, NEW D \in SUBSET Direction, Free(r, t, D)
        PROVE  stolen' >= stolen
      BY <2>3, FreeTyped DEF Typed
  <2>4. QED
      BY <2>1, <2>2, <2>3, ClearFrees
<1>6. Paid \in Nat /\ Paid' >= Paid /\ (stolen' >= stolen + 1 => Paid' >= Paid + 1)
  <2> DEFINE a == troubles'
             b == stolen'
             p == Paid'
  <2>1. Paid = troubles + stolen /\ p = a + b
      BY DEF Paid
  <2>2. a >= troubles /\ troubles \in Nat /\ a \in Nat /\ b >= stolen /\ stolen \in Nat /\ b \in Nat
      BY <1>4, <1>5
  <2> HIDE DEF a, b, p
  <2>3. Paid \in Nat /\ p >= Paid /\ (b >= stolen + 1 => p >= Paid + 1)
      BY <2>1, <2>2
  <2>4. QED
      BY <2>3 DEF b, p
<1> SUFFICES ASSUME NEW s \in Symbol PROVE BudgetAt(s)'
    BY DEF Budget
<1>7. BudgetAt(s) /\ repeats[s] \in Nat /\ cycles[s] \in Nat
    BY NaturalCounts DEF Budget
<1>8. repeats'[s] = repeats[s] /\ cycles'[s] >= cycles[s]
    BY <1>2, <1>7
<1>9. r \notin Extra(s)' /\ r \notin Certain(s)'
    BY <1>2, NotHopefulNext
<1>10. CASE \A q \in Run \ {r} : key[<<s, "WATCH">>] = q => key'[<<s, "WATCH">>] = q
    BY <1>1, <1>6, <1>7, <1>8, <1>9, <1>10, OwnBudget
<1>11. ASSUME NEW q \in Run \ {r}, key[<<s, "WATCH">>] = q, key'[<<s, "WATCH">>] # q
       PROVE  BudgetAt(s)'
  <2>1. /\ \A p \in Run \ {r} : p \in Extra(s)' => p \in Extra(s) \/ p = key[<<s, "WATCH">>]
        /\ \A p \in Run \ {r} : p \in Certain(s)' => p \in Certain(s)
      BY <1>1, Elsewhere
  <2>2. Extra(s)' \subseteq Extra(s) \union {q} /\ Certain(s)' \subseteq Certain(s)
      BY <1>9, <1>11, <2>1, AllRuns
  <2>3. CASE pc[q] \in Stages
    <3>1. PICK t \in Symbol, D \in SUBSET Direction : Free(r, t, D)
        BY <1>11, ClearFrees
    <3>2. stolen' >= stolen + 1
        BY <1>11, <2>3, <3>1, FreePays
    <3>3. Paid' >= Paid + 1
        BY <1>6, <3>2
    <3>4. Certain(s)' \subseteq Certain(s) \union {q}
        BY <2>2
    <3>5. QED
        BY <1>1, <1>7, <1>8, <2>2, <3>3, <3>4, QuietBudget
  <2>4. CASE pc[q] \notin Stages
    <3>1. pc'[q] \notin {"evaluate", "decay", "count"}
        BY <1>1, <2>4 DEF OwnMemory, Stages
    <3>2. q \notin Extra(s)'
        BY <3>1, NotHopefulNext
    <3>3. Extra(s)' \subseteq Extra(s)
        BY <2>2, <3>2
    <3>4. Certain(s)' \subseteq Certain(s) \union {q}
        BY <2>2
    <3>5. QED
        BY <1>1, <1>6, <1>7, <1>8, <2>2, <3>3, <3>4, QuietBudget
  <2>5. QED
      BY <2>3, <2>4
<1>12. QED
    BY <1>10, <1>11

(* A key expires only when its owner is no longer at work. *)
LEMMA ExpireBudget == ASSUME Typed, Budget, NEW c \in Candidate, Expire(c) PROVE Budget'
<1>1. Typed'
    BY ExpireTyped
<1>2. /\ UNCHANGED <<pc, batch, alerts, pending, met, cycles, repeats, stolen>>
      /\ key' = [key EXCEPT ![c] = NoRun] /\ pc[key[c]] \notin Stages
    BY DEF Expire, local
<1>3. Paid' = Paid
    BY <1>2 DEF met, Paid
<1> SUFFICES ASSUME NEW s \in Symbol PROVE BudgetAt(s)'
    BY DEF Budget
<1>4. BudgetAt(s) /\ repeats[s] \in Nat /\ cycles[s] \in Nat /\ Paid \in Nat
    BY NaturalCounts DEF Budget
<1>5. \A q \in Run : Copies(q, s)' = Copies(q, s)
    BY <1>2 DEF Copies
<1>6. /\ \A q \in Run : Open(q)' <=> Open(q)
      /\ \A q \in Run : Holds(q, s)' <=> Holds(q, s)
    BY <1>2, <1>5 DEF Open, Holds, met
<1>7. Hopeful(s)' = Hopeful(s)
    BY <1>2, <1>6 DEF Hopeful
<1>8. Certain(s)' \subseteq Certain(s)
    BY <1>2, <1>6, <1>7, <1>5 DEF Certain, Hopeful
<1>9. Extra(s)' \subseteq Extra(s)
  <2>1. ASSUME NEW q \in Extra(s)', q \notin Extra(s) PROVE FALSE
    <3>1. q \in Hopeful(s) /\ q = key[<<s, "WATCH">>] /\ q # key'[<<s, "WATCH">>] /\ q \in Run
        BY <1>6, <1>7, <2>1 DEF Extra, Hopeful
    <3>2. <<s, "WATCH">> \in Candidate
        BY DEF Candidate, Direction
    <3>3. c = <<s, "WATCH">>
        BY <1>2, <3>1, <3>2 DEF Typed, RedisOK
    <3>4. pc[q] \notin Stages
        BY <1>2, <3>1, <3>3
    <3>5. q \notin Hopeful(s)
        BY <3>4, NotHopeful DEF Stages
    <3>6. QED
        BY <3>1, <3>5
  <2>2. QED
      BY <2>1
<1>10. /\ repeats'[s] = repeats[s] /\ cycles'[s] >= cycles[s] /\ Paid' >= Paid
    BY <1>2, <1>3, <1>4
<1>11. /\ Extra(s)' \subseteq Extra(s) \union {NoRun}
       /\ Certain(s)' \subseteq Certain(s) \union {NoRun}
    BY <1>8, <1>9
<1>12. QED
    BY <1>1, <1>4, <1>8, <1>9, <1>10, <1>11, QuietBudget

(* A counter that expires takes the repeats it has counted with it. *)
LEMMA ForgetBudget == ASSUME Typed, Budget, NEW t \in Symbol, Forget(t) PROVE Budget'
<1>1. Typed'
    BY ForgetTyped
<1>2. /\ UNCHANGED <<key, pc, batch, alerts, pending, met, stolen>>
      /\ cycles' = [cycles EXCEPT ![t] = 0] /\ repeats' = [repeats EXCEPT ![t] = 0]
    BY DEF Forget, local
<1> SUFFICES ASSUME NEW s \in Symbol PROVE BudgetAt(s)'
    BY DEF Budget
<1>3. BudgetAt(s) /\ repeats[s] \in Nat /\ cycles[s] \in Nat /\ Paid \in Nat
    BY NaturalCounts DEF Budget
<1>4. Extra(s)' = Extra(s) /\ Certain(s)' = Certain(s)
    BY <1>2, SameRuns DEF met
<1>5. Paid' >= Paid
    BY <1>2, <1>3 DEF met, Paid
<1>6. CASE s = t
  <2>1. repeats'[s] = 0 /\ cycles'[s] = 0
      BY <1>2, <1>6 DEF Typed, RedisOK, HistoryOK
  <2>2. QED
      BY <1>1, <1>3, <1>4, <1>5, <2>1, ResetBudget
<1>7. CASE s # t
  <2>1. repeats'[s] = repeats[s] /\ cycles'[s] >= cycles[s]
      BY <1>2, <1>3, <1>7 DEF Typed, RedisOK, HistoryOK
  <2>2. /\ Extra(s)' \subseteq Extra(s) \union {NoRun}
        /\ Certain(s)' \subseteq Certain(s) \union {NoRun}
      BY <1>4
  <2>3. QED
      BY <1>1, <1>3, <1>4, <1>5, <2>1, <2>2, QuietBudget
<1>8. QED
    BY <1>6, <1>7

-----------------------------------------------------------------------------
(* The theorem *)

LEMMA BudgetInit == Init => Budget
<1> SUFFICES ASSUME Init, NEW s \in Symbol PROVE BudgetAt(s)
    BY DEF Budget
<1>1. Extra(s) = {} /\ Certain(s) = {}
  <2>1. \A r \in Run : pc[r] \notin {"evaluate", "decay", "count"}
      BY DEF Init
  <2>2. \A r \in Run : r \notin Extra(s) /\ r \notin Certain(s)
      BY <2>1, NotHopeful
  <2>3. QED
      BY <2>2, AllRuns
<1>2. Cardinality(Extra(s)) = 0 /\ Cardinality(Certain(s)) = 0
    BY <1>1, FS_EmptySet
<1>3. repeats[s] = 0 /\ cycles[s] = 0 /\ Paid = 0 /\ DecayCycles \in Nat
    BY GateAssumption DEF Init, Paid
<1>4. QED
    BY <1>2, <1>3 DEF BudgetAt

LEMMA BudgetStutter == ASSUME Budget, UNCHANGED vars PROVE Budget'
<1>1. UNCHANGED <<key, cycles, pc, batch, alerts, pending, fails, troubles, stolen, repeats>>
    BY DEF vars, redis, local, met, history
<1>2. \A s : Extra(s)' = Extra(s) /\ Certain(s)' = Certain(s)
    BY <1>1, SameRuns
<1>3. Paid' = Paid
    BY <1>1 DEF Paid
<1>4. ASSUME NEW s \in Symbol PROVE BudgetAt(s)'
  <2>1. BudgetAt(s)
      BY DEF Budget
  <2>2. Cardinality(Extra(s)') = Cardinality(Extra(s))
        /\ Cardinality(Certain(s)') = Cardinality(Certain(s))
      BY <1>2
  <2>3. QED
      BY <1>1, <1>3, <2>1, <2>2 DEF BudgetAt
<1>5. QED
    BY <1>4 DEF Budget

LEMMA BudgetStep == Typed /\ WatchesOnly /\ Budget /\ [Next]_vars => Budget'
<1> SUFFICES ASSUME Typed, WatchesOnly, Budget, [Next]_vars PROVE Budget'
    OBVIOUS
<1>1. ASSUME NEW r \in Run, Step(r) PROVE Budget'
    BY <1>1, OutsideBudget, EvaluateBudget, RankBudget, DropDecayedBudget, CapBudget, CountBudget,
       GraduateBudget, ClearBudget DEF Step
<1>2. QED
    BY <1>1, BudgetStutter, OutsideBudget, ExpireBudget, ForgetBudget DEF Next

(* The alerts a run counts are the WATCHes its ranking has kept. *)
LEMMA WatchesOnlyStep == Typed /\ WatchesOnly /\ [Next]_vars => WatchesOnly'
<1> SUFFICES ASSUME Typed, WatchesOnly, [Next]_vars PROVE WatchesOnly'
    OBVIOUS
<1>1. CASE UNCHANGED <<pc, alerts, batch>>
    BY <1>1 DEF WatchesOnly
<1>2. ASSUME NEW r \in Run, Step(r) \/ Retry(r) \/ Crash(r) PROVE WatchesOnly'
  <2>1. OwnMemory(r)
      BY <1>2, OwnStep
  <2>2. pc'[r] \in {"decay", "count"} => \A i \in alerts'[r] : batch'[r][i][2] = "WATCH"
    <3>1. CASE Rank(r)
      <4>1. pc'[r] = "decay" => alerts'[r] = Watches(r)
          BY <3>1, RankKeeps DEF Typed
      <4>2. UNCHANGED batch /\ pc'[r] \in {"decay", "graduate"}
          BY <3>1, RankKeeps DEF Rank, local, Typed
      <4>3. QED
          BY <4>1, <4>2 DEF Watches
    <3>2. CASE DropDecayed(r) \/ Cap(r) \/ Count(r)
      <4>1. pc[r] \in {"decay", "count"} /\ UNCHANGED batch
          BY <3>2 DEF DropDecayed, Cap, Count, local
      <4>2. alerts'[r] \subseteq alerts[r]
        <5>1. CASE DropDecayed(r)
            BY <5>1 DEF DropDecayed, Drop, Typed, RunsOK
        <5>2. CASE Cap(r)
            BY <5>2, CutSubset DEF Cap, Typed, RunsOK
        <5>3. CASE Count(r)
            BY <5>3 DEF Count
        <5>4. QED
            BY <3>2, <5>1, <5>2, <5>3
      <4>3. QED
          BY <4>1, <4>2 DEF WatchesOnly
    <3>3. CASE Start(r) \/ Evaluate(r) \/ Graduate(r) \/ Clear(r) \/ LoopEnds(r) \/ Report(r)
               \/ Retry(r) \/ Crash(r)
      <4>1. pc'[r] \notin {"decay", "count"}
          BY <3>3 DEF Start, Evaluate, Graduate, Clear, LoopEnds, Report, Retry, Crash, Exit,
                      Typed, RunsOK
      <4>2. QED
          BY <4>1
    <3>4. QED
        BY <1>2, <3>1, <3>2, <3>3 DEF Step
  <2>3. QED
      BY <2>1, <2>2 DEF OwnMemory, WatchesOnly
<1>3. ASSUME NEW c \in Candidate, Expire(c) PROVE UNCHANGED <<pc, alerts, batch>>
    BY <1>3 DEF Expire, local
<1>4. ASSUME NEW s \in Symbol, Forget(s) PROVE UNCHANGED <<pc, alerts, batch>>
    BY <1>4 DEF Forget, local
<1>5. UNCHANGED vars => UNCHANGED <<pc, alerts, batch>>
    BY DEF vars, local
<1>6. QED
    BY <1>1, <1>2, <1>3, <1>4, <1>5 DEF Next

LEMMA BudgetBoundsRepeats == Typed /\ Budget => RepeatsBounded
<1> SUFFICES ASSUME Typed, Budget, NEW s \in Symbol
             PROVE  repeats[s] <= DecayCycles + troubles + stolen
    BY DEF RepeatsBounded
<1>1. Cardinality(Certain(s)) \in Nat
    BY HopefulNearlyExtra
<1>2. repeats[s] + Cardinality(Certain(s)) <= DecayCycles + Paid
    BY DEF Budget, BudgetAt
<1>3. repeats[s] \in Nat /\ troubles \in Nat /\ stolen \in Nat /\ DecayCycles \in Nat
    BY NaturalCounts
<1> DEFINE k == Cardinality(Certain(s))
<1>4. k \in Nat /\ repeats[s] + k <= DecayCycles + (troubles + stolen)
    BY <1>1, <1>2 DEF Paid
<1> HIDE DEF k
<1>5. QED
    BY <1>3, <1>4

(* Since its symbol last went directional, or its counter last expired, at *)
(* most WATCH_DECAY_CYCLES runs let a WATCH through, and one more for each *)
(* failure and for each key that was cleared under a run at work, for any  *)
(* number of runs interleaved in any way and whatever their candidates.    *)
THEOREM WatchesStopRepeating == Spec => []RepeatsBounded
<1>1. Init => WatchesOnly
    BY DEF Init, WatchesOnly
<1>2. QED
    BY <1>1, TypedInit, TypedStep, WatchesOnlyStep, BudgetInit, BudgetStep, BudgetBoundsRepeats, PTL
    DEF Spec
=============================================================================
