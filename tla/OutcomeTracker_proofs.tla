----------------------- MODULE OutcomeTracker_proofs -----------------------
(***************************************************************************)
(* Proofs about OutcomeTracker, for any number of rows, symbols and        *)
(* trackers, every limit of the query, with and without the forecast.      *)
(***************************************************************************)
EXTENDS OutcomeTracker, TLAPS

(* What a tracker may be in, apart from the others. *)
State ==
    [pc: {"idle", "cycle", "write", "expire"}, todo: SUBSET Row,
     price: Quote \union {"none"}, verdict: Outcome \union {"open"},
     forecast: [Symbol -> {"unasked", "agrees", "disagrees"}]]

-----------------------------------------------------------------------------
(* Type correctness *)

LEMMA IdleType == Idle \in State
BY DEF Idle, State, NoForecast

LEMMA TrackerState == TypeOK => \A t \in Tracker : tracker[t] \in State
BY DEF TypeOK, State

(* A tracker is given other rows to look at, or something to write. *)
LEMMA RowsGiven ==
    ASSUME NEW f \in State, NEW rows \in SUBSET Row, NEW pc \in {"idle", "cycle", "write", "expire"}
    PROVE  [f EXCEPT !.pc = pc, !.todo = rows] \in State
BY DEF State

LEMMA VerdictGiven ==
    ASSUME NEW f \in State, NEW pc \in {"idle", "cycle", "write", "expire"},
           NEW price \in Quote \union {"none"}, NEW verdict \in Outcome \union {"open"}
    PROVE  [f EXCEPT !.pc = pc, !.price = price, !.verdict = verdict] \in State
BY DEF State

LEMMA RowTaken ==
    ASSUME NEW f \in State, NEW i
    PROVE  [f EXCEPT !.todo = @ \ {i}] \in State
<1> DEFINE rows == f.todo \ {i}
<1>1. rows \in SUBSET Row
    BY DEF State
<1> HIDE DEF rows
<1>2. [f EXCEPT !.todo = rows] \in State
    BY <1>1 DEF State
<1>3. QED
    BY <1>2 DEF rows

LEMMA DoneType ==
    ASSUME TypeOK, NEW t \in Tracker, NEW i \in Row
    PROVE  Done(t, i) \in State
<1> DEFINE rows == tracker[t].todo \ {i}
           f    == [tracker[t] EXCEPT !.pc = "cycle", !.todo = rows]
<1>1. tracker[t] \in State
    BY TrackerState
<1>2. rows \in SUBSET Row
    BY <1>1 DEF State
<1>3. Done(t, i) = [tracker[t] EXCEPT !.pc = "cycle", !.todo = rows, !.price = "none",
                                      !.verdict = "open"]
    BY DEF Done
<1> HIDE DEF rows
<1>4. f \in State
    BY <1>1, <1>2, RowsGiven
<1>5. [f EXCEPT !.pc = "cycle", !.price = "none", !.verdict = "open"] \in State
    BY <1>4, VerdictGiven
<1>6. Done(t, i) = [f EXCEPT !.pc = "cycle", !.price = "none", !.verdict = "open"]
    BY <1>1, <1>3 DEF State
<1>7. QED
    BY <1>5, <1>6

LEMMA DecidedType ==
    ASSUME TypeOK, NEW t \in Tracker, NEW i \in Row, NEW quote \in Quote,
           NEW verdict \in Outcome \union {"open"}
    PROVE  Decided(t, i, quote, verdict) \in State
<1>1. tracker[t] \in State
    BY TrackerState
<1>2. [tracker[t] EXCEPT !.pc = "write", !.price = quote, !.verdict = verdict] \in State
    BY <1>1, VerdictGiven
<1>3. QED
    BY <1>2, DoneType DEF Decided

LEMMA TypeInit == Init => TypeOK
<1> SUFFICES ASSUME Init PROVE TypeOK
    OBVIOUS
<1>1. <<deployed, skipped>> \in Deployments
  <2>1. PICK d \in Deployments : deployed = d[1] /\ skipped = d[2]
      BY DEF Init
  <2>2. d \in (SUBSET Tracker) \X (SUBSET Row)
      BY TrackerAssumption
  <2>3. QED
      BY <2>1, <2>2
<1>2. tracker \in [Tracker -> State]
    BY IdleType DEF Init
<1>3. QED
    BY <1>1, <1>2, TrackerAssumption DEF Init, TypeOK, State

LEMMA TypeStep == TypeOK /\ [Next]_vars => TypeOK'
<1> SUFFICES ASSUME TypeOK, [Next]_vars PROVE TypeOK'
    OBVIOUS
<1> USE TrackerAssumption
<1>a. Stored \subseteq Row
    BY DEF Stored, Row, TypeOK
<1>b. OpenAlerts \subseteq Row
    BY <1>a DEF OpenAlerts, Open
<1>c. ASSUME tracker' \in [Tracker -> State], UNCHANGED <<deployed, skipped, stored, age>>,
             outcome' \in [Row -> Outcome \union {"open"}],
             heard' \in [Tracker -> SUBSET Symbol], missed' \in [Tracker -> SUBSET Row],
             troubles' \in 0 .. MaxTroubles
      PROVE  TypeOK'
    BY <1>c DEF TypeOK, State
<1>d. /\ tracker \in [Tracker -> State]
      /\ outcome \in [Row -> Outcome \union {"open"}]
      /\ heard \in [Tracker -> SUBSET Symbol]
      /\ missed \in [Tracker -> SUBSET Row]
      /\ troubles \in 0 .. MaxTroubles
    BY DEF TypeOK, State
<1>1. CASE Insert
    BY <1>1 DEF Insert, TypeOK
<1>2. ASSUME NEW i \in Row, Ripen(i) PROVE TypeOK'
    BY <1>2 DEF Ripen, TypeOK
<1>3. ASSUME NEW t \in Tracker, Start(t) PROVE TypeOK'
  <2>1. [tracker[t] EXCEPT !.pc = "cycle", !.todo = OpenAlerts \ skipped] \in State
      BY <1>b, TrackerState, RowsGiven
  <2>2. tracker' = [tracker EXCEPT ![t] =
                      [tracker[t] EXCEPT !.pc = "cycle", !.todo = OpenAlerts \ skipped]]
      BY <1>3, <1>d DEF Start
  <2>3. tracker' \in [Tracker -> State]
      BY <2>1, <2>2, <1>d
  <2>4. QED
      BY <1>3, <2>3, <1>c, <1>d DEF Start
<1>4. ASSUME NEW t \in Tracker, NEW i \in Row, LeaveOpen(t, i) PROVE TypeOK'
    BY <1>4, DoneType, <1>c, <1>d DEF LeaveOpen
<1>5. ASSUME NEW t \in Tracker, NEW i \in Row, NEW quote \in Quote, Judge(t, i, quote)
      PROVE  TypeOK'
  <2>1. Evaluate(i, quote) \in Outcome \union {"open"}
      BY DEF Evaluate, Outcome
  <2>2. Decided(t, i, quote, Evaluate(i, quote)) \in State
      BY <2>1, DecidedType
  <2>3. QED
      BY <1>5, <2>2, <1>c, <1>d DEF Judge
<1>6. ASSUME NEW t \in Tracker, NEW i \in Row, NEW quote \in Quote, JudgeByForecast(t, i, quote)
      PROVE  TypeOK'
  <2>1. PICK answer \in Answers(t, i) :
          /\ tracker' = [tracker EXCEPT ![t] =
                            [Decided(t, i, quote, Tightened(quote, answer))
                                EXCEPT !.forecast[SymbolOf[i]] = answer]]
          /\ heard' = IF tracker[t].forecast[SymbolOf[i]] = "unasked" /\ answer = "disagrees"
                      THEN [heard EXCEPT ![t] = @ \union {SymbolOf[i]}]
                      ELSE heard
      BY <1>6 DEF JudgeByForecast
  <2>2. SymbolOf[i] \in Symbol
      OBVIOUS
  <2>3. answer \in {"unasked", "agrees", "disagrees"}
      BY <1>d, <2>1, <2>2 DEF Answers, State
  <2>4. Decided(t, i, quote, Tightened(quote, answer)) \in State
      BY DecidedType DEF Tightened, Outcome
  <2>5. [Decided(t, i, quote, Tightened(quote, answer)) EXCEPT !.forecast[SymbolOf[i]] = answer]
            \in State
      BY <2>2, <2>3, <2>4 DEF State
  <2>6. tracker' \in [Tracker -> State] /\ heard' \in [Tracker -> SUBSET Symbol]
      BY <2>1, <2>2, <2>5, <1>d
  <2>7. QED
      BY <1>6, <2>6, <1>c, <1>d DEF JudgeByForecast
<1>7. ASSUME NEW i \in Row, NEW t \in Tracker, NEW value \in Outcome \union {"open"},
             Record(t, i, value)
      PROVE  /\ outcome' \in [Row -> Outcome \union {"open"}]
             /\ missed' \in [Tracker -> SUBSET Row]
    BY <1>7, <1>d DEF Record
<1>8. ASSUME NEW t \in Tracker, NEW i \in Row, Write(t, i) PROVE TypeOK'
  <2>1. tracker[t].verdict \in Outcome \union {"open"}
      BY <1>d DEF State
  <2>2. QED
      BY <1>8, <2>1, <1>7, DoneType, <1>c, <1>d DEF Write
<1>9. ASSUME NEW t \in Tracker, EndCycle(t) \/ SkipCycle(t) PROVE TypeOK'
  <2>1. Expiring \in State
      BY IdleType, <1>b, RowsGiven DEF Expiring
  <2>2. tracker' \in [Tracker -> State]
      BY <1>9, <2>1, IdleType, <1>d DEF EndCycle, SkipCycle
  <2>3. QED
      BY <1>9, <2>2, <1>c, <1>d DEF EndCycle, SkipCycle
<1>10. ASSUME NEW t \in Tracker, NEW i \in Row, ExpireStale(t, i) PROVE TypeOK'
  <2>a. [tracker[t] EXCEPT !.todo = @ \ {i}] \in State
      BY TrackerState, RowTaken
  <2>1. tracker' \in [Tracker -> State]
      BY <1>10, <2>a, <1>d DEF ExpireStale
  <2>2. "EXPIRED" \in Outcome
      BY DEF Outcome
  <2>3. QED
      BY <1>10, <2>1, <2>2, <1>7, <1>c, <1>d DEF ExpireStale
<1>11. ASSUME NEW t \in Tracker, EndExpiry(t) PROVE TypeOK'
    BY <1>11, IdleType, <1>c, <1>d DEF EndExpiry
<1>12. ASSUME NEW t \in Tracker, Kill(t) PROVE TypeOK'
    BY <1>12, IdleType, <1>c, <1>d DEF Kill
<1>13. CASE UNCHANGED vars
    BY <1>13 DEF vars, TypeOK
<1>14. QED
    BY <1>1, <1>2, <1>3, <1>4, <1>5, <1>6, <1>8, <1>9, <1>10, <1>11, <1>12, <1>13
       DEF Next, Work

(* The variables keep their types. *)
THEOREM TypeCorrect == Spec => []TypeOK
BY TypeInit, TypeStep, PTL DEF Spec
-----------------------------------------------------------------------------
(* Overwritten outcomes *)

(* A step that takes no row up and writes none keeps OverwriteNeedsOverlap. *)
LEMMA NothingTakenUp ==
    ASSUME OverwriteNeedsOverlap, outcome' = outcome,
           \A t \in Tracker :
               \/ tracker'[t].todo \subseteq tracker[t].todo /\ missed'[t] = missed[t]
               \/ \A i \in tracker'[t].todo : outcome[i] = "open"
    PROVE  OverwriteNeedsOverlap'
BY DEF OverwriteNeedsOverlap

(* Nor does a write: whoever else still has the row to look at is recorded *)
(* as having missed it.                                                    *)
LEMMA RowWritten ==
    ASSUME TypeOK, OverwriteNeedsOverlap, NEW t \in Tracker, NEW i \in Row, NEW value,
           Record(t, i, value),
           tracker'[t].todo = tracker[t].todo \ {i},
           \A u \in Tracker \ {t} : tracker'[u] = tracker[u]
    PROVE  OverwriteNeedsOverlap'
<1> SUFFICES ASSUME NEW u \in Tracker, NEW j \in tracker'[u].todo, outcome'[j] # "open"
             PROVE  j \in missed'[u]
    BY DEF OverwriteNeedsOverlap
<1>1. j \in tracker[u].todo /\ j \in Row
    BY DEF TypeOK
<1>2. missed[u] \subseteq missed'[u]
    BY DEF Record
<1>3. CASE j = i
    BY <1>1, <1>3 DEF Record
<1>4. CASE j # i
    BY <1>1, <1>2, <1>4 DEF Record, TypeOK, OverwriteNeedsOverlap
<1>5. QED
    BY <1>3, <1>4

LEMMA OverlapStep ==
    TypeOK /\ OverwriteNeedsOverlap /\ [Next]_vars => OverwriteNeedsOverlap'
<1> SUFFICES ASSUME TypeOK, OverwriteNeedsOverlap, [Next]_vars PROVE OverwriteNeedsOverlap'
    OBVIOUS
<1>a. tracker \in [Tracker -> State] /\ missed \in [Tracker -> SUBSET Row]
    BY DEF TypeOK, State
<1>b. ASSUME NEW t \in Tracker, NEW i \in Row
      PROVE  Done(t, i).todo = tracker[t].todo \ {i}
    BY <1>a DEF Done, State
<1>c. \A i \in OpenAlerts : outcome[i] = "open"
    BY DEF OpenAlerts, Open
<1>1. CASE Insert
    BY <1>1, NothingTakenUp DEF Insert
<1>2. ASSUME NEW i \in Row, Ripen(i) PROVE OverwriteNeedsOverlap'
    BY <1>2, NothingTakenUp DEF Ripen
<1>3. ASSUME NEW t \in Tracker, Start(t) PROVE OverwriteNeedsOverlap'
  <2>1. tracker'[t].todo = OpenAlerts \ skipped
      BY <1>3, <1>a DEF Start, State
  <2>2. \A u \in Tracker \ {t} : tracker'[u] = tracker[u]
      BY <1>3, <1>a DEF Start
  <2>3. QED
      BY <1>3, <2>1, <2>2, <1>c, NothingTakenUp DEF Start
<1>4. ASSUME NEW t \in Tracker, NEW i \in Row, LeaveOpen(t, i) PROVE OverwriteNeedsOverlap'
  <2>1. tracker'[t].todo \subseteq tracker[t].todo
      BY <1>4, <1>a, <1>b DEF LeaveOpen
  <2>2. QED
      BY <1>4, <1>a, <2>1, NothingTakenUp DEF LeaveOpen
<1>5. ASSUME NEW t \in Tracker, NEW i \in Row, NEW quote,  NEW verdict
      PROVE  Decided(t, i, quote, verdict).todo \subseteq tracker[t].todo
    BY <1>a, <1>b DEF Decided, State
<1>6. ASSUME NEW t \in Tracker, NEW i \in Row, NEW quote \in Quote, Judge(t, i, quote)
      PROVE  OverwriteNeedsOverlap'
  <2>1. tracker'[t].todo \subseteq tracker[t].todo
      BY <1>6, <1>5, <1>a DEF Judge
  <2>2. QED
      BY <1>6, <1>a, <2>1, NothingTakenUp DEF Judge
<1>7. ASSUME NEW t \in Tracker, NEW i \in Row, NEW quote \in Quote, JudgeByForecast(t, i, quote)
      PROVE  OverwriteNeedsOverlap'
  <2>1. PICK answer \in Answers(t, i) :
          tracker' = [tracker EXCEPT ![t] =
                        [Decided(t, i, quote, Tightened(quote, answer))
                            EXCEPT !.forecast[SymbolOf[i]] = answer]]
      BY <1>7 DEF JudgeByForecast
  <2>2. Decided(t, i, quote, Tightened(quote, answer)) \in State
      BY DecidedType DEF Tightened, Outcome
  <2>3. tracker'[t].todo \subseteq tracker[t].todo
      BY <2>1, <2>2, <1>5, <1>a DEF State
  <2>4. QED
      BY <1>7, <1>a, <2>1, <2>3, NothingTakenUp DEF JudgeByForecast
<1>8. ASSUME NEW t \in Tracker, NEW i \in Row, Write(t, i) PROVE OverwriteNeedsOverlap'
    BY <1>8, <1>a, <1>b, RowWritten DEF Write
<1>9. ASSUME NEW t \in Tracker, EndCycle(t) \/ SkipCycle(t) PROVE OverwriteNeedsOverlap'
  <2>1. tracker'[t] \in {Idle, Expiring}
      BY <1>9, <1>a DEF EndCycle, SkipCycle
  <2>2. Idle.todo \subseteq OpenAlerts /\ Expiring.todo \subseteq OpenAlerts
      BY DEF Expiring, Idle
  <2>3. \A i \in tracker'[t].todo : outcome[i] = "open"
      BY <1>c, <2>1, <2>2
  <2>4. QED
      BY <1>9, <1>a, <2>3, NothingTakenUp DEF EndCycle, SkipCycle
<1>10. ASSUME NEW t \in Tracker, NEW i \in Row, ExpireStale(t, i) PROVE OverwriteNeedsOverlap'
  <2>1. tracker'[t].todo = tracker[t].todo \ {i}
      BY <1>10, <1>a DEF ExpireStale, State
  <2>2. QED
      BY <1>10, <1>a, <2>1, RowWritten DEF ExpireStale
<1>11. ASSUME NEW t \in Tracker, EndExpiry(t) \/ Kill(t) PROVE OverwriteNeedsOverlap'
  <2>1. tracker'[t].todo = {}
      BY <1>11, <1>a DEF EndExpiry, Kill, Idle
  <2>2. QED
      BY <1>11, <1>a, <2>1, NothingTakenUp DEF EndExpiry, Kill
<1>12. CASE UNCHANGED vars
    BY <1>12, NothingTakenUp DEF vars
<1>13. QED
    BY <1>1, <1>2, <1>3, <1>4, <1>6, <1>7, <1>8, <1>9, <1>10, <1>11, <1>12 DEF Next, Work

(* No cycle of any tracker is about to judge a row that was resolved before *)
(* it began: an outcome is overwritten only by trackers that overlap.       *)
THEOREM OverwriteNeedsOverlapHolds == Spec => []OverwriteNeedsOverlap
<1>1. Init => OverwriteNeedsOverlap
    BY DEF Init, OverwriteNeedsOverlap, Idle
<1>2. QED
    BY <1>1, TypeInit, TypeStep, OverlapStep, PTL DEF Spec
-----------------------------------------------------------------------------
(* One tracker in operation *)

(* The others rest, and nobody writes a row before the one at work does.   *)
Resting ==
    /\ \A t \in Tracker \ deployed : tracker[t].pc = "idle" /\ tracker[t].todo = {}
    /\ \A t \in Tracker : deployed = {t} => missed[t] = {}

LEMMA RestingStep == TypeOK /\ Resting /\ [Next]_vars => Resting'
<1> SUFFICES ASSUME TypeOK, Resting, [Next]_vars PROVE Resting'
    OBVIOUS
<1>a. tracker \in [Tracker -> State] /\ missed \in [Tracker -> SUBSET Row]
    BY DEF TypeOK, State
<1>b. ASSUME NEW t \in deployed, UNCHANGED deployed,
             \A u \in Tracker \ {t} : tracker'[u] = tracker[u],
             deployed = {t} => missed'[t] = missed[t] \/ missed'[t] = {}
      PROVE  Resting'
    BY <1>b DEF Resting
<1>c. ASSUME NEW t \in Tracker, tracker[t].pc # "idle" PROVE t \in deployed
    BY <1>c DEF Resting
<1>d. ASSUME NEW t \in Tracker, NEW i \in Row, NEW value, Record(t, i, value)
      PROVE  missed'[t] = missed[t]
    BY <1>d, <1>a DEF Record
<1>1. CASE Insert
    BY <1>1 DEF Insert, Resting
<1>2. ASSUME NEW i \in Row, Ripen(i) PROVE Resting'
    BY <1>2 DEF Ripen, Resting
<1>3. ASSUME NEW t \in Tracker, Start(t) PROVE Resting'
    BY <1>3, <1>a, <1>b DEF Start
<1>4. ASSUME NEW t \in Tracker, NEW i \in Row, LeaveOpen(t, i) PROVE Resting'
    BY <1>4, <1>a, <1>b, <1>c DEF LeaveOpen
<1>5. ASSUME NEW t \in Tracker, NEW i \in Row, NEW quote \in Quote, Judge(t, i, quote)
      PROVE  Resting'
    BY <1>5, <1>a, <1>b, <1>c DEF Judge
<1>6. ASSUME NEW t \in Tracker, NEW i \in Row, NEW quote \in Quote, JudgeByForecast(t, i, quote)
      PROVE  Resting'
  <2>1. \A u \in Tracker \ {t} : tracker'[u] = tracker[u]
      BY <1>6, <1>a DEF JudgeByForecast
  <2>2. QED
      BY <1>6, <2>1, <1>b, <1>c DEF JudgeByForecast
<1>7. ASSUME NEW t \in Tracker, NEW i \in Row, Write(t, i) PROVE Resting'
    BY <1>7, <1>a, <1>b, <1>c, <1>d DEF Write
<1>8. ASSUME NEW t \in Tracker, EndCycle(t) PROVE Resting'
    BY <1>8, <1>a, <1>b, <1>c DEF EndCycle
<1>9. ASSUME NEW t \in Tracker, NEW i \in Row, ExpireStale(t, i) PROVE Resting'
    BY <1>9, <1>a, <1>b, <1>c, <1>d DEF ExpireStale
<1>10. ASSUME NEW t \in Tracker, EndExpiry(t) PROVE Resting'
    BY <1>10, <1>a, <1>b, <1>c DEF EndExpiry
<1>11. ASSUME NEW t \in Tracker, Kill(t) PROVE Resting'
    BY <1>11, <1>a, <1>b, <1>c DEF Kill
<1>12. ASSUME NEW t \in Tracker, SkipCycle(t) PROVE Resting'
    BY <1>12, <1>a, <1>b DEF SkipCycle
<1>13. CASE UNCHANGED vars
    BY <1>13 DEF vars, Resting
<1>14. QED
    BY <1>1, <1>2, <1>3, <1>4, <1>5, <1>6, <1>7, <1>8, <1>9, <1>10, <1>11, <1>12, <1>13
       DEF Next, Work

(* A write of the only tracker finds its row open. *)
LEMMA AloneKeepsOutcomes ==
    ASSUME TypeOK, OverwriteNeedsOverlap, Resting, [Next]_vars,
           NEW t \in Tracker, deployed = {t}, NEW i \in Row, outcome[i] # "open"
    PROVE  outcome'[i] = outcome[i]
<1>1. ASSUME NEW u \in Tracker, NEW j \in Row, Write(u, j) \/ ExpireStale(u, j)
      PROVE  outcome'[i] = outcome[i]
  <2>1. tracker[u].pc # "idle" /\ j \in tracker[u].todo
      BY <1>1 DEF Write, ExpireStale, Current
  <2>2. u = t
      BY <2>1 DEF Resting
  <2>3. outcome[j] = "open"
      BY <2>1, <2>2 DEF Resting, OverwriteNeedsOverlap
  <2>4. \E value : outcome' = [outcome EXCEPT ![j] = value]
      BY <1>1 DEF Write, ExpireStale, Record
  <2>5. QED
      BY <2>3, <2>4 DEF TypeOK
<1>2. CASE UNCHANGED outcome
    BY <1>2
<1>3. ASSUME NEW u \in Tracker, NEW j \in Row,
             \/ Insert \/ Ripen(j) \/ Start(u) \/ LeaveOpen(u, j)
             \/ EndCycle(u) \/ SkipCycle(u) \/ EndExpiry(u) \/ Kill(u) \/ UNCHANGED vars
      PROVE  UNCHANGED outcome
    BY <1>3 DEF Insert, Ripen, Start, LeaveOpen, EndCycle, SkipCycle, EndExpiry, Kill, vars
<1>4. ASSUME NEW u \in Tracker, NEW j \in Row, NEW quote \in Quote,
             Judge(u, j, quote) \/ JudgeByForecast(u, j, quote)
      PROVE  UNCHANGED outcome
    BY <1>4 DEF Judge, JudgeByForecast
<1>5. QED
    BY <1>1, <1>2, <1>3, <1>4 DEF Next, Work

(* Where one tracker is in operation, as the crontab deploys it, an outcome *)
(* once written stays as it is, whatever is killed or fails.                *)
THEOREM FinalWhenAloneHolds == Spec => FinalWhenAlone
<1>1. Init => OverwriteNeedsOverlap /\ Resting
    BY DEF Init, OverwriteNeedsOverlap, Resting, Idle
<1>2. TypeOK /\ OverwriteNeedsOverlap /\ Resting /\ [Next]_vars =>
         [(\E t \in Tracker : deployed = {t}) =>
             \A i \in Row : outcome[i] # "open" => outcome'[i] = outcome[i]]_vars
    BY AloneKeepsOutcomes
<1>3. QED
    BY <1>1, <1>2, TypeInit, TypeStep, OverlapStep, RestingStep, PTL DEF Spec, FinalWhenAlone

-----------------------------------------------------------------------------
(* Losses in profit *)

(* A disagreement in the cache was heard in this cycle. *)
CacheIsHeard ==
    \A t \in Tracker : \A s \in Symbol :
        tracker[t].forecast[s] = "disagrees" => s \in heard[t]

LossInv == CacheIsHeard /\ LossInProfitHasForecast

(* What LossInv says of one tracker. *)
LossInvOf(t) ==
    /\ \A s \in Symbol : tracker[t].forecast[s] = "disagrees" => s \in heard[t]
    /\ \A i \in Row :
          /\ tracker[t].pc = "write"
          /\ Current(t, i)
          /\ tracker[t].price = "slight"
          /\ tracker[t].verdict = "LOSS"
          => SymbolOf[i] \in heard[t]

AllLossInv == \A t \in Tracker : LossInvOf(t)

LEMMA LossInvByTracker == LossInv <=> AllLossInv
BY DEF AllLossInv, LossInv, CacheIsHeard, LossInProfitHasForecast, LossInvOf

(* The newest row still to look at is one row. *)
LEMMA CurrentUnique ==
    ASSUME TypeOK, NEW t \in Tracker, NEW i \in Row, NEW j \in Row, Current(t, i), Current(t, j)
    PROVE  i = j
BY TrackerAssumption DEF Current, Row

LEMMA LossStep == TypeOK /\ LossInv /\ [Next]_vars => LossInv'
<1> SUFFICES ASSUME TypeOK, AllLossInv, [Next]_vars PROVE AllLossInv'
    BY LossInvByTracker, PTL
<1> SUFFICES \A t \in Tracker : LossInvOf(t)'
    BY DEF AllLossInv
<1>0. \A t \in Tracker : LossInvOf(t)
    BY DEF AllLossInv
<1>a. tracker \in [Tracker -> State] /\ heard \in [Tracker -> SUBSET Symbol]
    BY DEF TypeOK, State
<1>b. ASSUME NEW t \in Tracker, tracker'[t] = tracker[t], heard'[t] = heard[t]
      PROVE  LossInvOf(t)'
    BY <1>0, <1>b DEF LossInvOf, Current
<1>c. ASSUME NEW t \in Tracker, tracker'[t].pc # "write",
             \/ tracker'[t].forecast = tracker[t].forecast /\ heard'[t] = heard[t]
             \/ tracker'[t].forecast = NoForecast
      PROVE  LossInvOf(t)'
    BY <1>0, <1>c DEF LossInvOf, NoForecast
<1>d. ASSUME NEW t \in Tracker, NEW i \in Row
      PROVE  Done(t, i).pc = "cycle" /\ Done(t, i).forecast = tracker[t].forecast
    BY <1>a DEF Done, State
<1>e. Idle.pc = "idle" /\ Idle.forecast = NoForecast
    BY DEF Idle
<1>1. CASE Insert
    BY <1>1, <1>b DEF Insert
<1>2. ASSUME NEW i \in Row, Ripen(i) PROVE \A t \in Tracker : LossInvOf(t)'
    BY <1>2, <1>b DEF Ripen
<1>3. ASSUME NEW t \in Tracker, Start(t) PROVE \A u \in Tracker : LossInvOf(u)'
  <2>1. tracker'[t].pc = "cycle" /\ tracker'[t].forecast = tracker[t].forecast
      BY <1>3, <1>a DEF Start, State
  <2>2. QED
      BY <1>3, <2>1, <1>a, <1>b, <1>c DEF Start
<1>4. ASSUME NEW t \in Tracker, NEW i \in Row, LeaveOpen(t, i) \/ Write(t, i)
      PROVE  \A u \in Tracker : LossInvOf(u)'
  <2>1. tracker'[t] = Done(t, i)
      BY <1>4, <1>a DEF LeaveOpen, Write
  <2>2. QED
      BY <1>4, <2>1, <1>a, <1>b, <1>c, <1>d DEF LeaveOpen, Write
<1>5. ASSUME NEW t \in Tracker, NEW i \in Row, NEW quote \in Quote, Judge(t, i, quote)
      PROVE  \A u \in Tracker : LossInvOf(u)'
  <2>1. tracker'[t] = Decided(t, i, quote, Evaluate(i, quote))
      BY <1>5, <1>a DEF Judge
  <2>2. CASE Evaluate(i, quote) = "open"
      BY <1>5, <2>1, <2>2, <1>a, <1>b, <1>c, <1>d DEF Decided, Judge
  <2>3. CASE Evaluate(i, quote) # "open"
    <3>1. /\ tracker'[t].price = quote /\ tracker'[t].verdict = Evaluate(i, quote)
          /\ tracker'[t].forecast = tracker[t].forecast
        BY <2>1, <2>3, <1>a DEF Decided, State
    <3>2. ~(tracker'[t].price = "slight" /\ tracker'[t].verdict = "LOSS")
        BY <3>1 DEF Evaluate
    <3>3. LossInvOf(t)'
        BY <1>0, <1>5, <3>1, <3>2 DEF LossInvOf, Judge
    <3>4. QED
        BY <1>5, <3>3, <1>a, <1>b DEF Judge
  <2>4. QED
      BY <2>2, <2>3
<1>6. ASSUME NEW t \in Tracker, NEW i \in Row, NEW quote \in Quote, JudgeByForecast(t, i, quote)
      PROVE  \A u \in Tracker : LossInvOf(u)'
  <2> DEFINE decided(answer) == Decided(t, i, quote, Tightened(quote, answer))
  <2>1. PICK answer \in Answers(t, i) :
          /\ tracker' = [tracker EXCEPT ![t] = [decided(answer) EXCEPT !.forecast[SymbolOf[i]] = answer]]
          /\ heard' = IF tracker[t].forecast[SymbolOf[i]] = "unasked" /\ answer = "disagrees"
                      THEN [heard EXCEPT ![t] = @ \union {SymbolOf[i]}]
                      ELSE heard
      BY <1>6 DEF JudgeByForecast
  <2>2. SymbolOf[i] \in Symbol
      BY TrackerAssumption
  <2>3. decided(answer) \in State
      BY DecidedType DEF Tightened, Outcome
  <2>4. decided(answer).forecast = tracker[t].forecast
      BY <1>a, <1>d DEF Decided, State
  <2>5. heard[t] \subseteq heard'[t]
      BY <2>1, <1>a
  <2>6. answer = "disagrees" => SymbolOf[i] \in heard'[t]
      BY <2>1, <2>2, <2>5, <1>0, <1>a DEF Answers, LossInvOf
  <2>7. tracker'[t].forecast = [tracker[t].forecast EXCEPT ![SymbolOf[i]] = answer]
      BY <2>1, <2>3, <2>4, <1>a DEF State
  <2>8. \A s \in Symbol : tracker'[t].forecast[s] = "disagrees" => s \in heard'[t]
      BY <2>2, <2>5, <2>6, <2>7, <1>0, <1>a DEF LossInvOf, State
  <2>9. CASE answer = "disagrees" /\ quote = "slight"
    <3>1. tracker'[t].todo = tracker[t].todo
        BY <2>1, <2>3, <2>9, <1>a DEF Decided, Tightened, State
    <3>2. ASSUME NEW j \in Row, Current(t, j)' PROVE j = i
        BY <1>6, <3>1, <3>2, CurrentUnique DEF Current, JudgeByForecast
    <3>3. LossInvOf(t)'
        BY <2>6, <2>8, <2>9, <3>2 DEF LossInvOf
    <3>4. QED
        BY <2>1, <3>3, <1>a, <1>b
  <2>10. CASE ~(answer = "disagrees" /\ quote = "slight")
    <3>1. tracker'[t].pc = "cycle"
        BY <2>1, <2>3, <2>10, <1>a, <1>d DEF Decided, Tightened, State
    <3>2. LossInvOf(t)'
        BY <2>8, <3>1 DEF LossInvOf
    <3>3. QED
        BY <2>1, <3>2, <1>a, <1>b
  <2>11. QED
      BY <2>9, <2>10
<1>7. ASSUME NEW t \in Tracker, EndCycle(t) \/ SkipCycle(t) \/ EndExpiry(t) \/ Kill(t)
      PROVE  \A u \in Tracker : LossInvOf(u)'
  <2>1. tracker'[t] \in {Idle, Expiring}
      BY <1>7, <1>a DEF EndCycle, SkipCycle, EndExpiry, Kill
  <2>2. Expiring.pc = "expire" /\ Expiring.forecast = NoForecast
      BY DEF Expiring, Idle
  <2>3. tracker'[t].pc # "write" /\ tracker'[t].forecast = NoForecast
      BY <2>1, <2>2, <1>e
  <2>4. QED
      BY <1>7, <2>3, <1>a, <1>b, <1>c DEF EndCycle, SkipCycle, EndExpiry, Kill
<1>8. ASSUME NEW t \in Tracker, NEW i \in Row, ExpireStale(t, i)
      PROVE  \A u \in Tracker : LossInvOf(u)'
  <2>1. tracker'[t].pc = "expire" /\ tracker'[t].forecast = tracker[t].forecast
      BY <1>8, <1>a DEF ExpireStale, State
  <2>2. QED
      BY <1>8, <2>1, <1>a, <1>b, <1>c DEF ExpireStale
<1>9. CASE UNCHANGED vars
    BY <1>9, <1>b DEF vars
<1>10. QED
    BY <1>1, <1>2, <1>3, <1>4, <1>5, <1>6, <1>7, <1>8, <1>9 DEF Next, Work

(* A position in profit is closed as a loss only after the forecast, asked *)
(* in this very cycle, disagreed for its symbol.                           *)
THEOREM LossInProfitHolds == Spec => []LossInProfitHasForecast
<1>1. Init => LossInv
    BY DEF Init, LossInv, CacheIsHeard, LossInProfitHasForecast, Idle, NoForecast
<1>2. QED
    BY <1>1, TypeInit, TypeStep, LossStep, PTL DEF Spec, LossInv
=============================================================================
