------------------------ MODULE DecisionStep_proofs ------------------------
(***************************************************************************)
(* Proofs about DecisionStep: what the gates of CandidateGates let through *)
(* for any proposal of the language model and any market, and hence what   *)
(* an alert of a run can be.                                               *)
(***************************************************************************)
EXTENDS DecisionStep, GateState_proofs

-----------------------------------------------------------------------------
(* A candidate on its way through the stages *)

Fields ==
    {"direction", "ep", "conf", "sa", "family", "types", "forecast", "otherTrend", "spike",
     "rr", "micro", "positive", "drift", "m", "reasons"}

Shaped(x) == x = [f \in Fields |-> x[f]]

Pointers == {"up", "down", "weak", "absent"}

LEMMA ProposalFields ==
    ASSUME NEW p \in Proposals
    PROVE  /\ p.direction \in {"LONG", "SHORT", "WATCH"} /\ p.types \in 0 .. 11
           /\ p.ep \in 0 .. 100 /\ p.conf \in 0 .. 100 /\ p.family \in [Family -> Pointers]
<1>1. p \in ProposalType
    BY GatesAssumption
<1>2. QED
    BY <1>1 DEF ProposalType, Pointers

LEMMA ProposedShaped ==
    ASSUME NEW p \in Proposals, NEW m
    PROVE  /\ Shaped(Proposed(p, m)) /\ Proposed(p, m).m = m /\ Proposed(p, m).reasons = {}
           /\ \A f \in Fields \ {"m", "reasons"} : Proposed(p, m)[f] = p[f]
<1>1. p \in ProposalType
    BY GatesAssumption
<1>2. DOMAIN p \union {"m", "reasons"} = Fields
    BY <1>1 DEF ProposalType, Fields
<1>3. QED
    BY <1>2 DEF Proposed, Shaped, Fields

(* A stage either leaves its candidate alone or adds a reason to it. *)
LEMMA Marking ==
    ASSUME NEW x, Shaped(x), NEW reason
    PROVE  LET y == [x EXCEPT !.reasons = @ \union {reason}]
           IN  /\ Shaped(y) /\ y.reasons = x.reasons \union {reason}
               /\ \A f \in Fields \ {"reasons"} : y[f] = x[f]
BY DEF Shaped, Fields

LEMMA Lowering ==
    ASSUME NEW x, Shaped(x), NEW penalty
    PROVE  LET y == Lowered(x, penalty)
           IN  /\ Shaped(y) /\ y.conf = Max({0, x.conf - penalty})
               /\ \A f \in Fields \ {"conf"} : y[f] = x[f]
BY DEF Shaped, Fields, Lowered

(* What one stage makes of x: reasons are only added, and a candidate it   *)
(* has nothing against goes on as it came.                                 *)
Judged(x, y) ==
    /\ Shaped(y)
    /\ x.reasons \subseteq y.reasons
    /\ y.reasons = {} => y = x

LEMMA SourceHallucinationJudges ==
    ASSUME NEW x, Shaped(x) PROVE Judged(x, SourceHallucination(x))
BY Marking DEF SourceHallucination, RejectIf, Judged

LEMMA EntryOrderJudges ==
    ASSUME NEW x, Shaped(x)
    PROVE  /\ Judged(x, EntryOrder(x))
           /\ EntryOrder(x).reasons = {} => ~(Directed(x) /\ ~x.positive)
BY Marking DEF EntryOrder, RejectIf, Judged

LEMMA EntryMarketDriftJudges ==
    ASSUME NEW x, Shaped(x) PROVE Judged(x, EntryMarketDrift(x))
BY Marking DEF EntryMarketDrift, RejectIf, Judged

LEMMA MarketSessionClosedJudges ==
    ASSUME NEW x, Shaped(x) PROVE Judged(x, MarketSessionClosed(x))
BY Marking DEF MarketSessionClosed, RejectIf, Judged

LEMMA VixHardJudges == ASSUME NEW x, Shaped(x) PROVE Judged(x, VixHard(x))
BY Marking DEF VixHard, RejectIf, Judged

(* Each threshold is a reason of its own. *)
LEMMA AlertThresholdsJudge ==
    ASSUME NEW x, Shaped(x)
    PROVE  /\ Judged(x, AlertThresholds(x))
           /\ AlertThresholds(x).reasons = {} =>
                 ~(x.ep < Gates(x.m).ep) /\ ~(x.sa < Gates(x.m).sa) /\ ~(x.conf < Gates(x.m).conf)
<1> DEFINE g == Gates(x.m)
           a == RejectIf(x, x.ep < g.ep, "EP_THRESHOLD")
           b == RejectIf(a, x.sa < g.sa, "SA_THRESHOLD")
           c == RejectIf(b, x.conf >= 85 /\ x.sa < 5, "HIGH_CONFIDENCE_ALIGNMENT")
           d == RejectIf(c, x.conf < g.conf, "CONF_THRESHOLD")
<1>0. AlertThresholds(x) = d
    BY DEF AlertThresholds
<1> HIDE DEF g
<1>1. Judged(x, a) /\ (a.reasons = {} => ~(x.ep < g.ep))
    BY Marking DEF RejectIf, Judged
<1> HIDE DEF a
<1>2. Judged(a, b) /\ (b.reasons = {} => ~(x.sa < g.sa))
    BY <1>1, Marking DEF RejectIf, Judged
<1> HIDE DEF b
<1>3. Judged(b, c)
    BY <1>2, Marking DEF RejectIf, Judged
<1> HIDE DEF c
<1>4. Judged(c, d) /\ (d.reasons = {} => ~(x.conf < g.conf))
    BY <1>3, Marking DEF RejectIf, Judged
<1> HIDE DEF d
<1>5. QED
    BY <1>0, <1>1, <1>2, <1>3, <1>4 DEF Judged, g

LEMMA WatchThresholdsJudge ==
    ASSUME NEW x, Shaped(x)
    PROVE  /\ Judged(x, WatchThresholds(x))
           /\ WatchThresholds(x).reasons = {} =>
                 LET g == Gates(x.m)
                 IN  /\ ~(x.ep < Max({g.ep - 5, 50})) /\ ~(x.sa < Max({2, g.sa - 1}))
                     /\ ~(x.conf < Max({60, g.conf - 10}))
<1> DEFINE g == Gates(x.m)
           a == RejectIf(x, x.ep < Max({g.ep - 5, 50}), "WATCH_EP_THRESHOLD")
           b == RejectIf(a, x.sa < Max({2, g.sa - 1}), "WATCH_SA_THRESHOLD")
           c == RejectIf(b, x.conf < Max({60, g.conf - 10}), "WATCH_CONF_THRESHOLD")
<1>0. WatchThresholds(x) = c
    BY DEF WatchThresholds
<1> HIDE DEF g
<1>1. Judged(x, a) /\ (a.reasons = {} => ~(x.ep < Max({g.ep - 5, 50})))
    BY Marking DEF RejectIf, Judged
<1> HIDE DEF a
<1>2. Judged(a, b) /\ (b.reasons = {} => ~(x.sa < Max({2, g.sa - 1})))
    BY <1>1, Marking DEF RejectIf, Judged
<1> HIDE DEF b
<1>3. Judged(b, c) /\ (c.reasons = {} => ~(x.conf < Max({60, g.conf - 10})))
    BY <1>2, Marking DEF RejectIf, Judged
<1> HIDE DEF c
<1>4. QED
    BY <1>0, <1>1, <1>2, <1>3 DEF Judged, g

LEMMA ThresholdGatesJudge == ASSUME NEW x, Shaped(x) PROVE Judged(x, ThresholdGates(x))
BY AlertThresholdsJudge, WatchThresholdsJudge DEF ThresholdGates

LEMMA RrGatesJudge ==
    ASSUME NEW x, Shaped(x)
    PROVE  /\ Judged(x, RrGates(x))
           /\ RrGates(x).reasons = {} /\ Directed(x) =>
                 ~x.micro /\ ~(x.rr < (IF x.m.timeframe = "1h" THEN 250 ELSE 200))
<1> DEFINE bar == IF x.m.timeframe = "1h" THEN 250 ELSE 200
           a == RejectIf(x, x.micro, "RR_ZERO_RISK")
           b == RejectIf(a, x.rr < bar, "RR_MINIMUM")
<1>1. RrGates(x) = (IF ~Directed(x) \/ "ENTRY_ORDER_INVALID" \in x.reasons THEN x ELSE b)
    BY DEF RrGates
<1> HIDE DEF bar
<1>2. Judged(x, a) /\ (a.reasons = {} => ~x.micro)
  <2> DEFINE y == [x EXCEPT !.reasons = @ \union {"RR_ZERO_RISK"}]
  <2>1. Shaped(y) /\ y.reasons = x.reasons \union {"RR_ZERO_RISK"}
      BY Marking
  <2>2. x.micro => a = y
      BY DEF RejectIf
  <2>3. ~x.micro => a = x
      BY DEF RejectIf
  <2> HIDE DEF y, a
  <2>4. CASE x.micro
    <3>1. a = y
        BY <2>2, <2>4
    <3>2. Judged(x, a) /\ a.reasons # {}
        BY <2>1, <3>1 DEF Judged
    <3>3. QED
        BY <3>2
  <2>5. CASE ~x.micro
    <3>1. Judged(x, a)
        BY <2>3, <2>5 DEF Judged
    <3>2. QED
        BY <2>5, <3>1
  <2>6. QED
      BY <2>4, <2>5
<1> HIDE DEF a
<1>3. Judged(a, b) /\ (b.reasons = {} => ~(x.rr < bar))
    BY <1>2, Marking DEF RejectIf, Judged
<1> HIDE DEF b
<1>4. CASE ~Directed(x) \/ "ENTRY_ORDER_INVALID" \in x.reasons
    BY <1>1, <1>4 DEF Judged
<1>5. CASE ~(~Directed(x) \/ "ENTRY_ORDER_INVALID" \in x.reasons)
  <2>1. RrGates(x) = b
      BY <1>1, <1>5
  <2>2. Judged(x, b) /\ (b.reasons = {} => ~x.micro /\ ~(x.rr < bar))
      BY <1>2, <1>3 DEF Judged
  <2>3. QED
      BY <2>1, <2>2 DEF bar
<1>6. QED
    BY <1>4, <1>5

LEMMA ForecastContradictsJudges ==
    ASSUME NEW x, Shaped(x) PROVE Judged(x, ForecastContradicts(x))
BY Marking DEF ForecastContradicts, RejectIf, Judged

LEMMA MacroVetoJudges == ASSUME NEW x, Shaped(x) PROVE Judged(x, MacroVeto(x))
<1> DEFINE y == [x EXCEPT !.reasons = @ \union {"MACRO_VETO"}]
<1>1. MacroVeto(x) = x \/ MacroVeto(x) = y
    BY DEF MacroVeto, RejectIf
<1>2. Shaped(y) /\ y.reasons = x.reasons \union {"MACRO_VETO"}
    BY Marking
<1> HIDE DEF y
<1>3. QED
    BY <1>1, <1>2 DEF Judged

LEMMA VixSoftJudges ==
    ASSUME NEW x, Shaped(x)
    PROVE  /\ Judged(x, VixSoft(x))
           /\ VixSoft(x).reasons = {} =>
                 ~(/\ x.m.vix > 25 /\ ~Convinced(x, 3, 72)
                   /\ \/ x.m.riskOff /\ x.direction = "LONG" /\ Regime(x.m) # "risk_off_high_vix"
                      \/ ~x.m.riskOff /\ x.direction = "SHORT")
BY Marking DEF VixSoft, RejectIf, Judged

(* The stages that change a value reject nothing by it. *)
Altered(x, y, fields) ==
    Shaped(y) /\ \A f \in Fields \ fields : y[f] = x[f]

LEMMA ReconciliationAlters ==
    ASSUME NEW x, Shaped(x)
    PROVE  LET y == Reconciliation(x)
               counted == Aligned(WithMacro(x), x.direction) + (IF ForecastConfirms(x) THEN 1 ELSE 0)
           IN  /\ Altered(x, y, {"sa", "ep"})
               /\ y.sa = Min({counted, 7}) /\ y.ep = Min({x.ep, Ceiling(x.types)})
<1> DEFINE sa == Min({Aligned(WithMacro(x), x.direction)
                         + (IF ForecastConfirms(x) THEN 1 ELSE 0), 7})
           ep == Min({x.ep, Ceiling(x.types)})
<1>1. Reconciliation(x) = [x EXCEPT !.sa = sa, !.ep = ep]
    BY DEF Reconciliation
<1> HIDE DEF sa, ep
<1>2. LET y == [x EXCEPT !.sa = sa, !.ep = ep]
      IN  Altered(x, y, {"sa", "ep"}) /\ y.sa = sa /\ y.ep = ep
    BY DEF Altered, Shaped, Fields
<1>3. QED
    BY <1>1, <1>2 DEF sa, ep

LEMMA ExtendedHoursPenaltyAlters ==
    ASSUME NEW x, Shaped(x) PROVE Altered(x, ExtendedHoursPenalty(x), {"conf"})
<1>1. Altered(x, x, {"conf"}) /\ Altered(x, Lowered(x, 10), {"conf"})
    BY Lowering DEF Altered
<1>2. ExtendedHoursPenalty(x) = x \/ ExtendedHoursPenalty(x) = Lowered(x, 10)
    BY DEF ExtendedHoursPenalty
<1>3. QED
    BY <1>1, <1>2

LEMMA VolumeUnconfirmedAlters ==
    ASSUME NEW x, Shaped(x)
    PROVE  /\ Altered(x, VolumeUnconfirmed(x), {"conf", "reasons"})
           /\ x.reasons \subseteq VolumeUnconfirmed(x).reasons
<1> DEFINE penalty == IF Regime(x.m) \in {"choppy", "risk_off_high_vix"} THEN 10 ELSE 5
           y == Lowered(x, penalty)
           z == RejectIf(y, y.conf < Gates(x.m).conf, "VOLUME_UNCONFIRMED")
<1>0. VolumeUnconfirmed(x) = x \/ VolumeUnconfirmed(x) = z
    BY DEF VolumeUnconfirmed
<1>1. Altered(x, y, {"conf"})
    BY Lowering DEF Altered
<1> HIDE DEF y
<1>2. Judged(y, z) /\ Altered(y, z, {"reasons"})
  <2> DEFINE w == [y EXCEPT !.reasons = @ \union {"VOLUME_UNCONFIRMED"}]
  <2>1. /\ Shaped(y) /\ Shaped(w) /\ w.reasons = y.reasons \union {"VOLUME_UNCONFIRMED"}
        /\ \A f \in Fields \ {"reasons"} : w[f] = y[f]
      BY <1>1, Marking DEF Altered
  <2>2. z = y \/ z = w
      BY DEF RejectIf
  <2> HIDE DEF w, z
  <2>3. QED
      BY <2>1, <2>2 DEF Altered, Judged
<1> HIDE DEF z
<1>3. "reasons" \in Fields
    BY DEF Fields
<1>4. QED
    BY <1>0, <1>1, <1>2, <1>3 DEF Altered, Judged

-----------------------------------------------------------------------------
(* A proposal that passes *)

Counted(p, m) == Reconciliation(Proposed(p, m))

Tested(p, m) == ExtendedHoursPenalty(Counted(p, m))

(* Only reconciliation, the penalty of extended hours and the missing      *)
(* volume change an accepted proposal: what the other stages look at is    *)
(* what comes out of the first two.                                        *)
LEMMA AcceptedUnchanged ==
    ASSUME NEW p \in Proposals, NEW m \in Markets, Passes(p, m)
    PROVE  LET x == Proposed(p, m)
               c == Counted(p, m)
               t == Tested(p, m)
           IN  /\ Altered(x, c, {"sa", "ep"}) /\ Altered(c, t, {"conf"})
               /\ x.reasons = {} /\ c.reasons = {} /\ t.reasons = {}
               /\ SourceHallucination(x) = x
               /\ EntryOrder(c) = c /\ EntryMarketDrift(c) = c
               /\ MarketSessionClosed(t) = t /\ VixHard(t) = t /\ ThresholdGates(t) = t
               /\ RrGates(t) = t /\ ForecastContradicts(t) = t /\ MacroVeto(t) = t
               /\ VixSoft(t) = t
               /\ Filtered(x) = VolumeUnconfirmed(t)
<1> DEFINE x0 == Proposed(p, m)
           x1 == SourceHallucination(x0)
           x2 == Reconciliation(x1)
           x3 == EntryOrder(x2)
           x4 == EntryMarketDrift(x3)
           x5 == ExtendedHoursPenalty(x4)
           x6 == MarketSessionClosed(x5)
           x7 == VixHard(x6)
           x8 == ThresholdGates(x7)
           x9 == RrGates(x8)
           x10 == ForecastContradicts(x9)
           x11 == MacroVeto(x10)
           x12 == VixSoft(x11)
           x13 == VolumeUnconfirmed(x12)
<1>0. Filtered(x0) = x13 /\ x13.reasons = {}
    BY DEF Filtered, Passes, Reasons
<1>1. Shaped(x0) /\ x0.reasons = {}
    BY ProposedShaped
<1> HIDE DEF x0
<1>2. Judged(x0, x1)
    BY <1>1, SourceHallucinationJudges
<1>3. Altered(x1, x2, {"sa", "ep"})
    BY <1>2, ReconciliationAlters DEF Judged
<1>4. Judged(x2, x3)
    BY <1>3, EntryOrderJudges DEF Altered
<1>5. Judged(x3, x4)
    BY <1>4, EntryMarketDriftJudges DEF Judged
<1>6. Altered(x4, x5, {"conf"})
    BY <1>5, ExtendedHoursPenaltyAlters DEF Judged
<1>7. Judged(x5, x6)
    BY <1>6, MarketSessionClosedJudges DEF Altered
<1>8. Judged(x6, x7)
    BY <1>7, VixHardJudges DEF Judged
<1>9. Judged(x7, x8)
    BY <1>8, ThresholdGatesJudge DEF Judged
<1>10. Judged(x8, x9)
    BY <1>9, RrGatesJudge DEF Judged
<1>11. Judged(x9, x10)
    BY <1>10, ForecastContradictsJudges DEF Judged
<1>12. Judged(x10, x11)
    BY <1>11, MacroVetoJudges DEF Judged
<1>13. Judged(x11, x12)
    BY <1>12, VixSoftJudges DEF Judged
<1>14. x12.reasons \subseteq x13.reasons
    BY <1>13, VolumeUnconfirmedAlters DEF Judged
<1> HIDE DEF x1, x2, x3, x4, x5, x6, x7, x8, x9, x10, x11, x12, x13
<1>15. x12.reasons = {} /\ x12 = x11 /\ x11 = x10 /\ x10 = x9 /\ x9 = x8 /\ x8 = x7 /\ x7 = x6 /\ x6 = x5
    BY <1>0, <1>7, <1>8, <1>9, <1>10, <1>11, <1>12, <1>13, <1>14 DEF Judged
<1>16. "reasons" \in Fields \ {"conf"} /\ "reasons" \in Fields \ {"sa", "ep"}
    BY DEF Fields
<1>17. x4.reasons = {} /\ x4 = x3 /\ x3 = x2
    BY <1>4, <1>5, <1>6, <1>15, <1>16 DEF Altered, Judged
<1>18. x1.reasons = {} /\ x1 = x0
    BY <1>2, <1>3, <1>16, <1>17 DEF Altered, Judged
<1>19. x2 = Counted(p, m) /\ x5 = Tested(p, m)
    BY <1>17, <1>18 DEF Counted, Tested, x0, x2, x5
<1>20. /\ x3 = EntryOrder(x2) /\ x4 = EntryMarketDrift(x2)
       /\ x6 = MarketSessionClosed(x5) /\ x7 = VixHard(x5) /\ x8 = ThresholdGates(x5)
       /\ x9 = RrGates(x5) /\ x10 = ForecastContradicts(x5) /\ x11 = MacroVeto(x5)
       /\ x12 = VixSoft(x5) /\ x13 = VolumeUnconfirmed(x5)
    BY <1>15, <1>17 DEF x3, x4, x6, x7, x8, x9, x10, x11, x12, x13
<1>21. QED
    BY <1>0, <1>1, <1>3, <1>6, <1>15, <1>17, <1>18, <1>19, <1>20 DEF x0, x1

-----------------------------------------------------------------------------
(* The numbers *)

LEMMA MaxOfTwo ==
    ASSUME NEW a \in Int, NEW b \in Int
    PROVE  Max({a, b}) \in {a, b} /\ Max({a, b}) >= a /\ Max({a, b}) >= b
<1>1. \E x \in {a, b} : \A y \in {a, b} : x >= y
    <2>1. CASE a >= b
        BY <2>1
    <2>2. CASE b >= a
        BY <2>2
    <2>3. QED
        BY <2>1, <2>2
<1>2. Max({a, b}) \in {a, b} /\ \A y \in {a, b} : Max({a, b}) >= y
    BY <1>1 DEF Max
<1>3. QED
    BY <1>2

LEMMA MinOfTwo ==
    ASSUME NEW a \in Int, NEW b \in Int
    PROVE  Min({a, b}) \in {a, b} /\ Min({a, b}) <= a /\ Min({a, b}) <= b
<1>1. \E x \in {a, b} : \A y \in {a, b} : x <= y
    <2>1. CASE a <= b
        BY <2>1
    <2>2. CASE b <= a
        BY <2>2
    <2>3. QED
        BY <2>1, <2>2
<1>2. Min({a, b}) \in {a, b} /\ \A y \in {a, b} : Min({a, b}) <= y
    BY <1>1 DEF Min
<1>3. QED
    BY <1>2

Regimes == {"extreme", "risk_off_high_vix", "choppy", "trending_up", "trending_down", "neutral"}

LEMMA RegimeType == ASSUME NEW m PROVE Regime(m) \in Regimes
<1>1. Calm(m) \in {"choppy", "trending_up", "trending_down", "neutral"}
    BY DEF Calm
<1>2. QED
    BY <1>1 DEF Regime, Regimes

(* The thresholds of the ordinary session, as numbers. *)
LEMMA DynamicGatesBounds ==
    ASSUME NEW m
    PROVE  LET g == DynamicGates(m)
           IN  /\ g = [ep |-> g.ep, sa |-> g.sa, conf |-> g.conf]
               /\ g.ep \in 69 .. 78 /\ g.sa \in 4 .. 5 /\ g.conf \in 74 .. 78
               /\ Regime(m) = "risk_off_high_vix" => g.ep >= 73 /\ g.sa = 5
<1> DEFINE base == IF m.timeframe = "1h" THEN 75 ELSE 70
<1>1. base \in 70 .. 75
    OBVIOUS
<1> HIDE DEF base
<1>2. BaseGates(m) = [ep |-> base, sa |-> 4, conf |-> 75]
    BY DEF BaseGates, base
<1>3. DynamicGates(m) \in {[ep |-> base + 3, sa |-> 5, conf |-> 78],
                           [ep |-> base - 1, sa |-> 4, conf |-> 74],
                           [ep |-> base, sa |-> 4, conf |-> 75]}
    BY <1>1, <1>2 DEF DynamicGates, Bumped
<1>4. Regime(m) = "risk_off_high_vix" => DynamicGates(m) = [ep |-> base + 3, sa |-> 5, conf |-> 78]
    BY <1>1, <1>2 DEF DynamicGates, Bumped
<1> HIDE DEF DynamicGates
<1>5. QED
    BY <1>1, <1>3, <1>4

(* Extended hours, as long as alerts are off in them, only raise the bars. *)
LEMMA GatesBounds ==
    ASSUME NEW m
    PROVE  LET g == Gates(m)
               d == DynamicGates(m)
           IN  /\ g.ep \in 69 .. 81 /\ g.sa \in 4 .. 7 /\ g.conf \in 74 .. 83
               /\ g.ep >= d.ep /\ g.sa >= d.sa /\ g.conf >= d.conf
<1> DEFINE d == DynamicGates(m)
<1>1. d.ep \in 69 .. 78 /\ d.sa \in 4 .. 5 /\ d.conf \in 74 .. 78
    BY DynamicGatesBounds
<1>2. Gates(m) = d \/ Gates(m) = [ep |-> d.ep + 3, sa |-> d.sa + 2, conf |-> d.conf + 5]
    BY DEF Gates, Bumped
<1> HIDE DEF d
<1>3. QED
    BY <1>1, <1>2 DEF d

-----------------------------------------------------------------------------
(* Weak alerts against the tape *)

(* What the thresholds leave of a directional proposal. *)
LEMMA AcceptedAlert ==
    ASSUME NEW p \in Proposals, NEW m \in Markets, Passes(p, m), p.direction \in {"LONG", "SHORT"}
    PROVE  LET c == Counted(p, m)
               y == Filtered(Proposed(p, m))
           IN  /\ c.ep \in Int => c.ep >= Gates(m).ep
               /\ c.sa \in Int => c.sa >= Gates(m).sa
               /\ y.ep = c.ep /\ y.sa = c.sa
               /\ ~(/\ m.vix > 25 /\ ~Convinced(c, 3, 72)
                    /\ \/ m.riskOff /\ p.direction = "LONG" /\ Regime(m) # "risk_off_high_vix"
                       \/ ~m.riskOff /\ p.direction = "SHORT")
<1> DEFINE x == Proposed(p, m)
           c == Counted(p, m)
           t == Tested(p, m)
           y == VolumeUnconfirmed(t)
<1>1. /\ Altered(x, c, {"sa", "ep"}) /\ Altered(c, t, {"conf"}) /\ t.reasons = {}
      /\ ThresholdGates(t) = t /\ VixSoft(t) = t /\ Filtered(x) = y
    BY AcceptedUnchanged
<1>2. x.m = m /\ x.direction = p.direction
    BY ProposedShaped DEF Fields
<1> HIDE DEF x, c, t
<1>3. t.direction = p.direction /\ t.m = m /\ t.sa = c.sa /\ t.ep = c.ep
    BY <1>1, <1>2 DEF Altered, Fields
<1>4. y.sa = c.sa /\ y.ep = c.ep
    BY <1>1, <1>3, VolumeUnconfirmedAlters DEF Altered, Fields
<1>5. AlertThresholds(t).reasons = {} /\ VixSoft(t).reasons = {}
    BY <1>1, <1>3 DEF ThresholdGates
<1>6. ~(c.ep < Gates(m).ep) /\ ~(c.sa < Gates(m).sa)
    BY <1>1, <1>3, <1>5, AlertThresholdsJudge DEF Altered
<1>7. /\ c.ep \in Int => c.ep >= Gates(m).ep
      /\ c.sa \in Int => c.sa >= Gates(m).sa
    BY <1>6, GatesBounds
<1>8. Convinced(t, 3, 72) <=> Convinced(c, 3, 72)
    BY <1>3 DEF Convinced
<1>9. QED
    BY <1>1, <1>3, <1>4, <1>5, <1>7, <1>8, VixSoftJudges DEF Altered, c, x

LEMMA FamilyFinite == IsFiniteSet(Family)
<1>1. Family = {} \union {"trend"} \union {"volume"} \union {"sentiment"} \union {"flow"}
                  \union {"events"} \union {"macro"} \union {"positioning"}
    BY DEF Family
<1> DEFINE a == {} \union {"trend"} \union {"volume"}
           b == a \union {"sentiment"} \union {"flow"}
<1>2. IsFiniteSet({} \union {"trend"})
    BY FS_EmptySet, FS_AddElement
<1>3. IsFiniteSet(a)
    BY <1>2, FS_AddElement
<1>4. IsFiniteSet(a \union {"sentiment"})
    BY <1>3, FS_AddElement
<1>5. IsFiniteSet(b)
    BY <1>4, FS_AddElement
<1>6. IsFiniteSet(b \union {"events"})
    BY <1>5, FS_AddElement
<1>7. IsFiniteSet(b \union {"events"} \union {"macro"})
    BY <1>6, FS_AddElement
<1>8. IsFiniteSet(b \union {"events"} \union {"macro"} \union {"positioning"})
    BY <1>7, FS_AddElement
<1>9. QED
    BY <1>1, <1>8

Pointing(family, way) == {f \in Family : family[f] = way}

LEMMA PointingType ==
    ASSUME NEW family, NEW way
    PROVE  IsFiniteSet(Pointing(family, way)) /\ Cardinality(Pointing(family, way)) \in Nat
<1>1. Pointing(family, way) \in SUBSET Family
    BY DEF Pointing
<1>2. QED
    BY <1>1, FamilyFinite, FS_Subset, FS_CardinalityType

LEMMA AlignedType ==
    ASSUME NEW family, NEW direction \in {"LONG", "SHORT", "WATCH"}
    PROVE  Aligned(family, direction) \in Nat
<1>1. /\ Cardinality({f \in Family : family[f] = "up"}) \in Nat
      /\ Cardinality({f \in Family : family[f] = "down"}) \in Nat
    BY PointingType DEF Pointing
<1> DEFINE up == Cardinality({f \in Family : family[f] = "up"})
           down == Cardinality({f \in Family : family[f] = "down"})
<1>2. Aligned(family, direction) \in {up, down, Max({up, down})}
    BY DEF Aligned
<1> HIDE DEF up, down
<1>3. up \in Nat /\ down \in Nat /\ up \in Int /\ down \in Int
    BY <1>1 DEF up, down
<1>4. Max({up, down}) \in {up, down}
    BY <1>3, MaxOfTwo
<1>5. QED
    BY <1>2, <1>3, <1>4

LEMMA CeilingType == ASSUME NEW types \in 0 .. 11 PROVE Ceiling(types) \in 50 .. 99
<1>1. types + 1 \in 1 .. 12
    OBVIOUS
<1>2. <<50, 55, 65, 75, 85, 90, 92, 95, 96, 97, 98, 99>> \in [1 .. 12 -> 50 .. 99]
    OBVIOUS
<1>3. QED
    BY <1>1, <1>2 DEF Ceiling

(* sources_agree and edge of a candidate once they are counted. *)
LEMMA CountedValues ==
    ASSUME NEW p \in Proposals, NEW m \in Markets
    PROVE  LET x == Proposed(p, m)
               c == Counted(p, m)
           IN  /\ c.sa \in Nat /\ c.sa <= Aligned(WithMacro(x), p.direction) + 1
               /\ c.ep \in Nat /\ c.ep <= Ceiling(p.types)
<1> DEFINE x == Proposed(p, m)
           c == Counted(p, m)
           aligned == Aligned(WithMacro(x), p.direction)
           bonus == IF ForecastConfirms(x) THEN 1 ELSE 0
           ceiling == Ceiling(p.types)
<1>1. /\ p.direction \in {"LONG", "SHORT", "WATCH"} /\ p.types \in 0 .. 11 /\ p.ep \in 0 .. 100
    BY ProposalFields
<1>2. Shaped(x) /\ x.direction = p.direction /\ x.types = p.types /\ x.ep = p.ep
    BY ProposedShaped DEF Fields
<1>3. c.sa = Min({aligned + bonus, 7}) /\ c.ep = Min({p.ep, ceiling})
    BY <1>2, ReconciliationAlters DEF Counted
<1>4. aligned \in Nat /\ bonus \in 0 .. 1 /\ ceiling \in 50 .. 99
    BY <1>1, AlignedType, CeilingType
<1> DEFINE sources == aligned + bonus
<1> HIDE DEF c, aligned, bonus, ceiling
<1>5. sources \in Nat /\ sources <= aligned + 1 /\ sources \in Int
    BY <1>4
<1>6. p.ep \in Int /\ ceiling \in Int
    BY <1>1, <1>4
<1> HIDE DEF sources
<1>7. Min({sources, 7}) \in {sources, 7} /\ Min({sources, 7}) <= sources
    BY <1>5, MinOfTwo
<1>8. Min({p.ep, ceiling}) \in {p.ep, ceiling} /\ Min({p.ep, ceiling}) <= ceiling
    BY <1>6, MinOfTwo
<1>9. c.sa \in Nat /\ c.sa <= aligned + 1
    BY <1>3, <1>4, <1>5, <1>7 DEF sources
<1>10. c.ep \in Nat /\ c.ep <= ceiling
    BY <1>1, <1>3, <1>4, <1>8
<1>11. QED
    BY <1>9, <1>10 DEF c, aligned, ceiling

LEMMA NoneWeak == WeakDirections = {}
<1> SUFFICES ASSUME NEW p \in Proposals, NEW m \in Markets, Passes(p, m),
                    AgainstTape(<<p, m>>), Unconvincing(<<p, m>>)
             PROVE  FALSE
    BY DEF WeakDirections, Accepted
<1> DEFINE c == Counted(p, m)
           y == Filtered(Proposed(p, m))
<1>1. m.vix > 25 /\ p.direction = (IF m.riskOff THEN "LONG" ELSE "SHORT")
    BY DEF AgainstTape
<1>2. c.ep \in Int /\ c.sa \in Int
    BY CountedValues
<1>3. /\ c.ep >= Gates(m).ep /\ c.sa >= Gates(m).sa /\ y.ep = c.ep /\ y.sa = c.sa
      /\ ~(/\ m.vix > 25 /\ ~Convinced(c, 3, 72)
           /\ \/ m.riskOff /\ p.direction = "LONG" /\ Regime(m) # "risk_off_high_vix"
              \/ ~m.riskOff /\ p.direction = "SHORT")
    BY <1>1, <1>2, AcceptedAlert
<1>4. ~Convinced(y, 3, 72)
    BY DEF Unconvincing
<1> HIDE DEF c, y
<1>5. ~Convinced(c, 3, 72)
    BY <1>3, <1>4 DEF Convinced
<1>6. Regime(m) = "risk_off_high_vix"
    BY <1>1, <1>3, <1>5
<1>7. /\ DynamicGates(m).ep \in Int /\ DynamicGates(m).ep >= 73 /\ DynamicGates(m).sa = 5
      /\ Gates(m).ep \in Int /\ Gates(m).ep >= DynamicGates(m).ep
      /\ Gates(m).sa \in Int /\ Gates(m).sa >= DynamicGates(m).sa
    BY <1>6, DynamicGatesBounds, GatesBounds
<1>8. c.ep >= 73 /\ c.sa >= 5
    BY <1>2, <1>3, <1>7
<1>9. QED
    BY <1>2, <1>5, <1>8 DEF Convinced

(* With VIX > 25 no proposal whatever passes the gates against the tape    *)
(* with an edge below 0.72 or fewer than three sources, so no alert of a   *)
(* run is one.                                                             *)
THEOREM WeakAlertsAreSuppressed == Spec => []WeakAlertsSuppressed
<1>1. WeakAlertsSuppressed
    BY NoneWeak DEF WeakAlertsSuppressed, NoAlertIn
<1>2. QED
    BY <1>1, PTL

-----------------------------------------------------------------------------
(* The evidence behind an alert *)

(* The market's macro context is one family more at most. *)
LEMMA MacroCountsOnce ==
    ASSUME NEW x, NEW direction \in {"LONG", "SHORT"}, x.family \in [Family -> Pointers]
    PROVE  Aligned(WithMacro(x), direction) <= Aligned(x.family, direction) + 1
<1> DEFINE way == IF direction = "LONG" THEN "up" ELSE "down"
           own == Pointing(x.family, way)
           all == Pointing(WithMacro(x), way)
<1>1. Aligned(WithMacro(x), direction) = Cardinality(all)
      /\ Aligned(x.family, direction) = Cardinality(own)
    BY DEF Aligned, Pointing
<1>2. \A f \in Family \ {"macro"} : WithMacro(x)[f] = x.family[f]
    BY DEF WithMacro
<1>3. all \in SUBSET (own \union {"macro"})
    BY <1>2 DEF Pointing
<1> HIDE DEF own, all
<1>4. IsFiniteSet(own) /\ Cardinality(own) \in Nat /\ IsFiniteSet(all) /\ Cardinality(all) \in Nat
    BY PointingType DEF own, all
<1>5. /\ IsFiniteSet(own \union {"macro"})
      /\ Cardinality(own \union {"macro"}) \in {Cardinality(own), Cardinality(own) + 1}
    BY <1>4, FS_AddElement
<1>6. Cardinality(all) <= Cardinality(own \union {"macro"})
    BY <1>3, <1>5, FS_Subset
<1>7. QED
    BY <1>1, <1>4, <1>5, <1>6

LEMMA CeilingOfFewTypes ==
    ASSUME NEW types \in 0 .. 11, Ceiling(types) >= 69 PROVE types >= 3
<1>1. Ceiling(0) = 50 /\ Ceiling(1) = 55 /\ Ceiling(2) = 65
    BY DEF Ceiling
<1>2. types # 0 /\ types # 1 /\ types # 2
    BY <1>1
<1>3. QED
    BY <1>2

LEMMA NoneUnsupported == UnsupportedDirections = {}
<1> SUFFICES ASSUME NEW p \in Proposals, NEW m \in Markets, Passes(p, m), p.direction # "WATCH"
             PROVE  Supported(p)
    BY DEF UnsupportedDirections, Accepted
<1> DEFINE x == Proposed(p, m)
           c == Counted(p, m)
<1>1. /\ p.direction \in {"LONG", "SHORT"} /\ p.types \in 0 .. 11
      /\ p.family \in [Family -> Pointers]
    BY ProposalFields
<1>2. x.family = p.family
    BY ProposedShaped DEF Fields
<1>3. /\ c.sa \in Nat /\ c.sa <= Aligned(WithMacro(x), p.direction) + 1
      /\ c.ep \in Nat /\ c.ep <= Ceiling(p.types)
    BY CountedValues
<1>4. Gates(m).ep \in 69 .. 81 /\ Gates(m).sa \in 4 .. 7
    BY GatesBounds
<1>5. c.ep >= Gates(m).ep /\ c.sa >= Gates(m).sa
    BY <1>1, <1>3, AcceptedAlert
<1>6. Aligned(WithMacro(x), p.direction) <= Aligned(p.family, p.direction) + 1
    BY <1>1, <1>2, MacroCountsOnce
<1>7. Aligned(WithMacro(x), p.direction) \in Nat /\ Aligned(p.family, p.direction) \in Nat
    BY <1>1, AlignedType
<1>8. Ceiling(p.types) \in 50 .. 99
    BY <1>1, CeilingType
<1> HIDE DEF x, c
<1>9. Aligned(p.family, p.direction) >= 2
    BY <1>3, <1>4, <1>5, <1>6, <1>7
<1>10. Ceiling(p.types) >= 69
    BY <1>3, <1>4, <1>5, <1>8
<1>11. QED
    BY <1>1, <1>9, <1>10, CeilingOfFewTypes DEF Supported

(* Whatever the model claims, a LONG or SHORT of a run has three signal    *)
(* types and two families of its own behind it.                            *)
THEOREM AlertsHaveOwnEvidence == Spec => []OwnEvidence
<1>1. OwnEvidence
    BY NoneUnsupported DEF OwnEvidence, NoAlertIn
<1>2. QED
    BY <1>1, PTL

-----------------------------------------------------------------------------
(* Extended against regular hours *)

LEMMA RegularMarket ==
    ASSUME NEW m \in Markets
    PROVE  LET n == Regular(m)
           IN  /\ n.session = "regular" /\ n.timeframe = m.timeframe /\ n.vix = m.vix
               /\ n.riskOff = m.riskOff /\ n.surface = m.surface /\ n.extended = m.extended
BY GatesAssumption DEF MarketType, Regular

LEMMA RegularGates ==
    ASSUME NEW m \in Markets
    PROVE  Regime(Regular(m)) = Regime(m) /\ Gates(Regular(m)) = DynamicGates(m)
<1>1. Regime(Regular(m)) = Regime(m)
    BY RegularMarket DEF Regime, Calm
<1>2. BaseGates(Regular(m)) = BaseGates(m)
    BY RegularMarket DEF BaseGates
<1>3. DynamicGates(Regular(m)) = DynamicGates(m)
    BY <1>1, <1>2 DEF DynamicGates
<1>4. Gates(Regular(m)) = DynamicGates(Regular(m))
    BY RegularMarket DEF Gates
<1>5. QED
    BY <1>1, <1>3, <1>4

(* z is what regular hours have made of the proposal of which extended     *)
(* hours have made x: the same but for a confidence that is no lower and   *)
(* reasons of the two kinds that are excused.                              *)
Follows(x, z) ==
    /\ Shaped(z)
    /\ z.m = Regular(x.m)
    /\ z.reasons \subseteq Excused
    /\ z.conf \in Nat /\ x.conf \in Nat /\ x.conf <= z.conf
    /\ \A f \in Fields \ {"m", "conf", "reasons"} : z[f] = x[f]

(* A candidate nothing is held against in extended hours. *)
Clean(x) == Shaped(x) /\ x.reasons = {} /\ x.m \in Markets

LEMMA FollowsFields ==
    ASSUME NEW x, NEW z, Follows(x, z), Clean(x)
    PROVE  /\ z.direction = x.direction /\ z.ep = x.ep /\ z.sa = x.sa /\ z.family = x.family
           /\ z.types = x.types /\ z.forecast = x.forecast /\ z.otherTrend = x.otherTrend
           /\ z.spike = x.spike /\ z.rr = x.rr /\ z.micro = x.micro /\ z.positive = x.positive
           /\ z.drift = x.drift /\ (Directed(z) <=> Directed(x))
           /\ z.m.session = "regular" /\ z.m.timeframe = x.m.timeframe /\ z.m.vix = x.m.vix
           /\ z.m.riskOff = x.m.riskOff /\ Regime(z.m) = Regime(x.m)
           /\ Gates(z.m) = DynamicGates(x.m)
BY RegularMarket, RegularGates DEF Follows, Clean, Fields, Directed

(* A reason of an excused kind is no obstacle. *)
LEMMA ExcusedFollows ==
    ASSUME NEW x, NEW z, Follows(x, z), NEW reason \in Excused
    PROVE  Follows(x, [z EXCEPT !.reasons = @ \union {reason}])
<1> DEFINE y == [z EXCEPT !.reasons = @ \union {reason}]
<1>1. Shaped(y) /\ y.reasons = z.reasons \union {reason} /\ \A f \in Fields \ {"reasons"} : y[f] = z[f]
    BY Marking DEF Follows
<1>2. "m" \in Fields \ {"reasons"} /\ "conf" \in Fields \ {"reasons"}
    BY DEF Fields
<1> HIDE DEF y
<1>3. Follows(x, y)
    BY <1>1, <1>2 DEF Follows
<1>4. QED
    BY <1>3 DEF y

(* A stage that has a reason against x does not leave it clean. *)
LEMMA MarkedIsNotClean ==
    ASSUME NEW x, Clean(x), NEW reason
    PROVE  [x EXCEPT !.reasons = @ \union {reason}] # x
<1> DEFINE y == [x EXCEPT !.reasons = @ \union {reason}]
<1>1. y.reasons = x.reasons \union {reason} /\ x.reasons = {}
    BY Marking DEF Clean
<1> HIDE DEF y
<1>2. y # x
    BY <1>1
<1>3. QED
    BY <1>2 DEF y

LEMMA SourceHallucinationFollows ==
    ASSUME NEW x, NEW z, Clean(x), Follows(x, z), SourceHallucination(x) = x
    PROVE  SourceHallucination(z) = z
BY FollowsFields, MarkedIsNotClean DEF SourceHallucination, RejectIf

LEMMA EntryOrderFollows ==
    ASSUME NEW x, NEW z, Clean(x), Follows(x, z), EntryOrder(x) = x
    PROVE  EntryOrder(z) = z
BY FollowsFields, MarkedIsNotClean DEF EntryOrder, RejectIf

LEMMA EntryMarketDriftFollows ==
    ASSUME NEW x, NEW z, Clean(x), Follows(x, z)
    PROVE  Follows(x, EntryMarketDrift(z))
<1>1. EntryMarketDrift(z) = z
      \/ EntryMarketDrift(z) = [z EXCEPT !.reasons = @ \union {"ENTRY_MARKET_DRIFT"}]
    BY DEF EntryMarketDrift, RejectIf
<1>2. "ENTRY_MARKET_DRIFT" \in Excused
    BY DEF Excused
<1>3. Follows(x, [z EXCEPT !.reasons = @ \union {"ENTRY_MARKET_DRIFT"}])
    BY <1>2, ExcusedFollows
<1>4. QED
    BY <1>1, <1>3

LEMMA MarketSessionClosedFollows ==
    ASSUME NEW x, NEW z, Clean(x), Follows(x, z)
    PROVE  MarketSessionClosed(z) = z
BY FollowsFields DEF MarketSessionClosed, RejectIf

LEMMA VixHardFollows ==
    ASSUME NEW x, NEW z, Clean(x), Follows(x, z), VixHard(x) = x
    PROVE  VixHard(z) = z
BY FollowsFields, MarkedIsNotClean DEF VixHard, RejectIf

LEMMA ForecastContradictsFollows ==
    ASSUME NEW x, NEW z, Clean(x), Follows(x, z), ForecastContradicts(x) = x
    PROVE  ForecastContradicts(z) = z
<1>1. ~(/\ \/ x.direction = "LONG" /\ x.forecast < -80
           \/ x.direction = "SHORT" /\ x.forecast > 80
        /\ ~Convinced(x, 5, 85))
    BY MarkedIsNotClean DEF ForecastContradicts, RejectIf
<1>2. Convinced(z, 5, 85) <=> Convinced(x, 5, 85)
    BY FollowsFields DEF Convinced
<1>3. ~(/\ \/ z.direction = "LONG" /\ z.forecast < -80
           \/ z.direction = "SHORT" /\ z.forecast > 80
        /\ ~Convinced(z, 5, 85))
    BY <1>1, <1>2, FollowsFields
<1>4. QED
    BY <1>3 DEF ForecastContradicts, RejectIf

LEMMA MacroVetoFollows ==
    ASSUME NEW x, NEW z, Clean(x), Follows(x, z), MacroVeto(x) = x
    PROVE  MacroVeto(z) = z
<1>1. ~(/\ x.m.timeframe = "1h" /\ x.direction = "LONG" /\ x.m.riskOff /\ x.m.vix >= 25
        /\ ~Convinced(x, 6, 90))
    BY MarkedIsNotClean DEF MacroVeto, RejectIf
<1>2. Convinced(z, 6, 90) <=> Convinced(x, 6, 90)
    BY FollowsFields DEF Convinced
<1>3. ~(/\ z.m.timeframe = "1h" /\ z.direction = "LONG" /\ z.m.riskOff /\ z.m.vix >= 25
        /\ ~Convinced(z, 6, 90))
    BY <1>1, <1>2, FollowsFields
<1>4. QED
    BY <1>3 DEF MacroVeto, RejectIf

LEMMA VixSoftFollows ==
    ASSUME NEW x, NEW z, Clean(x), Follows(x, z), VixSoft(x) = x
    PROVE  VixSoft(z) = z
<1>1. ~(/\ x.m.vix > 25 /\ ~Convinced(x, 3, 72)
        /\ \/ x.m.riskOff /\ x.direction = "LONG" /\ Regime(x.m) # "risk_off_high_vix"
           \/ ~x.m.riskOff /\ x.direction = "SHORT")
    BY VixSoftJudges DEF Clean
<1>2. ~(/\ z.m.vix > 25 /\ ~Convinced(z, 3, 72)
        /\ \/ z.m.riskOff /\ z.direction = "LONG" /\ Regime(z.m) # "risk_off_high_vix"
           \/ ~z.m.riskOff /\ z.direction = "SHORT")
    BY <1>1, FollowsFields DEF Convinced
<1>3. QED
    BY <1>2 DEF VixSoft, RejectIf

LEMMA ReconciliationFollows ==
    ASSUME NEW x, NEW z, Clean(x), Follows(x, z)
    PROVE  Follows(Reconciliation(x), Reconciliation(z))
<1> DEFINE a == Reconciliation(x)
           b == Reconciliation(z)
<1>1. WithMacro(z) = WithMacro(x) /\ (ForecastConfirms(z) <=> ForecastConfirms(x))
    BY FollowsFields DEF WithMacro, ForecastConfirms
<1>2. Shaped(x) /\ Shaped(z)
    BY DEF Clean, Follows
<1>3. z.direction = x.direction /\ z.ep = x.ep /\ z.types = x.types
    BY FollowsFields
<1>4. Altered(x, a, {"sa", "ep"}) /\ Altered(z, b, {"sa", "ep"})
    BY <1>2, ReconciliationAlters
<1>5. b.sa = a.sa /\ b.ep = a.ep
    BY <1>1, <1>2, <1>3, ReconciliationAlters
<1> HIDE DEF a, b
<1>6. \A f \in {"m", "conf", "reasons"} : a[f] = x[f] /\ b[f] = z[f]
    BY <1>4 DEF Altered, Fields
<1>7. \A f \in Fields \ {"m", "conf", "reasons"} : b[f] = a[f]
    BY <1>4, <1>5 DEF Follows, Altered
<1>8. Follows(a, b)
    BY <1>4, <1>6, <1>7 DEF Follows, Altered
<1>9. QED
    BY <1>8 DEF a, b

(* Lowered keeps the order of confidences. *)
LEMMA LoweredFollows ==
    ASSUME NEW x, NEW z, Clean(x), Follows(x, z), NEW d \in Nat
    PROVE  Follows(Lowered(x, d), Lowered(z, d)) /\ Follows(Lowered(x, d), z)
<1> DEFINE a == Lowered(x, d)
           b == Lowered(z, d)
<1>1. /\ Shaped(a) /\ a.conf = Max({0, x.conf - d}) /\ \A f \in Fields \ {"conf"} : a[f] = x[f]
      /\ Shaped(b) /\ b.conf = Max({0, z.conf - d}) /\ \A f \in Fields \ {"conf"} : b[f] = z[f]
    BY Lowering DEF Clean, Follows
<1>2. x.conf \in Nat /\ z.conf \in Nat /\ x.conf <= z.conf
    BY DEF Follows
<1> DEFINE u == x.conf - d
           v == z.conf - d
<1>3. u \in Int /\ v \in Int /\ u <= v /\ u <= x.conf /\ 0 \in Int
    BY <1>2
<1>4. a.conf = Max({0, u}) /\ b.conf = Max({0, v})
    BY <1>1
<1> HIDE DEF a, b, u, v
<1>5. Max({0, u}) \in {0, u} /\ Max({0, u}) >= 0
    BY <1>3, MaxOfTwo
<1>6. Max({0, v}) \in {0, v} /\ Max({0, v}) >= 0 /\ Max({0, v}) >= v
    BY <1>3, MaxOfTwo
<1>7. a.conf \in Nat /\ b.conf \in Nat /\ a.conf <= b.conf /\ a.conf <= z.conf
    BY <1>2, <1>3, <1>4, <1>5, <1>6
<1>8. "m" \in Fields \ {"conf"} /\ "reasons" \in Fields \ {"conf"}
    BY DEF Fields
<1>9. Follows(a, b) /\ Follows(a, z)
    BY <1>1, <1>2, <1>7, <1>8 DEF Follows
<1>10. QED
    BY <1>9 DEF a, b

LEMMA ExtendedHoursPenaltyFollows ==
    ASSUME NEW x, NEW z, Clean(x), Follows(x, z)
    PROVE  Follows(ExtendedHoursPenalty(x), ExtendedHoursPenalty(z))
<1>1. ExtendedHoursPenalty(z) = z
    BY FollowsFields DEF ExtendedHoursPenalty
<1>2. ExtendedHoursPenalty(x) = x \/ ExtendedHoursPenalty(x) = Lowered(x, 10)
    BY DEF ExtendedHoursPenalty
<1>3. Follows(Lowered(x, 10), z)
    BY LoweredFollows
<1>4. QED
    BY <1>1, <1>2, <1>3

LEMMA GatesOrder ==
    ASSUME NEW m
    PROVE  LET g == Gates(m)
               d == DynamicGates(m)
           IN  /\ {g.ep, g.sa, g.conf, d.ep, d.sa, d.conf} \subseteq Nat
               /\ d.ep <= g.ep /\ d.sa <= g.sa /\ d.conf <= g.conf
BY GatesBounds, DynamicGatesBounds

LEMMA AlertThresholdsFollow ==
    ASSUME NEW x, NEW z, Clean(x), Follows(x, z), AlertThresholds(x) = x,
           x.ep \in Nat, x.sa \in Nat
    PROVE  Follows(x, AlertThresholds(z))
<1> DEFINE g == Gates(x.m)
           d == Gates(z.m)
           h == RejectIf(z, z.conf >= 85 /\ z.sa < 5, "HIGH_CONFIDENCE_ALIGNMENT")
<1>1. ~(x.ep < g.ep) /\ ~(x.sa < g.sa) /\ ~(x.conf < g.conf)
    BY AlertThresholdsJudge DEF Clean
<1>2. /\ {g.ep, g.sa, g.conf, d.ep, d.sa, d.conf} \subseteq Nat
      /\ d.ep <= g.ep /\ d.sa <= g.sa /\ d.conf <= g.conf
    BY FollowsFields, GatesOrder
<1>3. z.ep = x.ep /\ z.sa = x.sa
    BY FollowsFields
<1> HIDE DEF g, d
<1>4. ~(z.ep < d.ep) /\ ~(z.sa < d.sa) /\ ~(z.conf < d.conf)
    BY <1>1, <1>2, <1>3 DEF Follows
<1>5. AlertThresholds(z) = RejectIf(h, z.conf < d.conf, "CONF_THRESHOLD")
    BY <1>4 DEF AlertThresholds, RejectIf, d
<1>6. AlertThresholds(z) = h
    BY <1>4, <1>5 DEF RejectIf
<1>7. h = z \/ h = [z EXCEPT !.reasons = @ \union {"HIGH_CONFIDENCE_ALIGNMENT"}]
    BY DEF RejectIf
<1>8. "HIGH_CONFIDENCE_ALIGNMENT" \in Excused
    BY DEF Excused
<1> HIDE DEF h
<1>9. QED
    BY <1>6, <1>7, <1>8, ExcusedFollows

(* The bars for a WATCH are those for an alert with some slack. *)
Bar(g, slack, floor) == Max({g - slack, floor})

LEMMA WatchBars ==
    ASSUME NEW g
    PROVE  /\ Max({g.ep - 5, 50}) = Bar(g.ep, 5, 50)
           /\ Max({2, g.sa - 1}) = Bar(g.sa, 1, 2)
           /\ Max({60, g.conf - 10}) = Bar(g.conf, 10, 60)
<1>1. {2, g.sa - 1} = {g.sa - 1, 2} /\ {60, g.conf - 10} = {g.conf - 10, 60}
    OBVIOUS
<1>2. QED
    BY <1>1 DEF Bar

LEMMA LowerBar ==
    ASSUME NEW g \in Nat, NEW d \in Nat, d <= g, NEW slack \in Nat, NEW floor \in Nat
    PROVE  /\ Bar(g, slack, floor) \in Int /\ Bar(d, slack, floor) \in Int
           /\ Bar(d, slack, floor) <= Bar(g, slack, floor)
<1> DEFINE a == g - slack
           b == d - slack
<1>1. a \in Int /\ b \in Int /\ b <= a /\ floor \in Int
    OBVIOUS
<1> HIDE DEF a, b
<1>2. Max({a, floor}) \in {a, floor} /\ Max({a, floor}) >= a /\ Max({a, floor}) >= floor
    BY <1>1, MaxOfTwo
<1>3. Max({b, floor}) \in {b, floor}
    BY <1>1, MaxOfTwo
<1>4. Bar(g, slack, floor) = Max({a, floor}) /\ Bar(d, slack, floor) = Max({b, floor})
    BY DEF Bar, a, b
<1>5. QED
    BY <1>1, <1>2, <1>3, <1>4

LEMMA WatchThresholdsFollow ==
    ASSUME NEW x, NEW z, Clean(x), Follows(x, z), WatchThresholds(x) = x,
           x.ep \in Nat, x.sa \in Nat
    PROVE  WatchThresholds(z) = z
<1> DEFINE g == Gates(x.m)
           d == Gates(z.m)
<1>0. /\ ~(x.ep < Max({g.ep - 5, 50})) /\ ~(x.sa < Max({2, g.sa - 1}))
      /\ ~(x.conf < Max({60, g.conf - 10}))
    BY WatchThresholdsJudge DEF Clean
<1>1. /\ ~(x.ep < Bar(g.ep, 5, 50)) /\ ~(x.sa < Bar(g.sa, 1, 2))
      /\ ~(x.conf < Bar(g.conf, 10, 60))
    BY <1>0, WatchBars
<1>2. /\ g.ep \in Nat /\ g.sa \in Nat /\ g.conf \in Nat
      /\ d.ep \in Nat /\ d.sa \in Nat /\ d.conf \in Nat
      /\ d.ep <= g.ep /\ d.sa <= g.sa /\ d.conf <= g.conf
    BY FollowsFields, GatesOrder
<1>3. /\ z.ep = x.ep /\ z.sa = x.sa
      /\ z.conf \in Nat /\ x.conf \in Nat /\ x.conf <= z.conf
    BY FollowsFields DEF Follows
<1> HIDE DEF g, d
<1>4. /\ Bar(g.ep, 5, 50) \in Int /\ Bar(d.ep, 5, 50) \in Int
      /\ Bar(d.ep, 5, 50) <= Bar(g.ep, 5, 50)
    BY <1>2, LowerBar
<1>5. /\ Bar(g.sa, 1, 2) \in Int /\ Bar(d.sa, 1, 2) \in Int
      /\ Bar(d.sa, 1, 2) <= Bar(g.sa, 1, 2)
    BY <1>2, LowerBar
<1>6. /\ Bar(g.conf, 10, 60) \in Int /\ Bar(d.conf, 10, 60) \in Int
      /\ Bar(d.conf, 10, 60) <= Bar(g.conf, 10, 60)
    BY <1>2, LowerBar
<1>7. /\ ~(z.ep < Bar(d.ep, 5, 50)) /\ ~(z.sa < Bar(d.sa, 1, 2))
      /\ ~(z.conf < Bar(d.conf, 10, 60))
    BY <1>1, <1>3, <1>4, <1>5, <1>6
<1>8. /\ ~(z.ep < Max({d.ep - 5, 50})) /\ ~(z.sa < Max({2, d.sa - 1}))
      /\ ~(z.conf < Max({60, d.conf - 10}))
    BY <1>7, WatchBars
<1>9. QED
    BY <1>8 DEF WatchThresholds, RejectIf, d

LEMMA ThresholdGatesFollow ==
    ASSUME NEW x, NEW z, Clean(x), Follows(x, z), ThresholdGates(x) = x,
           x.ep \in Nat, x.sa \in Nat
    PROVE  Follows(x, ThresholdGates(z))
<1>1. z.direction = x.direction
    BY FollowsFields
<1>2. CASE x.direction = "WATCH"
    BY <1>1, <1>2, WatchThresholdsFollow DEF ThresholdGates
<1>3. CASE x.direction # "WATCH"
    BY <1>1, <1>3, AlertThresholdsFollow DEF ThresholdGates
<1>4. QED
    BY <1>2, <1>3

LEMMA RrGatesFollows ==
    ASSUME NEW x, NEW z, Clean(x), Follows(x, z), RrGates(x) = x
    PROVE  RrGates(z) = z
<1>1. Directed(x) => ~x.micro /\ ~(x.rr < (IF x.m.timeframe = "1h" THEN 250 ELSE 200))
    BY RrGatesJudge DEF Clean
<1>2. Directed(z) => ~z.micro /\ ~(z.rr < (IF z.m.timeframe = "1h" THEN 250 ELSE 200))
    BY <1>1, FollowsFields
<1>3. QED
    BY <1>2 DEF RrGates, RejectIf

LEMMA VolumeUnconfirmedFollows ==
    ASSUME NEW x, NEW z, Clean(x), Follows(x, z), VolumeUnconfirmed(x).reasons = {}
    PROVE  VolumeUnconfirmed(z).reasons \subseteq Excused
<1>1. CASE ~Directed(z) \/ z.spike
    BY <1>1 DEF VolumeUnconfirmed, Follows
<1>2. CASE Directed(z) /\ ~z.spike
  <2> DEFINE penalty == IF Regime(x.m) \in {"choppy", "risk_off_high_vix"} THEN 10 ELSE 5
             a == Lowered(x, penalty)
             b == Lowered(z, penalty)
  <2>1. Directed(x) /\ ~x.spike /\ Regime(z.m) = Regime(x.m) /\ Gates(z.m) = DynamicGates(x.m)
      BY <1>2, FollowsFields
  <2>2. /\ VolumeUnconfirmed(x) = RejectIf(a, a.conf < Gates(x.m).conf, "VOLUME_UNCONFIRMED")
        /\ VolumeUnconfirmed(z) = RejectIf(b, b.conf < DynamicGates(x.m).conf, "VOLUME_UNCONFIRMED")
      BY <1>2, <2>1 DEF VolumeUnconfirmed
  <2>3. penalty \in Nat
      OBVIOUS
  <2> HIDE DEF penalty
  <2>4. Follows(a, b)
      BY <2>3, LoweredFollows
  <2>5. Shaped(a)
      BY Lowering DEF Clean
  <2>6. /\ Gates(x.m).conf \in Nat /\ DynamicGates(x.m).conf \in Nat
        /\ DynamicGates(x.m).conf <= Gates(x.m).conf
      BY GatesOrder
  <2> HIDE DEF a, b
  <2>7. ~(a.conf < Gates(x.m).conf)
      BY <2>2, <2>5, Marking DEF RejectIf
  <2>8. ~(b.conf < DynamicGates(x.m).conf)
      BY <2>4, <2>6, <2>7 DEF Follows
  <2>9. QED
      BY <2>2, <2>4, <2>8 DEF RejectIf, Follows
<1>3. QED
    BY <1>1, <1>2

LEMMA RegularReasonsExcused ==
    ASSUME NEW p \in Proposals, NEW m \in Markets, Passes(p, m)
    PROVE  Reasons(p, Regular(m)) \subseteq Excused
<1> DEFINE x == Proposed(p, m)
           c == Counted(p, m)
           t == Tested(p, m)
           z0 == Proposed(p, Regular(m))
           z2 == Reconciliation(z0)
           z4 == EntryMarketDrift(z2)
           z5 == ExtendedHoursPenalty(z4)
           z8 == ThresholdGates(z5)
<1>1. /\ Altered(x, c, {"sa", "ep"}) /\ Altered(c, t, {"conf"})
      /\ x.reasons = {} /\ c.reasons = {} /\ t.reasons = {}
      /\ SourceHallucination(x) = x /\ EntryOrder(c) = c
      /\ MarketSessionClosed(t) = t /\ VixHard(t) = t /\ ThresholdGates(t) = t
      /\ RrGates(t) = t /\ ForecastContradicts(t) = t /\ MacroVeto(t) = t
      /\ VixSoft(t) = t
    BY AcceptedUnchanged
<1>2. VolumeUnconfirmed(t).reasons = {}
    BY AcceptedUnchanged DEF Passes, Reasons
<1>3. /\ Shaped(x) /\ x.m = m /\ x.conf = p.conf
      /\ Shaped(z0) /\ z0.m = Regular(m) /\ z0.reasons = {} /\ z0.conf = p.conf
    BY ProposedShaped DEF Fields
<1>4. ASSUME NEW f \in Fields \ {"m", "conf", "reasons"} PROVE z0[f] = x[f]
  <2>1. f \in Fields \ {"m", "reasons"}
      OBVIOUS
  <2>2. x[f] = p[f]
      BY <2>1, ProposedShaped
  <2>3. z0[f] = p[f]
      BY <2>1, ProposedShaped
  <2>4. QED
      BY <2>2, <2>3
<1>5. p.conf \in Nat
    BY ProposalFields
<1>6. Clean(x)
    BY <1>1, <1>3 DEF Clean
<1>7. c.m = m /\ Clean(c)
    BY <1>1, <1>3 DEF Clean, Altered, Fields
<1>8. t.m = m /\ Clean(t)
    BY <1>1, <1>7 DEF Clean, Altered, Fields
<1>9. c.ep \in Nat /\ c.sa \in Nat
    BY CountedValues
<1>10. t.ep \in Nat /\ t.sa \in Nat
    BY <1>1, <1>9 DEF Altered, Fields
<1>11. c = Reconciliation(x) /\ t = ExtendedHoursPenalty(c)
    BY DEF Counted, Tested
<1> HIDE DEF x, c, t, z0
<1>12. Follows(x, z0)
    BY <1>3, <1>4, <1>5 DEF Follows
<1>13. SourceHallucination(z0) = z0
    BY <1>1, <1>6, <1>12, SourceHallucinationFollows
<1>14. Follows(c, z2)
    BY <1>6, <1>11, <1>12, ReconciliationFollows
<1> HIDE DEF z2
<1>15. EntryOrder(z2) = z2
    BY <1>1, <1>7, <1>14, EntryOrderFollows
<1>16. Follows(c, z4)
    BY <1>7, <1>14, EntryMarketDriftFollows
<1> HIDE DEF z4
<1>17. Follows(t, z5)
    BY <1>7, <1>11, <1>16, ExtendedHoursPenaltyFollows
<1> HIDE DEF z5
<1>18. MarketSessionClosed(z5) = z5 /\ VixHard(z5) = z5
    BY <1>1, <1>8, <1>17, MarketSessionClosedFollows, VixHardFollows
<1>19. Follows(t, z8)
    BY <1>1, <1>8, <1>10, <1>17, ThresholdGatesFollow
<1> HIDE DEF z8
<1>20. RrGates(z8) = z8 /\ ForecastContradicts(z8) = z8
    BY <1>1, <1>8, <1>19, RrGatesFollows, ForecastContradictsFollows
<1>21. MacroVeto(z8) = z8 /\ VixSoft(z8) = z8
    BY <1>1, <1>8, <1>19, MacroVetoFollows, VixSoftFollows
<1>22. Filtered(z0) = VolumeUnconfirmed(z8)
    BY <1>13, <1>15, <1>18, <1>20, <1>21 DEF Filtered, z2, z4, z5, z8
<1>23. VolumeUnconfirmed(z8).reasons \subseteq Excused
    BY <1>2, <1>8, <1>19, VolumeUnconfirmedFollows
<1>24. QED
    BY <1>22, <1>23 DEF Reasons, z0

LEMMA NoneLooser == LooserDirections = {}
<1> SUFFICES ASSUME NEW p \in Proposals, NEW m \in Markets, Passes(p, m)
             PROVE  Reasons(p, Regular(m)) \ Excused = {}
    BY DEF LooserDirections, Accepted
<1>1. QED
    BY RegularReasonsExcused

(* What passes in extended hours passes in regular hours, whatever the     *)
(* proposal and the market, but for the two kinds of reason excused.       *)
THEOREM ExtendedHoursAreStricter == Spec => []ExtendedHoursStricter
<1>1. ExtendedHoursStricter
    BY NoneLooser DEF ExtendedHoursStricter, NoAlertIn
<1>2. QED
    BY <1>1, PTL

-----------------------------------------------------------------------------
(* What stands behind an alert *)

(* In the market of its run, every alert is the direction of a proposal    *)
(* that all gates accept, whatever the run shared with others or met.      *)
THEOREM AlertsAreAccepted ==
    Spec => [](\A r \in Run : \E m \in Markets : \A c \in Held(r) :
                   \E p \in Proposals : p.direction = c[2] /\ Passes(p, m))
<1> DEFINE Backed == \A r \in Run : \E m \in Markets : \A c \in Held(r) :
                         \E p \in Proposals : p.direction = c[2] /\ Passes(p, m)
<1>1. AlertsPassing => Backed
    BY DecisionAssumption DEF AlertsPassing
<1>2. QED
    BY <1>1, AlertsHavePassed, PTL
=============================================================================
