--------------------------- MODULE CandidateGates ---------------------------
(***************************************************************************)
(* The gates a candidate of the language model passes before its dedup key *)
(* is claimed: _evaluate_candidate and the thirteen stages of              *)
(* gates/candidate_pipeline.py, with the thresholds that                   *)
(* validate_and_filter() derives from regime and market session.           *)
(*                                                                         *)
(* A candidate is a record; each stage is an operator on it that may add   *)
(* reasons for rejection, lower its edge probability (ep) or confidence    *)
(* (conf), and overwrite its sources_agree (sa).  Probabilities, scores    *)
(* and ratios are in hundredths and exact, price drift in thousandths; the *)
(* tunables have the defaults of the code.                                 *)
(*                                                                         *)
(* The market is what one run sees: timeframe, VIX, risk_off, surface (the *)
(* balance of bullish and bearish signals, mixed also when they are weak), *)
(* session, and EXTENDED_HOURS_ALERTS_ENABLED.                             *)
(***************************************************************************)
EXTENDS Integers, FiniteSets, FiniteSetsExt

CONSTANTS
    Proposals,   \* bound: the candidates to look at
    Markets      \* bound: the markets to look at

Family == {"trend", "volume", "sentiment", "flow", "events", "macro", "positioning"}

Session == {"regular", "extended", "closed"}

MarketType ==
    [timeframe: {"15m", "1h"}, vix: Nat, riskOff: BOOLEAN,
     surface: {"mixed", "bull", "bear"}, session: Session, extended: BOOLEAN]

(* family: where the mean score of each signal family points; types: the   *)
(* number of signal types; forecast: the price_forecast score, 0 without   *)
(* one; otherTrend: the trend family has another type than the forecast;   *)
(* spike: the volume score confirms; drift: of the entry level from the    *)
(* reference price, 0 without one.                                         *)
ProposalType ==
    [direction: {"LONG", "SHORT", "WATCH"}, ep: 0 .. 100, conf: 0 .. 100, sa: Nat,
     family: [Family -> {"up", "down", "weak", "absent"}], types: 0 .. 11,
     forecast: -300 .. 300, otherTrend: BOOLEAN, spike: BOOLEAN,
     rr: Nat, micro: BOOLEAN, positive: BOOLEAN, drift: Nat]

(* Every family present has a type of its own. *)
ASSUME GatesAssumption ==
    /\ \A m \in Markets : m \in MarketType
    /\ \A p \in Proposals :
          /\ p \in ProposalType
          /\ Cardinality({f \in Family : p.family[f] # "absent"}) <= p.types

-----------------------------------------------------------------------------
(* The thresholds of a run. *)

Calm(m) ==
    CASE m.surface = "mixed"               -> "choppy"
      [] m.surface = "bull" /\ ~m.riskOff  -> "trending_up"
      [] m.surface = "bear" /\ m.riskOff   -> "trending_down"
      [] OTHER                             -> "neutral"

(* classify_regime *)
Regime(m) ==
    IF m.vix > 30 THEN "extreme"
    ELSE IF m.riskOff /\ m.vix >= 25 THEN "risk_off_high_vix"
    ELSE Calm(m)

BaseGates(m) == [ep |-> IF m.timeframe = "1h" THEN 75 ELSE 70, sa |-> 4, conf |-> 75]

Bumped(g, ep, sa, conf) == [ep |-> g.ep + ep, sa |-> g.sa + sa, conf |-> g.conf + conf]

(* Mutant: the stressed regime falls through. *)
DynamicGatesUnstressed(m) ==
    CASE Regime(m) = "choppy" -> Bumped(BaseGates(m), 3, 1, 3)
      [] Regime(m) \in {"trending_up", "trending_down"} -> Bumped(BaseGates(m), -1, 0, -1)
      [] OTHER -> BaseGates(m)

(* _dynamic_gates; its clamps do not bite at these values. *)
DynamicGates(m) ==
    CASE Regime(m) \in {"choppy", "risk_off_high_vix"} -> Bumped(BaseGates(m), 3, 1, 3)
      [] Regime(m) \in {"trending_up", "trending_down"} -> Bumped(BaseGates(m), -1, 0, -1)
      [] OTHER -> BaseGates(m)

(* _apply_market_session_gate_overlays *)
Gates(m) ==
    IF m.timeframe = "15m" /\ m.session = "extended" /\ ~m.extended
    THEN Bumped(DynamicGates(m), 3, 2, 5)
    ELSE DynamicGates(m)

-----------------------------------------------------------------------------
(* The stages.  x is a proposal with its market m and its reasons so far.  *)

Directed(x) == x.direction \in {"LONG", "SHORT"}

RejectIf(x, condition, reason) ==
    IF condition THEN [x EXCEPT !.reasons = @ \union {reason}] ELSE x

Convinced(x, sa, ep) == x.sa >= sa /\ x.ep >= ep

SourceHallucination(x) == RejectIf(x, x.types = 0, "SOURCE_HALLUCINATION")

(* _aligned_family_count *)
Aligned(family, direction) ==
    LET pointing(way) == Cardinality({f \in Family : family[f] = way})
    IN  CASE direction = "LONG"  -> pointing("up")
          [] direction = "SHORT" -> pointing("down")
          [] direction = "WATCH" -> Max({pointing("up"), pointing("down")})

(* Without a macro signal of its own a symbol gets the market's. *)
WithMacro(x) ==
    IF x.family["macro"] = "absent"
    THEN [x.family EXCEPT !["macro"] = IF x.m.riskOff THEN "down" ELSE "up"]
    ELSE x.family

ForecastConfirms(x) ==
    /\ x.otherTrend
    /\ \/ x.direction = "LONG" /\ x.family["trend"] = "up" /\ x.forecast >= 80
       \/ x.direction = "SHORT" /\ x.family["trend"] = "down" /\ x.forecast <= -80

(* EP_CEILING *)
Ceiling(types) == <<50, 55, 65, 75, 85, 90, 92, 95, 96, 97, 98, 99>>[types + 1]

(* Mutant: the claimed sources_agree stands where it is higher. *)
ReconciliationOfClaim(x) ==
    LET counted == Aligned(WithMacro(x), x.direction) + (IF ForecastConfirms(x) THEN 1 ELSE 0)
    IN  [x EXCEPT !.sa = Max({x.sa, Min({counted, 7})}), !.ep = Min({x.ep, Ceiling(x.types)})]

Reconciliation(x) ==
    LET counted == Aligned(WithMacro(x), x.direction) + (IF ForecastConfirms(x) THEN 1 ELSE 0)
    IN  [x EXCEPT !.sa = Min({counted, 7}), !.ep = Min({x.ep, Ceiling(x.types)})]

(* PlaybookAlert has refused a wrong order of stop, level and target. *)
EntryOrder(x) == RejectIf(x, Directed(x) /\ ~x.positive, "ENTRY_ORDER_INVALID")

DriftGate(m) ==
    Min({80, 30 + (IF m.vix >= 25 THEN 10 ELSE 0)
                + (IF m.vix >= 30 THEN 20 ELSE 0)
                + (IF m.session = "extended" THEN 10 ELSE 0)})

EntryMarketDrift(x) ==
    RejectIf(x, Directed(x) /\ x.positive /\ x.drift > DriftGate(x.m), "ENTRY_MARKET_DRIFT")

Lowered(x, penalty) == [x EXCEPT !.conf = Max({0, @ - penalty})]

(* Mutant: the negative penalty is subtracted. *)
ExtendedHoursBonus(x) ==
    IF Directed(x) /\ x.m.extended /\ x.m.session = "extended" THEN Lowered(x, -10) ELSE x

ExtendedHoursPenalty(x) ==
    IF Directed(x) /\ x.m.extended /\ x.m.session = "extended" THEN Lowered(x, 10) ELSE x

MarketSessionClosed(x) ==
    RejectIf(x, Directed(x) /\ x.m.session = "closed", "MARKET_SESSION_CLOSED")

VixHard(x) == RejectIf(x, Directed(x) /\ x.m.vix > 30, "VIX_HARD")

WatchThresholds(x) ==
    LET g == Gates(x.m)
    IN  RejectIf(RejectIf(RejectIf(x,
            x.ep < Max({g.ep - 5, 50}), "WATCH_EP_THRESHOLD"),
            x.sa < Max({2, g.sa - 1}), "WATCH_SA_THRESHOLD"),
            x.conf < Max({60, g.conf - 10}), "WATCH_CONF_THRESHOLD")

AlertThresholds(x) ==
    LET g == Gates(x.m)
    IN  RejectIf(RejectIf(RejectIf(RejectIf(x,
            x.ep < g.ep, "EP_THRESHOLD"),
            x.sa < g.sa, "SA_THRESHOLD"),
            x.conf >= 85 /\ x.sa < 5, "HIGH_CONFIDENCE_ALIGNMENT"),
            x.conf < g.conf, "CONF_THRESHOLD")

ThresholdGates(x) == IF x.direction = "WATCH" THEN WatchThresholds(x) ELSE AlertThresholds(x)

RrGates(x) ==
    IF ~Directed(x) \/ "ENTRY_ORDER_INVALID" \in x.reasons THEN x
    ELSE RejectIf(RejectIf(x,
            x.micro, "RR_ZERO_RISK"),
            x.rr < (IF x.m.timeframe = "1h" THEN 250 ELSE 200), "RR_MINIMUM")

ForecastContradicts(x) ==
    RejectIf(x,
        /\ \/ x.direction = "LONG" /\ x.forecast < -80
           \/ x.direction = "SHORT" /\ x.forecast > 80
        /\ ~Convinced(x, 5, 85),
        "FORECAST_CONTRADICTS")

MacroVeto(x) ==
    RejectIf(x,
        /\ x.m.timeframe = "1h" /\ x.direction = "LONG" /\ x.m.riskOff /\ x.m.vix >= 25
        /\ ~Convinced(x, 6, 90),
        "MACRO_VETO")

VixSoft(x) ==
    RejectIf(x,
        /\ x.m.vix > 25 /\ ~Convinced(x, 3, 72)
        /\ \/ x.m.riskOff /\ x.direction = "LONG" /\ Regime(x.m) # "risk_off_high_vix"
           \/ ~x.m.riskOff /\ x.direction = "SHORT",
        "VIX_SOFT")

(* The only stage after the thresholds that lowers a value, so it tests it *)
(* again.                                                                  *)
VolumeUnconfirmed(x) ==
    IF ~Directed(x) \/ x.spike THEN x
    ELSE LET y == Lowered(x, IF Regime(x.m) \in {"choppy", "risk_off_high_vix"} THEN 10 ELSE 5)
         IN  RejectIf(y, y.conf < Gates(x.m).conf, "VOLUME_UNCONFIRMED")

(* DEFAULT_STAGES, in their order. *)
Filtered(x) ==
    VolumeUnconfirmed(VixSoft(MacroVeto(ForecastContradicts(RrGates(ThresholdGates(
    VixHard(MarketSessionClosed(ExtendedHoursPenalty(EntryMarketDrift(EntryOrder(
    Reconciliation(SourceHallucination(x)))))))))))))

Proposed(p, m) ==
    [f \in DOMAIN p \union {"m", "reasons"} |->
        CASE f = "m" -> m [] f = "reasons" -> {} [] OTHER -> p[f]]

Reasons(p, m) == Filtered(Proposed(p, m)).reasons

Passes(p, m) == Reasons(p, m) = {}

=============================================================================
