------------------------------- MODULE MCGate -------------------------------
(* Three runs of the decision step, two cron runs and an overlapping !scan, *)
(* and the gates their candidates pass.                                     *)
EXTENDS DecisionStep, TLC

CONSTANTS cron1, cron2, scan, sym, other

(* A WATCH twice, of which the cap under stress takes one; one beside       *)
(* another symbol that goes directional, and a SHORT; the symbol going      *)
(* directional itself.                                                      *)
MCBatches ==
    { <<<<sym, "LONG">>>>,
      <<<<sym, "WATCH">>, <<sym, "WATCH">>>>,
      <<<<other, "LONG">>, <<sym, "SHORT">>, <<sym, "WATCH">>>> }

(* The same directional alert, proposed by each run. *)
MCSameLong == { <<<<sym, "LONG">>>> }

(* The two cron runs are alike, and no property tells them apart. *)
MCSymmetry == Permutations({cron1, cron2})

MCMaxExpiry == [s \in Symbol |-> IF s = sym THEN 2 ELSE 0]

-----------------------------------------------------------------------------
(* Evidence: the families that point up and down, one type for each and    *)
(* more in the trend family; its mirror image is the case for a SHORT.     *)
Evidence(up, down, extra, forecast, otherTrend) ==
    [family |-> [f \in Family |-> CASE f \in up -> "up" [] f \in down -> "down"
                                    [] OTHER -> "absent"],
     types |-> Cardinality(up \union down) + extra,
     forecast |-> forecast, otherTrend |-> otherTrend]

Mirror(e) ==
    [e EXCEPT !.forecast = -@,
              !.family = [f \in Family |-> CASE e.family[f] = "up" -> "down"
                                             [] e.family[f] = "down" -> "up"
                                             [] OTHER -> e.family[f]]]

(* No snapshot; a forecast alone; trend and volume, with the forecast      *)
(* behind and against it; three, four and six families; a macro signal.    *)
Bullish ==
    { Evidence({}, {}, 0, 0, FALSE),
      Evidence({"trend", "volume"}, {}, 0, 90, FALSE),
      Evidence({"trend", "volume"}, {}, 1, 90, TRUE),
      Evidence({"trend", "volume", "flow"}, {"sentiment"}, 1, -90, TRUE),
      Evidence({"trend", "flow", "events"}, {"macro"}, 1, 90, TRUE),
      Evidence({"trend", "volume", "flow", "events"}, {}, 0, 0, TRUE),
      Evidence(Family \ {"sentiment", "macro"}, {}, 2, 90, TRUE) }

MCProposals ==
    { [direction |-> direction, ep |-> ep, conf |-> conf, sa |-> 7,
       family |-> e.family, types |-> e.types, forecast |-> e.forecast,
       otherTrend |-> e.otherTrend, spike |-> spike,
       rr |-> 250, micro |-> FALSE, positive |-> TRUE, drift |-> drift] :
         direction \in {"LONG", "SHORT", "WATCH"}, ep \in {69, 71, 76, 90},
         conf \in {74, 79, 85, 95}, spike \in BOOLEAN, drift \in {0, 35},
         e \in Bullish \union {Mirror(e) : e \in Bullish} }

MCMarkets ==
    { m \in [timeframe: {"15m", "1h"}, vix: {18, 28, 31}, riskOff: BOOLEAN,
             surface: {"mixed", "bull", "bear"}, session: Session, extended: BOOLEAN] :
        m.session # "extended" => ~m.extended }

(* The runs meet one market, where the case for a LONG is good and that    *)
(* for a SHORT is not.                                                     *)
MCPassing ==
    LET market == [timeframe |-> "15m", vix |-> 18, riskOff |-> FALSE, surface |-> "bull",
                   session |-> "regular", extended |-> FALSE]
        proposal(direction) ==
            CHOOSE p \in MCProposals :
                /\ p.direction = direction /\ p.ep = 90 /\ p.conf = 95 /\ p.spike /\ p.drift = 0
                /\ Cardinality({f \in Family : p.family[f] = "up"}) = 5
    IN  [r \in Run |-> {c \in Candidate : Passes(proposal(c[2]), market)}]
=============================================================================
