---------------------------- MODULE DecisionStep ----------------------------
(***************************************************************************)
(* validate_and_filter() as a whole: the candidates of a run are evaluated *)
(* by the gates of CandidateGates, in the one market the run sees, and     *)
(* those that pass go on to the dedup keys of GateState.                   *)
(***************************************************************************)
EXTENDS GateState, CandidateGates

(* What a run lets pass are candidates the gates accept in its market. *)
ASSUME DecisionAssumption ==
    \A r \in Run : \E m \in Markets : \A c \in Passing[r] :
        \E p \in Proposals : p.direction = c[2] /\ Passes(p, m)

(* A proposal and the market it is accepted in: what may stand behind an   *)
(* alert of a run.                                                         *)
Accepted == {b \in Proposals \X Markets : Passes(b[1], b[2])}

(* No run holds an alert of one of these directions. *)
NoAlertIn(directions) == \A r \in Run : \A c \in Held(r) : c[2] \notin directions

-----------------------------------------------------------------------------
AgainstTape(b) == b[2].vix > 25 /\ b[1].direction = (IF b[2].riskOff THEN "LONG" ELSE "SHORT")

Unconvincing(b) == ~Convinced(Filtered(Proposed(b[1], b[2])), 3, 72)

WeakDirections ==
    {b[1].direction : b \in {a \in Accepted : AgainstTape(a) /\ Unconvincing(a)}}

(* validate_and_filter promises that with VIX > 25 weak alerts against the *)
(* tape are suppressed: no alert of a run has an edge below 0.72 or fewer  *)
(* than three sources then.  For LONGs the VIX gate leaves the stressed    *)
(* regime out, and only its raised thresholds see to it.                   *)
WeakAlertsSuppressed == NoAlertIn(WeakDirections)

Regular(m) == [m EXCEPT !.session = "regular"]

Excused == {"ENTRY_MARKET_DRIFT", "HIGH_CONFIDENCE_ALIGNMENT"}

LooserDirections ==
    {b[1].direction : b \in {a \in Accepted :
        a[2].session = "extended" /\ Reasons(a[1], Regular(a[2])) \ Excused # {}}}

(* Extended hours never give a run an alert that regular hours would have  *)
(* kept from it, but for two reasons: the drift gate is wider, and the     *)
(* penalty can take the confidence below the bar from which more agreement *)
(* is required.                                                            *)
ExtendedHoursStricter == NoAlertIn(LooserDirections)

Supported(p) == p.types >= 3 /\ Aligned(p.family, p.direction) >= 2

UnsupportedDirections ==
    {b[1].direction : b \in {a \in Accepted : a[1].direction # "WATCH" /\ ~Supported(a[1])}}

(* Whatever the model claims, and although the market's macro context and  *)
(* the forecast each count as a source, a LONG or SHORT of a run rests on  *)
(* three signal types and two families of its own.                         *)
OwnEvidence == NoAlertIn(UnsupportedDirections)
=============================================================================
