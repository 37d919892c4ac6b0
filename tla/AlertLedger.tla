---------------------------- MODULE AlertLedger ----------------------------
(***************************************************************************)
(* What the delivery path of trade-alert promises for each alert the       *)
(* decision engine hands over, whatever retries, crashes and lost replies  *)
(* happen on the way (README.md, "Delivery semantics"):                    *)
(*                                                                         *)
(*   - an alert is recorded in Postgres before anybody hears of it;        *)
(*   - only LONG and SHORT alerts are ordered from trade-execute;          *)
(*   - what has been recorded, ordered or announced stays so.              *)
(***************************************************************************)
CONSTANTS
    Alert,          \* the alert instances proposed by the decision engine
    Directional     \* those whose direction is LONG or SHORT

VARIABLES
    recorded,       \* alerts with a row in Postgres
    ordered,        \* alerts trade-execute has accepted for execution
    announced       \* alerts posted to the Discord channel

ledger == <<recorded, ordered, announced>>

Init ==
    /\ recorded = {}
    /\ ordered = {}
    /\ announced = {}

Record(a) ==
    /\ a \notin recorded
    /\ recorded' = recorded \union {a}
    /\ UNCHANGED <<ordered, announced>>

Order(a) ==
    /\ a \in recorded \intersect Directional
    /\ ordered' = ordered \union {a}
    /\ UNCHANGED <<recorded, announced>>

Announce(a) ==
    /\ a \in recorded
    /\ announced' = announced \union {a}
    /\ UNCHANGED <<recorded, ordered>>

Next == \E a \in Alert : Record(a) \/ Order(a) \/ Announce(a)

Spec == Init /\ [][Next]_ledger
=============================================================================
