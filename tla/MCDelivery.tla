----------------------------- MODULE MCDelivery -----------------------------
(* A cron run and an overlapping !scan of the same timeframe.  The cron   *)
(* run proposes two LONG alerts, one more than the cap, and a WATCH; the  *)
(* scan proposes the same WATCH again.                                    *)
EXTENDS AlertDelivery

CONSTANTS cron, scan, longA, longB, watchA, watchA2, keyA, keyB, keyW

MCRunOf == [a \in Alert |-> IF a = watchA2 THEN scan ELSE cron]

MCKeyOf == [a \in Alert |-> CASE a = longA -> keyA
                               [] a = longB -> keyB
                               [] OTHER -> keyW]

MCScore == [a \in Alert |-> IF a = longB THEN 2 ELSE 1]

(* Only the contended key expires, once: other windows contend with nobody. *)
MCMaxExpiry == [k \in Key |-> IF k = keyW THEN 1 ELSE 0]
=============================================================================
