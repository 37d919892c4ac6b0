---------------------------- MODULE MCSnapshots ----------------------------
(* Runs a and b, collectors 1 and 2.  The two runs disagree on the sign of *)
(* what collector 1 finds, the trend, and on the strength of what          *)
(* collector 2 finds, the forecast.  The forecast of each run was made     *)
(* from a price far from the one the other run saw.                        *)
EXTENDS SnapshotQueue

CONSTANTS a, b, c1, c2

MCScore ==
    [e \in Entry |->
        CASE e = <<a, c1>> -> 2 [] e = <<b, c1>> -> -1
          [] e = <<a, c2>> -> 1 [] e = <<b, c2>> -> 3]

MCStale == {<<<<a, c2>>, <<b, c1>>>>, <<<<b, c2>>, <<a, c1>>>>}

(* collector-events.yaml has no retry entry. *)
MCAttempts == [c \in Collector |-> IF c = c1 THEN 1 ELSE 2]
=============================================================================
