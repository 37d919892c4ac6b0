------------------------------ MODULE MCRunner ------------------------------
(* orchestrator-15m with two of its seven collectors, the second of which *)
(* aborts on failure; a decision that hands over to the notifier when     *)
(* alerts pass the gates.                                                 *)
EXTENDS WorkflowRunner

CONSTANTS orchestrator, base, collectorA, collectorB, decision, notifier

Plain(needs) ==
    [calls |-> {}, needs |-> needs, handler |-> FALSE, optional |-> FALSE, tolerant |-> FALSE]
Calling(w, needs) == [Plain(needs) EXCEPT !.calls = {w}]

MCSteps == [w \in Workflow |->
    CASE w = orchestrator -> << Calling(base, {}) >>
      [] w = base ->
            << [Plain({}) EXCEPT !.calls = {collectorA, collectorB}, !.tolerant = TRUE],
               Plain({}),                                       \* run-merger
               Calling(decision, {2}),                          \* run-decision
               [Plain({}) EXCEPT !.handler = TRUE] >>           \* on-failure-notify
      [] w = decision ->
            << Plain({}),                                       \* validate-and-filter
               [Calling(notifier, {1}) EXCEPT !.optional = TRUE] >>
      [] w = collectorB -> << Plain({}), Plain({}) >>
      [] OTHER -> << Plain({}) >>]

MCMaxAttempts == [w \in Workflow |-> IF w = notifier THEN 1 ELSE 2]
=============================================================================
