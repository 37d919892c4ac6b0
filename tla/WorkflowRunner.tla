--------------------------- MODULE WorkflowRunner ---------------------------
(***************************************************************************)
(* run_workflow() of pipeline_runner.py: the YAML workflows as a tree of   *)
(* invocations.  A workflow runs its steps in order, retries a step that   *)
(* raises, carries on (or aborts) when a step has given up, and runs its   *)
(* `run_on: failure` steps after the main loop if any step gave up.  A     *)
(* step may be plain (code, tool_call, llm), may call one workflow and     *)
(* wait for it, or may run several in a thread pool and join them all.     *)
(*                                                                         *)
(* What a plain step does is left open: it returns or raises.  A step also *)
(* raises when a template it renders reads the result of a step that gave  *)
(* up.  Each workflow is called from one step only, as in workflows/*.yaml. *)
(***************************************************************************)
EXTENDS Naturals, Sequences

CONSTANTS
    Workflow,      \* the workflow files
    Root,          \* the one given to pipeline_runner.py
    Steps,         \* the steps of each workflow, in order
    MaxAttempts,   \* error_handling.retry.max_attempts
    Abort          \* the workflows with error_handling.abort_on_failure

(* A step: the workflows it calls, the earlier steps whose results its     *)
(* templates read, whether it is a failure handler, whether a condition    *)
(* may choose a plain branch instead of the call, and whether an exception *)
(* of a called workflow becomes a None result (`parallel` without abort).  *)
StepType == [calls: SUBSET Workflow, needs: SUBSET Nat, handler: BOOLEAN,
             optional: BOOLEAN, tolerant: BOOLEAN]

StepsOf(w) == 1 .. Len(Steps[w])

ASSUME RunnerAssumption ==
    /\ Root \in Workflow
    /\ Steps \in [Workflow -> Seq(StepType)]
    /\ MaxAttempts \in [Workflow -> Nat \ {0}]
    /\ Abort \subseteq Workflow
    /\ \A w \in Workflow : \A i \in StepsOf(w) :
          /\ Root \notin Steps[w][i].calls
          /\ Steps[w][i].needs \subseteq {n \in 1 .. (i - 1) : ~Steps[w][n].handler}
          /\ \A v \in Workflow : \A j \in StepsOf(v) :
                Steps[w][i].calls \intersect Steps[v][j].calls # {} => v = w /\ j = i

VARIABLE
    frame     \* the latest invocation of each workflow
              \* pc: idle, loading, main, handlers, returned, raised
              \* at: the index of the current step;  attempt: its attempt
              \* busy: a step waits for the workflows it called
              \* result: unset, ok, or none when the step gave up
              \* runs: history, how often each step was tried

Live == {"loading", "main", "handlers"}
Over == {"returned", "raised"}

TypeOK ==
    \A w \in Workflow :
        /\ frame[w].pc \in {"idle"} \union Live \union Over
        /\ frame[w].at \in 1 .. Len(Steps[w]) + 1
        /\ frame[w].attempt \in 1 .. MaxAttempts[w]
        /\ frame[w].busy \in BOOLEAN
        /\ frame[w].result \in [StepsOf(w) -> {"unset", "ok", "none"}]
        /\ frame[w].runs \in [StepsOf(w) -> Nat]

NewFrame(w, where) ==
    [pc |-> where, at |-> 1, attempt |-> 1, busy |-> FALSE,
     result |-> [i \in StepsOf(w) |-> "unset"],
     runs |-> [i \in StepsOf(w) |-> 0]]

Init == frame = [w \in Workflow |-> NewFrame(w, IF w = Root THEN "loading" ELSE "idle")]

-----------------------------------------------------------------------------
(* The outcomes of a step, as changes of the frame. *)

Tried(f) == [f EXCEPT !.runs[f.at] = @ + 1]

Passed(f) == [f EXCEPT !.at = @ + 1, !.attempt = 1, !.busy = FALSE]

Succeeded(f) == [Passed(f) EXCEPT !.result[f.at] = "ok"]

(* Mutants: the first step that gives up leaves the loop, whatever         *)
(* abort_on_failure says; abort_on_failure is ignored.                     *)
GaveUpOnAll(w, f) ==
    [f EXCEPT !.result[f.at] = "none", !.attempt = 1, !.busy = FALSE,
              !.at = Len(Steps[w]) + 1]

GaveUpOnNone(w, f) ==
    [f EXCEPT !.result[f.at] = "none", !.attempt = 1, !.busy = FALSE, !.at = @ + 1]

(* The last attempt failed: the result is None; on abort the rest of the  *)
(* main loop is left out.                                                 *)
GaveUp(w, f) ==
    [f EXCEPT !.result[f.at] = "none", !.attempt = 1, !.busy = FALSE,
              !.at = IF w \in Abort THEN Len(Steps[w]) + 1 ELSE @ + 1]

(* Mutants: one attempt too many; a failure handler is retried too. *)
FailedOnceMore(w, f) ==
    IF f.pc = "handlers" THEN Passed(f)
    ELSE IF f.attempt <= MaxAttempts[w]
         THEN [f EXCEPT !.attempt = @ + 1, !.busy = FALSE]
         ELSE GaveUp(w, f)

HandlerRetried(w, f) ==
    IF f.attempt < MaxAttempts[w]
    THEN [f EXCEPT !.attempt = @ + 1, !.busy = FALSE]
    ELSE IF f.pc = "handlers" THEN Passed(f) ELSE GaveUp(w, f)

(* The step raised.  A failure handler is not retried. *)
Failed(w, f) ==
    IF f.pc = "handlers" THEN Passed(f)
    ELSE IF f.attempt < MaxAttempts[w]
         THEN [f EXCEPT !.attempt = @ + 1, !.busy = FALSE]
         ELSE GaveUp(w, f)

-----------------------------------------------------------------------------
(* One invocation *)

(* The file is read and parsed, its MCP endpoints registered; any of that *)
(* may raise, out of run_workflow.                                        *)
Load(w) ==
    /\ frame[w].pc = "loading"
    /\ \E where \in {"main", "raised"} : frame' = [frame EXCEPT ![w].pc = where]

Current(w) == Steps[w][frame[w].at]

AtStep(w) ==
    /\ frame[w].pc \in {"main", "handlers"}
    /\ ~frame[w].busy
    /\ frame[w].at \in StepsOf(w)

(* Mutant: failure handlers run inline too. *)
DueInline(w) ==
    /\ AtStep(w)
    /\ frame[w].pc = "handlers" => Current(w).handler

(* The main loop runs the plain steps, the loop after it the handlers. *)
Due(w) ==
    /\ AtStep(w)
    /\ Current(w).handler <=> frame[w].pc = "handlers"

Skip(w) ==
    /\ AtStep(w)
    /\ ~Due(w)
    /\ frame' = [frame EXCEPT ![w].at = @ + 1]

Rendered(w) == \A n \in Current(w).needs : frame[w].result[n] = "ok"

(* A plain step, or a conditional one whose condition is false. *)
RunPlain(w) ==
    /\ Due(w)
    /\ Rendered(w)
    /\ Current(w).calls = {} \/ Current(w).optional
    /\ \E f \in {Succeeded(Tried(frame[w])), Failed(w, Tried(frame[w]))} :
          frame' = [frame EXCEPT ![w] = f]

(* steps["..."]["..."] on a None result raises before anything is done. *)
RenderFails(w) ==
    /\ Due(w)
    /\ ~Rendered(w)
    /\ frame' = [frame EXCEPT ![w] = Failed(w, Tried(frame[w]))]

(* Mutant: the inputs are not rendered before the call. *)
CallWithoutRendering(w) ==
    /\ Due(w)
    /\ frame' = [v \in Workflow |->
          IF v \in Current(w).calls THEN NewFrame(v, "loading")
          ELSE IF v = w THEN [Tried(frame[w]) EXCEPT !.busy = Current(w).calls # {}]
          ELSE frame[v]]

Call(w) ==
    /\ Due(w)
    /\ Rendered(w)
    /\ Current(w).calls # {}
    /\ frame' = [v \in Workflow |->
          IF v \in Current(w).calls THEN NewFrame(v, "loading")
          ELSE IF v = w THEN [Tried(frame[w]) EXCEPT !.busy = TRUE]
          ELSE frame[v]]

(* Mutants: the step waits for results only, and a callee that raised has *)
(* none; it returns with the first result.                                *)
JoinResults(w) ==
    /\ frame[w].busy
    /\ \A v \in Current(w).calls : frame[v].pc = "returned"
    /\ frame' = [frame EXCEPT ![w] = Succeeded(@)]

JoinFirst(w) ==
    /\ frame[w].busy
    /\ \E v \in Current(w).calls : frame[v].pc \in Over
    /\ frame' = [frame EXCEPT ![w] = Succeeded(@)]

(* The executor is left only when every future is done.  An exception of a *)
(* callee is the step's own unless the step is tolerant.                   *)
Join(w) ==
    /\ frame[w].busy
    /\ \A v \in Current(w).calls : frame[v].pc \in Over
    /\ frame' = [frame EXCEPT ![w] =
          IF Current(w).tolerant \/ \A v \in Current(w).calls : frame[v].pc = "returned"
          THEN Succeeded(@) ELSE Failed(w, @)]

(* workflow_failed *)
SomeStepGaveUp(w) == \E i \in StepsOf(w) : frame[w].result[i] = "none"

EndLoop(w) ==
    /\ frame[w].pc \in {"main", "handlers"}
    /\ ~frame[w].busy
    /\ frame[w].at = Len(Steps[w]) + 1
    /\ frame' = [frame EXCEPT
          ![w].pc = IF @ = "main" /\ SomeStepGaveUp(w) THEN "handlers" ELSE "returned",
          ![w].at = 1]

Advance(w) ==
    \/ Load(w) \/ Skip(w) \/ RunPlain(w) \/ RenderFails(w)
    \/ Call(w) \/ Join(w) \/ EndLoop(w)

Next == \E w \in Workflow : Advance(w)

Spec == Init /\ [][Next]_frame

(* Each thread runs on: HTTP, LLM and Redis calls all carry a timeout. *)
FairSpec == Spec /\ \A w \in Workflow : WF_frame(Advance(w))

-----------------------------------------------------------------------------
(* Properties *)

(* A step is tried at most max_attempts times in one invocation, and a    *)
(* failure handler once.                                                  *)
AttemptsHold ==
    \A w \in Workflow : \A i \in StepsOf(w) :
        frame[w].runs[i] <= IF Steps[w][i].handler THEN 1 ELSE MaxAttempts[w]

(* The failure handlers run after the main loop, and exactly when a step  *)
(* has given up.                                                          *)
HandlersFollowFailure ==
    \A w \in Workflow : \A i \in StepsOf(w) :
        Steps[w][i].handler =>
            /\ frame[w].pc \in {"main", "raised"} => frame[w].runs[i] = 0
            /\ frame[w].pc = "returned" =>
                  (frame[w].runs[i] > 0 <=> SomeStepGaveUp(w))

(* Without abort_on_failure a step that gives up never costs a later one  *)
(* its turn: once the main loop is over every step has a result.          *)
NothingSkipped ==
    \A w \in Workflow \ Abort : \A i \in StepsOf(w) :
        frame[w].pc \in {"handlers", "returned"} /\ ~Steps[w][i].handler
            => frame[w].result[i] # "unset"

(* With it, nothing runs after the step that gave up. *)
AbortStops ==
    \A w \in Abort : \A i, j \in StepsOf(w) :
        frame[w].result[i] = "none" /\ j > i /\ ~Steps[w][j].handler
            => frame[w].runs[j] = 0

(* No workflow outlives the step that called it: while it is live its     *)
(* caller waits at that step.  The next step never races a collector.     *)
NoOrphans ==
    \A w, v \in Workflow : \A i \in StepsOf(w) :
        v \in Steps[w][i].calls /\ frame[v].pc \in Live
            => frame[w].busy /\ frame[w].at = i

(* A called workflow only ever runs on the results it was given: the      *)
(* decision never starts without the merger's.                            *)
InputsReady ==
    \A w, v \in Workflow : \A i \in StepsOf(w) :
        v \in Steps[w][i].calls /\ frame[v].pc \in Live
            => \A n \in Steps[w][i].needs : frame[w].result[n] = "ok"

(* The run ends, however steps fail and whatever is retried. *)
RunEnds == <>(frame[Root].pc \in Over)

(* workflows/orchestrator-base.yaml, "On total pipeline failure, notify   *)
(* ops channel": a workflow all of whose called workflows failed runs its *)
(* failure handlers.                                                      *)
HasFailed(w) == frame[w].pc = "raised" \/ (frame[w].pc = "returned" /\ SomeStepGaveUp(w))

TotalFailureIsReported ==
    \A w \in Workflow : \A h \in StepsOf(w) :
        LET called == UNION {Steps[w][i].calls : i \in StepsOf(w)}
        IN  /\ Steps[w][h].handler
            /\ frame[w].pc = "returned"
            /\ \A v \in called : HasFailed(v)
            => frame[w].runs[h] > 0
=============================================================================
