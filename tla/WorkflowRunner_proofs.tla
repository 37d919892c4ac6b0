------------------------ MODULE WorkflowRunner_proofs ------------------------
(***************************************************************************)
(* Proofs about WorkflowRunner, for every tree of workflows, any steps and *)
(* any number of attempts.                                                 *)
(***************************************************************************)
EXTENDS WorkflowRunner, TLAPS

Frames(w) ==
    [pc : {"idle"} \union Live \union Over, at : 1 .. Len(Steps[w]) + 1,
     attempt : 1 .. MaxAttempts[w], busy : BOOLEAN,
     result : [StepsOf(w) -> {"unset", "ok", "none"}], runs : [StepsOf(w) -> Nat]]

(* A frame is a record of its workflow; one that waits is at a step.       *)
Typed ==
    /\ frame = [w \in Workflow |-> frame[w]]
    /\ \A w \in Workflow :
          /\ frame[w] \in Frames(w)
          /\ frame[w].busy => frame[w].pc \in {"main", "handlers"} /\ frame[w].at \in StepsOf(w)

LEMMA TypeParts == Typed => TypeOK
BY DEF Typed, TypeOK, Frames

LEMMA StepFacts ==
    ASSUME NEW w \in Workflow
    PROVE  /\ Steps[w] \in Seq(StepType) /\ Len(Steps[w]) \in Nat
           /\ MaxAttempts[w] \in Nat \ {0}
           /\ StepsOf(w) = 1 .. Len(Steps[w])
BY RunnerAssumption DEF StepsOf

-----------------------------------------------------------------------------
(* What becomes of a frame *)

LEMMA NewFrameType ==
    ASSUME NEW w \in Workflow, NEW where \in {"idle", "loading"}
    PROVE  NewFrame(w, where) \in Frames(w) /\ ~NewFrame(w, where).busy
           /\ NewFrame(w, where).pc = where
BY StepFacts DEF NewFrame, Frames, Live

(* The bounds of a frame, where only they matter. *)
LEMMA FrameBounds ==
    ASSUME NEW w \in Workflow, NEW f \in Frames(w)
    PROVE  /\ 1 \in 1 .. MaxAttempts[w]
           /\ 1 \in 1 .. Len(Steps[w]) + 1 /\ Len(Steps[w]) + 1 \in 1 .. Len(Steps[w]) + 1
           /\ f.at \in StepsOf(w) => f.at + 1 \in 1 .. Len(Steps[w]) + 1
           /\ f.attempt < MaxAttempts[w] => f.attempt + 1 \in 1 .. MaxAttempts[w]
BY StepFacts DEF Frames

LEMMA TriedFrame ==
    ASSUME NEW w \in Workflow, NEW f \in Frames(w), f.at \in StepsOf(w)
    PROVE  /\ Tried(f) \in Frames(w)
           /\ Tried(f).pc = f.pc /\ Tried(f).at = f.at /\ Tried(f).attempt = f.attempt
           /\ Tried(f).busy = f.busy /\ Tried(f).result = f.result
           /\ Tried(f).runs = [f.runs EXCEPT ![f.at] = @ + 1]
<1> DEFINE more == [f.runs EXCEPT ![f.at] = @ + 1]
<1>1. more \in [StepsOf(w) -> Nat]
    BY DEF Frames
<1>2. Tried(f) = [f EXCEPT !.runs = more]
    BY DEF Tried
<1> HIDE DEF more
<1>3. Tried(f) \in Frames(w) /\ Tried(f).runs = more
    BY <1>1, <1>2 DEF Frames
<1>4. QED
    BY <1>2, <1>3 DEF Frames, more

LEMMA PassedFrame ==
    ASSUME NEW w \in Workflow, NEW f \in Frames(w), f.at \in StepsOf(w)
    PROVE  /\ Passed(f) \in Frames(w)
           /\ Passed(f).pc = f.pc /\ Passed(f).at = f.at + 1 /\ Passed(f).attempt = 1
           /\ ~Passed(f).busy /\ Passed(f).result = f.result /\ Passed(f).runs = f.runs
BY FrameBounds DEF Passed, Frames

LEMMA SucceededFrame ==
    ASSUME NEW w \in Workflow, NEW f \in Frames(w), f.at \in StepsOf(w)
    PROVE  /\ Succeeded(f) \in Frames(w)
           /\ Succeeded(f).pc = f.pc /\ Succeeded(f).at = f.at + 1 /\ Succeeded(f).attempt = 1
           /\ ~Succeeded(f).busy /\ Succeeded(f).runs = f.runs
           /\ Succeeded(f).result = [f.result EXCEPT ![f.at] = "ok"]
BY PassedFrame DEF Succeeded, Frames

LEMMA GaveUpFrame ==
    ASSUME NEW w \in Workflow, NEW f \in Frames(w), f.at \in StepsOf(w)
    PROVE  /\ GaveUp(w, f) \in Frames(w)
           /\ GaveUp(w, f).pc = f.pc /\ GaveUp(w, f).attempt = 1
           /\ GaveUp(w, f).at = IF w \in Abort THEN Len(Steps[w]) + 1 ELSE f.at + 1
           /\ ~GaveUp(w, f).busy /\ GaveUp(w, f).runs = f.runs
           /\ GaveUp(w, f).result = [f.result EXCEPT ![f.at] = "none"]
<1> DEFINE results == [f.result EXCEPT ![f.at] = "none"]
           next == IF w \in Abort THEN Len(Steps[w]) + 1 ELSE f.at + 1
<1>1. results \in [StepsOf(w) -> {"unset", "ok", "none"}]
    BY DEF Frames
<1>2. next \in 1 .. Len(Steps[w]) + 1 /\ 1 \in 1 .. MaxAttempts[w]
    BY FrameBounds
<1>3. GaveUp(w, f) = [f EXCEPT !.result = results, !.attempt = 1, !.busy = FALSE, !.at = next]
    BY DEF GaveUp
<1> HIDE DEF results, next
<1>4. /\ GaveUp(w, f) \in Frames(w)
      /\ GaveUp(w, f).pc = f.pc /\ GaveUp(w, f).attempt = 1 /\ GaveUp(w, f).at = next
      /\ ~GaveUp(w, f).busy /\ GaveUp(w, f).runs = f.runs /\ GaveUp(w, f).result = results
    BY <1>1, <1>2, <1>3 DEF Frames
<1>5. QED
    BY <1>4 DEF results, next

LEMMA RetriedFrame ==
    ASSUME NEW w \in Workflow, NEW f \in Frames(w), f.attempt < MaxAttempts[w]
    PROVE  LET g == [f EXCEPT !.attempt = @ + 1, !.busy = FALSE]
           IN  /\ g \in Frames(w)
               /\ g.pc = f.pc /\ g.at = f.at /\ g.attempt = f.attempt + 1
               /\ ~g.busy /\ g.runs = f.runs /\ g.result = f.result
BY FrameBounds DEF Frames

LEMMA FailedFrame ==
    ASSUME NEW w \in Workflow, NEW f \in Frames(w), f.at \in StepsOf(w)
    PROVE  /\ Failed(w, f) \in Frames(w)
           /\ Failed(w, f).pc = f.pc /\ ~Failed(w, f).busy
BY PassedFrame, GaveUpFrame, RetriedFrame DEF Failed

LEMMA OutcomeFrame ==
    ASSUME NEW w \in Workflow, NEW f \in Frames(w), f.at \in StepsOf(w),
           NEW g \in {Succeeded(f), Failed(w, f)}
    PROVE  g \in Frames(w) /\ g.pc = f.pc /\ ~g.busy
<1>1. CASE g = Succeeded(f)
    BY <1>1, SucceededFrame
<1>2. CASE g = Failed(w, f)
    BY <1>2, FailedFrame
<1>3. QED
    BY <1>1, <1>2

(* A step of one workflow that starts no other changes its frame alone; it *)
(* was not waiting, or all it waited for is over.                          *)
Alone(w, f) ==
    /\ frame' = [frame EXCEPT ![w] = f]
    /\ frame[w].pc \in Live
    /\ f.pc \in Live \union Over
    /\ ~f.busy
    /\ frame[w].busy => \A v \in Current(w).calls : frame[v].pc \in Over

LEMMA AdvanceCases ==
    ASSUME Typed, NEW w \in Workflow, Advance(w)
    PROVE  Call(w) \/ \E f \in Frames(w) : Alone(w, f)
<1>a. frame[w] \in Frames(w) /\ frame = [v \in Workflow |-> frame[v]]
    BY DEF Typed
<1>1. CASE Load(w)
  <2>1. PICK where \in {"main", "raised"} : frame' = [frame EXCEPT ![w].pc = where]
      BY <1>1 DEF Load
  <2>2. ~frame[w].busy
      BY <1>1 DEF Load, Typed
  <2> DEFINE f == [frame[w] EXCEPT !.pc = where]
  <2>3. f \in Frames(w) /\ f.pc = where /\ f.busy = frame[w].busy
      BY <1>a DEF Frames, Live, Over
  <2>4. frame' = [frame EXCEPT ![w] = f]
      BY <2>1
  <2>5. Alone(w, f)
      BY <1>1, <2>2, <2>3, <2>4 DEF Load, Alone, Live, Over
  <2>6. QED
      BY <2>3, <2>5
<1>2. CASE Skip(w)
  <2> DEFINE f == [frame[w] EXCEPT !.at = @ + 1]
  <2>0. frame[w].at + 1 \in 1 .. Len(Steps[w]) + 1
      BY <1>2, <1>a, FrameBounds DEF Skip, AtStep
  <2>1. f \in Frames(w) /\ f.pc = frame[w].pc /\ f.busy = frame[w].busy
      BY <2>0, <1>a DEF Frames
  <2>2. frame' = [frame EXCEPT ![w] = f]
      BY <1>2 DEF Skip
  <2>3. Alone(w, f)
      BY <1>2, <2>1, <2>2 DEF Skip, AtStep, Alone, Live
  <2>4. QED
      BY <2>1, <2>3
<1>3. CASE RunPlain(w) \/ RenderFails(w)
  <2>1. AtStep(w) /\ frame[w].at \in StepsOf(w)
      BY <1>3 DEF RunPlain, RenderFails, Due, AtStep
  <2>2. PICK f \in {Succeeded(Tried(frame[w])), Failed(w, Tried(frame[w]))} :
            frame' = [frame EXCEPT ![w] = f]
      BY <1>3 DEF RunPlain, RenderFails
  <2>a. Tried(frame[w]) \in Frames(w) /\ Tried(frame[w]).pc = frame[w].pc
        /\ Tried(frame[w]).at \in StepsOf(w)
      BY <2>1, <1>a, TriedFrame
  <2>3. f \in Frames(w) /\ f.pc = frame[w].pc /\ ~f.busy
      BY <2>2, <2>a, OutcomeFrame
  <2>4. Alone(w, f)
      BY <2>1, <2>2, <2>3 DEF AtStep, Alone, Live
  <2>5. QED
      BY <2>3, <2>4
<1>4. CASE Join(w)
  <2>1. frame[w].at \in StepsOf(w) /\ frame[w].pc \in {"main", "handlers"}
      BY <1>4 DEF Join, Typed
  <2>2. PICK f \in {Succeeded(frame[w]), Failed(w, frame[w])} : frame' = [frame EXCEPT ![w] = f]
      BY <1>4, <1>a DEF Join
  <2>3. f \in Frames(w) /\ f.pc = frame[w].pc /\ ~f.busy
      BY <2>1, <2>2, <1>a, OutcomeFrame
  <2>4. Alone(w, f)
      BY <1>4, <2>1, <2>2, <2>3 DEF Join, Alone, Live
  <2>5. QED
      BY <2>3, <2>4
<1>5. CASE EndLoop(w)
  <2> DEFINE f == [frame[w] EXCEPT
                      !.pc = IF @ = "main" /\ SomeStepGaveUp(w) THEN "handlers" ELSE "returned",
                      !.at = 1]
  <2>1. f \in Frames(w) /\ f.pc \in {"handlers", "returned"} /\ f.busy = frame[w].busy
      BY <1>a, FrameBounds DEF Frames, Live, Over
  <2>2. frame' = [frame EXCEPT ![w] = f]
      BY <1>5, <1>a DEF EndLoop
  <2>3. Alone(w, f)
      BY <1>5, <2>1, <2>2 DEF EndLoop, Alone, Live, Over
  <2>4. QED
      BY <2>1, <2>3
<1>6. QED
    BY <1>1, <1>2, <1>3, <1>4, <1>5 DEF Advance

LEMMA TypedAlone ==
    ASSUME Typed, NEW w \in Workflow, NEW f \in Frames(w), Alone(w, f)
    PROVE  Typed'
<1>1. frame' = [frame EXCEPT ![w] = f] /\ ~f.busy
    BY DEF Alone
<1>2. \A v \in Workflow : frame'[v] = IF v = w THEN f ELSE frame[v]
    BY <1>1 DEF Typed
<1>3. frame' = [v \in Workflow |-> frame'[v]]
    BY <1>1, <1>2 DEF Typed
<1>4. QED
    BY <1>1, <1>2, <1>3 DEF Typed

(* What a call makes of the frames of the caller, of those it calls and of *)
(* the others.                                                             *)
LEMMA CallFrames ==
    ASSUME Typed, NEW w \in Workflow, Call(w)
    PROVE  /\ frame[w].at \in StepsOf(w) /\ frame[w].pc \in {"main", "handlers"}
           /\ ~frame[w].busy
           /\ \A v \in Current(w).calls \intersect Workflow : frame'[v] = NewFrame(v, "loading")
           /\ \A v \in Workflow \ (Current(w).calls \union {w}) : frame'[v] = frame[v]
           /\ w \notin Current(w).calls =>
                 /\ frame'[w] \in Frames(w) /\ frame'[w].busy
                 /\ frame'[w].pc = frame[w].pc /\ frame'[w].at = frame[w].at
                 /\ frame'[w].attempt = frame[w].attempt
                 /\ frame'[w].result = frame[w].result
                 /\ frame'[w].runs = Tried(frame[w]).runs
           /\ frame' = [v \in Workflow |-> frame'[v]]
<1>1. frame[w].at \in StepsOf(w) /\ frame[w].pc \in {"main", "handlers"} /\ ~frame[w].busy
    BY DEF Call, Due, AtStep
<1>2. frame' = [v \in Workflow |->
          IF v \in Current(w).calls THEN NewFrame(v, "loading")
          ELSE IF v = w THEN [Tried(frame[w]) EXCEPT !.busy = TRUE]
          ELSE frame[v]]
    BY DEF Call
<1> DEFINE f == Tried(frame[w])
           g == [f EXCEPT !.busy = TRUE]
<1>3. /\ f \in Frames(w) /\ f.pc = frame[w].pc /\ f.at = frame[w].at
      /\ f.attempt = frame[w].attempt /\ f.result = frame[w].result
    BY <1>1, TriedFrame DEF Typed
<1> HIDE DEF f
<1>4. /\ g \in Frames(w) /\ g.busy /\ g.pc = f.pc /\ g.at = f.at /\ g.attempt = f.attempt
      /\ g.result = f.result /\ g.runs = f.runs
    BY <1>3 DEF Frames
<1>5. w \notin Current(w).calls => frame'[w] = g
    BY <1>2 DEF f
<1> HIDE DEF g
<1>6. QED
    BY <1>1, <1>2, <1>3, <1>4, <1>5 DEF f

LEMMA TypedCall == ASSUME Typed, NEW w \in Workflow, Call(w) PROVE Typed'
<1> SUFFICES ASSUME NEW v \in Workflow
             PROVE  /\ frame'[v] \in Frames(v)
                    /\ frame'[v].busy =>
                          frame'[v].pc \in {"main", "handlers"} /\ frame'[v].at \in StepsOf(v)
    BY CallFrames DEF Typed
<1>1. CASE v \in Current(w).calls
    BY <1>1, CallFrames, NewFrameType
<1>2. CASE v \notin Current(w).calls /\ v # w
    BY <1>2, CallFrames DEF Typed
<1>3. CASE v \notin Current(w).calls /\ v = w
    BY <1>3, CallFrames
<1>4. QED
    BY <1>1, <1>2, <1>3

LEMMA TypedInit == Init => Typed
<1> SUFFICES ASSUME Init PROVE Typed
    OBVIOUS
<1>1. ASSUME NEW w \in Workflow
      PROVE  frame[w] \in Frames(w) /\ ~frame[w].busy
    BY NewFrameType DEF Init
<1>2. QED
    BY <1>1 DEF Init, Typed

LEMMA TypedStep == Typed /\ [Next]_frame => Typed'
<1> SUFFICES ASSUME Typed, [Next]_frame PROVE Typed'
    OBVIOUS
<1>1. ASSUME NEW w \in Workflow, Advance(w) PROVE Typed'
    BY <1>1, AdvanceCases, TypedCall, TypedAlone
<1>2. CASE UNCHANGED frame
    BY <1>2 DEF Typed
<1>3. QED
    BY <1>1, <1>2 DEF Next

(* The frame keeps its type. *)
THEOREM TypeCorrect == Spec => []TypeOK
BY TypedInit, TypedStep, TypeParts, PTL DEF Spec

-----------------------------------------------------------------------------
(* Callers wait *)

Waits(w, i) ==
    /\ frame[w].busy /\ frame[w].at = i
    /\ \A n \in Steps[w][i].needs : frame[w].result[n] = "ok"

(* A live workflow's caller waits for it, on the results it was given.     *)
CallersWait ==
    \A w, v \in Workflow : \A i \in StepsOf(w) :
        v \in Steps[w][i].calls /\ frame[v].pc \in Live => Waits(w, i)

LEMMA CallersWaitParts == CallersWait <=> NoOrphans /\ InputsReady
BY DEF CallersWait, NoOrphans, InputsReady, Waits

LEMMA WaitAlone ==
    ASSUME Typed, CallersWait, NEW w \in Workflow, NEW f \in Frames(w), Alone(w, f)
    PROVE  CallersWait'
<1> SUFFICES ASSUME NEW c \in Workflow, NEW v \in Workflow, NEW i \in StepsOf(c),
                    v \in Steps[c][i].calls, frame'[v].pc \in Live
             PROVE  Waits(c, i)'
    BY DEF CallersWait
<1>1. \A u \in Workflow \ {w} : frame'[u] = frame[u]
    BY DEF Alone, Typed
<1>2. frame[v].pc \in Live
    BY <1>1 DEF Alone
<1>3. Waits(c, i)
    BY <1>2 DEF CallersWait
<1>4. c # w
  <2> SUFFICES ASSUME c = w PROVE FALSE
      OBVIOUS
  <2>1. frame[v].pc \in Over
      BY <1>3 DEF Waits, Alone, Current
  <2>2. QED
      BY <1>2, <2>1 DEF Live, Over
<1>5. QED
    BY <1>1, <1>3, <1>4 DEF Waits

(* The callees of a step that is due are not live: their caller would be   *)
(* waiting.                                                                *)
LEMMA CalleesRest ==
    ASSUME CallersWait, NEW w \in Workflow, frame[w].at \in StepsOf(w), ~frame[w].busy,
           NEW v \in Current(w).calls \intersect Workflow
    PROVE  frame[v].pc \notin Live
BY DEF CallersWait, Waits, Current

LEMMA WaitCall ==
    ASSUME Typed, CallersWait, NEW w \in Workflow, Call(w)
    PROVE  CallersWait'
<1> SUFFICES ASSUME NEW c \in Workflow, NEW v \in Workflow, NEW i \in StepsOf(c),
                    v \in Steps[c][i].calls, frame'[v].pc \in Live
             PROVE  Waits(c, i)'
    BY DEF CallersWait
<1>0. frame[w].at \in StepsOf(w) /\ ~frame[w].busy /\ frame[w].pc \in Live
    BY CallFrames DEF Live
<1>1. \A u \in Current(w).calls \intersect Workflow : frame[u].pc \notin Live
    BY <1>0, CalleesRest
<1>2. w \notin Current(w).calls
    BY <1>0, <1>1
<1>3. CASE v \in Current(w).calls
  <2>1. c = w /\ i = frame[w].at
      BY <1>0, <1>3, RunnerAssumption DEF Current
  <2>2. \A n \in Steps[c][i].needs : frame[w].result[n] = "ok"
      BY <2>1 DEF Call, Rendered, Current
  <2>3. QED
      BY <1>2, <2>1, <2>2, CallFrames DEF Waits
<1>4. CASE v \notin Current(w).calls
  <2>1. frame[v].pc \in Live
      BY <1>0, <1>2, <1>4, CallFrames
  <2>2. Waits(c, i)
      BY <2>1 DEF CallersWait
  <2>3. c # w
      BY <1>0, <2>2 DEF Waits
  <2>4. c \notin Current(w).calls
      BY <1>1, <2>2 DEF Typed, Waits, Live
  <2>5. frame'[c] = frame[c]
      BY <2>3, <2>4, CallFrames
  <2>6. QED
      BY <2>2, <2>5 DEF Waits
<1>5. QED
    BY <1>3, <1>4

LEMMA WaitStep == Typed /\ CallersWait /\ [Next]_frame => CallersWait'
<1> SUFFICES ASSUME Typed, CallersWait, [Next]_frame PROVE CallersWait'
    OBVIOUS
<1>1. ASSUME NEW w \in Workflow, Advance(w) PROVE CallersWait'
    BY <1>1, AdvanceCases, WaitCall, WaitAlone
<1>2. CASE UNCHANGED frame
    BY <1>2 DEF CallersWait, Waits
<1>3. QED
    BY <1>1, <1>2 DEF Next

LEMMA WaitInit == Init => CallersWait
<1> SUFFICES ASSUME Init, NEW w \in Workflow, NEW v \in Workflow, NEW i \in StepsOf(w),
                    v \in Steps[w][i].calls, frame[v].pc \in Live
             PROVE  FALSE
    BY DEF CallersWait
<1>1. v # Root
    BY RunnerAssumption
<1>2. QED
    BY <1>1, NewFrameType DEF Init, Live

(* No workflow outlives the step that called it: the next step, or the     *)
(* next attempt, never races a workflow of the one before.                 *)
THEOREM NoOrphansHolds == Spec => []NoOrphans
BY WaitInit, WaitStep, TypedInit, TypedStep, CallersWaitParts, PTL DEF Spec

(* A called workflow runs only on the results its step was given: while it *)
(* is live, every step those inputs were read from has succeeded.          *)
THEOREM InputsReadyHolds == Spec => []InputsReady
BY WaitInit, WaitStep, TypedInit, TypedStep, CallersWaitParts, PTL DEF Spec

-----------------------------------------------------------------------------
(* The steps of one invocation *)

GaveUpIn(w, f) == \E i \in StepsOf(w) : f.result[i] = "none"

(* How often the steps of a frame were tried, and what came of it; try is  *)
(* 1 while the current step is being tried, and 0 otherwise.               *)
Behind(w, f, i) ==
    /\ f.runs[i] <= MaxAttempts[w]
    /\ w \notin Abort => f.result[i] # "unset"

Ahead(f, i) == f.runs[i] = 0 /\ f.result[i] = "unset"

UnderTry(f, i, try) ==
    /\ f.runs[i] = f.attempt - 1 + try
    /\ f.result[i] = "unset"

MainInv(w, f, try) ==
    \A i \in StepsOf(w) :
        /\ f.result[i] = "none" /\ w \in Abort => f.at = Len(Steps[w]) + 1
        /\ Steps[w][i].handler => Ahead(f, i) /\ (i = f.at => f.attempt = 1)
        /\ ~Steps[w][i].handler =>
              /\ i < f.at => Behind(w, f, i)
              /\ i = f.at => UnderTry(f, i, try)
              /\ i > f.at => Ahead(f, i)

HandlersInv(w, f, try) ==
    /\ GaveUpIn(w, f)
    /\ \A i \in StepsOf(w) :
          /\ ~Steps[w][i].handler => Behind(w, f, i)
          /\ Steps[w][i].handler =>
                /\ f.result[i] # "none"
                /\ f.runs[i] = IF i < f.at \/ (i = f.at /\ try = 1) THEN 1 ELSE 0

ReturnedInv(w, f) ==
    \A i \in StepsOf(w) :
        /\ ~Steps[w][i].handler => Behind(w, f, i)
        /\ Steps[w][i].handler => f.runs[i] = IF GaveUpIn(w, f) THEN 1 ELSE 0

(* Nothing is run after the step a workflow aborts on. *)
Stopped(w, f) ==
    w \in Abort =>
        \A i, j \in StepsOf(w) :
            f.result[i] = "none" /\ j > i /\ ~Steps[w][j].handler => f.runs[j] = 0

FrameInv(w, f, try) ==
    /\ Stopped(w, f)
    /\ f.pc \in {"idle", "loading", "raised"} =>
          f.at = 1 /\ f.attempt = 1 /\ \A i \in StepsOf(w) : Ahead(f, i)
    /\ f.pc = "main" => MainInv(w, f, try)
    /\ f.pc = "handlers" => HandlersInv(w, f, try)
    /\ f.pc = "returned" => ReturnedInv(w, f)
    /\ try = 1 => Steps[w][f.at].handler <=> f.pc = "handlers"

LEMMA NewFrameInv ==
    ASSUME NEW w \in Workflow, NEW where \in {"idle", "loading"}
    PROVE  FrameInv(w, NewFrame(w, where), 0)
BY DEF NewFrame, FrameInv, Stopped, Ahead

(* The frame of a step that is being tried. *)
TriedAt(w, f) ==
    /\ f \in Frames(w)
    /\ f.at \in StepsOf(w)
    /\ f.pc \in {"main", "handlers"}
    /\ Steps[w][f.at].handler <=> f.pc = "handlers"

LEMMA TriedInv ==
    ASSUME NEW w \in Workflow, NEW f, TriedAt(w, f), FrameInv(w, f, 0)
    PROVE  TriedAt(w, Tried(f)) /\ FrameInv(w, Tried(f), 1)
<1> DEFINE g == Tried(f)
<1>0. f \in Frames(w) /\ f.at \in StepsOf(w) /\ f.at \in Nat /\ StepsOf(w) \subseteq Nat
    BY StepFacts DEF TriedAt
<1>2. f.attempt \in Nat /\ f.runs \in [StepsOf(w) -> Nat]
    BY <1>0, StepFacts DEF Frames
<1>1a. /\ g \in Frames(w) /\ g.pc = f.pc /\ g.at = f.at /\ g.attempt = f.attempt
      /\ g.result = f.result
      /\ g.runs = [f.runs EXCEPT ![f.at] = @ + 1]
    BY <1>0, TriedFrame
<1> HIDE DEF g
<1>1. /\ g \in Frames(w) /\ g.pc = f.pc /\ g.at = f.at /\ g.attempt = f.attempt
      /\ g.result = f.result
      /\ \A i \in StepsOf(w) : g.runs[i] = IF i = f.at THEN f.runs[i] + 1 ELSE f.runs[i]
    BY <1>1a, <1>2
<1>3. CASE f.pc = "main"
  <2>1. MainInv(w, f, 0) /\ ~Steps[w][f.at].handler
      BY <1>3 DEF FrameInv, TriedAt
  <2>2. UnderTry(g, f.at, 1)
      BY <1>0, <1>1, <1>2, <2>1 DEF MainInv, UnderTry
  <2>b. f.at # Len(Steps[w]) + 1
      BY <1>0, StepFacts
  <2>a. w \in Abort => \A i \in StepsOf(w) : f.result[i] # "none"
      BY <2>1, <2>b DEF MainInv
  <2>3. MainInv(w, g, 1)
    <3> SUFFICES ASSUME NEW i \in StepsOf(w)
                 PROVE  /\ Steps[w][i].handler => Ahead(g, i) /\ (i = g.at => g.attempt = 1)
                        /\ ~Steps[w][i].handler =>
                              /\ i < g.at => Behind(w, g, i)
                              /\ i = g.at => UnderTry(g, i, 1)
                              /\ i > g.at => Ahead(g, i)
        BY <1>1, <2>a DEF MainInv
    <3>1. CASE i = f.at
        BY <1>0, <1>1, <2>1, <2>2, <3>1 DEF UnderTry
    <3>2. CASE i # f.at
        BY <1>0, <1>1, <2>1, <3>2 DEF MainInv, Behind, Ahead
    <3>3. QED
        BY <3>1, <3>2
  <2>4. Stopped(w, g)
      BY <1>1, <2>a DEF Stopped
  <2>5. QED
      BY <1>0, <1>1, <1>3, <2>1, <2>3, <2>4 DEF FrameInv, TriedAt, g
<1>4. CASE f.pc = "handlers"
  <2>1. HandlersInv(w, f, 0) /\ Steps[w][f.at].handler
      BY <1>4 DEF FrameInv, TriedAt
  <2>2. HandlersInv(w, g, 1)
      BY <1>0, <1>1, <2>1 DEF HandlersInv, Behind, GaveUpIn
  <2>3. Stopped(w, g)
      BY <1>0, <1>1, <2>1 DEF FrameInv, Stopped
  <2>4. QED
      BY <1>0, <1>1, <1>4, <2>1, <2>2, <2>3 DEF FrameInv, TriedAt, g
<1>5. QED
    BY <1>3, <1>4 DEF TriedAt

LEMMA TriedFacts ==
    ASSUME NEW w \in Workflow, NEW f, TriedAt(w, f)
    PROVE  /\ f \in Frames(w) /\ f.at \in StepsOf(w) /\ f.at \in Nat /\ StepsOf(w) \subseteq Nat
           /\ f.at # Len(Steps[w]) + 1 /\ Len(Steps[w]) \in Nat
           /\ \A i \in StepsOf(w) : i < Len(Steps[w]) + 1
           /\ f.attempt \in Nat /\ MaxAttempts[w] \in Nat /\ f.attempt <= MaxAttempts[w]
           /\ f.runs \in [StepsOf(w) -> Nat]
           /\ f.result \in [StepsOf(w) -> {"unset", "ok", "none"}]
BY StepFacts DEF TriedAt, Frames

(* The main loop goes on to the next step. *)
LEMMA MainMovesOn ==
    ASSUME NEW w \in Workflow, NEW f, TriedAt(w, f), FrameInv(w, f, 1), f.pc = "main",
           NEW result \in {"ok", "none"}, result = "none" => w \notin Abort,
           NEW g, g.pc = f.pc, g.at = f.at + 1, g.attempt = 1, g.runs = f.runs,
           g.result = [f.result EXCEPT ![f.at] = result]
    PROVE  FrameInv(w, g, 0)
<1>1. MainInv(w, f, 1) /\ ~Steps[w][f.at].handler /\ Stopped(w, f)
    BY DEF FrameInv, TriedAt
<1>2. \A i \in StepsOf(w) : g.result[i] = IF i = f.at THEN result ELSE f.result[i]
    BY TriedFacts
<1>3. w \in Abort => \A i \in StepsOf(w) : g.result[i] # "none"
    BY <1>1, <1>2, TriedFacts DEF MainInv
<1>4. MainInv(w, g, 0)
  <2> SUFFICES ASSUME NEW i \in StepsOf(w)
               PROVE  /\ Steps[w][i].handler => Ahead(g, i) /\ (i = g.at => g.attempt = 1)
                      /\ ~Steps[w][i].handler =>
                            /\ i < g.at => Behind(w, g, i)
                            /\ i = g.at => UnderTry(g, i, 0)
                            /\ i > g.at => Ahead(g, i)
      BY <1>3 DEF MainInv
  <2>1. CASE i = f.at
      BY <2>1, <1>1, <1>2, TriedFacts DEF MainInv, UnderTry, Behind
  <2>2. CASE i # f.at
      BY <2>2, <1>1, <1>2, TriedFacts DEF MainInv, UnderTry, Behind, Ahead
  <2>3. QED
      BY <2>1, <2>2
<1>5. Stopped(w, g)
    BY <1>3 DEF Stopped
<1>6. QED
    BY <1>4, <1>5 DEF FrameInv

(* The handlers' loop goes on to the next step. *)
LEMMA HandlersMoveOn ==
    ASSUME NEW w \in Workflow, NEW f, TriedAt(w, f), FrameInv(w, f, 1), f.pc = "handlers",
           NEW g, g.pc = f.pc, g.at = f.at + 1, g.runs = f.runs,
           g.result \in {f.result, [f.result EXCEPT ![f.at] = "ok"]}
    PROVE  FrameInv(w, g, 0)
<1>1. HandlersInv(w, f, 1) /\ Steps[w][f.at].handler /\ Stopped(w, f)
    BY DEF FrameInv, TriedAt
<1>2. \A i \in StepsOf(w) : g.result[i] = f.result[i] \/ (i = f.at /\ g.result[i] = "ok")
  <2>1. CASE g.result = f.result
      BY <2>1
  <2>2. CASE g.result = [f.result EXCEPT ![f.at] = "ok"]
      BY <2>2, TriedFacts
  <2>3. QED
      BY <2>1, <2>2
<1>3. GaveUpIn(w, g)
    BY <1>1, <1>2 DEF HandlersInv, GaveUpIn
<1>4. HandlersInv(w, g, 0)
  <2> SUFFICES ASSUME NEW i \in StepsOf(w)
               PROVE  /\ ~Steps[w][i].handler => Behind(w, g, i)
                      /\ Steps[w][i].handler =>
                            /\ g.result[i] # "none"
                            /\ g.runs[i] = IF i < g.at THEN 1 ELSE 0
      BY <1>3 DEF HandlersInv
  <2>1. CASE i = f.at
      BY <2>1, <1>1, <1>2, TriedFacts DEF HandlersInv
  <2>2. CASE i # f.at
      BY <2>2, <1>1, <1>2, TriedFacts DEF HandlersInv, Behind
  <2>3. QED
      BY <2>1, <2>2
<1>5. Stopped(w, g)
    BY <1>1, <1>2 DEF Stopped
<1>6. QED
    BY <1>4, <1>5 DEF FrameInv

LEMMA SucceededInv ==
    ASSUME NEW w \in Workflow, NEW f, TriedAt(w, f), FrameInv(w, f, 1)
    PROVE  FrameInv(w, Succeeded(f), 0)
<1> DEFINE g == Succeeded(f)
<1>0. f \in Frames(w) /\ f.at \in StepsOf(w)
    BY DEF TriedAt
<1>a. /\ g.pc = f.pc /\ g.at = f.at + 1 /\ g.attempt = 1 /\ g.runs = f.runs
      /\ g.result = [f.result EXCEPT ![f.at] = "ok"]
    BY <1>0, SucceededFrame
<1> HIDE DEF g
<1>1. CASE f.pc = "main"
  <2>1. FrameInv(w, g, 0)
      BY <1>1, <1>a, MainMovesOn
  <2>2. QED
      BY <2>1 DEF g
<1>2. CASE f.pc = "handlers"
  <2>1. FrameInv(w, g, 0)
      BY <1>2, <1>a, HandlersMoveOn
  <2>2. QED
      BY <2>1 DEF g
<1>3. QED
    BY <1>1, <1>2 DEF TriedAt

LEMMA AbortedInv ==
    ASSUME NEW w \in Abort, NEW f, TriedAt(w, f), FrameInv(w, f, 1), f.pc = "main",
           NEW g, g.pc = f.pc, g.at = Len(Steps[w]) + 1, g.runs = f.runs,
           g.result = [f.result EXCEPT ![f.at] = "none"]
    PROVE  FrameInv(w, g, 0)
<1>0. w \in Workflow
    BY RunnerAssumption
<1>1. MainInv(w, f, 1) /\ ~Steps[w][f.at].handler
    BY DEF FrameInv, TriedAt
<1>2. \A i \in StepsOf(w) : g.result[i] = IF i = f.at THEN "none" ELSE f.result[i]
    BY <1>0, TriedFacts
<1>3. \A i \in StepsOf(w) : i # f.at => g.result[i] # "none"
    BY <1>0, <1>1, <1>2, TriedFacts DEF MainInv
<1>4. Stopped(w, g)
    BY <1>0, <1>1, <1>3, TriedFacts DEF MainInv, Stopped, Ahead
<1>5. MainInv(w, g, 0)
  <2> SUFFICES ASSUME NEW i \in StepsOf(w)
               PROVE  /\ Steps[w][i].handler => Ahead(g, i) /\ (i = g.at => g.attempt = 1)
                      /\ ~Steps[w][i].handler => g.runs[i] <= MaxAttempts[w]
      BY <1>0, TriedFacts DEF MainInv, Behind
  <2>1. CASE i = f.at
      BY <2>1, <1>0, <1>1, TriedFacts DEF MainInv, UnderTry
  <2>2. CASE i # f.at
      BY <2>2, <1>0, <1>1, <1>2, TriedFacts DEF MainInv, Behind, Ahead
  <2>3. QED
      BY <2>1, <2>2
<1>6. QED
    BY <1>4, <1>5 DEF FrameInv

LEMMA RetriedInv ==
    ASSUME NEW w \in Workflow, NEW f, TriedAt(w, f), FrameInv(w, f, 1), f.pc = "main",
           NEW g, g.pc = f.pc, g.at = f.at, g.attempt = f.attempt + 1, g.runs = f.runs,
           g.result = f.result
    PROVE  FrameInv(w, g, 0)
<1>1. MainInv(w, f, 1) /\ Stopped(w, f) /\ ~Steps[w][f.at].handler
    BY DEF FrameInv, TriedAt
<1>2. MainInv(w, g, 0)
  <2> SUFFICES ASSUME NEW i \in StepsOf(w)
               PROVE  /\ g.result[i] = "none" /\ w \in Abort => g.at = Len(Steps[w]) + 1
                      /\ Steps[w][i].handler => Ahead(g, i) /\ (i = g.at => g.attempt = 1)
                      /\ ~Steps[w][i].handler =>
                            /\ i < g.at => Behind(w, g, i)
                            /\ i = g.at => UnderTry(g, i, 0)
                            /\ i > g.at => Ahead(g, i)
      BY DEF MainInv
  <2>1. CASE i = f.at
      BY <1>1, <2>1, TriedFacts DEF MainInv, UnderTry
  <2>2. CASE i # f.at
      BY <1>1, <2>2, TriedFacts DEF MainInv, Behind, Ahead
  <2>3. QED
      BY <2>1, <2>2
<1>3. QED
    BY <1>1, <1>2 DEF FrameInv, Stopped

LEMMA FailedInv ==
    ASSUME NEW w \in Workflow, NEW f, TriedAt(w, f), FrameInv(w, f, 1)
    PROVE  FrameInv(w, Failed(w, f), 0)
<1>1. CASE f.pc = "handlers"
  <2>1. Failed(w, f) = Passed(f)
      BY <1>1 DEF Failed
  <2>2. QED
      BY <1>1, <2>1, TriedFacts, PassedFrame, HandlersMoveOn
<1>2. CASE f.pc = "main" /\ f.attempt < MaxAttempts[w]
  <2> DEFINE g == [f EXCEPT !.attempt = @ + 1, !.busy = FALSE]
  <2>1. Failed(w, f) = g
      BY <1>2 DEF Failed
  <2>2. /\ g.pc = f.pc /\ g.at = f.at /\ g.attempt = f.attempt + 1
        /\ g.runs = f.runs /\ g.result = f.result
      BY <1>2, TriedFacts, RetriedFrame
  <2> HIDE DEF g
  <2>3. QED
      BY <1>2, <2>1, <2>2, RetriedInv
<1>3. CASE f.pc = "main" /\ ~(f.attempt < MaxAttempts[w])
  <2>1. Failed(w, f) = GaveUp(w, f)
      BY <1>3 DEF Failed
  <2> DEFINE g == GaveUp(w, f)
  <2>a. /\ g.pc = f.pc /\ g.attempt = 1 /\ g.runs = f.runs
        /\ g.at = IF w \in Abort THEN Len(Steps[w]) + 1 ELSE f.at + 1
        /\ g.result = [f.result EXCEPT ![f.at] = "none"]
      BY TriedFacts, GaveUpFrame
  <2> HIDE DEF g
  <2>2. CASE w \in Abort
    <3>1. FrameInv(w, g, 0)
        BY <1>3, <2>2, <2>a, AbortedInv
    <3>2. QED
        BY <2>1, <3>1 DEF g
  <2>3. CASE w \notin Abort
    <3>1. g.at = f.at + 1 /\ "none" \in {"ok", "none"}
        BY <2>3, <2>a
    <3>2. FrameInv(w, g, 0)
        BY <1>3, <2>3, <2>a, <3>1, MainMovesOn
    <3>3. QED
        BY <2>1, <3>2 DEF g
  <2>4. QED
      BY <2>2, <2>3
<1>4. QED
    BY <1>1, <1>2, <1>3 DEF TriedAt

(* The frame matters to FrameInv by its fields other than busy alone. *)
LEMMA SameButBusy ==
    ASSUME NEW w \in Workflow, NEW try \in {0, 1}, NEW f, FrameInv(w, f, try),
           NEW g, g.pc = f.pc, g.at = f.at, g.attempt = f.attempt,
           g.result = f.result, g.runs = f.runs
    PROVE  FrameInv(w, g, try)
BY DEF FrameInv, Stopped, MainInv, HandlersInv, ReturnedInv, GaveUpIn, Behind, Ahead, UnderTry

Try(f) == IF f.busy THEN 1 ELSE 0

AllFrames == \A w \in Workflow : FrameInv(w, frame[w], Try(frame[w]))

(* A step that loads, skips or ends a loop. *)
LEMMA LoadInv ==
    ASSUME Typed, NEW w \in Workflow, FrameInv(w, frame[w], Try(frame[w])), Load(w)
    PROVE  FrameInv(w, frame'[w], Try(frame'[w]))
<1> DEFINE f == frame[w]
<1>1. f.pc = "loading" /\ f \in Frames(w) /\ ~f.busy
    BY DEF Load, Typed
<1>2. PICK where \in {"main", "raised"} : frame' = [frame EXCEPT ![w].pc = where]
    BY DEF Load
<1> DEFINE g == frame'[w]
<1>3. g = [f EXCEPT !.pc = where]
    BY <1>2 DEF Typed
<1>4. /\ g.pc = where /\ g.at = f.at /\ g.attempt = f.attempt /\ ~g.busy
      /\ g.result = f.result /\ g.runs = f.runs
    BY <1>1, <1>3 DEF Frames
<1>5. FrameInv(w, f, 0)
    BY <1>1 DEF Try
<1> HIDE DEF f, g
<1>6. /\ Stopped(w, f) /\ f.at = 1 /\ f.attempt = 1
      /\ \A i \in StepsOf(w) : Ahead(f, i)
    BY <1>1, <1>5 DEF FrameInv
<1>7. Stopped(w, g) /\ \A i \in StepsOf(w) : Ahead(g, i)
    BY <1>4, <1>6 DEF Stopped, Ahead
<1>8. ASSUME NEW i \in StepsOf(w) PROVE ~(i < g.at) /\ (i = g.at => UnderTry(g, i, 0))
    BY <1>4, <1>6, <1>7, StepFacts DEF UnderTry, Ahead
<1>9. MainInv(w, g, 0)
    BY <1>4, <1>6, <1>7, <1>8 DEF MainInv, Ahead
<1>10. FrameInv(w, g, 0)
    BY <1>4, <1>6, <1>7, <1>9 DEF FrameInv
<1>11. QED
    BY <1>4, <1>10 DEF Try, g

LEMMA SkipInv ==
    ASSUME Typed, NEW w \in Workflow, FrameInv(w, frame[w], Try(frame[w])), Skip(w)
    PROVE  FrameInv(w, frame'[w], Try(frame'[w]))
<1> DEFINE f == frame[w]
           g == frame'[w]
<1>1. /\ f \in Frames(w) /\ ~f.busy /\ f.at \in StepsOf(w) /\ f.pc \in {"main", "handlers"}
      /\ ~(Steps[w][f.at].handler <=> f.pc = "handlers")
    BY DEF Skip, AtStep, Due, Current, Typed
<1>2. g = [f EXCEPT !.at = @ + 1]
    BY DEF Skip, Typed
<1>3. /\ g.pc = f.pc /\ g.at = f.at + 1 /\ g.attempt = f.attempt /\ ~g.busy
      /\ g.result = f.result /\ g.runs = f.runs
    BY <1>1, <1>2 DEF Frames
<1>4. FrameInv(w, f, 0)
    BY <1>1 DEF Try
<1>5. /\ f.at \in Nat /\ StepsOf(w) \subseteq Nat /\ f.at # Len(Steps[w]) + 1
      /\ f.attempt \in Nat
    BY <1>1, StepFacts DEF Frames
<1> HIDE DEF f, g
<1>6. Stopped(w, g)
    BY <1>3, <1>4 DEF FrameInv, Stopped
<1>7. ASSUME f.pc = "main" PROVE FrameInv(w, g, 0)
  <2>1. MainInv(w, f, 0) /\ Steps[w][f.at].handler
      BY <1>1, <1>4, <1>7 DEF FrameInv
  <2>a. f.attempt = 1
      BY <1>1, <2>1 DEF MainInv
  <2>2. MainInv(w, g, 0)
    <3> SUFFICES ASSUME NEW i \in StepsOf(w)
                 PROVE  /\ g.result[i] = "none" /\ w \in Abort => g.at = Len(Steps[w]) + 1
                        /\ Steps[w][i].handler => Ahead(g, i) /\ (i = g.at => g.attempt = 1)
                        /\ ~Steps[w][i].handler =>
                              /\ i < g.at => Behind(w, g, i)
                              /\ i = g.at => UnderTry(g, i, 0)
                              /\ i > g.at => Ahead(g, i)
        BY DEF MainInv
    <3>1. CASE i = f.at
        BY <1>3, <1>5, <2>1, <2>a, <3>1 DEF MainInv, Ahead
    <3>2. CASE i # f.at
        BY <1>3, <1>5, <2>1, <2>a, <3>2 DEF MainInv, Ahead, Behind, UnderTry
    <3>3. QED
        BY <3>1, <3>2
  <2>3. QED
      BY <1>3, <1>6, <1>7, <2>2 DEF FrameInv
<1>8. ASSUME f.pc = "handlers" PROVE FrameInv(w, g, 0)
  <2>1. HandlersInv(w, f, 0) /\ ~Steps[w][f.at].handler
      BY <1>1, <1>4, <1>8 DEF FrameInv
  <2>2. GaveUpIn(w, g)
      BY <1>3, <2>1 DEF HandlersInv, GaveUpIn
  <2>3. HandlersInv(w, g, 0)
    <3> SUFFICES ASSUME NEW i \in StepsOf(w)
                 PROVE  /\ ~Steps[w][i].handler => Behind(w, g, i)
                        /\ Steps[w][i].handler =>
                              /\ g.result[i] # "none"
                              /\ g.runs[i] = IF i < g.at THEN 1 ELSE 0
        BY <2>2 DEF HandlersInv
    <3>1. CASE i = f.at
        BY <1>3, <2>1, <3>1 DEF HandlersInv, Behind
    <3>2. CASE i # f.at
        BY <1>3, <1>5, <2>1, <3>2 DEF HandlersInv, Behind
    <3>3. QED
        BY <3>1, <3>2
  <2>4. QED
      BY <1>3, <1>6, <1>8, <2>3 DEF FrameInv
<1>9. QED
    BY <1>1, <1>3, <1>7, <1>8 DEF Try, g

LEMMA EndLoopInv ==
    ASSUME Typed, NEW w \in Workflow, FrameInv(w, frame[w], Try(frame[w])), EndLoop(w)
    PROVE  FrameInv(w, frame'[w], Try(frame'[w]))
<1> DEFINE f == frame[w]
           g == frame'[w]
           where == IF f.pc = "main" /\ SomeStepGaveUp(w) THEN "handlers" ELSE "returned"
<1>1. /\ f \in Frames(w) /\ ~f.busy /\ f.at = Len(Steps[w]) + 1
      /\ f.pc \in {"main", "handlers"}
    BY DEF EndLoop, Typed
<1>2. g = [f EXCEPT !.pc = where, !.at = 1]
    BY DEF EndLoop, Typed
<1>a. SomeStepGaveUp(w) <=> GaveUpIn(w, f)
    BY DEF SomeStepGaveUp, GaveUpIn
<1>b. where = IF f.pc = "main" /\ GaveUpIn(w, f) THEN "handlers" ELSE "returned"
    BY <1>a
<1> HIDE DEF where
<1>3. g.pc = where /\ g.at = 1 /\ ~g.busy /\ g.result = f.result /\ g.runs = f.runs
    BY <1>1, <1>2 DEF Frames
<1>4. FrameInv(w, f, 0)
    BY <1>1 DEF Try
<1>5. \A i \in StepsOf(w) : i \in Nat /\ i < f.at /\ ~(i < 1)
    BY <1>1, StepFacts
<1> HIDE DEF f, g
<1>6. Stopped(w, g) /\ (GaveUpIn(w, g) <=> GaveUpIn(w, f))
    BY <1>3, <1>4 DEF FrameInv, Stopped, GaveUpIn
<1>7. ASSUME NEW i \in StepsOf(w), ~Steps[w][i].handler PROVE Behind(w, g, i)
    BY <1>1, <1>3, <1>4, <1>5, <1>7 DEF FrameInv, MainInv, HandlersInv, Behind
<1>8. ASSUME f.pc = "main" PROVE FrameInv(w, g, 0)
  <2>1. ASSUME NEW i \in StepsOf(w), Steps[w][i].handler
        PROVE  g.runs[i] = 0 /\ g.result[i] # "none"
      BY <1>3, <1>4, <1>8, <2>1 DEF FrameInv, MainInv, Ahead
  <2>2. CASE GaveUpIn(w, f)
    <3>1. HandlersInv(w, g, 0)
        BY <1>3, <1>5, <1>6, <1>7, <2>1, <2>2 DEF HandlersInv
    <3>2. QED
        BY <1>3, <1>6, <1>8, <1>b, <2>2, <3>1 DEF FrameInv
  <2>3. CASE ~GaveUpIn(w, f)
    <3>1. ReturnedInv(w, g)
        BY <1>6, <1>7, <2>1, <2>3 DEF ReturnedInv
    <3>2. QED
        BY <1>3, <1>6, <1>8, <1>b, <2>3, <3>1 DEF FrameInv
  <2>4. QED
      BY <2>2, <2>3
<1>9. ASSUME f.pc = "handlers" PROVE FrameInv(w, g, 0)
  <2>1. HandlersInv(w, f, 0)
      BY <1>4, <1>9 DEF FrameInv
  <2>2. ReturnedInv(w, g)
      BY <1>3, <1>5, <1>6, <1>7, <2>1 DEF HandlersInv, ReturnedInv
  <2>3. QED
      BY <1>3, <1>6, <1>9, <1>b, <2>2 DEF FrameInv
<1>10. FrameInv(w, g, 0)
    BY <1>1, <1>8, <1>9
<1>11. QED
    BY <1>3, <1>10 DEF Try, g

(* However the step that was tried turned out. *)
LEMMA OutcomeInv ==
    ASSUME NEW w \in Workflow, NEW f, TriedAt(w, f), FrameInv(w, f, 1),
           NEW g \in {Succeeded(f), Failed(w, f)}
    PROVE  FrameInv(w, g, 0) /\ ~g.busy
<1>1. CASE g = Succeeded(f)
    BY <1>1, TriedFacts, SucceededInv, SucceededFrame
<1>2. CASE g = Failed(w, f)
    BY <1>2, TriedFacts, FailedInv, FailedFrame
<1>3. QED
    BY <1>1, <1>2

LEMMA RunInv ==
    ASSUME Typed, NEW w \in Workflow, FrameInv(w, frame[w], Try(frame[w])),
           RunPlain(w) \/ RenderFails(w)
    PROVE  FrameInv(w, frame'[w], Try(frame'[w]))
<1> DEFINE f == Tried(frame[w])
<1>1. TriedAt(w, frame[w]) /\ Try(frame[w]) = 0
    BY DEF RunPlain, RenderFails, Due, AtStep, Current, Typed, TriedAt, Try
<1>2. TriedAt(w, f) /\ FrameInv(w, f, 1)
    BY <1>1, TriedInv
<1>3. PICK g \in {Succeeded(f), Failed(w, f)} : frame' = [frame EXCEPT ![w] = g]
    BY DEF RunPlain, RenderFails
<1> HIDE DEF f
<1>4. FrameInv(w, g, 0) /\ ~g.busy
    BY <1>2, <1>3, OutcomeInv
<1>5. frame'[w] = g
    BY <1>3 DEF Typed
<1>6. QED
    BY <1>4, <1>5 DEF Try

LEMMA JoinInv ==
    ASSUME Typed, NEW w \in Workflow, FrameInv(w, frame[w], Try(frame[w])), Join(w)
    PROVE  FrameInv(w, frame'[w], Try(frame'[w]))
<1>1. frame[w].busy /\ Try(frame[w]) = 1
    BY DEF Join, Try
<1>2. TriedAt(w, frame[w])
    BY <1>1 DEF Typed, FrameInv, TriedAt
<1>3. PICK g \in {Succeeded(frame[w]), Failed(w, frame[w])} : frame' = [frame EXCEPT ![w] = g]
    BY DEF Join, Typed
<1>4. FrameInv(w, g, 0) /\ ~g.busy
    BY <1>1, <1>2, <1>3, OutcomeInv
<1>5. frame'[w] = g
    BY <1>3 DEF Typed
<1>6. QED
    BY <1>4, <1>5 DEF Try

LEMMA CallInv ==
    ASSUME Typed, AllFrames, NEW w \in Workflow, Call(w)
    PROVE  AllFrames'
<1> SUFFICES ASSUME NEW v \in Workflow
             PROVE  FrameInv(v, frame'[v], Try(frame'[v]))
    BY DEF AllFrames, Try
<1>1. CASE v \in Current(w).calls
  <2>1. frame'[v] = NewFrame(v, "loading") /\ ~frame'[v].busy
      BY <1>1, CallFrames, NewFrameType
  <2>2. QED
      BY <2>1, NewFrameInv DEF Try
<1>2. CASE v \notin Current(w).calls /\ v # w
    BY <1>2, CallFrames DEF AllFrames, Try
<1>3. CASE v \notin Current(w).calls /\ v = w
  <2> DEFINE f == Tried(frame[w])
  <2>1. TriedAt(w, frame[w]) /\ Try(frame[w]) = 0
      BY DEF Call, Due, AtStep, Current, Typed, TriedAt, Try
  <2>2. FrameInv(w, f, 1)
      BY <2>1, TriedInv DEF AllFrames
  <2>3. /\ f.pc = frame[w].pc /\ f.at = frame[w].at /\ f.attempt = frame[w].attempt
        /\ f.result = frame[w].result
    <3>1. frame[w] \in Frames(w) /\ frame[w].at \in StepsOf(w)
        BY <2>1 DEF TriedAt
    <3>2. QED
        BY <3>1, TriedFrame
  <2> HIDE DEF f
  <2>4. /\ frame'[w].busy /\ frame'[w].pc = f.pc /\ frame'[w].at = f.at
        /\ frame'[w].attempt = f.attempt /\ frame'[w].result = f.result
        /\ frame'[w].runs = f.runs
      BY <1>3, <2>3, CallFrames DEF f
  <2>5. FrameInv(w, frame'[w], 1)
      BY <2>2, <2>4, SameButBusy
  <2>6. QED
      BY <1>3, <2>4, <2>5 DEF Try
<1>4. QED
    BY <1>1, <1>2, <1>3

LEMMA AllFramesStep == Typed /\ AllFrames /\ [Next]_frame => AllFrames'
<1> SUFFICES ASSUME Typed, AllFrames, [Next]_frame PROVE AllFrames'
    OBVIOUS
<1>1. ASSUME NEW w \in Workflow, Advance(w), ~Call(w) PROVE AllFrames'
  <2>1. FrameInv(w, frame[w], Try(frame[w]))
      BY DEF AllFrames
  <2>2. FrameInv(w, frame'[w], Try(frame'[w]))
      BY <1>1, <2>1, LoadInv, SkipInv, RunInv, JoinInv, EndLoopInv DEF Advance
  <2>3. \A v \in Workflow \ {w} : frame'[v] = frame[v]
      BY <1>1, AdvanceCases DEF Alone, Typed
  <2>4. QED
      BY <2>2, <2>3 DEF AllFrames, Try
<1>2. ASSUME NEW w \in Workflow, Call(w) PROVE AllFrames'
    BY <1>2, CallInv
<1>3. CASE UNCHANGED frame
    BY <1>3 DEF AllFrames, Try
<1>4. QED
    BY <1>1, <1>2, <1>3 DEF Next

LEMMA AllFramesInit == Init => AllFrames
<1> SUFFICES ASSUME Init, NEW w \in Workflow PROVE FrameInv(w, frame[w], Try(frame[w]))
    BY DEF AllFrames
<1>1. PICK where \in {"idle", "loading"} : frame[w] = NewFrame(w, where)
    BY DEF Init
<1>2. Try(frame[w]) = 0
    BY <1>1, NewFrameType DEF Try
<1>3. QED
    BY <1>1, <1>2, NewFrameInv

(* What the runs check, of one frame. *)
LEMMA FrameConsequences ==
    ASSUME Typed, AllFrames, NEW w \in Workflow, NEW i \in StepsOf(w)
    PROVE  LET f == frame[w]
           IN  /\ ~Steps[w][i].handler => f.runs[i] <= MaxAttempts[w]
               /\ Steps[w][i].handler => f.runs[i] <= 1
               /\ Steps[w][i].handler /\ f.pc \in {"main", "raised"} => f.runs[i] = 0
               /\ Steps[w][i].handler /\ f.pc = "returned" =>
                     (f.runs[i] > 0 <=> SomeStepGaveUp(w))
               /\ f.pc \in {"handlers", "returned"} /\ ~Steps[w][i].handler =>
                     Behind(w, f, i)
<1> DEFINE f == frame[w]
           try == Try(f)
<1>1. FrameInv(w, f, try) /\ try \in {0, 1}
    BY DEF AllFrames, Try
<1>2. /\ f.pc \in {"idle", "loading", "raised", "main", "handlers", "returned"}
      /\ f.attempt \in Nat /\ MaxAttempts[w] \in Nat /\ f.attempt <= MaxAttempts[w]
      /\ 1 <= MaxAttempts[w]
      /\ f.at \in Nat /\ i \in Nat
    BY StepFacts DEF Typed, Frames, Live, Over
<1>3. SomeStepGaveUp(w) <=> GaveUpIn(w, f)
    BY DEF SomeStepGaveUp, GaveUpIn
<1> HIDE DEF f, try
<1>4. CASE f.pc \in {"idle", "loading", "raised"}
    BY <1>1, <1>2, <1>4 DEF FrameInv, Ahead, f
<1>5. CASE f.pc = "main"
  <2>1. CASE Steps[w][i].handler
      BY <1>1, <1>5, <2>1 DEF FrameInv, MainInv, Ahead, f
  <2>2. CASE ~Steps[w][i].handler
      BY <1>1, <1>2, <1>5, <2>2 DEF FrameInv, MainInv, Ahead, Behind, UnderTry, f
  <2>3. QED
      BY <2>1, <2>2
<1>6. CASE f.pc = "handlers"
    BY <1>1, <1>6 DEF FrameInv, HandlersInv, Behind, f
<1>7. CASE f.pc = "returned"
    BY <1>1, <1>3, <1>7 DEF FrameInv, ReturnedInv, Behind, f
<1>8. QED
    BY <1>2, <1>4, <1>5, <1>6, <1>7

LEMMA FramesImply ==
    Typed /\ AllFrames =>
        AttemptsHold /\ HandlersFollowFailure /\ NothingSkipped /\ AbortStops
<1> SUFFICES ASSUME Typed, AllFrames
             PROVE  AttemptsHold /\ HandlersFollowFailure /\ NothingSkipped /\ AbortStops
    OBVIOUS
<1>1. AttemptsHold
    BY FrameConsequences DEF AttemptsHold
<1>2. HandlersFollowFailure
    BY FrameConsequences DEF HandlersFollowFailure
<1>3. NothingSkipped
    BY FrameConsequences DEF NothingSkipped, Behind
<1>4. AbortStops
    BY RunnerAssumption DEF AllFrames, FrameInv, Stopped, AbortStops
<1>5. QED
    BY <1>1, <1>2, <1>3, <1>4

(* A step is tried at most max_attempts times in one invocation, whatever  *)
(* raises and whatever it waits for, and a failure handler once.           *)
THEOREM AttemptsHoldHolds == Spec => []AttemptsHold
BY AllFramesInit, AllFramesStep, TypedInit, TypedStep, FramesImply, PTL DEF Spec

(* The failure handlers run after the main loop, and exactly when a step   *)
(* has given up.                                                           *)
THEOREM HandlersFollowFailureHolds == Spec => []HandlersFollowFailure
BY AllFramesInit, AllFramesStep, TypedInit, TypedStep, FramesImply, PTL DEF Spec

(* Without abort_on_failure no step that gives up costs a later one its    *)
(* turn.                                                                   *)
THEOREM NothingSkippedHolds == Spec => []NothingSkipped
BY AllFramesInit, AllFramesStep, TypedInit, TypedStep, FramesImply, PTL DEF Spec

(* With it, no step runs after the one that gave up, but the handlers.     *)
THEOREM AbortStopsHolds == Spec => []AbortStops
BY AllFramesInit, AllFramesStep, TypedInit, TypedStep, FramesImply, PTL DEF Spec

-----------------------------------------------------------------------------
(* The work an invocation has left.  It goes down with every step of the   *)
(* invocation; only a call of its caller, whose own work goes down by it,  *)
(* starts the workflow afresh.                                             *)

(* More than the turns a step can take: a call and its end per attempt.    *)
Turns(w) == 2 * MaxAttempts[w] + 2

Loop(w) == (Len(Steps[w]) + 1) * Turns(w)

(* The loops ahead, the steps ahead, the attempts ahead. *)
LoopsLeft(w, f) ==
    IF f.pc = "handlers" THEN 1 ELSE IF f.pc = "main" THEN 1 + Loop(w) ELSE 1 + 2 * Loop(w)

StepsLeft(w, f) == Len(Steps[w]) + 1 - f.at

TriesLeft(w, f) == 2 * (MaxAttempts[w] - f.attempt) + (IF f.busy THEN 0 ELSE 1)

Left(w, f) ==
    IF f.pc \in Over THEN 0
    ELSE LoopsLeft(w, f) + StepsLeft(w, f) * Turns(w) + TriesLeft(w, f)

(* An invocation has a number of turns left, and none only when it is over. *)
LeftBounded ==
    \A w \in Workflow :
        /\ Left(w, frame[w]) \in Nat
        /\ Left(w, frame[w]) = 0 <=> frame[w].pc \in Over

(* Every step of an invocation leaves it less to do, and nothing gives it  *)
(* more but a call of its caller when it is not live.                      *)
LeftShrinks ==
    [][\A w \in Workflow :
          \/ Left(w, frame'[w]) < Left(w, frame[w])
          \/ frame'[w] = frame[w] /\ ~Advance(w)
          \/ /\ frame[w].pc \notin Live /\ ~Advance(w)
             /\ frame'[w] = NewFrame(w, "loading")
             /\ \E v \in Workflow : /\ w \in Current(v).calls
                                    /\ Left(v, frame'[v]) < Left(v, frame[v])]_frame

LEMMA Distance ==
    ASSUME NEW n \in Nat, NEW a \in Nat, NEW b \in Nat
    PROVE  /\ a * n \in Nat
           /\ a < b => a * n + n <= b * n
<1>1. a * n \in Nat
    OBVIOUS
<1>2. ASSUME a < b PROVE a * n + n <= b * n
  <2>1. PICK d \in Nat : b = a + 1 + d
      BY <1>2, b - a - 1 \in Nat
  <2>2. b * n = a * n + n + d * n /\ d * n \in Nat
      BY <2>1
  <2>3. QED
      BY <1>1, <2>2
<1>3. QED
    BY <1>1, <1>2

LEMMA LeftParts ==
    ASSUME NEW w \in Workflow, NEW f \in Frames(w)
    PROVE  /\ StepsLeft(w, f) \in Nat /\ StepsLeft(w, f) < Len(Steps[w]) + 1
           /\ Turns(w) \in Nat /\ Len(Steps[w]) + 1 \in Nat /\ Loop(w) \in Nat
           /\ TriesLeft(w, f) \in Nat /\ TriesLeft(w, f) < Turns(w)
           /\ StepsLeft(w, f) * Turns(w) \in Nat
           /\ StepsLeft(w, f) * Turns(w) + Turns(w) <= Loop(w)
<1>1. /\ StepsLeft(w, f) \in Nat /\ StepsLeft(w, f) < Len(Steps[w]) + 1
      /\ Turns(w) \in Nat /\ Len(Steps[w]) + 1 \in Nat
    BY StepFacts DEF StepsLeft, Turns, Frames
<1>2. TriesLeft(w, f) \in Nat /\ TriesLeft(w, f) < Turns(w)
    BY StepFacts DEF TriesLeft, Turns, Frames
<1>3. /\ StepsLeft(w, f) * Turns(w) \in Nat /\ Loop(w) \in Nat
      /\ StepsLeft(w, f) * Turns(w) + Turns(w) <= Loop(w)
    BY <1>1, Distance DEF Loop
<1>4. QED
    BY <1>1, <1>2, <1>3

LEMMA LeftType ==
    ASSUME NEW w \in Workflow, NEW f \in Frames(w)
    PROVE  Left(w, f) \in Nat /\ (Left(w, f) = 0 <=> f.pc \in Over)
<1> DEFINE s == StepsLeft(w, f) * Turns(w)
           l == Loop(w)
           t == TriesLeft(w, f)
<1>1. s \in Nat /\ l \in Nat /\ t \in Nat
    BY LeftParts
<1>2. Left(w, f) = IF f.pc \in Over THEN 0 ELSE LoopsLeft(w, f) + s + t
    BY DEF Left
<1>3. LoopsLeft(w, f) \in {1, 1 + l, 1 + 2 * l}
    BY DEF LoopsLeft
<1> HIDE DEF s, l, t
<1>4. QED
    BY <1>1, <1>2, <1>3

(* Further on in the same loop, or with fewer attempts ahead. *)
LEMMA FurtherOn ==
    ASSUME NEW w \in Workflow, NEW f \in Frames(w), NEW g \in Frames(w),
           g.pc = f.pc, f.pc \notin Over,
           \/ f.at < g.at
           \/ f.at = g.at /\ TriesLeft(w, g) < TriesLeft(w, f)
    PROVE  Left(w, g) < Left(w, f)
<1> DEFINE sf == StepsLeft(w, f) * Turns(w)
           sg == StepsLeft(w, g) * Turns(w)
           l == Loop(w)
           tf == TriesLeft(w, f)
           tg == TriesLeft(w, g)
           n == LoopsLeft(w, f)
           t == Turns(w)
<1>1. /\ sf \in Nat /\ sg \in Nat /\ l \in Nat /\ tf \in Nat /\ tg \in Nat /\ t \in Nat
      /\ tf < t /\ tg < t
    BY LeftParts
<1>2. Left(w, f) = n + sf + tf /\ Left(w, g) = n + sg + tg
    BY DEF Left, LoopsLeft
<1>3. n \in {1, 1 + l, 1 + 2 * l}
    BY DEF LoopsLeft
<1>4. CASE f.at < g.at
  <2>1. StepsLeft(w, g) < StepsLeft(w, f)
      BY <1>4, StepFacts DEF StepsLeft, Frames
  <2>2. sg + t <= sf
      BY <2>1, LeftParts, Distance
  <2> HIDE DEF sf, sg, l, tf, tg, n, t
  <2>3. QED
      BY <1>1, <1>2, <1>3, <2>2
<1>5. CASE f.at = g.at /\ TriesLeft(w, g) < TriesLeft(w, f)
  <2>1. sg = sf /\ tg < tf
      BY <1>5 DEF StepsLeft
  <2> HIDE DEF sf, sg, l, tf, tg, n, t
  <2>2. QED
      BY <1>1, <1>2, <1>3, <2>1
<1>6. QED
    BY <1>4, <1>5

(* In a later loop, or over. *)
LEMMA NextLoop ==
    ASSUME NEW w \in Workflow, NEW f \in Frames(w), NEW g \in Frames(w), f.pc \notin Over,
           \/ g.pc \in Over
           \/ f.pc = "main" /\ g.pc = "handlers"
           \/ f.pc = "loading" /\ g.pc = "main"
    PROVE  Left(w, g) < Left(w, f)
<1>1. CASE g.pc \in Over
  <2>1. Left(w, g) = 0 /\ Left(w, f) \in Nat /\ Left(w, f) # 0
      BY <1>1, LeftType
  <2>2. QED
      BY <2>1
<1>2. CASE g.pc \notin Over
  <2> DEFINE sf == StepsLeft(w, f) * Turns(w)
             sg == StepsLeft(w, g) * Turns(w)
             l == Loop(w)
             tf == TriesLeft(w, f)
             tg == TriesLeft(w, g)
             t == Turns(w)
  <2>1. /\ sf \in Nat /\ sg \in Nat /\ l \in Nat /\ tf \in Nat /\ tg \in Nat /\ t \in Nat
        /\ tg < t /\ sg + t <= l
      BY LeftParts
  <2>2. /\ Left(w, f) = LoopsLeft(w, f) + sf + tf
        /\ Left(w, g) = LoopsLeft(w, g) + sg + tg
      BY <1>2 DEF Left
  <2>3. \/ LoopsLeft(w, g) = 1 /\ LoopsLeft(w, f) = 1 + l
        \/ LoopsLeft(w, g) = 1 + l /\ LoopsLeft(w, f) = 1 + 2 * l
      BY <1>2 DEF LoopsLeft, Over
  <2> HIDE DEF sf, sg, l, tf, tg, t
  <2>4. QED
      BY <2>1, <2>2, <2>3
<1>3. QED
    BY <1>1, <1>2

(* However a step turns out, one turn is spent. *)
LEMMA OutcomeLess ==
    ASSUME NEW w \in Workflow, NEW f \in Frames(w), f.at \in StepsOf(w),
           f.pc \in {"main", "handlers"}, NEW g \in {Succeeded(f), Failed(w, f)}
    PROVE  Left(w, g) < Left(w, f)
<1>1. g \in Frames(w) /\ g.pc = f.pc /\ f.pc \notin Over
    BY OutcomeFrame DEF Over
<1>2. CASE f.at < g.at
    BY <1>1, <1>2, FurtherOn
<1>3. CASE f.attempt < MaxAttempts[w] /\ g = [f EXCEPT !.attempt = @ + 1, !.busy = FALSE]
  <2>1. g.at = f.at /\ g.attempt = f.attempt + 1
      BY <1>3, RetriedFrame
  <2>2. TriesLeft(w, g) < TriesLeft(w, f)
      BY <1>1, <2>1, StepFacts DEF TriesLeft, Frames
  <2>3. QED
      BY <1>1, <2>1, <2>2, FurtherOn
<1>4. f.at < f.at + 1 /\ f.at < Len(Steps[w]) + 1
    BY StepFacts DEF Frames
<1>5. f.at < Succeeded(f).at /\ f.at < Passed(f).at /\ f.at < GaveUp(w, f).at
    BY <1>4, SucceededFrame, PassedFrame, GaveUpFrame
<1>6. QED
    BY <1>2, <1>3, <1>5 DEF Failed

(* A try is counted before it is made, which takes no turn. *)
LEMMA TriedLeft ==
    ASSUME NEW w \in Workflow, NEW f \in Frames(w), f.at \in StepsOf(w)
    PROVE  Left(w, Tried(f)) = Left(w, f)
BY TriedFrame DEF Left, LoopsLeft, StepsLeft, TriesLeft

LEMMA AdvanceLess ==
    ASSUME Typed, CallersWait, NEW w \in Workflow, Advance(w)
    PROVE  Left(w, frame'[w]) < Left(w, frame[w])
<1>a. frame[w] \in Frames(w) /\ frame = [v \in Workflow |-> frame[v]]
    BY DEF Typed
<1>1. CASE Load(w) \/ EndLoop(w)
  <2>0. ~Call(w)
      BY <1>1, StepFacts DEF Call, Due, AtStep, Load, EndLoop
  <2>1. PICK f \in Frames(w) : Alone(w, f)
      BY <2>0, AdvanceCases
  <2>2. frame'[w] = f
      BY <2>1, <1>a DEF Alone
  <2>3. /\ frame[w].pc \notin Over
        /\ \/ f.pc \in Over
           \/ frame[w].pc = "main" /\ f.pc = "handlers"
           \/ frame[w].pc = "loading" /\ f.pc = "main"
      BY <1>1, <1>a, <2>2 DEF Load, EndLoop, Over, Frames
  <2>4. QED
      BY <1>a, <2>2, <2>3, NextLoop
<1>2. CASE Skip(w)
  <2>1. PICK f \in Frames(w) : Alone(w, f)
      BY <1>2, AdvanceCases DEF Call, Skip
  <2>2. frame'[w] = f
      BY <2>1, <1>a DEF Alone
  <2>3. f.pc = frame[w].pc /\ f.at = frame[w].at + 1 /\ frame[w].pc \notin Over
      BY <1>2, <1>a, <2>2 DEF Skip, AtStep, Over, Frames
  <2>4. frame[w].at < f.at
      BY <1>a, <2>3 DEF Frames
  <2>5. QED
      BY <1>a, <2>2, <2>3, <2>4, FurtherOn
<1>3. CASE RunPlain(w) \/ RenderFails(w)
  <2>1. frame[w].at \in StepsOf(w) /\ frame[w].pc \in {"main", "handlers"}
      BY <1>3 DEF RunPlain, RenderFails, Due, AtStep
  <2>2. PICK f \in {Succeeded(Tried(frame[w])), Failed(w, Tried(frame[w]))} :
            frame' = [frame EXCEPT ![w] = f]
      BY <1>3 DEF RunPlain, RenderFails
  <2>3. frame'[w] = f
      BY <2>2, <1>a
  <2>4. /\ Tried(frame[w]) \in Frames(w) /\ Tried(frame[w]).pc = frame[w].pc
        /\ Tried(frame[w]).at = frame[w].at
        /\ Left(w, Tried(frame[w])) = Left(w, frame[w])
      BY <1>a, <2>1, TriedFrame, TriedLeft
  <2>5. QED
      BY <2>1, <2>2, <2>3, <2>4, OutcomeLess
<1>4. CASE Join(w)
  <2>1. frame[w].at \in StepsOf(w) /\ frame[w].pc \in {"main", "handlers"}
      BY <1>4 DEF Join, Typed
  <2>2. PICK f \in {Succeeded(frame[w]), Failed(w, frame[w])} : frame' = [frame EXCEPT ![w] = f]
      BY <1>4, <1>a DEF Join
  <2>3. frame'[w] = f
      BY <2>2, <1>a
  <2>4. QED
      BY <1>a, <2>1, <2>2, <2>3, OutcomeLess
<1>5. CASE Call(w)
  <2>1. /\ frame[w].at \in StepsOf(w) /\ frame[w].pc \in {"main", "handlers"}
        /\ ~frame[w].busy
      BY <1>5, CallFrames
  <2>2. w \notin Current(w).calls
      BY <2>1, CalleesRest DEF Live
  <2>3. /\ frame'[w] \in Frames(w) /\ frame'[w].busy
        /\ frame'[w].pc = frame[w].pc /\ frame'[w].at = frame[w].at
        /\ frame'[w].attempt = frame[w].attempt
      BY <1>5, <2>2, CallFrames
  <2>4. TriesLeft(w, frame'[w]) < TriesLeft(w, frame[w])
      BY <1>a, <2>1, <2>3, StepFacts DEF TriesLeft, Frames
  <2>5. QED
      BY <1>a, <2>1, <2>3, <2>4, FurtherOn DEF Over
<1>6. QED
    BY <1>1, <1>2, <1>3, <1>4, <1>5 DEF Advance

LEMMA LeftStep ==
    ASSUME Typed, CallersWait, [Next]_frame, NEW w \in Workflow
    PROVE  \/ Left(w, frame'[w]) < Left(w, frame[w])
           \/ frame'[w] = frame[w] /\ ~Advance(w)
           \/ /\ frame[w].pc \notin Live /\ ~Advance(w)
              /\ frame'[w] = NewFrame(w, "loading")
              /\ \E v \in Workflow : /\ w \in Current(v).calls
                                     /\ Left(v, frame'[v]) < Left(v, frame[v])
<1>1. CASE Advance(w)
    BY <1>1, AdvanceLess
<1>2. CASE UNCHANGED frame /\ ~Advance(w)
    BY <1>2
<1>3. ASSUME NEW v \in Workflow, Advance(v), ~Advance(w)
      PROVE  \/ frame'[w] = frame[w]
             \/ /\ frame[w].pc \notin Live /\ frame'[w] = NewFrame(w, "loading")
                /\ w \in Current(v).calls /\ Left(v, frame'[v]) < Left(v, frame[v])
  <2>1. v # w /\ Left(v, frame'[v]) < Left(v, frame[v])
      BY <1>3, AdvanceLess
  <2>2. CASE Call(v)
    <3>1. CASE w \in Current(v).calls
        BY <2>1, <2>2, <3>1, CallFrames, CalleesRest
    <3>2. CASE w \notin Current(v).calls
        BY <2>1, <2>2, <3>2, CallFrames
    <3>3. QED
        BY <3>1, <3>2
  <2>3. CASE ~Call(v)
      BY <1>3, <2>1, <2>3, AdvanceCases DEF Alone, Typed
  <2>4. QED
      BY <2>2, <2>3
<1>4. QED
    BY <1>1, <1>2, <1>3 DEF Next

LEMMA LeftCounts == Typed => LeftBounded
BY LeftType DEF Typed, LeftBounded

(* An invocation has a bounded number of turns left, which every step of   *)
(* its own reduces; it starts afresh only by a call, when it is not live,  *)
(* and that call is a turn of its caller.  Hence a tree of workflows does  *)
(* not retry for ever.                                                     *)
THEOREM InvocationsRunOut == Spec => []LeftBounded /\ LeftShrinks
<1>1. Typed /\ CallersWait /\ [Next]_frame =>
        \A w \in Workflow :
           \/ Left(w, frame'[w]) < Left(w, frame[w])
           \/ frame'[w] = frame[w] /\ ~Advance(w)
           \/ /\ frame[w].pc \notin Live /\ ~Advance(w)
              /\ frame'[w] = NewFrame(w, "loading")
              /\ \E v \in Workflow : /\ w \in Current(v).calls
                                     /\ Left(v, frame'[v]) < Left(v, frame[v])
    BY LeftStep
<1>2. QED
    BY <1>1, TypedInit, TypedStep, WaitInit, WaitStep, LeftCounts, PTL DEF Spec, LeftShrinks
=============================================================================
