------------------------- MODULE ChatSession_proofs -------------------------
(***************************************************************************)
(* Proofs about ChatSession, for any set of conversations and any number   *)
(* of requests and clicks.                                                 *)
(***************************************************************************)
EXTENDS ChatSession, TLAPS

(* The types of the variables by the side that writes them.  A new thread  *)
(* is one no request and no saved conversation has.                        *)
ClientState ==
    [pc : {"unused", "open", "over"}, plain : BOOLEAN, thread : MaybeThread,
     seen : MaybeThread, aborted : BOOLEAN, inView : BOOLEAN, final : BOOLEAN]

ServerState ==
    [pc : {"none", "posted", "running", "ended"}, reply : Reply,
     hit : BOOLEAN, wiped : BOOLEAN]

PageType ==
    /\ selected \in MaybeThread /\ active \in MaybeThread
    /\ rendered \in MaybeThread /\ current \in MaybeThread
    /\ skip \in BOOLEAN /\ restarting \in BOOLEAN /\ picked \in BOOLEAN

ViewType ==
    /\ shown \subseteq Thread /\ cards \subseteq Thread /\ loads \subseteq Thread
    /\ lock \in {"off", "on", "pressed"}

ClientType == client \in [Request -> ClientState]

ServerType ==
    /\ server \in [Request -> ServerState]
    /\ stopping \subseteq Thread /\ saved \subseteq Thread

PostType == posts \subseteq [thread : Thread, by : {"abort", "button"}]

CountType == clicks \in 0 .. MaxClicks

(* A request that was sent has a thread; the server knows those alone.     *)
Threaded ==
    \A i \in Request :
        /\ Used(i) => client[i].thread \in Thread
        /\ client[i].pc = "unused" <=> server[i].pc = "none"

Typed ==
    /\ PageType /\ ViewType /\ ClientType /\ ServerType /\ PostType /\ CountType /\ Threaded

LEMMA TypeParts == Typed => TypeOK
BY DEF Typed, TypeOK, PageType, ViewType, ClientType, ServerType, PostType, CountType,
       ClientState, ServerState

-----------------------------------------------------------------------------
(* Lemmas on the pieces the actions are made of *)

LEMMA IdleType == Idle \in ClientState
BY DEF Idle, ClientState, MaybeThread

LEMMA ThreadToUseType ==
    ASSUME Typed, HasThread PROVE ThreadToUse \in Thread
BY DEF Typed, PageType, HasThread, ThreadToUse, MaybeThread, Unread

LEMMA StoppingType ==
    ASSUME Typed, NEW by \in {"abort", "button"}
    PROVE  Stopping(by) \subseteq [thread : Thread, by : {"abort", "button"}]
BY DEF Typed, Threaded, Stopping, Awaited, Used

(* Clearing the chat aborts what it waits for and empties the display.     *)
LEMMA ClearedType ==
    ASSUME Typed, Cleared
    PROVE  /\ ClientType' /\ PostType'
           /\ shown' = {} /\ cards' = {} /\ lock' = "off"
           /\ \A i \in Request :
                 /\ client'[i].pc = client[i].pc
                 /\ client'[i].thread = client[i].thread
<1>1. \A i \in Request : client[i] \in ClientState /\ Aborted(i) \in BOOLEAN
    BY DEF Typed, ClientType, ClientState, Aborted
<1>2. \A i \in Request :
         /\ [client[i] EXCEPT !.aborted = Aborted(i), !.inView = FALSE] \in ClientState
         /\ [client[i] EXCEPT !.aborted = Aborted(i), !.inView = FALSE].pc = client[i].pc
         /\ [client[i] EXCEPT !.aborted = Aborted(i), !.inView = FALSE].thread = client[i].thread
    BY <1>1 DEF ClientState
<1>3. ClientType'
    BY <1>2 DEF Cleared, ClientType
<1>4. PostType'
    BY StoppingType DEF Cleared, Typed, PostType
<1>5. QED
    BY <1>2, <1>3, <1>4 DEF Cleared

(* So does the effect on a changed selection, unless a skip is spent.      *)
LEMMA EffectType ==
    ASSUME Typed, NEW t \in MaybeThread, Effect(t)
    PROVE  /\ rendered' = t /\ current' = t /\ skip' \in BOOLEAN
           /\ ViewType' /\ ClientType' /\ PostType'
           /\ \A i \in Request :
                 /\ client'[i].pc = client[i].pc
                 /\ client'[i].thread = client[i].thread
           /\ \/ UNCHANGED <<lock, client>>
              \/ lock' = "off"
<1>1. rendered' = t /\ current' = t
    BY DEF Effect
<1>2. CASE t # None /\ skip
    BY <1>1, <1>2 DEF Effect, Typed, ViewType, ClientType, PostType, view
<1>3. CASE ~(t # None /\ skip)
  <2>1. Cleared /\ skip' = skip /\ loads' = IF t = None THEN loads ELSE loads \cup {t}
      BY <1>3 DEF Effect
  <2>2. loads' \subseteq Thread
      BY <2>1 DEF Typed, ViewType, MaybeThread
  <2>3. QED
      BY <1>1, <2>1, <2>2, ClearedType DEF Typed, PageType, ViewType
<1>4. QED
    BY <1>2, <1>3

-----------------------------------------------------------------------------
(* Type correctness *)

LEMMA TypeInit == Init => Typed
<1> SUFFICES ASSUME Init PROVE Typed
    OBVIOUS
<1>1. ClientType
    BY IdleType DEF Init, ClientType
<1>2. ServerType
    BY ChatAssumption DEF Init, ServerType, ServerState, Reply
<1>3. Threaded
    BY DEF Init, Threaded, Used, Idle
<1>4. PageType
    BY DEF Init, PageType, MaybeThread
<1>5. ViewType /\ PostType
    BY DEF Init, ViewType, PostType
<1>6. CountType
    BY ChatAssumption DEF Init, CountType
<1>7. QED
    BY <1>1, <1>2, <1>3, <1>4, <1>5, <1>6 DEF Typed

(* What a finished request leaves behind. *)
LEMMA OverType ==
    ASSUME Typed, NEW i \in Request, client[i].pc = "open", NEW isFinal \in BOOLEAN,
           Over(i, isFinal)
    PROVE  /\ PageType' /\ ClientType' /\ PostType' /\ CountType' /\ loads' = loads
           /\ \A j \in Request : client'[j].thread = client[j].thread
           /\ \A j \in Request \ {i} : client'[j] = client[j]
           /\ client[i].pc = "open" /\ client'[i].pc = "over"
           /\ client'[i].inView = client[i].inView /\ client'[i].final = isFinal
<1> DEFINE after == [Idle EXCEPT !.pc = "over", !.thread = client[i].thread,
                                 !.inView = client[i].inView, !.final = isFinal]
<1>1. client[i] \in ClientState /\ client \in [Request -> ClientState]
    BY DEF Typed, ClientType
<1>2. /\ after \in ClientState
      /\ after.pc = "over" /\ after.thread = client[i].thread
      /\ after.inView = client[i].inView /\ after.final = isFinal
    BY <1>1, IdleType DEF ClientState, Idle
<1>3. client' = [client EXCEPT ![i] = after]
    BY DEF Over
<1> HIDE DEF after
<1>4. ClientType'
    BY <1>1, <1>2, <1>3 DEF ClientType
<1>5. PageType'
    BY <1>1 DEF Over, TellPage, Typed, PageType, ClientState
<1>6. QED
    BY <1>1, <1>2, <1>3, <1>4, <1>5 DEF Over, Typed, PostType, CountType

(* What a message or an approval does to the requests. *)
LEMMA LaunchType ==
    ASSUME Typed, NEW isPlain \in BOOLEAN, HasThread, Launch(isPlain)
    PROVE  /\ ClientType' /\ current' \in Thread /\ lock' \in {"off", "on", "pressed"}
           /\ server' \in [Request -> ServerState] /\ Threaded'
           /\ \E i \in Request :
                 /\ client[i].pc = "unused" /\ client'[i].pc = "open"
                 /\ client'[i].inView /\ ~client'[i].final
                 /\ client'[i].thread = ThreadToUse /\ client'[i].plain = isPlain
                 /\ server'[i].pc = "posted" /\ server'[i].reply = server[i].reply
                 /\ \A j \in Request \ {i} : client'[j] = client[j] /\ server'[j] = server[j]
<1>1. PICK i \in Request :
        /\ ~Used(i)
        /\ client' = [client EXCEPT ![i] =
                        [pc |-> "open", plain |-> isPlain, thread |-> ThreadToUse,
                         seen |-> selected, aborted |-> FALSE, inView |-> TRUE,
                         final |-> FALSE]]
        /\ server' = [server EXCEPT ![i].pc = "posted"]
    BY DEF Launch
<1>2. ThreadToUse \in Thread
    BY ThreadToUseType
<1>3. /\ client \in [Request -> ClientState] /\ server \in [Request -> ServerState]
      /\ selected \in MaybeThread
    BY DEF Typed, ClientType, ServerType, PageType
<1>4. ClientType'
    BY <1>1, <1>2, <1>3 DEF ClientType, ClientState, MaybeThread
<1>5. /\ server' \in [Request -> ServerState]
      /\ server'[i].pc = "posted" /\ server'[i].reply = server[i].reply
      /\ \A j \in Request \ {i} : server'[j] = server[j]
    BY <1>1, <1>3 DEF ServerState
<1>6. /\ client'[i].pc = "open" /\ client'[i].inView /\ ~client'[i].final
      /\ client'[i].thread = ThreadToUse /\ client'[i].plain = isPlain
      /\ \A j \in Request \ {i} : client'[j] = client[j]
    BY <1>1, <1>3
<1>7. client[i].pc = "unused"
    BY <1>1 DEF Used
<1>8. Threaded'
    BY <1>2, <1>5, <1>6 DEF Typed, Threaded, Used
<1>9. current' \in Thread /\ lock' \in {"off", "on", "pressed"}
    BY <1>2 DEF Launch, Typed, ViewType
<1>10. QED
    BY <1>4, <1>5, <1>6, <1>7, <1>8, <1>9

(* The threads and stages of the requests decide whether Threaded holds.  *)
LEMMA ThreadedKept ==
    ASSUME Threaded,
           \A i \in Request :
              /\ client'[i].thread = client[i].thread
              /\ client'[i].pc = "unused" <=> client[i].pc = "unused"
              /\ server'[i].pc = "none" <=> server[i].pc = "none"
    PROVE  Threaded'
BY DEF Threaded, Used

LEMMA TypeStep == Typed /\ [Next]_vars => Typed'
<1> SUFFICES ASSUME Typed, [Next]_vars PROVE Typed'
    OBVIOUS
<1> USE DEF page, view, remote
<1>t. PageType /\ ViewType /\ ClientType /\ ServerType /\ PostType /\ CountType /\ Threaded
    BY DEF Typed
<1>c. ASSUME clicks < MaxClicks, clicks' = clicks + 1 PROVE CountType'
    BY <1>c, <1>t, ChatAssumption DEF CountType
<1>s. ASSUME UNCHANGED <<server, stopping, saved>> PROVE ServerType'
    BY <1>s, <1>t DEF ServerType
<1>1. CASE Render
    BY <1>1, <1>t, <1>s, EffectType, ThreadedKept DEF Render, Typed, PageType, CountType
<1>2. ASSUME NEW t \in Thread, Pick(t) PROVE Typed'
  <2>1. t \in MaybeThread
      BY DEF MaybeThread
  <2>2. QED
      BY <1>2, <2>1, <1>t, <1>c, <1>s, EffectType, ThreadedKept
         DEF Pick, Click, Typed, PageType
<1>3. CASE NewConversation
  <2>1. None \in MaybeThread
      BY DEF MaybeThread
  <2>2. CASE selected # None
      BY <1>3, <2>1, <2>2, <1>t, <1>c, <1>s, EffectType, ThreadedKept
         DEF NewConversation, Click, Typed, PageType
  <2>3. CASE selected = None
      BY <1>3, <2>1, <2>3, <1>t, <1>c, <1>s, ThreadedKept
         DEF NewConversation, Click, Typed, PageType, ViewType, ClientType, PostType
  <2>4. QED
      BY <2>2, <2>3
<1>4. CASE Restart
    BY <1>4, <1>t, <1>c, <1>s, ClearedType, ThreadedKept DEF Restart, Click, Typed, PageType, ViewType
<1>5. CASE Restarted
    BY <1>5, <1>t, <1>s, ThreadedKept
       DEF Restarted, Typed, PageType, ViewType, ClientType, PostType, CountType, MaybeThread
<1>6. CASE Stop
  <2>1. ThreadToUse \in Thread
      BY <1>6, ThreadToUseType DEF Stop
  <2>2. \A i \in Request :
           /\ [client[i] EXCEPT !.aborted = Aborted(i)] \in ClientState
           /\ [client[i] EXCEPT !.aborted = Aborted(i)].pc = client[i].pc
           /\ [client[i] EXCEPT !.aborted = Aborted(i)].thread = client[i].thread
      BY <1>t DEF ClientType, ClientState, Aborted
  <2>3. ClientType' /\ Threaded'
      BY <1>6, <2>2, <1>t, ThreadedKept DEF Stop, ClientType
  <2>4. PostType'
      BY <1>6, <2>1, <1>t, StoppingType DEF Stop, PostType
  <2>5. QED
      BY <1>6, <2>1, <2>3, <2>4, <1>t, <1>c, <1>s
         DEF Stop, Click, Typed, PageType, ViewType, MaybeThread
<1>7. CASE Send
    BY <1>7, <1>t, LaunchType, ThreadToUseType
       DEF Send, Typed, PageType, ViewType, ServerType, PostType, CountType, MaybeThread
<1>8. CASE Approve
    BY <1>8, <1>t, LaunchType
       DEF Approve, Typed, PageType, ViewType, ServerType, PostType, CountType, MaybeThread
<1>9. ASSUME NEW i \in Request, Finalise(i) \/ ShowCard(i) \/ ShowError(i) \/ Cancelled(i)
      PROVE  Typed'
  <2>1. PICK isFinal \in BOOLEAN : Over(i, isFinal)
      BY <1>9 DEF Finalise, ShowCard, ShowError, Cancelled
  <2>2. client[i].pc = "open"
      BY <1>9 DEF Finalise, ShowCard, ShowError, Cancelled, Replied, Listening
  <2>3. client[i].thread \in Thread
      BY <2>2, <1>t DEF Threaded, Used
  <2>4. ViewType'
      BY <1>9, <2>1, <2>2, <2>3, <1>t, OverType
         DEF Finalise, ShowCard, ShowError, Cancelled, ViewType
  <2>5. UNCHANGED <<server, stopping, saved>>
      BY <1>9 DEF Finalise, ShowCard, ShowError, Cancelled
  <2>6. Threaded'
      BY <2>1, <2>2, <2>5, <1>t, OverType DEF Threaded, Used
  <2>7. QED
      BY <2>1, <2>2, <2>4, <2>5, <2>6, <1>s, OverType DEF Typed
<1>10. ASSUME NEW t \in Thread, HistoryArrives(t) PROVE Typed'
    BY <1>10, <1>t, <1>s, ThreadedKept
       DEF HistoryArrives, Typed, PageType, ViewType, ClientType, PostType, CountType
<1>11. ASSUME ServerType',
              \A j \in Request : server'[j].pc = "none" <=> server[j].pc = "none",
              UNCHANGED <<page, view, restarting, client, clicks>>, PostType'
       PROVE  Typed'
    BY <1>11, <1>t, ThreadedKept DEF Typed, PageType, ViewType, ClientType, CountType
<1>12. ASSUME NEW i \in Request, NEW r \in Reply, EndStream(i, r), server[i].pc # "none"
       PROVE  /\ server' \in [Request -> ServerState]
              /\ \A j \in Request : server'[j].pc = "none" <=> server[j].pc = "none"
    BY <1>12, <1>t DEF EndStream, ServerType, ServerState
<1>13. ASSUME NEW i \in Request, BeginStream(i) PROVE Typed'
  <2>1. \A j \in Request : [server[j] EXCEPT !.pc = "running"] \in ServerState
                           /\ [server[j] EXCEPT !.wiped = TRUE] \in ServerState
                           /\ [server[j] EXCEPT !.wiped = TRUE].pc = server[j].pc
      BY <1>t DEF ServerType, ServerState
  <2>2. \A j \in Request :
           \/ j = i /\ server'[j] = [server[j] EXCEPT !.pc = "running"]
           \/ server'[j] = [server[j] EXCEPT !.wiped = TRUE]
           \/ server'[j] = server[j]
      BY <1>13 DEF BeginStream
  <2>3. server' \in [Request -> ServerState]
      BY <1>13, <2>1, <2>2, <1>t DEF BeginStream, ServerType
  <2>4. \A j \in Request : server'[j].pc = "none" <=> server[j].pc = "none"
      BY <1>13, <2>1, <2>2, <1>t DEF BeginStream, ServerType, ServerState
  <2>5. QED
      BY <1>13, <2>3, <2>4, <1>11, <1>t DEF BeginStream, ServerType, PostType
<1>14. ASSUME NEW i \in Request, Conclude(i) PROVE Typed'
  <2>1. PICK r \in {"answer", "card", "end"} : EndStream(i, r)
      BY <1>14 DEF Conclude
  <2>2. r \in Reply /\ server[i].pc # "none"
      BY <1>14 DEF Reply, Conclude, Running
  <2>3. client[i].thread \in Thread
      BY <2>2, <1>t DEF Threaded, Used
  <2>4. QED
      BY <1>14, <2>1, <2>2, <2>3, <1>11, <1>12, <1>t DEF Conclude, ServerType, PostType
<1>15. ASSUME NEW i \in Request, Raise(i) \/ SeeStop(i) \/ HangUp(i) PROVE Typed'
  <2>1. PICK r \in Reply : EndStream(i, r)
      BY <1>15 DEF Reply, Raise, SeeStop, HangUp
  <2>2. server[i].pc # "none"
      BY <1>15 DEF Raise, SeeStop, HangUp, Running
  <2>3. QED
      BY <1>15, <2>1, <2>2, <1>11, <1>12, <1>t DEF Raise, SeeStop, HangUp, ServerType, PostType
<1>16. ASSUME NEW p \in posts, StopArrives(p) PROVE Typed'
  <2>1. \A i \in Request : \A h \in BOOLEAN :
           [server[i] EXCEPT !.hit = h] \in ServerState /\ [server[i] EXCEPT !.hit = h].pc = server[i].pc
      BY <1>t DEF ServerType, ServerState
  <2>2. \A i \in Request : server[i].hit \in BOOLEAN
      BY <1>t DEF ServerType, ServerState
  <2>3. server' \in [Request -> ServerState] /\ \A i \in Request : server'[i].pc = server[i].pc
      BY <1>16, <2>1, <2>2 DEF StopArrives
  <2>4. ServerType' /\ PostType'
      BY <1>16, <2>3, <1>t DEF StopArrives, ServerType, PostType
  <2>5. QED
      BY <1>16, <2>3, <2>4, <1>t, ThreadedKept
         DEF StopArrives, Typed, PageType, ViewType, ClientType, CountType
<1>17. CASE UNCHANGED vars
    BY <1>17, <1>t, ThreadedKept
       DEF vars, Typed, PageType, ViewType, ClientType, ServerType, PostType, CountType
<1>18. QED
    BY <1>1, <1>2, <1>3, <1>4, <1>5, <1>6, <1>7, <1>8, <1>9, <1>10, <1>13, <1>14, <1>15, <1>16, <1>17
       DEF Next, User, Browser, Server

(* The variables keep their types. *)
THEOREM TypeCorrect == Spec => []TypeOK
BY TypeInit, TypeStep, TypeParts, PTL DEF Spec
-----------------------------------------------------------------------------
(* The input *)

(* A step that keeps the button and every unfinished message keeps         *)
(* InputComesBack; so does one that unlocks or puts a message on display.  *)
LEMMA InputKept ==
    ASSUME InputComesBack,
           lock' # "off" => lock # "off",
           \A i \in Request :
              Used(i) /\ client[i].inView /\ ~client[i].final =>
                 Used(i)' /\ client'[i].inView /\ ~client'[i].final
    PROVE  InputComesBack'
BY DEF InputComesBack

LEMMA InputStep == Typed /\ InputComesBack /\ [Next]_vars => InputComesBack'
<1> SUFFICES ASSUME Typed, InputComesBack, [Next]_vars PROVE InputComesBack'
    OBVIOUS
<1> USE DEF page, view, remote
<1>a. client \in [Request -> ClientState]
    BY DEF Typed, ClientType
<1>b. ASSUME UNCHANGED <<lock, client>> PROVE InputComesBack'
    BY <1>b DEF InputComesBack, Used
<1>c. ASSUME lock' = "off" PROVE InputComesBack'
    BY <1>c DEF InputComesBack
<1>d. ASSUME NEW t \in MaybeThread, Effect(t) PROVE InputComesBack'
    BY <1>d, <1>b, <1>c, EffectType
<1>1. CASE Render
  <2>1. selected \in MaybeThread
      BY DEF Typed, PageType
  <2>2. QED
      BY <1>1, <2>1, <1>d DEF Render
<1>2. ASSUME NEW t \in Thread, Pick(t) PROVE InputComesBack'
    BY <1>2, <1>d DEF Pick, MaybeThread
<1>3. CASE NewConversation
    BY <1>3, <1>b, <1>d DEF NewConversation, MaybeThread
<1>4. CASE Restart
    BY <1>4, <1>c DEF Restart, Cleared
<1>5. CASE Stop
  <2>1. \A i \in Request :
           /\ client'[i].pc = client[i].pc
           /\ client'[i].inView = client[i].inView
           /\ client'[i].final = client[i].final
      BY <1>5, <1>a DEF Stop, ClientState
  <2>2. QED
      BY <1>5, <2>1, InputKept DEF Stop, Used
<1>6. ASSUME NEW isPlain \in BOOLEAN, HasThread, Launch(isPlain) PROVE InputComesBack'
    BY <1>6, LaunchType DEF InputComesBack, Used
<1>7. CASE Send \/ Approve
    BY <1>7, <1>6 DEF Send, Approve
<1>8. ASSUME NEW i \in Request, ShowCard(i) \/ ShowError(i) \/ Cancelled(i)
      PROVE  InputComesBack'
  <2>1. Over(i, FALSE) /\ client[i].pc = "open" /\ lock' = lock
      BY <1>8 DEF ShowCard, ShowError, Cancelled, Replied, Listening
  <2>2. QED
      BY <2>1, OverType, InputKept DEF Used
<1>9. ASSUME NEW i \in Request, Finalise(i) PROVE InputComesBack'
    BY <1>9, <1>c DEF Finalise
<1>10. CASE Restarted
    BY <1>10, <1>b DEF Restarted
<1>11. ASSUME NEW t \in Thread, HistoryArrives(t) PROVE InputComesBack'
    BY <1>11, <1>b DEF HistoryArrives
<1>12. CASE Server
    BY <1>12, <1>b DEF Server, BeginStream, Conclude, Raise, SeeStop, HangUp, StopArrives
<1>13. CASE UNCHANGED vars
    BY <1>13, <1>b DEF vars
<1>14. QED
    BY <1>1, <1>2, <1>3, <1>4, <1>5, <1>7, <1>8, <1>9, <1>10, <1>11, <1>12, <1>13
       DEF Next, User, Browser

(* The input stays locked only by a message of the chat on display that is *)
(* under way or ended without a final response.                            *)
THEOREM InputComesBackHolds == Spec => []InputComesBack
<1>1. Init => InputComesBack
    BY DEF Init, InputComesBack
<1>2. QED
    BY <1>1, TypeInit, TypeStep, InputStep, PTL DEF Spec

-----------------------------------------------------------------------------
(* The selection *)

(* The global thread is the conversation picked, as long as the pick stands. *)
PickStands == picked => selected # None /\ current = selected

(* A thread handed out while a pick stands is the one picked. *)
LEMMA PickedThread ==
    ASSUME PickStands, picked PROVE ThreadToUse = selected /\ current = selected
BY DEF PickStands, ThreadToUse

LEMMA FinishedKeepsPick ==
    ASSUME PickStands, picked, NEW i \in Request, TellPage(i) PROVE selected' = selected
BY DEF PickStands, TellPage

LEMMA PickStep == Typed /\ PickStands /\ [Next]_vars => PickStands'
<1> SUFFICES ASSUME Typed, PickStands, [Next]_vars, picked' PROVE PickStands'
    BY DEF PickStands
<1> USE DEF page, view, remote
<1>1. CASE Render
    BY <1>1 DEF Render, Effect, PickStands
<1>2. ASSUME NEW t \in Thread, Pick(t) PROVE PickStands'
    BY <1>2, ChatAssumption DEF Pick, Effect, PickStands
<1>3. CASE NewConversation \/ Restarted
    BY <1>3 DEF NewConversation, Restarted
<1>4. CASE Restart
    BY <1>4 DEF Restart, PickStands
<1>5. CASE Stop \/ Send \/ Approve
    BY <1>5, PickedThread DEF Stop, Send, Approve, Launch, PickStands
<1>6. ASSUME NEW i \in Request, Finalise(i) \/ ShowCard(i) \/ ShowError(i) \/ Cancelled(i)
      PROVE  PickStands'
  <2>1. PICK isFinal \in BOOLEAN : Over(i, isFinal)
      BY <1>6 DEF Finalise, ShowCard, ShowError, Cancelled
  <2>2. QED
      BY <2>1, FinishedKeepsPick DEF Over, PickStands
<1>7. ASSUME NEW t \in Thread, HistoryArrives(t) PROVE PickStands'
    BY <1>7 DEF HistoryArrives, PickStands
<1>8. CASE Server
    BY <1>8 DEF Server, BeginStream, Conclude, Raise, SeeStop, HangUp, StopArrives, PickStands
<1>9. CASE UNCHANGED vars
    BY <1>9 DEF vars, PickStands
<1>10. QED
    BY <1>1, <1>2, <1>3, <1>4, <1>5, <1>6, <1>7, <1>8, <1>9 DEF Next, User, Browser

(* What ends a request is one of four steps, all of which tell the page.   *)
LEMMA EndsByOver ==
    ASSUME Typed, [Next]_vars, NEW i \in Request, client[i].pc = "open", client'[i].pc = "over"
    PROVE  TellPage(i) /\ picked' = picked
<1> USE DEF page, view, remote
<1>a. client \in [Request -> ClientState]
    BY DEF Typed, ClientType
<1>b. client'[i].pc # client[i].pc
    OBVIOUS
<1>1. ASSUME NEW j \in Request, Finalise(j) \/ ShowCard(j) \/ ShowError(j) \/ Cancelled(j)
      PROVE  TellPage(i) /\ picked' = picked
  <2>1. PICK isFinal \in BOOLEAN : Over(j, isFinal)
      BY <1>1 DEF Finalise, ShowCard, ShowError, Cancelled
  <2>2. client[j].pc = "open"
      BY <1>1 DEF Finalise, ShowCard, ShowError, Cancelled, Replied, Listening
  <2>3. j = i
      BY <2>1, <2>2, <1>b, OverType
  <2>4. QED
      BY <2>1, <2>3 DEF Over
<1>2. ASSUME NEW t \in MaybeThread, Effect(t) PROVE FALSE
    BY <1>2, <1>b, EffectType
<1>3. CASE Render
  <2>1. selected \in MaybeThread
      BY DEF Typed, PageType
  <2>2. QED
      BY <1>3, <2>1, <1>2 DEF Render
<1>4. ASSUME NEW t \in Thread, Pick(t) PROVE FALSE
    BY <1>4, <1>2 DEF Pick, MaybeThread
<1>5. CASE NewConversation
    BY <1>5, <1>2, <1>b DEF NewConversation, MaybeThread
<1>6. CASE Restart
    BY <1>6, <1>b, ClearedType DEF Restart
<1>7. CASE Stop
    BY <1>7, <1>a, <1>b DEF Stop, ClientState
<1>8. CASE Send \/ Approve
    BY <1>8, LaunchType DEF Send, Approve
<1>9. CASE UNCHANGED client
    BY <1>9, <1>b
<1>10. QED
    BY <1>1, <1>3, <1>4, <1>5, <1>6, <1>7, <1>8, <1>9
       DEF Next, User, Browser, Server, Restarted, HistoryArrives,
           BeginStream, Conclude, Raise, SeeStop, HangUp, StopArrives, vars

(* A request that finishes never takes the user away from a conversation   *)
(* picked meanwhile.                                                       *)
THEOREM FinishKeepsPickHolds == Spec => FinishKeepsPick
<1>1. Init => PickStands
    BY DEF Init, PickStands
<1>2. Typed /\ PickStands /\ [Next]_vars =>
         [\A i \in Request :
             (client[i].pc = "open" /\ client'[i].pc = "over" /\ picked) => selected' = selected]_vars
    BY EndsByOver, FinishedKeepsPick
<1>3. QED
    BY <1>1, <1>2, TypeInit, TypeStep, PickStep, PTL DEF Spec, FinishKeepsPick
(* What starts a request is Send or Approve, whose message has the thread  *)
(* of the moment.                                                          *)
LEMMA StartsByLaunch ==
    ASSUME Typed, [Next]_vars, NEW i \in Request, ~Used(i), client'[i].pc = "open"
    PROVE  client'[i].thread = ThreadToUse
<1> USE DEF page, view, remote
<1>a. client'[i].pc # client[i].pc /\ client[i].pc = "unused"
    BY DEF Used
<1>b. client \in [Request -> ClientState]
    BY DEF Typed, ClientType
<1>1. ASSUME NEW isPlain \in BOOLEAN, HasThread, Launch(isPlain)
      PROVE  client'[i].thread = ThreadToUse
    BY <1>1, <1>a, LaunchType
<1>2. CASE Send \/ Approve
    BY <1>1, <1>2 DEF Send, Approve
<1>3. ASSUME NEW t \in MaybeThread, Effect(t) PROVE FALSE
    BY <1>3, <1>a, EffectType
<1>4. CASE Render
  <2>1. selected \in MaybeThread
      BY DEF Typed, PageType
  <2>2. QED
      BY <1>4, <2>1, <1>3 DEF Render
<1>5. ASSUME NEW t \in Thread, Pick(t) PROVE FALSE
    BY <1>5, <1>3 DEF Pick, MaybeThread
<1>6. CASE NewConversation
    BY <1>6, <1>3, <1>a DEF NewConversation, MaybeThread
<1>7. CASE Restart
    BY <1>7, <1>a, ClearedType DEF Restart
<1>8. CASE Stop
    BY <1>8, <1>a, <1>b DEF Stop, ClientState
<1>9. ASSUME NEW j \in Request, Finalise(j) \/ ShowCard(j) \/ ShowError(j) \/ Cancelled(j)
      PROVE  FALSE
  <2>1. PICK isFinal \in BOOLEAN : Over(j, isFinal)
      BY <1>9 DEF Finalise, ShowCard, ShowError, Cancelled
  <2>2. client[j].pc = "open"
      BY <1>9 DEF Finalise, ShowCard, ShowError, Cancelled, Replied, Listening
  <2>3. QED
      BY <2>1, <2>2, <1>a, OverType
<1>10. CASE UNCHANGED client
    BY <1>10, <1>a
<1>11. QED
    BY <1>2, <1>4, <1>5, <1>6, <1>7, <1>8, <1>9, <1>10
       DEF Next, User, Browser, Server, Restarted, HistoryArrives,
           BeginStream, Conclude, Raise, SeeStop, HangUp, StopArrives, vars

(* What is typed under a picked conversation is posted to its thread.      *)
THEOREM MessageGoesToPickHolds == Spec => MessageGoesToPick
<1>1. Init => PickStands
    BY DEF Init, PickStands
<1>2. Typed /\ PickStands /\ [Next]_vars =>
         [\A i \in Request :
             (~Used(i) /\ client'[i].pc = "open" /\ client'[i].plain /\ picked) =>
                 client'[i].thread = selected]_vars
    BY StartsByLaunch, PickedThread
<1>3. QED
    BY <1>1, <1>2, TypeInit, TypeStep, PickStep, PTL DEF Spec, MessageGoesToPick

-----------------------------------------------------------------------------
(* Stops *)

(* The flag of a running stream was set while it ran, and no reply is      *)
(* chosen before the end.                                                  *)
StopInv ==
    \A i \in Request :
        /\ Running(i) /\ Flagged(i) => server[i].hit
        /\ server[i].pc # "ended" => server[i].reply = "end"

(* A step of the page does not touch the streams it does not open.         *)
LEMMA StopInvKept ==
    ASSUME Typed, StopInv, UNCHANGED <<server, stopping>>,
           \A i \in Request : client'[i].thread = client[i].thread
    PROVE  StopInv'
BY DEF StopInv, Running, Flagged

LEMMA StopInvEnd ==
    ASSUME Typed, StopInv, NEW i \in Request, NEW r \in Reply, EndStream(i, r),
           UNCHANGED <<client, stopping>>
    PROVE  StopInv'
<1>1. server'[i].pc = "ended" /\ \A j \in Request \ {i} : server'[j] = server[j]
    BY DEF Typed, ServerType, EndStream
<1>2. QED
    BY <1>1 DEF StopInv, Running, Flagged

LEMMA StopStep == Typed /\ StopInv /\ [Next]_vars => StopInv'
<1> SUFFICES ASSUME Typed, StopInv, [Next]_vars PROVE StopInv'
    OBVIOUS
<1> USE DEF page, view, remote
<1>a. /\ client \in [Request -> ClientState] /\ server \in [Request -> ServerState]
      /\ selected \in MaybeThread
    BY DEF Typed, ClientType, ServerType, PageType
<1>1. CASE Render
    BY <1>1, <1>a, EffectType, StopInvKept DEF Render
<1>2. ASSUME NEW t \in Thread, Pick(t) PROVE StopInv'
    BY <1>2, EffectType, StopInvKept DEF Pick, MaybeThread
<1>3. CASE NewConversation
    BY <1>3, EffectType, StopInvKept DEF NewConversation, MaybeThread
<1>4. CASE Restart
    BY <1>4, ClearedType, StopInvKept DEF Restart
<1>5. CASE Stop
    BY <1>5, <1>a, StopInvKept DEF Stop, ClientState
<1>6. CASE Restarted
    BY <1>6, StopInvKept DEF Restarted
<1>7. ASSUME NEW isPlain \in BOOLEAN, HasThread, Launch(isPlain), stopping' = stopping
      PROVE  StopInv'
    BY <1>7, LaunchType DEF StopInv, Running, Flagged, Typed, Threaded
<1>8. CASE Send \/ Approve
    BY <1>7, <1>8 DEF Send, Approve
<1>9. ASSUME NEW i \in Request, Finalise(i) \/ ShowCard(i) \/ ShowError(i) \/ Cancelled(i)
      PROVE  StopInv'
  <2>1. PICK isFinal \in BOOLEAN : Over(i, isFinal)
      BY <1>9 DEF Finalise, ShowCard, ShowError, Cancelled
  <2>2. client[i].pc = "open"
      BY <1>9 DEF Finalise, ShowCard, ShowError, Cancelled, Replied, Listening
  <2>3. UNCHANGED <<server, stopping>>
      BY <1>9 DEF Finalise, ShowCard, ShowError, Cancelled
  <2>4. QED
      BY <2>1, <2>2, <2>3, OverType, StopInvKept
<1>10. ASSUME NEW t \in Thread, HistoryArrives(t) PROVE StopInv'
    BY <1>10, StopInvKept DEF HistoryArrives
<1>11. ASSUME NEW i \in Request, BeginStream(i) PROVE StopInv'
  <2>1. server'[i].reply = server[i].reply /\ server[i].pc = "posted"
      BY <1>11, <1>a DEF BeginStream, ServerState
  <2>2. ASSUME NEW j \in Request \ {i}
        PROVE  server'[j].pc = server[j].pc /\ server'[j].hit = server[j].hit
               /\ server'[j].reply = server[j].reply
      BY <1>11, <1>a DEF BeginStream, ServerState
  <2>3. stopping' = stopping \ {client[i].thread} /\ client' = client
      BY <1>11 DEF BeginStream
  <2>4. QED
      BY <2>1, <2>2, <2>3 DEF StopInv, Running, Flagged
<1>12. ASSUME NEW i \in Request, Conclude(i) \/ Raise(i) \/ SeeStop(i) \/ HangUp(i)
       PROVE  StopInv'
    BY <1>12, StopInvEnd DEF Conclude, Raise, SeeStop, HangUp, Reply
<1>13. ASSUME NEW p \in posts, StopArrives(p) PROVE StopInv'
  <2>1. ASSUME NEW i \in Request
        PROVE  /\ server'[i].pc = server[i].pc /\ server'[i].reply = server[i].reply
               /\ server'[i].hit = (server[i].hit \/ (Running(i) /\ Same(i, p.thread)))
      BY <1>13, <1>a DEF StopArrives, ServerState
  <2>2. stopping' = stopping \cup {p.thread} /\ client' = client
      BY <1>13 DEF StopArrives
  <2>3. QED
      BY <2>1, <2>2 DEF StopInv, Running, Flagged, Same
<1>14. CASE UNCHANGED vars
    BY <1>14, StopInvKept DEF vars
<1>15. QED
    BY <1>1, <1>2, <1>3, <1>4, <1>5, <1>6, <1>8, <1>9, <1>10, <1>11, <1>12, <1>13, <1>14
       DEF Next, User, Browser, Server

(* A running stream becomes a stopped one only by a stop seen while it ran. *)
LEMMA StoppedWasHit ==
    ASSUME Typed, StopInv, [Next]_vars, NEW i \in Request,
           Running(i), server'[i].reply = "stopped"
    PROVE  server[i].hit
<1> USE DEF page, view, remote
<1>a. server \in [Request -> ServerState]
    BY DEF Typed, ServerType
<1>b. server[i].reply = "end"
    BY DEF StopInv, Running
<1>1. ASSUME NEW j \in Request, NEW r \in Reply \ {"stopped"}, EndStream(j, r) PROVE FALSE
    BY <1>1, <1>a, <1>b DEF EndStream
<1>2. ASSUME NEW j \in Request, SeeStop(j) PROVE server[i].hit
  <2>1. i = j
      BY <1>2, <1>a, <1>b DEF SeeStop, EndStream
  <2>2. QED
      BY <1>2, <2>1 DEF SeeStop, StopInv
<1>3. ASSUME NEW j \in Request, Conclude(j) \/ Raise(j) \/ HangUp(j) PROVE FALSE
    BY <1>1, <1>3 DEF Conclude, Raise, HangUp, Reply
<1>4. ASSUME NEW j \in Request, BeginStream(j) PROVE FALSE
    BY <1>4, <1>a, <1>b DEF BeginStream, ServerState
<1>5. ASSUME NEW p \in posts, StopArrives(p) PROVE FALSE
    BY <1>5, <1>a, <1>b DEF StopArrives, ServerState
<1>6. ASSUME NEW isPlain \in BOOLEAN, HasThread, Launch(isPlain) PROVE FALSE
    BY <1>6, <1>b, LaunchType
<1>7. CASE Send \/ Approve
    BY <1>6, <1>7 DEF Send, Approve
<1>8. CASE UNCHANGED server
    BY <1>8, <1>b
<1>9. QED
    BY <1>2, <1>3, <1>4, <1>5, <1>7, <1>8
       DEF Next, User, Browser, Server, Render, Pick, NewConversation, Restart, Restarted, Stop,
           Finalise, ShowCard, ShowError, Cancelled, HistoryArrives, vars

(* A stream is only stopped by a /stop that arrived while it was running.  *)
THEOREM NoLeftoverStopHolds == Spec => NoLeftoverStop
<1>1. Init => StopInv
    BY DEF Init, StopInv, Running
<1>2. Typed /\ StopInv /\ [Next]_vars =>
         [\A i \in Request :
             (Running(i) /\ server'[i].reply = "stopped") => server[i].hit]_vars
    BY StoppedWasHit
<1>3. QED
    BY <1>1, <1>2, TypeInit, TypeStep, StopStep, PTL DEF Spec, NoLeftoverStop
=============================================================================
