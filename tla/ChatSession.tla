----------------------------- MODULE ChatSession -----------------------------
(***************************************************************************)
(* The chat page of the CUGA frontend and the streams it opens: ChatLanding *)
(* keeps which conversation is selected, CarbonChat mirrors it in a global  *)
(* thread id and loads its history, customSendMessage posts /stream and     *)
(* shows what comes back, and the server's event_stream runs the agent      *)
(* until an answer, an interrupt, an error or a /stop.                      *)
(*                                                                         *)
(* The chat widget (@carbon/ai-chat 1.6.0, bundled in frontend/dist) is     *)
(* external: its conversation is cleared together with the request it is    *)
(* waiting for, a shell message that is never finalised keeps its Stop      *)
(* button in place of Send, and chunks of a message begun before a clear    *)
(* are dropped while whole messages are shown.  Reasoning steps, texts and  *)
(* layout are left out: of a transcript only its thread is kept.            *)
(***************************************************************************)
EXTENDS Naturals, FiniteSets

CONSTANTS
    Thread,
    Listed,      \* the conversations saved before the page was opened
    None,        \* null
    MaxRequests, \* bound: messages and approvals sent
    MaxClicks    \* bound: picks, new conversations, restarts and stops

ASSUME ChatAssumption ==
    /\ MaxRequests \in Nat
    /\ MaxClicks \in Nat
    /\ IsFiniteSet(Thread)
    /\ Listed \subseteq Thread
    /\ None \notin Thread

Request == 1 .. MaxRequests
MaybeThread == Thread \cup {None}

\* What ends an event_stream, as its client reads it: an Answer, a card that
\* asks for an approval, an Error, a Stopped, or the bare end of the stream.
Reply == {"answer", "card", "error", "stopped", "end"}

VARIABLES
    selected,   \* selectedThreadId
    active,     \* activeThreadId
    rendered,   \* the threadId the effect of CarbonChat last ran for
    current,    \* currentThreadId, the module's global
    skip,       \* skipNextHistoryLoadRef
    shown,      \* the threads with a transcript on display
    cards,      \* those of an approval card on display
    loads,      \* the threads whose history is being fetched
    lock,       \* the widget's Stop button: off, on, or pressed
    restarting, \* between the clearing and the event of a restart
    client,     \* customSendMessage, one per request
    server,     \* event_stream, one per request
    stopping,   \* the threads whose stop_events flag is set
    posts,      \* the /stop posts under way
    saved,      \* the conversations the server has saved
    picked,     \* history: the selection was made in the list and still stands
    clicks

page == <<selected, active, rendered, current, skip, picked>>
view == <<shown, cards, loads, lock>>
remote == <<server, stopping, saved>>
vars == <<page, view, remote, restarting, client, posts, clicks>>

-----------------------------------------------------------------------------
Used(i) == client[i].pc # "unused"
Unread == Thread \ (saved \cup {client[i].thread : i \in {j \in Request : Used(j)}})

\* Mutant of ThreadToUse: a new thread is not made up.
GlobalThread == current

\* getOrCreateThreadId: the global's thread, or a new one that it then keeps.
ThreadToUse == IF current # None THEN current ELSE CHOOSE t \in Unread : TRUE
HasThread == current # None \/ Unread # {}

\* The input and the buttons of cards are there unless isReadonly.
Writable == selected = None \/ selected = active

\* The message the widget is waiting for; approvals bypass its queue.
Awaited == {i \in Request : client[i].pc = "open" /\ client[i].plain}

\* The widget aborts the awaited message; abortHandler posts a /stop for it.
Stopping(by) ==
    {[thread |-> client[i].thread, by |-> by] : i \in {j \in Awaited : ~client[j].aborted}}
Aborted(i) == client[i].aborted \/ i \in Awaited

\* messaging.clearConversation
Cleared ==
    /\ shown' = {} /\ cards' = {} /\ lock' = "off"
    /\ client' = [i \in Request |->
                    [client[i] EXCEPT !.aborted = Aborted(i), !.inView = FALSE]]
    /\ posts' = posts \cup Stopping("abort")

\* What is kept of a request that was not sent, or is over.
Idle == [pc |-> "unused", plain |-> TRUE, thread |-> None, seen |-> None,
         aborted |-> FALSE, inView |-> FALSE, final |-> FALSE]

Init ==
    /\ selected = None /\ active = None /\ rendered = None /\ current = None
    /\ skip = FALSE /\ picked = FALSE
    /\ shown = {} /\ cards = {} /\ loads = {} /\ lock = "off" /\ restarting = FALSE
    /\ client = [i \in Request |-> Idle]
    /\ server = [i \in Request |-> [pc |-> "none", reply |-> "end",
                                    hit |-> FALSE, wiped |-> FALSE]]
    /\ stopping = {} /\ posts = {} /\ saved = Listed /\ clicks = 0

-----------------------------------------------------------------------------
\* Mutant of Effect: the global only follows where no history is loaded.
EffectWithoutGlobal(t) ==
    /\ rendered' = t
    /\ IF t # None /\ skip
       THEN current' = t /\ skip' = FALSE /\ UNCHANGED <<view, client, posts>>
       ELSE /\ current' = IF t = None THEN t ELSE current
            /\ skip' = skip
            /\ Cleared
            /\ loads' = IF t = None THEN loads ELSE loads \cup {t}

\* The effect of CarbonChat on a changed threadId: the global follows it; a
\* pending skip is spent instead of clearing the chat and loading the history.
Effect(t) ==
    /\ rendered' = t
    /\ current' = t
    /\ IF t # None /\ skip
       THEN skip' = FALSE /\ UNCHANGED <<view, client, posts>>
       ELSE /\ skip' = skip
            /\ Cleared
            /\ loads' = IF t = None THEN loads ELSE loads \cup {t}

\* The render after a finished request changed the selection; a click renders
\* at once.
Render ==
    /\ ~restarting /\ selected # rendered
    /\ Effect(selected)
    /\ UNCHANGED <<selected, active, picked, remote, restarting, clicks>>

\* The user acts on what is rendered.
UpToDate == ~restarting /\ selected = rendered

Click ==
    /\ UpToDate
    /\ clicks < MaxClicks
    /\ clicks' = clicks + 1

\* A conversation of the list on the left is clicked.
Pick(t) ==
    /\ Click
    /\ t \in saved \ {selected}
    /\ selected' = t
    /\ picked' = TRUE
    /\ Effect(t)
    /\ UNCHANGED <<active, remote, restarting>>

NewConversation ==
    /\ Click
    /\ selected' = None /\ active' = None /\ picked' = FALSE
    /\ IF selected # None THEN Effect(None)
       ELSE UNCHANGED <<rendered, current, skip, view, client, posts>>
    /\ UNCHANGED <<remote, restarting>>

\* The widget's own restart button clears the chat, and only then tells the
\* page, which forgets the thread (RESTART_CONVERSATION).
Restart ==
    /\ Click
    /\ restarting' = TRUE
    /\ Cleared
    /\ UNCHANGED <<page, loads, remote>>

Restarted ==
    /\ restarting
    /\ restarting' = FALSE
    /\ current' = None /\ picked' = FALSE
    /\ UNCHANGED <<selected, active, rendered, skip, view, client, remote, posts, clicks>>

\* The Stop button: STOP_STREAMING posts a /stop for the global's thread, then
\* the widget aborts the awaited message.
Stop ==
    /\ Click
    /\ Writable /\ lock = "on" /\ HasThread
    /\ lock' = "pressed"
    /\ current' = ThreadToUse
    /\ client' = [i \in Request |-> [client[i] EXCEPT !.aborted = Aborted(i)]]
    /\ posts' = posts \cup Stopping("abort") \cup {[thread |-> ThreadToUse, by |-> "button"]}
    /\ UNCHANGED <<selected, active, rendered, skip, picked, shown, cards, loads,
                   remote, restarting>>

\* customSendMessage up to its first await: the shell message locks the input
\* and POST /stream is under way.
Launch(isPlain) ==
    \E i \in Request :
        /\ ~Used(i) /\ \A j \in 1 .. i - 1 : Used(j)
        /\ client' = [client EXCEPT ![i] =
                        [pc |-> "open", plain |-> isPlain, thread |-> ThreadToUse,
                         seen |-> selected, aborted |-> FALSE, inView |-> TRUE,
                         final |-> FALSE]]
        /\ server' = [server EXCEPT ![i].pc = "posted"]
        /\ current' = ThreadToUse
        /\ lock' = IF lock = "off" THEN "on" ELSE lock

\* A message the user types; the widget sends one at a time.
Send ==
    /\ UpToDate
    /\ Writable /\ lock = "off" /\ Awaited = {} /\ HasThread
    /\ Launch(TRUE)
    /\ shown' = shown \cup {ThreadToUse}
    /\ UNCHANGED <<selected, active, rendered, skip, picked, cards, loads, stopping,
                   saved, restarting, posts, clicks>>

\* A button of an approval card (MESSAGE_ITEM_CUSTOM).  The answer goes to the
\* global's thread, whichever thread the card is of.
Approve ==
    /\ UpToDate
    /\ Writable /\ cards # {} /\ HasThread
    /\ Launch(FALSE)
    /\ UNCHANGED <<selected, active, rendered, skip, picked, shown, cards, loads,
                   stopping, saved, restarting, posts, clicks>>

-----------------------------------------------------------------------------
\* Mutant of TellPage: the page is told the thread of the request.
TellOwnThread(i) ==
    IF client[i].plain /\ current # None
    THEN /\ skip' = TRUE
         /\ active' = client[i].thread
         /\ selected' = IF client[i].thread # client[i].seen
                        THEN client[i].thread ELSE selected
    ELSE UNCHANGED <<skip, active, selected>>

\* handleCustomSendMessage once its request is over: the page is told the
\* global's thread.  handleThreadChange compares it with the selection of the
\* render that sent the message.
TellPage(i) ==
    IF client[i].plain /\ current # None
    THEN /\ skip' = TRUE
         /\ active' = current
         /\ selected' = IF current # client[i].seen THEN current ELSE selected
    ELSE UNCHANGED <<skip, active, selected>>

Over(i, isFinal) ==
    /\ client' = [client EXCEPT ![i] = [Idle EXCEPT !.pc = "over", !.thread = client[i].thread,
                                         !.inView = client[i].inView, !.final = isFinal]]
    /\ TellPage(i)
    /\ UNCHANGED <<rendered, current, picked, loads, restarting, posts, clicks>>

Listening(i) == client[i].pc = "open" /\ ~client[i].aborted
Replied(i) == Listening(i) /\ server[i].pc = "ended"

\* Mutant of Finalise: only an Answer completes the message.
FinaliseAnswers(i) ==
    /\ Replied(i) /\ server[i].reply \in {"answer", "stopped", "end"}
    /\ lock' = IF server[i].reply = "answer" THEN "off" ELSE lock
    /\ shown' = IF client[i].inView THEN shown \cup {client[i].thread} ELSE shown
    /\ Over(i, TRUE)
    /\ UNCHANGED <<cards, remote>>

\* An Answer, and a stream that ends by itself, also after Stopped, complete
\* the message, which brings the Send button back.
Finalise(i) ==
    /\ Replied(i) /\ server[i].reply \in {"answer", "stopped", "end"}
    /\ lock' = "off"
    /\ shown' = IF client[i].inView THEN shown \cup {client[i].thread} ELSE shown
    /\ Over(i, TRUE)
    /\ UNCHANGED <<cards, remote>>

\* SuggestHumanActions and tool approvals: a card is shown, the message stays
\* unfinished.
ShowCard(i) ==
    /\ Replied(i) /\ server[i].reply = "card"
    /\ cards' = cards \cup {client[i].thread}
    /\ shown' = shown \cup {client[i].thread}
    /\ Over(i, FALSE)
    /\ UNCHANGED <<lock, remote>>

\* An Error event, or a connection that fails: a message says so and the shell
\* message stays unfinished.
ShowError(i) ==
    /\ Listening(i)
    /\ server[i].pc # "ended" \/ server[i].reply = "error"
    /\ Over(i, FALSE)
    /\ UNCHANGED <<shown, cards, lock, remote>>

\* The pending read of an aborted request rejects: "Request was cancelled."
Cancelled(i) ==
    /\ client[i].pc = "open" /\ client[i].aborted
    /\ Over(i, FALSE)
    /\ UNCHANGED <<shown, cards, lock, remote>>

\* customLoadHistory is back, with the events of a saved conversation or with
\* nothing; the widget inserts them whatever it shows by now.
HistoryArrives(t) ==
    /\ t \in loads
    /\ loads' = loads \ {t}
    /\ \/ UNCHANGED <<shown, cards>>
       \/ /\ t \in saved
          /\ shown' = shown \cup {t}
          /\ cards' \in {cards, cards \cup {t}}
    /\ UNCHANGED <<page, lock, remote, restarting, client, posts, clicks>>

-----------------------------------------------------------------------------
Running(i) == server[i].pc = "running"
Same(i, t) == client[i].thread = t
Flagged(i) == client[i].thread \in stopping

\* Mutants of BeginStream: the flag is left as it is; or every flag is cleared,
\* as /reset without a thread id does.
BeginStreamAsFlagged(i) ==
    /\ server[i].pc = "posted"
    /\ server' = [server EXCEPT ![i].pc = "running"]
    /\ UNCHANGED <<page, view, restarting, client, stopping, posts, saved, clicks>>

BeginStreamClearingAll(i) ==
    /\ server[i].pc = "posted"
    /\ stopping' = {}
    /\ server' = [j \in Request |->
                    CASE j = i -> [server[i] EXCEPT !.pc = "running"]
                      [] j # i /\ Running(j) /\ Same(j, client[i].thread) ->
                            [server[j] EXCEPT !.wiped = TRUE]
                      [] OTHER -> server[j]]
    /\ UNCHANGED <<page, view, restarting, client, posts, saved, clicks>>

\* event_stream begins: the flag of its thread is created or cleared.
BeginStream(i) ==
    /\ server[i].pc = "posted"
    /\ stopping' = stopping \ {client[i].thread}
    /\ server' = [j \in Request |->
                    CASE j = i -> [server[i] EXCEPT !.pc = "running"]
                      [] j # i /\ Running(j) /\ Same(j, client[i].thread) ->
                            [server[j] EXCEPT !.wiped = TRUE]
                      [] OTHER -> server[j]]
    /\ UNCHANGED <<page, view, restarting, client, posts, saved, clicks>>

EndStream(i, r) ==
    server' = [server EXCEPT ![i] = [pc |-> "ended", reply |-> r,
                                     hit |-> FALSE, wiped |-> FALSE]]

\* The flag is looked at before an event of the agent is handled.  An answer,
\* also one that asks for an approval, is saved before it is sent; an interrupt
\* is not.
Conclude(i) ==
    /\ Running(i) /\ ~Flagged(i)
    /\ \E r \in {"answer", "card", "end"} :
        /\ EndStream(i, r)
        /\ saved' \in {saved, saved \cup {client[i].thread}}
        /\ r = "answer" => client[i].thread \in saved'
        /\ r = "end" => saved' = saved
    /\ UNCHANGED <<page, view, restarting, client, stopping, posts, clicks>>

\* The agent is not there, or raises.
Raise(i) ==
    /\ server[i].pc \in {"posted", "running"}
    /\ EndStream(i, "error")
    /\ UNCHANGED <<page, view, restarting, client, stopping, posts, saved, clicks>>

SeeStop(i) ==
    /\ Running(i) /\ Flagged(i)
    /\ EndStream(i, "stopped")
    /\ UNCHANGED <<page, view, restarting, client, stopping, posts, saved, clicks>>

\* The web server cancels the response of a client that has gone.
HangUp(i) ==
    /\ Running(i)
    /\ client[i].aborted \/ client[i].pc = "over"
    /\ EndStream(i, "end")
    /\ UNCHANGED <<page, view, restarting, client, stopping, posts, saved, clicks>>

\* POST /stop arrives, in any order with the others, or never; hit is history:
\* a stop of the thread arrived while this stream was running.
StopArrives(p) ==
    /\ p \in posts
    /\ posts' = posts \ {p}
    /\ stopping' = stopping \cup {p.thread}
    /\ server' = [i \in Request |->
                    [server[i] EXCEPT !.hit = @ \/ (Running(i) /\ Same(i, p.thread))]]
    /\ UNCHANGED <<page, view, restarting, client, saved, clicks>>

User == (\E t \in Thread : Pick(t)) \/ NewConversation \/ Restart \/ Stop \/ Send \/ Approve

Browser ==
    \/ Render \/ Restarted
    \/ \E i \in Request : Finalise(i) \/ ShowCard(i) \/ ShowError(i) \/ Cancelled(i)
    \/ \E t \in Thread : HistoryArrives(t)

Server ==
    \/ \E i \in Request :
          BeginStream(i) \/ Conclude(i) \/ Raise(i) \/ SeeStop(i) \/ HangUp(i)
    \/ \E p \in posts : StopArrives(p)

Next == User \/ Browser \/ Server

\* The agent of a running stream keeps producing events, and the event loop
\* hands them to event_stream.
Fairness == \A i \in Request : WF_vars(SeeStop(i))

Spec == Init /\ [][Next]_vars /\ Fairness

-----------------------------------------------------------------------------
(* The types of the variables. *)
TypeOK ==
    /\ {selected, active, rendered, current} \subseteq MaybeThread
    /\ {skip, restarting, picked} \subseteq BOOLEAN
    /\ shown \cup cards \cup loads \cup stopping \cup saved \subseteq Thread
    /\ lock \in {"off", "on", "pressed"}
    /\ client \in [Request -> [pc : {"unused", "open", "over"}, plain : BOOLEAN,
                               thread : MaybeThread, seen : MaybeThread,
                               aborted : BOOLEAN, inView : BOOLEAN, final : BOOLEAN]]
    /\ server \in [Request -> [pc : {"none", "posted", "running", "ended"}, reply : Reply,
                               hit : BOOLEAN, wiped : BOOLEAN]]
    /\ posts \subseteq [thread : Thread, by : {"abort", "button"}]
    /\ clicks \in 0 .. MaxClicks

(* A stream is only stopped by a /stop that arrived while it was running:  *)
(* the flag an earlier stop left behind, or a stop that came before its    *)
(* stream, is cleared when event_stream begins (main.py:821).              *)
NoLeftoverStop ==
    [][\A i \in Request :
          (Running(i) /\ server'[i].reply = "stopped") => server[i].hit]_vars

(* The input only stays locked while a message of the chat on display is   *)
(* under way or has ended without a final response, by an error, a card or *)
(* a cancellation; a completed message gives it back (customSendMessage.ts *)
(* 424-528 and 553-576).                                                   *)
InputComesBack ==
    lock # "off" =>
        \E i \in Request : Used(i) /\ client[i].inView /\ ~client[i].final

(* A request that finishes never takes the user away from a conversation   *)
(* picked in the list meanwhile, although it reports a thread of its own   *)
(* accord and against a selection of the past (CarbonChat.tsx:142-158,     *)
(* ChatLanding.tsx:283-292).                                               *)
FinishKeepsPick ==
    [][\A i \in Request :
          (client[i].pc = "open" /\ client'[i].pc = "over" /\ picked) => selected' = selected]_vars

(* What the user types under a picked conversation is posted to its        *)
(* thread, never to the one of a request sent before (CarbonChat.tsx:217). *)
MessageGoesToPick ==
    [][\A i \in Request :
          (~Used(i) /\ client'[i].pc = "open" /\ client'[i].plain /\ picked) =>
              client'[i].thread = selected]_vars

(* A /stop that reaches a running stream ends it, unless another stream of *)
(* the thread begins first and clears the flag they share (main.py:826).   *)
StopTakesEffect ==
    \A i \in Request :
        (Running(i) /\ server[i].hit) ~> (~Running(i) \/ server[i].wiped)

(* "Load history when threadId changes" (CarbonChat.tsx:214): once every   *)
(* request and every history is in, nothing but the selected conversation  *)
(* is on display.                                                          *)
Settled ==
    /\ selected = rendered /\ ~restarting /\ loads = {}
    /\ \A i \in Request : client[i].pc # "open"
HistoryFollowsSelection ==
    Settled /\ selected # None => shown \subseteq {selected}
=============================================================================
