------------------------------- MODULE AIChat -------------------------------
(***************************************************************************)
(* The AI assistant: the chat of the frontend (AIChatContext.tsx) and the  *)
(* sessions of the backend (pkg/ai/manager.go) behind it.  An answer comes *)
(* as events that carry the session and the generation of their request;   *)
(* the frontend counts generations for itself and drops older ones.        *)
(* An updater given to setMessages runs at once or in the next render: it  *)
(* waits in `queue`.  `faults` is what may happen in a behaviour beyond    *)
(* the orderly course, so a property can say what it depends on.           *)
(***************************************************************************)
EXTENDS Integers, Sequences, FiniteSets

CONSTANTS
  Sessions, Requests, NoSession, NoRequest,
  MaxChunks,    \* bound on the chunks of an answer, if no error comes on the way
  Disturbances  \* those that may happen, out of:
                \* "refusal"    the backend refuses a message (no such provider)
                \* "error"      an answer ends with an error, or has one on the way
                \* "lateness"   the reply of a call comes after later events
                \* "batch"      handlers run before React renders the last one
                \* "haste"      the user sends before the last answer has ended
                \* "delete"     the user deletes a chat that is being answered
                \* "disconnect" the connection to the server is lost for a while
                \* "loss"       a call fails, on its way or on the way back

ChatAssumption ==
  /\ NoSession \notin Sessions /\ NoRequest \notin Requests /\ MaxChunks \in Nat
  /\ Disturbances \subseteq {"refusal", "error", "lateness", "batch", "haste", "delete", "disconnect",
                              "loss"}

VARIABLES
  faults,    \* the disturbance of this behaviour, if any
  sessions,  \* Manager.sessions: their stage, generation and cancelable request
  request,   \* one SendMessage each, with its reply on its way; `joined` is a ghost:
             \* what its session was when the request was registered in it
  wire,      \* events ai:response on their way
  starting,  \* ID of a new session on its way to the frontend
  set, shown,\* React state as set and as last rendered
  generation,\* generationRef
  newest,    \* the request the generation was last counted for
  chat,      \* requests sent in the conversation on the screen
  pending,   \* pendingMessageRef
  queue,     \* updaters of the messages that wait for the next render
  screen     \* messages of the assistant, streamingMessageRef, messageCounter

vars == <<faults, sessions, request, wire, starting, set, shown, generation, newest,
          chat, pending, queue, screen>>
backend == <<sessions, request, wire>>
counted == <<generation, newest, chat>>

Unsent == [at |-> "unused", session |-> NoSession, gen |-> 0, chunks |-> 0, reply |-> "none",
           joined |-> "none"]
Request == [at : {"unused", "sent", "found", "running", "stopping", "over"},
            session : Sessions \cup {NoSession}, gen : Nat, chunks : 0 .. (MaxChunks + 1),
            reply : {"none", "yes", "no"},
            joined : {"none", "live", "closed"}]
Session == [stage : {"new", "live", "closed"}, gen : Nat, active : Requests \cup {NoRequest}]
Event == [kind : {"chunk", "warning", "done", "error"}, session : Sessions, gen : Nat, by : Requests]
Message == [id : Nat, from : SUBSET Requests, streaming : BOOLEAN]
Update == [op : {"chunk", "error", "finish", "reset"}, by : Requests \cup {NoRequest}, id : Nat]
UI == [session : Sessions \cup {NoSession}, streaming : BOOLEAN]
Screen == [messages : Seq(Message), bubble : Nat, last : Nat]

TypeOK ==
  /\ faults \subseteq Disturbances
  /\ sessions \in [Sessions -> Session] /\ request \in [Requests -> Request]
  /\ wire \in Seq(Event) /\ starting \in Sessions \cup {NoSession}
  /\ set \in UI /\ shown \in UI
  /\ generation \in Nat /\ newest \in Requests \cup {NoRequest} /\ chat \subseteq Requests
  /\ pending \in BOOLEAN /\ queue \in Seq(Update)
  /\ screen \in Screen

Init ==
  /\ faults \in {{}} \cup {{d} : d \in Disturbances}
  /\ sessions = [s \in Sessions |-> [stage |-> "new", gen |-> 0, active |-> NoRequest]]
  /\ request = [r \in Requests |-> Unsent] /\ wire = <<>> /\ starting = NoSession
  /\ set = [session |-> NoSession, streaming |-> FALSE] /\ shown = set
  /\ generation = 0 /\ newest = NoRequest /\ chat = {} /\ pending = FALSE
  /\ queue = <<>> /\ screen = [messages |-> <<>>, bubble |-> 0, last |-> 0]

May(d) == d \in faults
Rendered == set = shown /\ queue = <<>>
(* A handler runs after the last one was rendered, unless they are batched. *)
Turn == May("batch") \/ Rendered

-----------------------------------------------------------------------------
(* Messages.                                                                *)

Finished(list, id) ==
  [i \in DOMAIN list |-> IF list[i].id = id THEN [list[i] EXCEPT !.streaming = FALSE] ELSE list[i]]

Continued(list, id, r) ==
  [i \in DOMAIN list |-> IF list[i].id = id THEN [list[i] EXCEPT !.from = @ \cup {r}] ELSE list[i]]

Added(scr, r, streams) ==
  [messages |-> Append(scr.messages, [id |-> scr.last + 1, from |-> {r}, streaming |-> streams]),
   bubble |-> IF streams THEN scr.last + 1 ELSE scr.bubble, last |-> scr.last + 1]

(* What an updater makes of the messages. *)
Updated(scr, u) ==
  CASE u.op = "chunk" /\ scr.bubble # 0 ->
         [scr EXCEPT !.messages = Continued(@, scr.bubble, u.by)]
    [] u.op = "chunk" /\ scr.bubble = 0 -> Added(scr, u.by, TRUE)
    [] u.op = "error" /\ scr.bubble # 0 ->
         [scr EXCEPT !.messages = Finished(@, scr.bubble), !.bubble = 0]
    [] u.op = "error" /\ scr.bubble = 0 -> Added(scr, u.by, FALSE)
    [] u.op = "finish" -> [scr EXCEPT !.messages = Finished(@, u.id)]
    [] u.op = "reset" -> [scr EXCEPT !.messages = <<>>]

(* What all of them make of it, one after the other. *)
Applied(scr, updates) ==
  LET after[i \in 0 .. Len(updates)] == IF i = 0 THEN scr ELSE Updated(after[i - 1], updates[i])
  IN  after[Len(updates)]

(* setMessages with an updater, then streamingMessageRef = null if `clears`. *)
Show(u, clears) ==
  LET cleared(scr) == IF clears THEN [scr EXCEPT !.bubble = 0] ELSE scr IN
  \/ Rendered /\ screen' = cleared(Updated(screen, u)) /\ UNCHANGED queue
  \/ screen' = cleared(screen) /\ queue' = Append(queue, u)

(* A chunk or a tool event has come: it goes to the streaming message.      *)
Chunk(r) == [op |-> "chunk", by |-> r, id |-> 0]
Error(r) == [op |-> "error", by |-> r, id |-> 0]
Finish(id) == [op |-> "finish", by |-> NoRequest, id |-> id]
Reset == [op |-> "reset", by |-> NoRequest, id |-> 0]

(* The end of an answer, or its cancellation. *)
EndBubble ==
  IF screen.bubble # 0 THEN Show(Finish(screen.bubble), TRUE) ELSE UNCHANGED <<queue, screen>>

-----------------------------------------------------------------------------
(* The backend.                                                             *)

Emitted(kind, r, gen) ==
  Append(wire, [kind |-> kind, session |-> request[r].session, gen |-> gen, by |-> r])

Live == {s \in Sessions : sessions[s].stage = "live"}

(* The requests that some sessions can cancel are told to stop. *)
Stopped(S) ==
  [r \in Requests |-> IF request[r].at = "running" /\ \E s \in S : sessions[s].active = r
                      THEN [request[r] EXCEPT !.at = "stopping"] ELSE request[r]]

(* SendMessage looks the session up, and lets go of the lock. *)
Lookup(r) ==
  /\ request[r].at = "sent" /\ request[r].session \in Live
  /\ request' = [request EXCEPT ![r].at = "found"]
  /\ UNCHANGED <<faults, sessions, wire, starting, set, shown, counted, pending, queue, screen>>

Refused(r) ==
  /\ request[r].at = "sent"
  /\ request[r].session \notin Live \/ May("refusal")
  /\ request' = [request EXCEPT ![r].at = "over", ![r].reply = "no"]
  /\ wire' = Emitted("error", r, 0)
  /\ UNCHANGED <<faults, sessions, starting, set, shown, counted, pending, queue, screen>>

(* What a request is that is registered in session s. *)
Registered(q, s) ==
  [q EXCEPT !.at = "running", !.gen = sessions[s].gen + 1, !.reply = "yes", !.joined = sessions[s].stage]

(* Mutant: a request that still runs is not cancelled. *)
RegisterBeside(r) == LET s == request[r].session IN
  /\ request[r].at = "found"
  /\ sessions' = [sessions EXCEPT ![s].gen = @ + 1, ![s].active = r]
  /\ request' = [request EXCEPT ![r] = Registered(@, s)]
  /\ UNCHANGED <<faults, wire, starting, set, shown, counted, pending, queue, screen>>

(* sendMessageOneShot, with the lock again (no provider keeps sessions): the *)
(* request replaces the last one of the session, which may be closed by now. *)
Register(r) == LET s == request[r].session IN
  /\ request[r].at = "found"
  /\ sessions' = [sessions EXCEPT ![s].gen = @ + 1, ![s].active = r]
  /\ request' = [Stopped({s}) EXCEPT ![r] = Registered(@, s)]
  /\ UNCHANGED <<faults, wire, starting, set, shown, counted, pending, queue, screen>>

(* The call does not reach the backend. *)
Lost(r) ==
  /\ May("loss") /\ request[r].at = "sent"
  /\ request' = [request EXCEPT ![r].at = "over"]
  /\ UNCHANGED <<faults, sessions, wire, starting, set, shown, counted, pending, queue, screen>>

(* Bound on the chunks of an answer, with the errors on the way. *)
Longest == IF May("error") THEN MaxChunks + 1 ELSE MaxChunks

(* The provider reads on for a while after it was told to stop.  An error   *)
(* that it reports on the way does not end the answer.                      *)
Emit(r) ==
  /\ request[r].at \in {"running", "stopping"} /\ request[r].chunks < Longest
  /\ request' = [request EXCEPT ![r].chunks = @ + 1]
  /\ \/ wire' = Emitted("chunk", r, request[r].gen)
     \/ May("error") /\ wire' = Emitted("warning", r, request[r].gen)
  /\ UNCHANGED <<faults, sessions, starting, set, shown, counted, pending, queue, screen>>

(* Every request ends with one last event: of success, of its cancellation *)
(* or of an error, its deadline among them.                                *)
End(r) ==
  /\ request[r].at \in {"running", "stopping"}
  /\ request' = [request EXCEPT ![r].at = "over"]
  /\ \/ wire' = Emitted("done", r, request[r].gen)
     \/ request[r].at = "running" /\ May("error") /\ wire' = Emitted("error", r, request[r].gen)
  /\ UNCHANGED <<faults, sessions, starting, set, shown, counted, pending, queue, screen>>

Closed(S) ==
  [s \in Sessions |-> IF s \in S THEN [sessions[s] EXCEPT !.stage = "closed"] ELSE sessions[s]]

(* OnClientDisconnect; what was on its way to the client is lost. *)
Disconnect ==
  /\ May("disconnect")
  /\ Live # {} /\ sessions' = Closed(Live) /\ request' = Stopped(Live)
  /\ wire' = <<>>
  /\ UNCHANGED <<faults, starting, set, shown, counted, pending, queue, screen>>

-----------------------------------------------------------------------------
(* The frontend: sessions.                                                  *)

(* The panel opens, by itself or for openAndSend, and a session is started. *)
Open(s, asks) ==
  /\ shown.session = NoSession /\ starting = NoSession /\ sessions[s].stage = "new"
  /\ Rendered
  /\ sessions' = [sessions EXCEPT ![s].stage = "live"] /\ starting' = s
  /\ pending' = (pending \/ asks)
  /\ UNCHANGED <<faults, request, wire, set, shown, counted, queue, screen>>

ResetRefs == generation' = 0 /\ newest' = NoRequest /\ chat' = {}

(* startNewChat and loadConversation: the session is exchanged for a new    *)
(* one, which is put to use with the answer.                                *)
ClearSession(s) ==
  /\ Turn /\ shown.session # NoSession /\ starting = NoSession /\ sessions[s].stage = "new"
  /\ sessions' = [Closed({shown.session}) EXCEPT ![s].stage = "live"]
  /\ request' = Stopped({shown.session} \cap Live)
  /\ starting' = s
  /\ UNCHANGED <<faults, wire, set, shown, counted, pending, queue, screen>>

(* resetChatState *)
ResetChat(session) ==
  set' = [session |-> session, streaming |-> FALSE] /\ ResetRefs /\ Show(Reset, TRUE)

(* The ID of a new session arrives; if it replaces another, the chat is     *)
(* reset.  Calls are answered in their order, unless a reply is late.       *)
SessionStarted ==
  /\ Turn /\ starting # NoSession
  /\ May("lateness") \/ \A r \in Requests : request[r].at # "found" /\ request[r].reply = "none"
  /\ starting' = NoSession
  /\ IF set.session = NoSession
     THEN set' = [set EXCEPT !.session = starting] /\ UNCHANGED <<counted, queue, screen>>
     ELSE ResetChat(starting)
  /\ UNCHANGED <<faults, backend, shown, pending>>

(* The ID is lost: the chat that was to be left is reset all the same, and  *)
(* keeps its session, which is closed.                                      *)
StartLost ==
  /\ Turn /\ starting # NoSession /\ May("loss")
  /\ starting' = NoSession
  /\ IF set.session = NoSession THEN UNCHANGED <<set, counted, queue, screen>>
     ELSE ResetChat(set.session)
  /\ UNCHANGED <<faults, backend, shown, pending>>

(* So it is, and its session lives on, if ClearAISession did not arrive.    *)
ClearLost ==
  /\ Turn /\ shown.session # NoSession /\ starting = NoSession /\ May("loss")
  /\ ResetChat(set.session)
  /\ UNCHANGED <<faults, backend, starting, shown, pending>>

(* Nothing of a session is under way any more. *)
Answered(s) ==
  /\ \A r \in Requests : request[r].session = s =>
       request[r].at \in {"unused", "over"} /\ request[r].reply = "none"
  /\ \A i \in DOMAIN wire : wire[i].session # s

(* deleteConversation of the current one; its session stays in use. *)
DeleteConversation ==
  /\ Turn /\ (May("delete") \/ Answered(shown.session)) /\ chat # {}
  /\ ResetChat(set.session)
  /\ UNCHANGED <<faults, backend, starting, shown, pending>>

-----------------------------------------------------------------------------
(* The frontend: messages.                                                  *)

Sent(requests, r, s) ==
  /\ request[r].at = "unused"
  /\ request' = [requests EXCEPT ![r].at = "sent", ![r].session = s]
  /\ generation' = generation + 1 /\ newest' = r /\ chat' = chat \cup {r}

(* sendMessage. *)
Send(r) ==
  /\ Turn /\ shown.session # NoSession /\ ~shown.streaming
  /\ May("haste") \/ Answered(shown.session)
  /\ Sent(request, r, shown.session)
  /\ UNCHANGED <<faults, sessions, wire, starting, set, shown, pending, queue, screen>>

(* The reply to SendAIMessage, or that it is lost. *)
Reply(r) ==
  /\ Turn /\ request[r].reply # "none"
  /\ request' = [request EXCEPT ![r].reply = "none"]
  /\ \/ set' = [set EXCEPT !.streaming = @ \/ request[r].reply = "yes"]
     \/ May("loss") /\ UNCHANGED set
  /\ UNCHANGED <<faults, sessions, wire, starting, shown, counted, pending, queue, screen>>

CancelRequest ==
  /\ Turn /\ shown.streaming
  /\ \/ request' = Stopped({shown.session} \cap Live)
     \/ May("loss") /\ UNCHANGED request
  /\ set' = [set EXCEPT !.streaming = FALSE]
  /\ EndBubble
  /\ UNCHANGED <<faults, sessions, wire, starting, shown, counted, pending>>

Heard(e) == e.session = shown.session /\ (e.gen = 0 \/ e.gen >= generation)

Handle ==
  /\ Turn /\ wire # <<>> /\ wire' = Tail(wire)
  /\ LET e == Head(wire) IN
     /\ May("lateness") \/ request[e.by].reply = "none"
     /\ \/ ~Heard(e) /\ UNCHANGED <<set, queue, screen>>
        \/ Heard(e) /\ e.kind = "chunk" /\ Show(Chunk(e.by), FALSE) /\ UNCHANGED set
        \/ Heard(e) /\ e.kind = "warning" /\ Show(Error(e.by), FALSE) /\ UNCHANGED set
        \/ /\ Heard(e) /\ e.kind = "error" /\ Show(Error(e.by), TRUE)
           /\ set' = [set EXCEPT !.streaming = FALSE]
        \/ /\ Heard(e) /\ e.kind = "done" /\ EndBubble
           /\ set' = [set EXCEPT !.streaming = FALSE]
  /\ UNCHANGED <<faults, sessions, request, starting, shown, counted, pending>>

(* The session that the cleanup of an effect closes. *)
Left == {shown.session} \ {NoSession, set.session}

(* React renders.  The effects of a new session close the one before it and *)
(* send what openAndSend left.                                              *)
Render ==
  /\ ~Rendered
  /\ screen' = Applied(screen, queue) /\ queue' = <<>> /\ shown' = set
  /\ sessions' = Closed(Left)
  /\ IF set.session # shown.session /\ pending /\ ~set.streaming
     THEN pending' = FALSE /\ \E r \in Requests : Sent(Stopped(Left \cap Live), r, set.session)
     ELSE request' = Stopped(Left \cap Live) /\ UNCHANGED <<pending, counted>>
  /\ UNCHANGED <<faults, wire, starting, set>>

Next ==
  \/ \E s \in Sessions : ClearSession(s) \/ \E asks \in BOOLEAN : Open(s, asks)
  \/ SessionStarted \/ StartLost \/ ClearLost \/ DeleteConversation \/ CancelRequest
  \/ Handle \/ Render \/ Disconnect
  \/ \E r \in Requests : \/ Send(r) \/ Lookup(r) \/ Refused(r) \/ Register(r) \/ Lost(r)
                         \/ Emit(r) \/ End(r) \/ Reply(r)

Spec == Init /\ [][Next]_vars

-----------------------------------------------------------------------------
(* A request that runs is the one that its session would cancel: no other   *)
(* runs beside it.  And its session is there for CancelRequest and          *)
(* ClearSession to find, so that none goes on unseen, unless the session    *)
(* was closed while SendMessage stood between its two critical sections.    *)
RunningIsCancelable ==
  \A r \in Requests : request[r].at = "running" =>
    /\ sessions[request[r].session].active = r
    /\ request[r].session \in Live \/ request[r].joined = "closed"

(* The answer to the newest message is never taken for a stale one.         *)
NewestIsHeard ==
  \A i \in DOMAIN wire :
    wire[i].by = newest /\ wire[i].session = shown.session => Heard(wire[i])
NewestIsHeardUnlessRefused ==
  faults \cap {"refusal", "loss", "batch", "haste"} = {} => NewestIsHeard

(* A message on the screen holds the text of one answer only.               *)
AnswersApart == faults \cap {"haste", "batch"} = {} =>
  \A i \in DOMAIN screen.messages : Cardinality(screen.messages[i].from) = 1

(* What is on the screen answers a message of this conversation: nothing of *)
(* a chat that was left shows up in the next.                               *)
AnswersBelong == faults \cap {"delete", "loss", "batch"} = {} /\ queue = <<>> =>
  \A i \in DOMAIN screen.messages : screen.messages[i].from \subseteq chat

Quiet ==
  /\ Rendered /\ wire = <<>> /\ starting = NoSession
  /\ \A r \in Requests : request[r].at \in {"unused", "over"} /\ request[r].reply = "none"

(* Once all has been said, nothing on the screen is still in progress.      *)
QuietIsIdle ==
  faults \cap {"refusal", "loss", "error", "lateness", "batch", "haste", "disconnect"} = {} /\ Quiet =>
  /\ ~shown.streaming
  /\ \A i \in DOMAIN screen.messages : ~screen.messages[i].streaming

(* Together: every question is answered by its own answer, is stopped when  *)
(* the user stops it, and ends, unless something happened that the code     *)
(* does not handle; each part names what that is.                           *)
ChatSound ==
  /\ RunningIsCancelable /\ NewestIsHeardUnlessRefused /\ AnswersApart /\ AnswersBelong
  /\ QuietIsIdle
=============================================================================
