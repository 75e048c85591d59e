---------------------------- MODULE ServerEvents ----------------------------
(***************************************************************************)
(* Server mode: events go through one bounded channel to a goroutine that  *)
(* writes them to every WebSocket client (pkg/server/server.go); a browser *)
(* connects again when its connection is lost (runtime.ts), and terminal   *)
(* sessions belong to the connection whose ID the browser gave             *)
(* (pkg/terminal/manager.go), so that they end with it.                    *)
(***************************************************************************)
EXTENDS Integers, Sequences, FiniteSets, Functions

CONSTANTS
  Conns,     \* connections, one after the other, of one browser
  NoConn,
  Emitters,  \* goroutines that emit events
  Sessions,  \* terminals
  QueueSize, \* capacity of the broadcast channel
  MaxEvents  \* bound on the events sent

ServerAssumption == NoConn \notin Conns /\ QueueSize \in Nat \ {0} /\ MaxEvents \in Nat

VARIABLES
  phase,   \* "open"; "done": close(s.done); "closed": close(s.broadcast)
  queue,   \* the broadcast channel; events are numbers, in the order of the sends
  sent,    \* number of events sent
  emitter, \* where each EmitEvent is
  writer,  \* handleBroadcast: event, clients it has still to write to, failed
  clients, \* Server.clients
  conn,    \* connection -> its state, and whether its end was announced
  stream,  \* connection -> what was written to it
  browser, \* its WebSocket, currentClientId, and how much of the stream it read
  session  \* terminal -> owner; `orphan` is history: the owner had gone already

vars == <<phase, queue, sent, emitter, writer, clients, conn, stream, browser, session>>
bus == <<phase, queue, sent, emitter>>

Hello == 0
NoSession == [at |-> "none", owner |-> NoConn, orphan |-> FALSE]

TypeOK ==
  /\ phase \in {"open", "done", "closed"} /\ sent \in 0..MaxEvents
  /\ queue \in Seq(1..MaxEvents) /\ Len(queue) <= QueueSize
  /\ emitter \in [Emitters -> {"idle", "called", "blocked", "panicked"}]
  /\ writer \in [at : {"idle", "writing", "removing", "ended"}, event : 0..MaxEvents,
                 left : SUBSET Conns, failed : SUBSET Conns]
  /\ clients \subseteq Conns
  /\ conn \in [Conns -> {"unused", "opening", "open", "broken", "removed", "over"}]
  /\ stream \in [Conns -> Seq(0..MaxEvents)]
  /\ browser \in [ws : Conns \cup {NoConn}, id : Conns \cup {NoConn}, read : Nat]
  /\ session \in [Sessions -> [at : {"none", "asked", "live", "closed"}, owner : Conns \cup {NoConn},
                               orphan : BOOLEAN]]

Init ==
  /\ phase = "open" /\ queue = <<>> /\ sent = 0 /\ emitter = [e \in Emitters |-> "idle"]
  /\ writer = [at |-> "idle", event |-> 0, left |-> {}, failed |-> {}]
  /\ clients = {} /\ conn = [c \in Conns |-> "unused"] /\ stream = [c \in Conns |-> <<>>]
  /\ browser = [ws |-> NoConn, id |-> NoConn, read |-> 0]
  /\ session = [s \in Sessions |-> NoSession]

-----------------------------------------------------------------------------
(* EmitEvent and shutdown.                                                  *)

Emit(e) ==
  /\ emitter[e] = "idle" /\ sent < MaxEvents
  /\ emitter' = [emitter EXCEPT ![e] = "called"]
  /\ UNCHANGED <<phase, queue, sent, writer, clients, conn, stream, browser, session>>

(* select: the send, if there is room. *)
Send(e) ==
  /\ emitter[e] \in {"called", "blocked"} /\ phase # "closed"
  /\ Len(queue) < QueueSize /\ sent < MaxEvents
  /\ sent' = sent + 1 /\ queue' = Append(queue, sent')
  /\ emitter' = [emitter EXCEPT ![e] = "idle"]
  /\ UNCHANGED <<phase, writer, clients, conn, stream, browser, session>>

Block(e) ==
  /\ emitter[e] = "called" /\ phase = "open" /\ Len(queue) = QueueSize
  /\ emitter' = [emitter EXCEPT ![e] = "blocked"]
  /\ UNCHANGED <<phase, queue, sent, writer, clients, conn, stream, browser, session>>

(* select: the server is shutting down, and if the channel is closed as     *)
(* well, a send on it is as likely as the drop.                             *)
Drop(e) ==
  /\ emitter[e] = "called" /\ phase # "open"
  /\ \/ emitter' = [emitter EXCEPT ![e] = "idle"]
     \/ phase = "closed" /\ emitter' = [emitter EXCEPT ![e] = "panicked"]
  /\ UNCHANGED <<phase, queue, sent, writer, clients, conn, stream, browser, session>>

(* close(s.done) wakes who is blocked, then close(s.broadcast). *)
Shutdown ==
  /\ \/ /\ phase = "open" /\ phase' = "done"
        /\ emitter' = [e \in Emitters |-> IF emitter[e] = "blocked" THEN "idle" ELSE emitter[e]]
     \/ phase = "done" /\ phase' = "closed" /\ UNCHANGED emitter
  /\ UNCHANGED <<queue, sent, writer, clients, conn, stream, browser, session>>

-----------------------------------------------------------------------------
(* handleBroadcast.  It holds clientsMu while it writes.                    *)

Unlocked == writer.at # "writing"

Take ==
  /\ writer.at = "idle"
  /\ \/ /\ queue # <<>> /\ queue' = Tail(queue)
        /\ writer' = [at |-> "writing", event |-> Head(queue), left |-> clients, failed |-> {}]
     \/ queue = <<>> /\ phase = "closed" /\ writer' = [writer EXCEPT !.at = "ended"] /\ UNCHANGED queue
  /\ UNCHANGED <<phase, sent, emitter, clients, conn, stream, browser, session>>

(* A write to a connection that is lost may succeed for a while. *)
Write(c) ==
  /\ writer.at = "writing" /\ c \in writer.left
  /\ \/ /\ conn[c] \in {"open", "broken"}
        /\ stream' = [stream EXCEPT ![c] = Append(@, writer.event)]
        /\ writer' = [writer EXCEPT !.left = @ \ {c}]
     \/ /\ conn[c] = "broken"
        /\ writer' = [writer EXCEPT !.left = @ \ {c}, !.failed = @ \cup {c}] /\ UNCHANGED stream
  /\ UNCHANGED <<bus, clients, conn, browser, session>>

Written ==
  /\ writer.at = "writing" /\ writer.left = {}
  /\ writer' = [writer EXCEPT !.at = IF writer.failed = {} THEN "idle" ELSE "removing"]
  /\ UNCHANGED <<bus, clients, conn, stream, browser, session>>

RemoveFailed ==
  /\ writer.at = "removing"
  /\ clients' = clients \ writer.failed
  /\ writer' = [writer EXCEPT !.at = "idle", !.failed = {}]
  /\ UNCHANGED <<bus, conn, stream, browser, session>>

-----------------------------------------------------------------------------
(* Connections.                                                             *)

(* connectWebSocket: at once, or by the timer after a loss. *)
Connect(c) ==
  /\ conn[c] = "unused" /\ browser.ws = NoConn
  /\ conn' = [conn EXCEPT ![c] = "opening"] /\ browser' = [browser EXCEPT !.ws = c, !.read = 0]
  /\ UNCHANGED <<bus, writer, clients, stream, session>>

Register(c) ==
  /\ conn[c] = "opening" /\ Unlocked
  /\ conn' = [conn EXCEPT ![c] = "open"] /\ clients' = clients \cup {c}
  /\ UNCHANGED <<bus, writer, stream, browser, session>>

(* The "connected" event; events may have been written before it. *)
Greet(c) ==
  /\ conn[c] = "open" /\ Hello \notin Range(stream[c])
  /\ stream' = [stream EXCEPT ![c] = Append(@, Hello)]
  /\ UNCHANGED <<bus, writer, clients, conn, browser, session>>

Break(c) ==
  /\ conn[c] = "open"
  /\ conn' = [conn EXCEPT ![c] = "broken"]
  /\ UNCHANGED <<bus, writer, clients, stream, browser, session>>

(* Mutant: only a client that is still registered is announced. *)
ReadEndsRegistered(c) ==
  /\ conn[c] = "broken" /\ Unlocked
  /\ clients' = clients \ {c}
  /\ conn' = [conn EXCEPT ![c] = IF c \in clients THEN "removed" ELSE "over"]
  /\ UNCHANGED <<bus, writer, stream, browser, session>>

(* The goroutine that reads the connection ends. *)
ReadEnds(c) ==
  /\ conn[c] = "broken" /\ Unlocked
  /\ clients' = clients \ {c}
  /\ conn' = [conn EXCEPT ![c] = "removed"]
  /\ UNCHANGED <<bus, writer, stream, browser, session>>

(* OnClientDisconnect, in a goroutine of its own. *)
OnClientDisconnect(c) ==
  /\ conn[c] = "removed"
  /\ conn' = [conn EXCEPT ![c] = "over"]
  /\ session' = [s \in Sessions |->
       IF session[s].at = "live" /\ session[s].owner = c THEN [session[s] EXCEPT !.at = "closed"]
       ELSE session[s]]
  /\ UNCHANGED <<bus, writer, clients, stream, browser>>

-----------------------------------------------------------------------------
(* The browser.                                                             *)

(* onmessage. *)
Receive ==
  /\ browser.ws # NoConn /\ browser.read < Len(stream[browser.ws])
  /\ browser' = [browser EXCEPT !.read = @ + 1,
                   !.id = IF stream[browser.ws][browser.read + 1] = Hello THEN browser.ws ELSE @]
  /\ UNCHANGED <<bus, writer, clients, conn, stream, session>>

(* onclose; currentClientId stays as it is. *)
Lost ==
  /\ browser.ws # NoConn /\ conn[browser.ws] \in {"broken", "removed", "over"}
  /\ browser' = [browser EXCEPT !.ws = NoConn]
  /\ UNCHANGED <<bus, writer, clients, conn, stream, session>>

(* A terminal is opened: the call goes by HTTP, on any connection. *)
AskSession(s) ==
  /\ session[s].at = "none"
  /\ session' = [session EXCEPT ![s] = [NoSession EXCEPT !.at = "asked", !.owner = browser.id]]
  /\ UNCHANGED <<bus, writer, clients, conn, stream, browser>>

StartSession(s) == LET c == session[s].owner IN
  /\ session[s].at = "asked"
  /\ session' = [session EXCEPT ![s].at = "live",
                    ![s].orphan = IF c = NoConn THEN TRUE ELSE conn[c] = "over"]
  /\ UNCHANGED <<bus, writer, clients, conn, stream, browser>>

(* The terminal is closed by the user. *)
CloseSession(s) ==
  /\ session[s].at = "live"
  /\ session' = [session EXCEPT ![s].at = "closed"]
  /\ UNCHANGED <<bus, writer, clients, conn, stream, browser>>

Next ==
  \/ Shutdown \/ Take \/ Written \/ RemoveFailed \/ Receive \/ Lost
  \/ \E e \in Emitters : Emit(e) \/ Send(e) \/ Block(e) \/ Drop(e)
  \/ \E c \in Conns : \/ Write(c) \/ Connect(c) \/ Register(c) \/ Greet(c) \/ Break(c) \/ ReadEnds(c)
                      \/ OnClientDisconnect(c)
  \/ \E s \in Sessions : AskSession(s) \/ StartSession(s) \/ CloseSession(s)

Spec == Init /\ [][Next]_vars

-----------------------------------------------------------------------------
(* What was written to c holds no event between two places. *)
Silent(c, i, j) == \A k \in DOMAIN stream[c] : i < k /\ k < j => stream[c][k] = Hello

(* The events written to a connection follow each other without a gap, and  *)
(* one that is registered and lives has all that were broadcast: a client   *)
(* that connects, or fails, amid a broadcast makes no other lose an event.  *)
NoGaps ==
  \A c \in Conns : LET got == {i \in DOMAIN stream[c] : stream[c][i] # Hello} IN
    /\ \A i, j \in got : i < j /\ Silent(c, i, j) => stream[c][j] = stream[c][i] + 1
    /\ c \in clients /\ conn[c] = "open" /\ Unlocked =>
         \A i \in got : Silent(c, i, Len(stream[c]) + 1) => stream[c][i] + Len(queue) = sent

(* A client that has gone is announced once it is off the map, whoever took *)
(* it off, so its terminals end, unless they were started later than that   *)
(* with the ID the browser still had.                                       *)
SessionsEndWithClient ==
  \A s \in Sessions : session[s].at = "live" /\ ~session[s].orphan => conn[session[s].owner] # "over"

(* A connection that is over is off the map, so no broadcast waits for it.  *)
GoneAreForgotten == \A c \in Conns : conn[c] \in {"removed", "over"} => c \notin clients

(* "Server is shutting down, drop the event": only a shutdown makes an      *)
(* EmitEvent panic, and none stays blocked then.                            *)
ShutdownFreesEmitters ==
  \A e \in Emitters :
    /\ emitter[e] = "panicked" => phase = "closed"
    /\ emitter[e] = "blocked" => phase = "open"

(* Together: clients miss nothing while they are connected, leave nothing   *)
(* behind when they go, and hold nobody up when the server ends.            *)
ServerSound == NoGaps /\ SessionsEndWithClient /\ GoneAreForgotten /\ ShutdownFreesEmitters
=============================================================================
