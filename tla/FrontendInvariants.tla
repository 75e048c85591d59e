------------------------- MODULE FrontendInvariants -------------------------
(***************************************************************************)
(* The inductive invariants of the parts of the frontend.                  *)
(***************************************************************************)
EXTENDS MCFrontend

(* Polling. *)
Inv == TypeOK /\ BudgetExact

-----------------------------------------------------------------------------
(***************************************************************************)
(* Views with fetches of their own.                                        *)
(*                                                                         *)
(* PanelInv says which fetches may still change what is shown: of a        *)
(* guarded panel only one for the target there is now, and as long as the  *)
(* screen is not what it should be, one of those is under way.             *)
(***************************************************************************)

CurrentOK(f) ==
  /\ fetch[f] # Panel!NoFetch => fetch[f].by # "nobody" /\ fetch[f].target \in Targets
  /\ Panel!Guarded => fetch[f].by # "caller"
  /\ Panel!Guarded /\ fetch[f].current /\ target # NoTarget => fetch[f].target = target

UnderWay == \E f \in Fetches : fetch[f] # Panel!NoFetch /\ fetch[f].current

PanelInv ==
  /\ Panel!TypeOK
  /\ \A f \in Fetches : CurrentOK(f)
  /\ loading /\ target # NoTarget => UnderWay
  /\ Panel!Guarded /\ target # NoTarget /\ shown # target /\ ~failed => UnderWay

-----------------------------------------------------------------------------
(***************************************************************************)
(* The connection monitor.                                                 *)
(*                                                                         *)
(* Of a watch that is alone with its type, MonitorInv follows the news of  *)
(* a break along the wire: a loop that is about to begin from now has said *)
(* last that it reconnects, unless it is quiet about it; and as long as an *)
(* announced gap is not listed, the timer is set or the message that sets  *)
(* it is on its way.  Of every watch it says that no recent failure has    *)
(* left the window.                                                        *)
(***************************************************************************)

Wire == Seq([kind : {"connected", "reconnecting", "stopped", "error"}, watch : Monitor!Watch])

(* The message at place i is a status of the type. *)
StatusAt(wire, i, type) == i \in DOMAIN wire /\ wire[i].kind # "error" /\ wire[i].watch[1] = type

(* The status of the type before place n is status: in the wire, or the     *)
(* last one that was handled.                                               *)
Precedes(wire, last, n, type, status) ==
  \/ \E j \in DOMAIN wire : /\ j < n /\ StatusAt(wire, j, type) /\ wire[j].kind = status
                            /\ \A k \in DOMAIN wire : j < k /\ k < n => ~StatusAt(wire, k, type)
  \/ last = status /\ \A k \in DOMAIN wire : k < n => ~StatusAt(wire, k, type)

(* connected, after reconnecting, is on its way. *)
ReconnectComes(wire, last, type) ==
  \E i \in DOMAIN wire : /\ StatusAt(wire, i, type) /\ wire[i].kind = "connected"
                         /\ Precedes(wire, last, i, type, "reconnecting")

(* A watch that will begin from now said that it reconnects, and until the  *)
(* views list again it is seen that it has.                                 *)
FromNow(w) == loop[w].at \in {"waiting", "connecting"} /\ loop[w].rv = "none" /\ ~loop[w].quiet

GapOK(w) ==
  /\ FromNow(w) => Precedes(statuses, prev[w[1]], Len(statuses) + 1, w[1], "reconnecting")
  /\ gap[w] = "announced" => timer \/ ReconnectComes(statuses, prev[w[1]], w[1])

(* The window holds the failures that are recent. *)
WindowOK(w) ==
  /\ failures[w] \subseteq DOMAIN history[w]
  /\ openedAt[w] <= time
  /\ \A i \in DOMAIN history[w] :
       /\ history[w][i] <= time
       /\ openedAt[w] # -1 => history[w][i] <= openedAt[w]
       /\ time - history[w][i] < Window => i \in failures[w]

MonitorInv ==
  /\ Monitor!TypeOK /\ used \in Layouts
  /\ \A w \in Monitor!Watch : /\ loop[w].at # "off" \/ gap[w] # "none" => w \in used
                              /\ Monitor!Alone(w) /\ w \in used => GapOK(w)
                              /\ WindowOK(w)

-----------------------------------------------------------------------------
(***************************************************************************)
(* The chat.                                                               *)
(*                                                                         *)
(* ChatInv has a part for each disturbance that a promise excepts.  What   *)
(* holds in any case is which requests belong to which session (Rooted).   *)
(* With handlers that run one after the other, a new session is put to use *)
(* with nothing left of the old one (Exchanged).  When the user waits for  *)
(* an answer, a session has one request at a time (OneAtATime), so that    *)
(* the streaming message is that of its only speaker (Speaker); when the   *)
(* backend refuses nothing and no call is lost, either, the two            *)
(* generations agree (Counting).  A request that was found may be          *)
(* registered in a session that was closed meanwhile (joined = "closed").  *)
(***************************************************************************)

Without(D) == disturbed \cap D = {}

(* What the backend still has to do for a request. *)
Underway(r) == request[r].at \in {"sent", "found", "running", "stopping"}
Tells(r) == \E i \in DOMAIN events : events[i].by = r
Unanswered(r) == Underway(r) \/ request[r].reply # "none" \/ Tells(r)

(* Its last event is still to come. *)
Final(e) == e.kind \in {"done", "error"}
EndComes(r) ==
  \/ request[r].at \in {"running", "stopping"}
  \/ \E i \in DOMAIN events : events[i].by = r /\ Final(events[i])

RequestOK(r) ==
  /\ IF request[r].at = "unused" THEN request[r] = Chat!Unsent
     ELSE request[r].session \in Sessions /\ sessions[request[r].session].stage # "new"
  /\ request[r].at \in {"sent", "found"} => request[r].gen = 0 /\ request[r].reply = "none"
  /\ request[r].at \in {"running", "stopping"} => request[r].gen > 0
  /\ request[r].reply = "yes" => request[r].gen > 0
  /\ request[r].at = "running" =>
       /\ sessions[request[r].session].active = r
       /\ sessions[request[r].session].stage = "live" \/ request[r].joined = "closed"

EventOK(i) == LET e == events[i] IN
  /\ request[e.by].at \in {"running", "stopping", "over"} /\ e.session = request[e.by].session
  /\ e.gen \in {0, request[e.by].gen}
  /\ e.kind # "error" => e.gen > 0
  /\ e.kind = "chunk" => \/ request[e.by].at \in {"running", "stopping"}
                         \/ \E j \in DOMAIN events : j > i /\ events[j].by = e.by /\ Final(events[j])

Empty(s) == \A r \in Requests : request[r].session # s

Rooted ==
  /\ \A r \in Requests : RequestOK(r)
  /\ \A i \in DOMAIN events : EventOK(i)
  /\ starting # NoSession =>
       /\ sessions[starting].stage # "new" /\ starting \notin {set.session, rendered.session}
       /\ Empty(starting)
  /\ \A s \in {set.session, rendered.session} \ {NoSession} : sessions[s].stage # "new"
  /\ set.session # rendered.session => Empty(set.session) \/ set.session = NoSession
  /\ set.session = NoSession => rendered.session = NoSession /\ \A r \in Requests : request[r].at = "unused"

(* Of a screen: no number is used twice; only the streaming message has an  *)
(* indicator; and it is by one request.                                     *)
Numbered(scr) ==
  scr.bubble <= scr.last /\ \A i \in DOMAIN scr.messages : scr.messages[i].id <= scr.last
Bubbles(scr) ==
  \A i \in DOMAIN scr.messages : scr.messages[i].streaming => scr.messages[i].id = scr.bubble /\ scr.bubble # 0
OneOnly(scr, r) ==
  scr.bubble # 0 => \A i \in DOMAIN scr.messages : scr.messages[i].id = scr.bubble => scr.messages[i].from = {r}

(* Updaters, as the handlers make them; one at most waits for a render.     *)
Updates == {Chat!Reset} \cup {Chat!Chunk(r) : r \in Requests} \cup {Chat!Error(r) : r \in Requests}
             \cup {Chat!Finish(n) : n \in Nat}
Short == queue \in Seq(Updates) /\ Len(queue) <= 1
Fresh == generation = 0 /\ newest = NoRequest /\ chat = {} /\ screen.bubble = 0

Exchanged ==
  /\ screen \in Chat!Screen /\ Numbered(screen) /\ Short
  /\ set.session # rendered.session => Fresh /\ queue \in {<<>>, <<Chat!Reset>>} /\ ~set.streaming
  /\ set.session = NoSession => Fresh /\ screen.messages = <<>> /\ queue = <<>> /\ ~set.streaming
  /\ starting # NoSession /\ set.session # NoSession => sessions[set.session].stage # "live"
  /\ \A r \in Requests :
       request[r].at \in {"sent", "found"} /\ sessions[request[r].session].stage = "live" =>
         request[r].session = set.session

OneAtATime == \A q, r \in Requests :
  Unanswered(q) /\ Unanswered(r) /\ request[q].session = request[r].session => q = r

(* The frontend is not ahead of the backend, as long as that counts.        *)
Counts(s) ==
  sessions[s].stage = "live" \/ \E r \in Requests : request[r].session = s /\ request[r].at = "found"

Counting ==
  /\ set.session # NoSession /\ Counts(set.session) =>
       \/ generation <= sessions[set.session].gen
       \/ /\ generation = sessions[set.session].gen + 1
          /\ \E r \in Requests : request[r].session = set.session /\ request[r].at \in {"sent", "found"}
  /\ \A r \in Requests : request[r].session = set.session /\ Unanswered(r) =>
       request[r].gen = 0 \/ request[r].gen >= generation

(* No other request of the session says anything, and if the session goes   *)
(* on, this one ends, which the frontend hears.                             *)
Speaker(r) ==
  /\ request[r].session = set.session /\ request[r].at \in {"running", "stopping", "over"}
  /\ request[r].gen > 0
  /\ \A q \in Requests \ {r} : request[q].session = set.session =>
       /\ request[q].at \notin {"found", "running", "stopping"}
       /\ request[q].at = "sent" => sessions[set.session].stage # "live"
       /\ \A i \in DOMAIN events : events[i].by = q => events[i].kind # "chunk"
  /\ sessions[set.session].stage = "live" \/ Without({"disconnect"}) =>
       EndComes(r) /\ request[r].gen >= generation

Talks(r) == Speaker(r) /\ OneOnly(screen, r)

Speaking ==
  /\ \A i \in DOMAIN screen.messages : \E r \in Requests : screen.messages[i].from = {r}
  /\ screen.bubble # 0 => \E r \in Requests : Talks(r)
  /\ \A r \in Requests : queue = <<Chat!Chunk(r)>> => Talks(r)
  /\ queue # <<>> => \/ \E r \in Requests : queue \in {<<Chat!Chunk(r)>>, <<Chat!Error(r)>>}
                     \/ screen.bubble = 0

(* What is said belongs to the conversation. *)
Belonging ==
  /\ \A r \in Requests : request[r].session = set.session /\ (Underway(r) \/ Tells(r)) => r \in chat
  /\ queue # <<Chat!Reset>> => \A i \in DOMAIN screen.messages : screen.messages[i].from \subseteq chat
  /\ \A i \in DOMAIN queue : queue[i].op \in {"chunk", "error"} => queue[i].by \in chat

(* What is in progress on the screen is in progress. *)
Progress ==
  /\ \A i \in DOMAIN events : /\ events[i].kind # "warning"
                              /\ events[i].kind = "error" => events[i].gen = 0 /\ request[events[i].by].gen = 0
  /\ \A r \in Requests : request[r].at = "found" => request[r].session = set.session
  /\ \A r \in Requests : request[r].reply = "yes" => request[r].session = set.session /\ EndComes(r)
  /\ set.streaming => \E r \in Requests :
       request[r].session = set.session /\ request[r].gen > 0 /\ EndComes(r)
  /\ \A i \in DOMAIN screen.messages : screen.messages[i].streaming =>
       \/ screen.messages[i].id = screen.bubble /\ screen.bubble # 0
       \/ queue \in {<<Chat!Reset>>, <<Chat!Finish(screen.messages[i].id)>>}

(* The types, but for the messages, which batched updaters build.           *)
ChatTyped ==
  /\ disturbed \in {{}} \cup {{d} : d \in Disturbances}
  /\ sessions \in [Sessions -> Chat!Session] /\ request \in [Requests -> Chat!Request]
  /\ events \in Seq(Chat!Event) /\ starting \in Sessions \cup {NoSession}
  /\ set \in Chat!UI /\ rendered \in Chat!UI
  /\ generation \in Nat /\ newest \in Requests \cup {NoRequest} /\ chat \subseteq Requests
  /\ pending \in BOOLEAN

(* The updaters and the messages are of their types, also if batched.       *)
ChatLists == queue \in Seq(Updates) /\ screen \in Chat!Screen

ChatInv ==
  /\ ChatTyped
  /\ Rooted
  /\ Without({"batch"}) => Exchanged
  /\ Without({"batch", "haste"}) => OneAtATime /\ Speaking
  /\ Without({"batch", "haste", "refusal", "loss"}) => Counting
  /\ Without({"batch", "delete", "loss"}) => Belonging
  /\ Without({"batch", "haste", "refusal", "loss", "error", "lateness", "disconnect"}) => Progress

-----------------------------------------------------------------------------
(***************************************************************************)
(* The stream of several containers.                                       *)
(*                                                                         *)
(* MergeInv follows each line from a reader through the channel and the    *)
(* buffer to the window: it is in one place, once (Apart), or left to be   *)
(* read (Left).                                                            *)
(***************************************************************************)

Elems(s) == {s[i] : i \in DOMAIN s}
Distinct(s) == \A i, j \in DOMAIN s : s[i] = s[j] => i = j
Increasing(s) == \A i, j \in DOMAIN s : i < j => s[i] < s[j]

MergeTyped ==
  /\ lineChan \in Seq(Nat) /\ buffer \in Seq(Nat) /\ emitted \in Seq(Nat) /\ kept \in Seq(Nat)
  /\ Len(lineChan) <= ChannelSize
  /\ reader \in [DOMAIN lines -> {"reading", "ended", "failed"}]
  /\ outcome \in {"running", "done", "failed", "canceled"} /\ stopped \in BOOLEAN

(* Where lines can be that were read. *)
Read == Elems(lineChan) \cup Elems(buffer) \cup Elems(emitted)

(* Every line is in one place, once. *)
Apart ==
  /\ Distinct(lineChan) /\ Distinct(buffer) /\ Distinct(emitted)
  /\ Elems(lineChan) \cap Elems(buffer) = {} /\ Elems(lineChan) \cap Elems(emitted) = {}
  /\ Elems(buffer) \cap Elems(emitted) = {}

(* What the readers have not read is left of the logs. *)
Left ==
  \E l \in StreamLogs :
    /\ DOMAIN lines = DOMAIN l
    /\ \A s \in DOMAIN l : lines[s] \subseteq l[s] /\ l[s] \ lines[s] \subseteq Read
    /\ \A x \in Read : \E s \in DOMAIN l : x \in l[s] \ lines[s]

(* A reader or the loop that ended had a reason. *)
Ended ==
  /\ \A s \in DOMAIN lines : reader[s] = "ended" => stopped \/ lines[s] = {}
  /\ outcome = "canceled" => stopped
  /\ outcome \in {"done", "failed"} =>
       lineChan = <<>> /\ buffer = <<>> /\ \A s \in DOMAIN lines : reader[s] # "reading"
  /\ outcome = "done" => \A s \in DOMAIN lines : reader[s] = "ended"

(* What the viewer kept is in order, and newer than what it dropped. *)
InSight ==
  /\ Increasing(kept) /\ Elems(kept) \subseteq Elems(emitted)
  /\ \A x \in Elems(emitted) \ Elems(kept) : \E y \in Elems(kept) : x < y

MergeInv == MergeTyped /\ Apart /\ Left /\ Ended /\ InSight

-----------------------------------------------------------------------------
(***************************************************************************)
(* The log in pages.                                                       *)
(*                                                                         *)
(* PagingInv says of what is on screen that it is a run of the log         *)
(* (Whole), of a poll under way that what it has read continues the run    *)
(* (Polled), and of each end what the viewer knows of it (TopKnown,        *)
(* BottomKnown).  It holds if actions take turns (Orderly).                *)
(***************************************************************************)

Time == 1 .. LastTime
Sec(x) == x \div Second

(* The lines of a target that are of the second of x, written or not; and   *)
(* the written ones of t from the second of c on.                           *)
OfSecond(t, x) == {y \in UNION {log[s] : s \in t} : Sec(y) = Sec(x)}
Since(t, c) == {x \in Paging!Lines(t) : Sec(x) >= Sec(c)}
Bursts(t) == \E x \in Time : Cardinality(OfSecond(t, x)) > PageSize
Full(t) == \E x \in Time : Cardinality(OfSecond(t, x)) >= PageSize

(* What is selected: its lines, whether it is of several sources; and of    *)
(* the page reads, whether its seconds fit into a page, and with room.     *)
Selected == Paging!Lines(sel.target)
Several == sel.target \in Merged
FitsPage == ~Bursts(sel.target)
Calm == ~Several \/ FitsPage
Roomy == ~Full(sel.target)

Bottom(v) == v[Len(v)]

(* A run of lines: all between its first and its last; of several sources   *)
(* also all of the last one's second before it.                            *)
RunOf(S, v, m) ==
  /\ Elems(v) = {x \in S : v[1] <= x /\ x <= Bottom(v)}
  /\ m => \A x \in S : x <= Bottom(v) /\ Sec(x) = Sec(Bottom(v)) => v[1] <= x

(* What a poll has read, up to its cursor, continues the run.               *)
Continues(S, v, m, cursor, more) ==
  /\ Bottom(v) <= cursor /\ Increasing(more)
  /\ \A x \in Elems(more) : v[1] <= x /\ x <= cursor
  /\ \A x \in S : Bottom(v) < x /\ x <= cursor => x \in Elems(more)
  /\ IF more = <<>> THEN cursor = Bottom(v) ELSE cursor = Bottom(more)
  /\ m /\ more # <<>> => \A x \in S : x <= cursor /\ Sec(x) = Sec(cursor) => x \in Elems(more)

(* What a poll has read, of which f is not yet on screen. *)
Continued(S, v, m, cursor, more, f) ==
  /\ S \in SUBSET Nat /\ v \in Seq(Nat) /\ m \in BOOLEAN /\ cursor \in S
  /\ more \in Seq(Nat) /\ f \in Seq(Nat) /\ v # <<>>
  /\ RunOf(S, v, m) /\ v[1] \in Elems(v) /\ Bottom(v) \in Elems(v) /\ Elems(v) \subseteq S
  /\ Continues(S, v, m, cursor, more) /\ Elems(more) \subseteq S
  /\ Elems(f) = Elems(more) \ Elems(v) /\ Increasing(f)

(* A page after c, of some of the lines of S. *)
NextPage(S, page, c, P, p) ==
  /\ c \in Time /\ page.more \in BOOLEAN /\ page.lines = p
  /\ p \in Seq(Time) /\ Elems(p) = P /\ Increasing(p) /\ (p = <<>> <=> P = {})
  /\ P # {} => /\ Bottom(p) \in P /\ Bottom(p) \in Nat /\ \A x \in P : x <= Bottom(p)
               /\ Calm => c <= Bottom(p)
  /\ \A x \in S : P # {} /\ c < x /\ x <= Bottom(p) => x \in P
  /\ ~Several => \A x \in P : x > c
  /\ Several => /\ \A x \in P : x > c \/ Sec(x) = Sec(c)
                /\ P = {} \/ ~page.more => \A x \in S : x > c => x \in P
                /\ \A x \in S : P # {} /\ x <= Bottom(p) /\ Sec(x) = Sec(Bottom(p)) => x \in P
  /\ Roomy => ((\E y \in S : y > c) => \E x \in P : x > c)

CallType ==
  [kind : {"fetch", "before", "after", "poll"}, sel : Paging!Selection, cursor : 0 .. LastTime,
   had : BOOLEAN, lines : Seq(Time), pages : 0 .. (MaxPages - 1)]

LoadType ==
  [loading : BOOLEAN, hasBefore : BOOLEAN, hasAfter : BOOLEAN, beforeTs : 0 .. LastTime,
   afterTs : 0 .. LastTime, busy : SUBSET {"before", "after", "poll"}]

PagingTyped ==
  /\ log \in Logs /\ written \in 0 .. LastTime /\ seen \in 0 .. LastTime /\ seen <= written
  /\ sel \in Paging!Selection /\ follow \in BOOLEAN /\ error \in BOOLEAN /\ view \in Seq(Time)
  /\ load \in LoadType /\ calls \in SUBSET CallType /\ missed \in SUBSET {"before", "after"}

(* A fetch is alone; of each other kind there is the call that load knows   *)
(* of, from the top or the bottom of what is on screen.                    *)
CallsKept ==
  /\ \A c \in calls : c.sel = sel /\ (c.kind = "fetch" => calls = {c} /\ load.busy = {})
  /\ \A c, d \in calls : c.kind = d.kind => c = d
  /\ \A k \in {"before", "after", "poll"} : k \in load.busy <=> \E c \in calls : c.kind = k
  /\ load.loading <=> \E c \in calls : c.kind = "fetch"
  /\ load.loading => load.beforeTs = 0 /\ load.afterTs = 0
  /\ "poll" \in load.busy => "after" \notin load.busy /\ Paging!Following
  /\ "after" \in load.busy => ~Paging!Following /\ load.afterTs # 0
  /\ view = <<>> => load.busy = {}
  /\ \A c \in calls : c.kind = "before" => c.cursor = view[1] /\ load.beforeTs = view[1]
  /\ \A c \in calls : c.kind = "after" => c.cursor = Bottom(view)

OfLog ==
  /\ Elems(view) \subseteq Selected
  /\ \A c \in calls : /\ Elems(c.lines) \subseteq Selected
                      /\ c.kind # "fetch" => c.cursor \in Selected
  /\ view # <<>> /\ sel.since # 0 => Since(sel.target, sel.since) # {}

Whole == view # <<>> /\ Calm => RunOf(Selected, view, Several)

Polled == \A c \in calls : (c.kind = "poll" /\ Calm) =>
            Continues(Selected, view, Several, c.cursor, c.lines)

Ordered ==
  ~Several \/ (FitsPage /\ load.afterTs = 0 /\ missed = {} /\ ~load.loading) => Increasing(view)

TopKnown ==
  view # <<>> =>
    /\ load.hasBefore /\ "before" \notin load.busy => load.beforeTs = 0 \/ view[1] < load.beforeTs
    /\ ~load.hasBefore /\ "before" \notin missed /\ ~load.loading => \A x \in Selected : view[1] <= x

BottomKnown ==
  /\ view # <<>> /\ Several /\ FitsPage /\ missed = {} /\ ~load.loading
  /\ \/ sel.mode = "start" /\ ~load.hasAfter
     \/ Paging!Following /\ "poll" \notin load.busy /\ ~error /\ Roomy
  => \A x \in Selected : x <= seen => x <= Bottom(view)

PagingInv ==
  PagingTyped /\ CallsKept /\ OfLog /\ Whole /\ Polled /\ Ordered /\ TopKnown /\ BottomKnown

-----------------------------------------------------------------------------
(* What holds of the part that a behaviour is about. *)
FrontendInv ==
  /\ Inv
  /\ part = "chat" => ChatInv /\ ChatLists
  /\ part = "panel" => PanelInv
  /\ part = "monitor" => MonitorInv
  /\ part = "merge" => MergeInv
  /\ Orderly /\ part = "paging" => PagingInv
=============================================================================
