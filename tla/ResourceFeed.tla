---------------------------- MODULE ResourceFeed ----------------------------
(***************************************************************************)
(* How the rows of a mounted resource view follow the cluster: a watch     *)
(* loop per namespace (app_watchers.go), the frame buffer (FrameBuffer, the *)
(* abstraction EventCoalescer implements), the frontend's event queue, the *)
(* reducer that applies events to rows, the list request with its journal  *)
(* (useResource.tsx) and the re-list that a reconnecting watcher triggers  *)
(* (K8sContext.tsx).  Events and statuses share one queue to the frontend. *)
(***************************************************************************)
EXTENDS ClusterLog

CONSTANTS
  NoEvent,     \* an empty slot of the frame buffer
  MaxChanges,  \* bound: length of the cluster's log
  MaxFaults,   \* bound: failed starts, closed streams, ERROR events, failed lists
  MaxRefresh,  \* bound: refreshes by the user
  Faults       \* which of "close", "expired", "refused", "gone", "error", "list" occur

ASSUME FeedAssumption ==
  /\ {MaxChanges, MaxFaults, MaxRefresh} \subseteq Nat
  /\ Faults \subseteq {"close", "expired", "refused", "gone", "error", "list"}

VARIABLES
  log,        \* the cluster
  loop,       \* namespace -> watch loop and its stream
  buffer,     \* name -> event held by the frame buffer
  wire,       \* messages to the frontend, each a set of events or one status
  rows,       \* uid -> version shown, 0 when there is no row
  fetch,      \* the list request in flight
  journal,    \* eventJournal: batches handled since the fetch began
  loaded,     \* loadedScope: a list has completed
  failed,     \* the view shows an error
  prevStatus, \* watcherPrevStatusRef of the resource type
  reconcile,  \* the 500 ms reconcile timer is armed
  faults, refreshes,
  starts,     \* history: streams started without a resource version
  silent,     \* history: namespaces whose last such start was not announced
  synced      \* history: namespaces listed since, with nothing older in flight

cluster == <<log>>
backend == <<loop, buffer, starts, silent>>
view == <<rows, fetch, journal, loaded, failed, synced>>
trigger == <<prevStatus, reconcile>>
budget == <<faults, refreshes>>
vars == <<cluster, backend, wire, view, trigger, budget>>

Event ==
  [type : {"ADDED", "MODIFIED", "DELETED"}, key : Names, uid : Uids,
   ver : 1..MaxChanges, terminating : BOOLEAN, start : Nat]

ASSUME SlotAssumption == NoEvent \notin Event

Status == [type : {"connected", "reconnecting"}, scope : Scopes]

Buffer == INSTANCE FrameBuffer WITH Keys <- Names

NoRows == [u \in Uids |-> 0]

(* readAt: the start of the namespace's watch that its list followed. *)
NewFetch ==
  [on |-> TRUE, read |-> {}, items |-> NoRows, readAt |-> [s \in Scopes |-> 0]]

NoFetch == [NewFetch EXCEPT !.on = FALSE]

TypeOK ==
  /\ log \in Seq(Change) /\ Len(log) <= MaxChanges
  /\ loop \in [Scopes -> [pc : {"connecting", "open", "waiting"}, rv : 0..MaxChanges,
                          pos : 0..MaxChanges, fresh : SUBSET Uids, quiet : BOOLEAN]]
  /\ buffer \in [Names -> Event \cup {NoEvent}]
  /\ wire \in Seq((SUBSET Event) \cup {{st} : st \in Status})
  /\ rows \in [Uids -> 0..MaxChanges]
  /\ fetch \in [on : BOOLEAN, read : SUBSET Scopes, items : [Uids -> 0..MaxChanges],
                readAt : [Scopes -> Nat]]
  /\ journal \in Seq(SUBSET Event)
  /\ {loaded, failed, reconcile} \subseteq BOOLEAN
  /\ prevStatus \in {"none", "connected", "reconnecting"}
  /\ faults \in 0..MaxFaults /\ refreshes \in 0..MaxRefresh
  /\ starts \in [Scopes -> Nat]
  /\ {synced, silent} \subseteq SUBSET Scopes

(* The view has just mounted: its effects have started a list and have     *)
(* subscribed a watcher for every namespace; neither has reached the API.  *)
Init ==
  /\ log = <<>>
  /\ loop = [s \in Scopes |-> [pc |-> "connecting", rv |-> 0, pos |-> 0,
                             fresh |-> {}, quiet |-> FALSE]]
  /\ buffer = [k \in Names |-> NoEvent]
  /\ wire = <<>>
  /\ rows = NoRows
  /\ fetch = NewFetch
  /\ journal = <<>>
  /\ loaded = FALSE /\ failed = FALSE
  /\ prevStatus = "none" /\ reconcile = FALSE
  /\ faults = 0 /\ refreshes = 0
  /\ starts = [s \in Scopes |-> 0]
  /\ synced = {} /\ silent = {}

-----------------------------------------------------------------------------
(* The cluster and the watch loops.                                        *)

ClusterChanges(c) ==
  /\ Len(log) < MaxChanges
  /\ Legal(log, c)
  /\ log' = Append(log, c)
  /\ UNCHANGED <<backend, wire, view, trigger, budget>>

Fault(f) == f \in Faults /\ faults < MaxFaults /\ faults' = faults + 1

PostStatus(s, status) == wire' = Append(wire, {[type |-> status, scope |-> s]})

Emit(e) == IF e.type = "DELETED" THEN Buffer!Bypass(e) ELSE Buffer!Store(e)

(* The stream opens: with a resource version it resumes there, without one *)
(* it starts from the objects of this moment.                              *)
Connect(s) ==
  /\ loop[s].pc = "connecting"
  /\ PostStatus(s, "connected")
  /\ IF loop[s].rv = 0
     THEN /\ loop' = [loop EXCEPT ![s] =
               [pc |-> "open", rv |-> 0, pos |-> Len(log), quiet |-> FALSE,
                fresh |-> {u \in Uids : ScopeOf[u] = s /\ Live(log, u, Len(log))}]]
          /\ starts' = [starts EXCEPT ![s] = @ + 1]
          /\ silent' = IF loop[s].quiet THEN silent \cup {s} ELSE silent \ {s}
          /\ synced' = synced \ {s}
     ELSE /\ loop' = [loop EXCEPT ![s].pc = "open", ![s].pos = loop[s].rv,
                                 ![s].fresh = {}, ![s].quiet = FALSE]
          /\ UNCHANGED <<starts, silent, synced>>
  /\ UNCHANGED <<cluster, buffer, rows, fetch, journal, loaded, failed, trigger, budget>>

(* WatchResource fails; "too old" and "expired" clear the resource version. *)
StartFails(s, f) ==
  /\ loop[s].pc = "connecting"
  /\ f \in {"expired", "refused"}
  /\ f = "expired" => loop[s].rv # 0
  /\ Fault(f)
  /\ PostStatus(s, "reconnecting")
  /\ loop' = [loop EXCEPT ![s].pc = "waiting", ![s].rv = IF f = "expired" THEN 0 ELSE @]
  /\ UNCHANGED <<cluster, buffer, starts, silent, view, trigger, refreshes>>

(* Mutant: an update that marks a deletion gets a type of its own. *)
DeliveredRaw(u, i, type) ==
  [type |-> type, key |-> NameOf[u],
   uid |-> u, ver |-> i, terminating |-> log[i].type = "TERMINATING",
   start |-> starts[ScopeOf[u]]]

Delivered(u, i, type) ==
  [type |-> IF type = "TERMINATING" THEN "MODIFIED" ELSE type, key |-> NameOf[u],
   uid |-> u, ver |-> i, terminating |-> log[i].type = "TERMINATING",
   start |-> starts[ScopeOf[u]]]

(* The next event of the stream.  The loop remembers the version of the    *)
(* object, for the initial ADDEDs too, and hands the event to the buffer.  *)
DeliverFresh(s, u) ==
  /\ loop[s].pc = "open"
  /\ u \in loop[s].fresh
  /\ LET i == Version(log, u, loop[s].pos) IN
       /\ Emit(Delivered(u, i, "ADDED"))
       /\ loop' = [loop EXCEPT ![s].rv = i, ![s].fresh = @ \ {u}]
  /\ UNCHANGED <<cluster, starts, silent, view, trigger, budget>>

Deliver(s) ==
  /\ loop[s].pc = "open"
  /\ loop[s].fresh = {}
  /\ \E i \in Ahead(log, s, loop[s].pos) :
       /\ \A j \in Ahead(log, s, loop[s].pos) : i <= j
       /\ Emit(Delivered(log[i].uid, i, log[i].type))
       /\ loop' = [loop EXCEPT ![s].rv = i, ![s].pos = i]
  /\ UNCHANGED <<cluster, starts, silent, view, trigger, budget>>

(* BOOKMARK: the version moves on, nothing is emitted. *)
Bookmark(s) ==
  /\ loop[s].pc = "open"
  /\ loop[s].fresh = {} /\ Ahead(log, s, loop[s].pos) = {}
  /\ loop[s].rv < Len(log)
  /\ loop' = [loop EXCEPT ![s].rv = Len(log), ![s].pos = Len(log)]
  /\ UNCHANGED <<cluster, buffer, starts, silent, wire, view, trigger, budget>>

(* The result channel closes: announce it and wait before reconnecting. *)
StreamCloses(s) ==
  /\ loop[s].pc = "open"
  /\ Fault("close")
  /\ PostStatus(s, "reconnecting")
  /\ loop' = [loop EXCEPT ![s].pc = "waiting"]
  /\ UNCHANGED <<cluster, buffer, starts, silent, view, trigger, refreshes>>

(* An ERROR event: Expired or Gone clears the resource version; the loop   *)
(* reconnects at once and says nothing to the frontend.                    *)
StreamError(s, f) ==
  /\ loop[s].pc = "open"
  /\ f \in {"gone", "error"}
  /\ Fault(f)
  /\ loop' = [loop EXCEPT ![s].pc = "connecting", ![s].quiet = TRUE,
                         ![s].rv = IF f = "gone" THEN 0 ELSE @]
  /\ UNCHANGED <<cluster, buffer, starts, silent, wire, view, trigger, refreshes>>

(* The back-off is at least one second, a frame at most a tenth of that:   *)
(* what was buffered when it began has been posted when it ends.           *)
BackoffEnds(s) ==
  /\ loop[s].pc = "waiting"
  /\ Buffer!Filled = {}
  /\ loop' = [loop EXCEPT ![s].pc = "connecting", ![s].quiet = FALSE]
  /\ UNCHANGED <<cluster, buffer, starts, silent, wire, view, trigger, budget>>

(* A frame of the coalescer. *)
Frame ==
  /\ \E S \in SUBSET Buffer!Filled : Buffer!Release(S)
  /\ UNCHANGED <<cluster, loop, starts, silent, view, trigger, budget>>

-----------------------------------------------------------------------------
(* The frontend.                                                           *)

(* Mutant: a MODIFIED updates rows and never creates one. *)
ReduceNoUpsert(row, e) ==
  CASE e.type = "ADDED" -> IF row = 0 THEN e.ver ELSE row
    [] e.type = "MODIFIED" -> IF row = 0 THEN 0 ELSE e.ver
    [] e.type = "DELETED" -> 0

(* What applyResourceEvents makes of the row of e.uid (0: no row). *)
Reduce(row, e) ==
  CASE e.type = "ADDED" -> IF row = 0 THEN e.ver ELSE row
    [] e.type = "MODIFIED" -> IF row = 0 /\ e.terminating THEN 0 ELSE e.ver
    [] e.type = "DELETED" -> 0

(* A batch holds at most one event of a name, hence of a uid. *)
Apply(map, batch) ==
  [u \in Uids |-> IF \E e \in batch : e.uid = u
                  THEN Reduce(map[u], CHOOSE e \in batch : e.uid = u)
                  ELSE map[u]]

(* Mutant: the list replaces the rows and the journal is forgotten. *)
ApplyNone(map, batches) == map

(* The batches of the journal applied in order: f[i] after the i-th. *)
ApplyAll(map, batches) ==
  LET f[i \in 0..Len(batches)] == IF i = 0 THEN map ELSE Apply(f[i - 1], batches[i])
  IN f[Len(batches)]

HandleBatch ==
  /\ wire # <<>>
  /\ Head(wire) \in SUBSET Event
  /\ wire' = Tail(wire)
  /\ rows' = Apply(rows, Head(wire))
  /\ journal' = IF fetch.on THEN Append(journal, Head(wire)) ELSE journal
  /\ UNCHANGED <<cluster, backend, fetch, loaded, failed, synced, trigger, budget>>

(* handleWatcherStatus: reconnecting -> connected, per resource type. *)
HandleStatus ==
  /\ wire # <<>>
  /\ \E st \in Status :
       /\ Head(wire) = {st}
       /\ wire' = Tail(wire)
       /\ prevStatus' = st.type
       /\ reconcile' = (reconcile \/ (prevStatus = "reconnecting" /\ st.type = "connected"))
  /\ UNCHANGED <<cluster, backend, view, budget>>

(* The effect of useResource runs again: the old request is cancelled and  *)
(* its result will be dropped; a new one starts with an empty journal.     *)
StartFetch ==
  /\ fetch' = NewFetch
  /\ journal' = <<>>
  /\ failed' = FALSE
  /\ UNCHANGED <<rows, loaded, synced>>

ReconcileFires ==
  /\ reconcile
  /\ reconcile' = FALSE
  /\ StartFetch
  /\ UNCHANGED <<cluster, backend, wire, prevStatus, budget>>

Refresh ==
  /\ refreshes < MaxRefresh
  /\ refreshes' = refreshes + 1
  /\ StartFetch
  /\ UNCHANGED <<cluster, backend, wire, trigger, faults>>

(* The API server answers the list request of namespace s. *)
ListRead(s) ==
  /\ fetch.on /\ s \notin fetch.read
  /\ fetch' = [fetch EXCEPT !.read = @ \cup {s},
       !.items = [u \in Uids |-> IF ScopeOf[u] = s THEN Listed(log, {s}, Len(log))[u] ELSE @[u]],
       !.readAt[s] = starts[s]]
  /\ UNCHANGED <<cluster, backend, wire, rows, journal, loaded, failed, synced, trigger, budget>>

(* list-page: on the first load the pages so far are shown as they come. *)
PageArrives(S) ==
  /\ fetch.on /\ ~loaded
  /\ S \subseteq {u \in Uids : fetch.items[u] # 0}
  /\ rows' = ApplyAll([u \in Uids |-> IF u \in S THEN fetch.items[u] ELSE 0], journal)
  /\ UNCHANGED <<cluster, backend, wire, fetch, journal, loaded, failed, synced, trigger, budget>>

(* Events on their way to the rows, of an earlier start of namespace s. *)
InFlight ==
  UNION ({{buffer[k]} : k \in Buffer!Filled} \cup {journal[i] : i \in DOMAIN journal}
         \cup {wire[i] \cap Event : i \in DOMAIN wire})

OlderInFlight(s) == \E e \in InFlight : ScopeOf[e.uid] = s /\ e.start < starts[s]

ListDone ==
  /\ fetch.on /\ fetch.read = Scopes
  /\ synced' = {s \in Scopes : /\ starts[s] > 0 /\ fetch.readAt[s] = starts[s]
                               /\ ~OlderInFlight(s)}
  /\ rows' = ApplyAll(fetch.items, journal)
  /\ loaded' = TRUE
  /\ fetch' = NoFetch
  /\ journal' = <<>>
  /\ UNCHANGED <<cluster, backend, wire, failed, trigger, budget>>

ListFails ==
  /\ fetch.on
  /\ Fault("list")
  /\ failed' = TRUE
  /\ fetch' = NoFetch
  /\ journal' = <<>>
  /\ UNCHANGED <<cluster, backend, wire, rows, loaded, synced, trigger, refreshes>>

Next ==
  \/ \E c \in Change : ClusterChanges(c)
  \/ \E s \in Scopes :
       \/ Connect(s) \/ Deliver(s) \/ Bookmark(s) \/ StreamCloses(s) \/ BackoffEnds(s)
       \/ \E u \in Uids : DeliverFresh(s, u)
       \/ \E f \in Faults : StartFails(s, f) \/ StreamError(s, f)
       \/ ListRead(s)
  \/ Frame \/ HandleBatch \/ HandleStatus \/ ReconcileFires \/ Refresh
  \/ \E S \in SUBSET Uids : PageArrives(S)
  \/ ListDone \/ ListFails

Spec == Init /\ [][Next]_vars

(* Loops keep connecting and reading, frames and timers run, the frontend  *)
(* handles its queue, the API server answers.  Faults and changes are the  *)
(* environment's.                                                          *)
Fairness ==
  /\ \A s \in Scopes :
       /\ WF_vars(Connect(s)) /\ WF_vars(Deliver(s)) /\ WF_vars(BackoffEnds(s))
       /\ WF_vars(\E u \in Uids : DeliverFresh(s, u))
       /\ WF_vars(ListRead(s))
  /\ WF_vars(Frame) /\ WF_vars(HandleBatch) /\ WF_vars(HandleStatus)
  /\ WF_vars(ReconcileFires) /\ WF_vars(ListDone)

FairSpec == Spec /\ Fairness

-----------------------------------------------------------------------------
(* Every stream has been read to its end, every message handled, no list   *)
(* or timer is running: what the user sees now stays until something new.  *)
Quiescent ==
  /\ \A s \in Scopes : /\ loop[s].pc = "open"
                       /\ loop[s].fresh = {} /\ Ahead(log, s, loop[s].pos) = {}
  /\ Buffer!Filled = {} /\ wire = <<>>
  /\ ~fetch.on /\ ~reconcile

Now(u) == Listed(log, Scopes, Len(log))[u]

Terminating(u) == Now(u) # 0 /\ log[Now(u)].type = "TERMINATING"

(* The row of u is the object in its current version; only an object that  *)
(* is already being deleted may have no row.                               *)
Fresh(u) == rows[u] = Now(u) \/ (rows[u] = 0 /\ Terminating(u))

Restarted(s) == starts[s] > 1

(* List and watch add up: a list that was read after the current watch had *)
(* begun, when nothing older was on its way, leaves the rows exact once    *)
(* everything has been handled.  Whatever else happens in between: events  *)
(* coalesced, resumed streams that repeat events, errors, refreshes that   *)
(* cancel a list, events that reach the list before or after it is shown.  *)
SyncedConverges == Quiescent => \A u \in Uids : ScopeOf[u] \in synced => Fresh(u)

(* No ghosts after a restart: when a watcher lost its resource version and *)
(* started again from "now", the view is exact all the same, whatever was  *)
(* created, changed or deleted in the gap, because the status change the   *)
(* loop announces makes the frontend list again.  (For restarts that are   *)
(* announced; RestartIsReconciled drops the condition.)                    *)
AnnouncedRestartIsReconciled ==
  Quiescent /\ ~failed =>
    \A u \in Uids : Restarted(ScopeOf[u]) /\ ScopeOf[u] \notin silent => Fresh(u)

(* The rows add up, after a list and after a restart.                       *)
RowsExact == SyncedConverges /\ AnnouncedRestartIsReconciled

(* What the frontend promises: no restart from "now" leaves ghosts.        *)
RestartIsReconciled ==
  Quiescent /\ ~failed => \A u \in Uids : Restarted(ScopeOf[u]) => Fresh(u)

(* The view settles: after a restart the rows become exact, or the view    *)
(* says that the list failed.                                              *)
Reconciles ==
  \A s \in Scopes : Restarted(s) ~>
     failed \/ s \in silent \/
     (Quiescent /\ \A u \in Uids : ScopeOf[u] = s => Fresh(u))
=============================================================================
