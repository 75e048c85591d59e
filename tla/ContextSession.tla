--------------------------- MODULE ContextSession ---------------------------
(***************************************************************************)
(* The session of the frontend with one cluster (K8sContext.tsx): the      *)
(* current context, the transaction that switches it, the load that        *)
(* follows, the namespace options and the selection saved per context.     *)
(* A state setter of React takes effect in `set`; what a render has seen,  *)
(* and the effects it runs, work with `seen`.  Setters between two renders *)
(* are batched: Render takes them all.                                     *)
(***************************************************************************)
EXTENDS Integers, FiniteSets

CONSTANTS
  Contexts, Names,
  Switches,   \* transactions that may be under way at the same time
  Requests,   \* namespace requests that may be under way at the same time
  NoContext, NoRequest,
  MaxEvents,  \* bound on the watch events on their way to the frontend
  Orderly     \* whether the user waits for a switch to end before the next

ASSUME SessionAssumption ==
  /\ NoContext \notin Contexts /\ NoRequest \notin Requests
  /\ "" \notin Names /\ "*" \notin Names
  /\ MaxEvents \in Nat /\ Orderly \in BOOLEAN

VARIABLES
  client,   \* the backend's current context
  watching, \* the context whose namespaces the backend watches for the frontend
  asking,   \* whether the frontend's SubscribeResourceWatcher is on its way
  events,   \* contexts of which a namespace event is on its way
  switch,   \* the transactions
  request,  \* the namespace requests
  slot,     \* namespaceRefreshPromiseRef
  load,     \* the request the newest load waits for, or NoRequest
  ref,      \* currentContextRef
  options,  \* namespacesRef, each name with the context it came from; empty
            \* before the first list
  set, seen,\* React state as set and as last rendered
  saved     \* localStorage: context -> saved selection

vars == <<client, watching, asking, events, switch, request, slot, load, ref,
          options, set, seen, saved>>
backend == <<client, watching, asking, events>>

All == {"*"}
Selections == {All} \cup (SUBSET Names \ {{}})
Idle == [at |-> "idle", to |-> NoContext]
Unused == [at |-> "unused", ctx |-> NoContext, background |-> FALSE]
Initial == [ctx |-> NoContext, selected |-> All, loading |-> FALSE, connecting |-> TRUE,
            error |-> FALSE, retry |-> FALSE]

State == [ctx : Contexts \cup {NoContext}, selected : Selections, loading : BOOLEAN,
          connecting : BOOLEAN, error : BOOLEAN, retry : BOOLEAN]

Request == [at : {"unused", "listing"}, ctx : Contexts \cup {NoContext}, background : BOOLEAN]
Switch == [at : {"idle", "sent", "done"}, to : Contexts \cup {NoContext}]

TypeOK ==
  /\ client \in Contexts /\ watching \in Contexts \cup {NoContext} /\ asking \in BOOLEAN
  /\ events \subseteq Contexts
  /\ switch \in [Switches -> Switch] /\ request \in [Requests -> Request]
  /\ slot \in Requests \cup {NoRequest} /\ load \in Requests \cup {NoRequest}
  /\ ref \in Contexts \cup {NoContext}
  /\ options \subseteq (Contexts \X (Names \cup {""}))
  /\ set \in State /\ seen \in State
  /\ saved \in [Contexts -> Selections]

Init ==
  /\ client \in Contexts
  /\ watching = NoContext /\ asking = FALSE /\ events = {}
  /\ switch = [s \in Switches |-> Idle] /\ request = [r \in Requests |-> Unused]
  /\ slot = NoRequest /\ load = NoRequest /\ ref = NoContext /\ options = {}
  /\ set = Initial /\ seen = Initial
  /\ saved \in [Contexts -> Selections]

Busy == \E s \in Switches : switch[s].at # "idle"
Offered(opts) == {o[2] : o \in opts} \ {""}

(* Mutant: an empty selection stays empty. *)
PruneToNothing(sel, opts) == sel \cap (All \cup Offered(opts))

(* pruneSelectedNamespaces, and the rule of setSelectedNamespaces that an   *)
(* empty selection means all.                                               *)
Prune(sel, opts) ==
  LET kept == sel \cap (All \cup Offered(opts)) IN IF kept = {} THEN All ELSE kept

-----------------------------------------------------------------------------
(* Start of the application: fetchContexts.  The last context is restored   *)
(* if the backend can switch to it.                                         *)
FetchContexts(c) ==
  /\ set.ctx = NoContext /\ seen = set
  /\ client' = c
  /\ set' = [set EXCEPT !.ctx = c, !.selected = saved[c]]
  /\ UNCHANGED <<watching, asking, events, switch, request, slot, load, ref, options, seen, saved>>

(* The application is closed and started again: localStorage stays, and the *)
(* backend starts with any context (FetchContexts).                         *)
Restart ==
  /\ set.ctx # NoContext
  /\ watching' = NoContext /\ asking' = FALSE /\ events' = {}
  /\ switch' = [s \in Switches |-> Idle] /\ request' = [r \in Requests |-> Unused]
  /\ slot' = NoRequest /\ load' = NoRequest /\ ref' = NoContext /\ options' = {}
  /\ set' = Initial /\ seen' = Initial
  /\ UNCHANGED <<client, saved>>

-----------------------------------------------------------------------------
(* runContextSwitchTransaction.  The callback compares with the context it  *)
(* was rendered with.                                                       *)
SwitchContext(s, c) ==
  /\ switch[s].at = "idle" /\ seen.ctx # NoContext /\ seen.ctx # c
  /\ Orderly => ~Busy /\ set.ctx = seen.ctx
  /\ switch' = [switch EXCEPT ![s] = [at |-> "sent", to |-> c]]
  /\ set' = [set EXCEPT !.connecting = TRUE, !.loading = TRUE]
  /\ UNCHANGED <<backend, request, slot, load, ref, options, seen, saved>>

(* The backend's SwitchContext succeeds: it stops every watch. *)
ServeSwitch(s) ==
  /\ switch[s].at = "sent"
  /\ switch' = [switch EXCEPT ![s].at = "done"]
  /\ client' = switch[s].to /\ watching' = NoContext
  /\ UNCHANGED <<asking, events, request, slot, load, ref, options, set, seen, saved>>

(* Mutant: the pending indicator is cleared only after a success. *)
RejectedPending(s) ==
  /\ switch[s].at = "sent"
  /\ switch' = [switch EXCEPT ![s] = Idle]
  /\ UNCHANGED <<backend, request, slot, load, ref, options, set, seen, saved>>

(* The backend refuses, which changes nothing there; a rejected switch only *)
(* clears the pending indicator.                                            *)
Rejected(s) ==
  /\ switch[s].at = "sent"
  /\ switch' = [switch EXCEPT ![s] = Idle]
  /\ set' = [set EXCEPT !.connecting = FALSE, !.loading = FALSE]
  /\ UNCHANGED <<backend, request, slot, load, ref, options, seen, saved>>

(* Mutant: the options of the old context stay. *)
CommitKeepingOptions(s) ==
  /\ switch[s].at = "done"
  /\ switch' = [switch EXCEPT ![s] = Idle]
  /\ ref' = switch[s].to
  /\ set' = [set EXCEPT !.ctx = switch[s].to, !.selected = All, !.error = FALSE,
                        !.connecting = FALSE, !.loading = FALSE]
  /\ UNCHANGED <<backend, request, slot, load, options, seen, saved>>

(* commit, then setPending(false), in one batch. *)
Commit(s) ==
  /\ switch[s].at = "done"
  /\ switch' = [switch EXCEPT ![s] = Idle]
  /\ ref' = switch[s].to /\ options' = {}
  /\ set' = [set EXCEPT !.ctx = switch[s].to, !.selected = All, !.error = FALSE,
                        !.connecting = FALSE, !.loading = FALSE]
  /\ UNCHANGED <<backend, request, slot, load, seen, saved>>

-----------------------------------------------------------------------------
(* The effects a render runs.                                               *)

(* refreshNamespacesInternal: the request of its context in the slot is     *)
(* shared, otherwise a new one takes the slot.                              *)
Shared(c) == slot # NoRequest /\ request[slot].ctx = c

Refresh(c, background, r) ==
  IF Shared(c) THEN r = slot /\ UNCHANGED <<request, slot>>
  ELSE /\ request[r].at = "unused"
       /\ request' = [request EXCEPT ![r] = [at |-> "listing", ctx |-> c, background |-> background]]
       /\ slot' = r

(* The load runs again when the context changed or a retry was asked for. *)
Reload == set.ctx # NoContext /\ (set.ctx # seen.ctx \/ set.retry)

(* Mutant: the effect does not depend on the selection. *)
SavesLate ==
  /\ set.ctx # NoContext /\ ~set.loading
  /\ <<set.ctx, set.loading>> # <<seen.ctx, seen.loading>>

(* The effect that saves the selection: not while loading. *)
Saves ==
  /\ set.ctx # NoContext /\ ~set.loading
  /\ <<set.ctx, set.selected, set.loading>> # <<seen.ctx, seen.selected, seen.loading>>

(* Mutant: the watch is not renewed for another context. *)
RewatchOnError == <<set.connecting, set.error>> # <<seen.connecting, seen.error>>

(* The effect that watches the namespaces; its cleanup unsubscribes. *)
Watches(st) == st.ctx # NoContext /\ ~st.connecting /\ ~st.error
Rewatch == <<set.ctx, set.connecting, set.error>> # <<seen.ctx, seen.connecting, seen.error>>

Render ==
  /\ set # seen
  /\ ref' = set.ctx
  /\ IF Reload
     THEN \E r \in Requests :
            /\ Refresh(set.ctx, FALSE, r)
            /\ load' = r
            /\ set' = [set EXCEPT !.loading = TRUE, !.retry = FALSE]
     ELSE UNCHANGED <<request, slot, load, set>>
  /\ seen' = [set EXCEPT !.retry = FALSE]
  /\ saved' = IF Saves THEN [saved EXCEPT ![set.ctx] = set.selected] ELSE saved
  /\ IF Rewatch THEN watching' = NoContext /\ asking' = Watches(set)
                ELSE UNCHANGED <<watching, asking>>
  /\ UNCHANGED <<client, events, switch, options>>

-----------------------------------------------------------------------------
(* Namespace requests.                                                      *)

(* Mutant: the saved selection is restored as it was saved. *)
LoadedUnpruned(r, opts) ==
  IF load = r
  THEN [set EXCEPT !.selected = saved[ref], !.loading = FALSE, !.connecting = FALSE]
  ELSE [set EXCEPT !.selected = Prune(@, opts),
                   !.connecting = @ /\ request[r].background]

(* Answers to a load: the selection is restored from what was saved.        *)
Loaded(r, opts) ==
  IF load = r
  THEN [set EXCEPT !.selected = Prune(saved[ref], opts), !.loading = FALSE, !.connecting = FALSE]
  ELSE [set EXCEPT !.selected = Prune(@, opts),
                   !.connecting = @ /\ request[r].background]

Settle(r) ==
  /\ request' = [request EXCEPT ![r] = Unused]
  /\ slot' = IF slot = r THEN NoRequest ELSE slot
  /\ load' = IF load = r THEN NoRequest ELSE load

(* Mutant: the list is taken whichever context it was asked for. *)
ListedAny(r) ==
  /\ request[r].at = "listing" /\ Settle(r)
  /\ \E found \in SUBSET Names : LET opts == {request[r].ctx} \X ({""} \cup found) IN
       /\ options' = opts
       /\ set' = Loaded(r, opts)
  /\ UNCHANGED <<backend, switch, ref, seen, saved>>

(* The list arrives, whatever the cluster holds by now.  It is dropped if   *)
(* the context changed meanwhile, and so is the load that waited for it.    *)
Listed(r) ==
  /\ request[r].at = "listing" /\ Settle(r)
  /\ IF request[r].ctx = ref
     THEN \E found \in SUBSET Names : LET opts == {ref} \X ({""} \cup found) IN
            /\ options' = opts
            /\ set' = Loaded(r, opts)
     ELSE UNCHANGED <<options, set>>
  /\ UNCHANGED <<backend, switch, ref, seen, saved>>

(* Mutant: a load that fails leaves its indicators on. *)
ListFailedSilently(r) ==
  /\ request[r].at = "listing" /\ Settle(r)
  /\ UNCHANGED <<backend, switch, ref, options, set, seen, saved>>

(* The request fails or reaches its deadline.  A load that shared a request *)
(* of the background ends without an error.                                 *)
ListFailed(r) ==
  /\ request[r].at = "listing" /\ Settle(r)
  /\ set' = IF request[r].ctx # ref THEN set
            ELSE [set EXCEPT !.error = @ \/ ~request[r].background,
                             !.loading = @ /\ load # r,
                             !.connecting = @ /\ load # r /\ request[r].background]
  /\ UNCHANGED <<backend, switch, ref, options, seen, saved>>

(* fetchNamespaces: a refresh by the user, by a poll or after a watch gap. *)
FetchNamespaces(r) ==
  /\ seen.ctx # NoContext /\ ~Shared(seen.ctx)
  /\ Refresh(seen.ctx, TRUE, r)
  /\ UNCHANGED <<backend, switch, load, ref, options, set, seen, saved>>

RetryConnection ==
  /\ seen.error
  /\ set' = [set EXCEPT !.error = FALSE, !.connecting = TRUE, !.retry = TRUE]
  /\ UNCHANGED <<backend, switch, request, slot, load, ref, options, seen, saved>>

SelectNamespaces(sel) ==
  /\ seen.ctx # NoContext /\ ~seen.connecting /\ sel \subseteq All \cup Offered(options)
  /\ set' = [set EXCEPT !.selected = sel]
  /\ set' # set
  /\ UNCHANGED <<backend, switch, request, slot, load, ref, options, seen, saved>>

-----------------------------------------------------------------------------
(* The watch of the namespaces.                                             *)

(* The subscription is served by the client of the moment. *)
Subscribe ==
  /\ asking
  /\ asking' = FALSE /\ watching' = client
  /\ UNCHANGED <<client, events, switch, request, slot, load, ref, options, set, seen, saved>>

(* The watch reports a namespace that was created or deleted (external);    *)
(* which one is settled when the event is handled.                          *)
ChangeNamespace ==
  /\ watching # NoContext /\ Cardinality(events) < MaxEvents
  /\ events' = events \cup {watching}
  /\ UNCHANGED <<client, watching, asking, switch, request, slot, load, ref, options, set, seen, saved>>

(* applyNamespaceEvent. *)
Applied(c, n, deleted) ==
  IF deleted THEN {o \in options : o[2] # n}
  ELSE IF n \in Offered(options) THEN options
  ELSE options \cup {<<c, "">>, <<c, n>>}

(* Mutant: the event is applied whichever context it comes from. *)
NamespaceEventAny(c, n, deleted) ==
  /\ c \in events /\ events' = events \ {c}
  /\ options' = Applied(c, n, deleted)
  /\ set' = IF options' # options THEN [set EXCEPT !.selected = Prune(@, options')] ELSE set
  /\ UNCHANGED <<client, watching, asking, switch, request, slot, load, ref, seen, saved>>

(* Mutant: the selection is left as it is. *)
NamespaceEventUnpruned(c, n, deleted) ==
  /\ c \in events /\ events' = events \ {c}
  /\ IF c = ref /\ seen.ctx = ref /\ Watches(seen)
     THEN options' = Applied(c, n, deleted) ELSE UNCHANGED options
  /\ UNCHANGED <<client, watching, asking, switch, request, slot, load, ref, set, seen, saved>>

(* handleEvent drops what comes from another context, and what reaches the  *)
(* handler of a render whose context is no longer the current one.          *)
NamespaceEvent(c, n, deleted) ==
  /\ c \in events /\ events' = events \ {c}
  /\ IF c = ref /\ seen.ctx = ref /\ Watches(seen)
     THEN /\ options' = Applied(c, n, deleted)
          /\ set' = IF options' # options THEN [set EXCEPT !.selected = Prune(@, options')] ELSE set
     ELSE UNCHANGED <<options, set>>
  /\ UNCHANGED <<client, watching, asking, switch, request, slot, load, ref, seen, saved>>

Next ==
  \/ \E c \in Contexts : FetchContexts(c) \/ \E s \in Switches : SwitchContext(s, c)
  \/ Restart \/ Render \/ RetryConnection \/ Subscribe
  \/ \E s \in Switches : ServeSwitch(s) \/ Commit(s) \/ Rejected(s)
  \/ \E r \in Requests : Listed(r) \/ ListFailed(r) \/ FetchNamespaces(r)
  \/ \E sel \in Selections : SelectNamespaces(sel)
  \/ ChangeNamespace
  \/ \E c \in events, n \in Names, deleted \in BOOLEAN : NamespaceEvent(c, n, deleted)

Spec == Init /\ [][Next]_vars

(* Calls of the backend end (namespace requests have a deadline) and React  *)
(* renders.                                                                 *)
Fairness ==
  /\ WF_vars(Render) /\ WF_vars(Subscribe)
  /\ \A s \in Switches : WF_vars(ServeSwitch(s) \/ Rejected(s)) /\ WF_vars(Commit(s))
  /\ \A r \in Requests : WF_vars(Listed(r) \/ ListFailed(r))

FairSpec == Spec /\ Fairness

-----------------------------------------------------------------------------
Quiet ==
  /\ ~Busy /\ set = seen /\ ~asking /\ slot = NoRequest /\ load = NoRequest
  /\ seen.ctx # NoContext

(* The namespace selector never offers a namespace of another context, also *)
(* while lists and events of a context that was left are on their way.      *)
OptionsBelong == \A o \in options : o[1] = ref

(* Once namespaces are offered, what is selected is among them: a selection *)
(* that was saved, or of a namespace that is gone, is pruned.               *)
SelectionOffered == options # {} => set.selected \subseteq All \cup Offered(options)

(* What is saved for the current context is what is selected, so a restart  *)
(* finds it again.                                                          *)
SavedIsSelected == Quiet /\ ~seen.loading => saved[seen.ctx] = seen.selected

(* What is offered, selected and saved agree.                               *)
SelectionSound == OptionsBelong /\ SelectionOffered /\ SavedIsSelected

(* When all calls have ended, the frontend shows the context the backend    *)
(* works with, and its namespaces are watched.                              *)
QuietIsLive ==
  Orderly /\ Quiet /\ ~seen.connecting /\ ~seen.error =>
    client = seen.ctx /\ watching = seen.ctx

(* The indicators of a switch and of a load go off, whatever fails.         *)
IndicatorsEnd ==
  /\ set.loading ~> ~set.loading
  /\ set.ctx # NoContext /\ set.connecting ~> ~set.connecting \/ set.ctx = NoContext

(* Switching to a context leaves the selection that was saved for it        *)
(* alone: it is there to be restored when its namespaces are loaded.        *)
SwitchKeepsSaved == [][\A c \in Contexts : saved'[c] # saved[c] => seen.ctx = c]_vars

(* The purpose of the guard in switchContext, without its precondition: no  *)
(* switch leaves a context current whose watch was stopped.                 *)
SwitchKeepsWatch == Quiet /\ Watches(seen) => watching = seen.ctx
=============================================================================
