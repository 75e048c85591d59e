------------------------ MODULE ContextSession_proofs ------------------------
(***************************************************************************)
(* Proofs about ContextSession for every set of contexts, namespaces,      *)
(* transactions and requests.                                              *)
(***************************************************************************)
EXTENDS ContextSession, TLAPS

(* A request under way has a context, and so has a transaction. *)
Typed ==
  /\ TypeOK
  /\ \A r \in Requests : request[r].at = "listing" => request[r].ctx \in Contexts
  /\ \A s \in Switches : switch[s].at # "idle" => switch[s].to \in Contexts

(* The reference runs ahead of nothing: it is the context that was set, or  *)
(* nothing was loaded yet.                                                  *)
Aligned ==
  /\ ref = set.ctx \/ (ref = NoContext /\ options = {})
  /\ set.ctx = NoContext => options = {}

(* What the last render saw is saved. *)
Persisted == seen.ctx # NoContext /\ ~seen.loading => saved[seen.ctx] = seen.selected

Inv == Typed /\ Aligned /\ OptionsBelong /\ SelectionOffered /\ Persisted

(* A pruned selection is a selection, of all or of names that are offered. *)
LEMMA PruneType ==
  ASSUME NEW sel \in Selections, NEW opts
  PROVE  Prune(sel, opts) \in Selections /\ Prune(sel, opts) \subseteq All \cup Offered(opts)
<1> DEFINE kept == sel \cap (All \cup Offered(opts))
<1>1. kept = {} \/ kept \in Selections
  <2>1. CASE sel = All
    BY <2>1 DEF Selections, All
  <2>2. CASE sel \in SUBSET Names \ {{}}
    <3>1. kept \in SUBSET Names
      BY <2>2
    <3>2. QED
      BY <3>1 DEF Selections
  <2>3. QED
    BY <2>1, <2>2 DEF Selections
<1>2. CASE kept = {}
  BY <1>2 DEF Prune, Selections
<1>3. CASE kept # {}
  BY <1>1, <1>3 DEF Prune
<1>4. QED
  BY <1>2, <1>3

(* All names is a selection. *)
LEMMA AllType == All \in Selections
BY DEF Selections

(* The start. *)
LEMMA InitInv == Init => Inv
<1> SUFFICES ASSUME Init PROVE Inv
  OBVIOUS
<1>1. Initial \in State /\ Idle \in Switch /\ Unused \in Request
  BY AllType DEF Initial, Idle, Unused, State, Switch, Request
<1>2. Typed
  <2>1. /\ \A s \in Switches : switch[s].at = "idle"
        /\ \A r \in Requests : request[r].at = "unused"
    BY DEF Init, Idle, Unused
  <2>2. TypeOK
    BY <1>1 DEF Init, TypeOK
  <2>3. QED
    BY <2>1, <2>2 DEF Typed
<1>3. Aligned /\ OptionsBelong /\ SelectionOffered /\ Persisted
  BY DEF Init, Initial, Aligned, OptionsBelong, SelectionOffered, Persisted
<1>4. QED
  BY <1>2, <1>3 DEF Inv

-----------------------------------------------------------------------------
(* The steps, one lemma each for those that do more than copy. *)

(* What the frontend keeps stays true. *)
LEMMA FrameInv ==
  ASSUME Inv, Typed', UNCHANGED <<ref, options, set, seen, saved>>
  PROVE  Inv'
BY DEF Inv, Aligned, OptionsBelong, SelectionOffered, Persisted, Offered

LEMMA RenderInv == ASSUME Inv, Render PROVE Inv'
<1> USE SessionAssumption DEF Inv
<1>1. PICK r \in Requests \cup {NoRequest} :
        \/ Refresh(set.ctx, FALSE, r) /\ load' = r /\ Reload /\ r \in Requests
           /\ set' = [set EXCEPT !.loading = TRUE, !.retry = FALSE]
        \/ UNCHANGED <<request, slot, load, set>>
  BY DEF Render
<1>2. /\ set'.ctx = set.ctx /\ set'.selected = set.selected /\ set' \in State
      /\ seen' \in State /\ seen'.ctx = set.ctx /\ seen'.selected = set.selected
      /\ seen'.loading = set.loading
  BY <1>1 DEF Typed, TypeOK, State, Request, Switch, Render
<1>3. /\ request' \in [Requests -> Request]
      /\ slot' \in Requests \cup {NoRequest} /\ load' \in Requests \cup {NoRequest}
      /\ \A q \in Requests : request'[q].at = "listing" => request'[q].ctx \in Contexts
  <2>1. CASE UNCHANGED <<request, slot, load, set>>
    BY <2>1 DEF Typed, TypeOK, State, Request, Switch
  <2>2. CASE Refresh(set.ctx, FALSE, r) /\ load' = r /\ Reload /\ r \in Requests
    <3>1. set.ctx \in Contexts
      BY <2>2 DEF Reload, Typed, TypeOK, State, Request, Switch
    <3>2. CASE Shared(set.ctx)
      BY <2>2, <3>2 DEF Refresh, Typed, TypeOK, State, Request, Switch
    <3>3. CASE ~Shared(set.ctx)
      <4>1. request' = [request EXCEPT ![r] = [at |-> "listing", ctx |-> set.ctx, background |-> FALSE]]
            /\ slot' = r /\ load' = r
        BY <2>2, <3>3 DEF Refresh
      <4>2. [at |-> "listing", ctx |-> set.ctx, background |-> FALSE] \in Request
        BY <3>1 DEF Request
      <4>3. QED
        BY <2>2, <3>1, <4>1, <4>2 DEF Typed, TypeOK, State, Request, Switch
    <3>4. QED
      BY <3>2, <3>3
  <2>3. QED
    BY <1>1, <2>1, <2>2
<1>4. saved' \in [Contexts -> Selections] /\ Persisted'
  <2>1. CASE Saves
    BY <1>2, <2>1 DEF Render, Saves, Typed, TypeOK, State, Request, Switch, Persisted
  <2>2. CASE ~Saves
    BY <1>2, <2>2 DEF Render, Saves, Typed, TypeOK, State, Request, Switch, Persisted
  <2>3. QED
    BY <2>1, <2>2
<1>5. Typed'
  <2>1. watching' \in Contexts \cup {NoContext} /\ asking' \in BOOLEAN
    BY DEF Render, Typed, TypeOK, State, Request, Switch, Watches, State
  <2>2. QED
    BY <1>2, <1>3, <1>4, <2>1 DEF Render, Typed, TypeOK, State, Request, Switch
<1>6. Aligned'
  BY <1>2 DEF Aligned, Render
<1>7. OptionsBelong' /\ SelectionOffered'
  BY <1>2 DEF Aligned, OptionsBelong, SelectionOffered, Render, Offered
<1>8. QED
  BY <1>4, <1>5, <1>6, <1>7

(* A request that settles leaves types alone. *)
LEMMA SettleType ==
  ASSUME Typed, NEW r \in Requests, Settle(r)
  PROVE  /\ request' \in [Requests -> Request]
         /\ slot' \in Requests \cup {NoRequest} /\ load' \in Requests \cup {NoRequest}
         /\ \A q \in Requests : request'[q].at = "listing" => request'[q].ctx \in Contexts
BY DEF Typed, TypeOK, State, Request, Switch, Settle, Unused

LEMMA ListedInv == ASSUME Inv, NEW r \in Requests, Listed(r) PROVE Inv'
<1> USE SessionAssumption DEF Inv
<1>1. Settle(r) /\ request[r].ctx \in Contexts
  BY DEF Listed, Typed
<1>2. CASE request[r].ctx # ref
  <2>1. UNCHANGED <<backend, switch, ref, seen, saved, options, set>>
    BY <1>2 DEF Listed
  <2>2. Typed'
    BY <1>1, <2>1, SettleType DEF Typed, TypeOK, backend
  <2>3. QED
    BY <2>1, <2>2, FrameInv
<1>3. CASE request[r].ctx = ref
  <2>1. PICK found \in SUBSET Names :
          options' = {ref} \X ({""} \cup found) /\ set' = Loaded(r, {ref} \X ({""} \cup found))
    BY <1>3 DEF Listed
  <2>2. UNCHANGED <<backend, switch, ref, seen, saved>>
    BY DEF Listed
  <2>3. ref \in Contexts /\ set \in State /\ saved[ref] \in Selections /\ set.selected \in Selections
    BY <1>1, <1>3 DEF Typed, TypeOK, State, Request, Switch
  <2>4. /\ set' \in State /\ set'.ctx = set.ctx
        /\ set'.selected \subseteq All \cup Offered(options')
    <3> DEFINE opts == {ref} \X ({""} \cup found)
    <3>1. /\ Prune(saved[ref], opts) \in Selections /\ Prune(set.selected, opts) \in Selections
          /\ Prune(saved[ref], opts) \subseteq All \cup Offered(opts)
          /\ Prune(set.selected, opts) \subseteq All \cup Offered(opts)
      BY <2>3, PruneType
    <3>2. request[r].background \in BOOLEAN
      BY DEF Typed, TypeOK, State, Request, Switch
    <3> HIDE DEF opts
    <3>3. set' = Loaded(r, opts) /\ options' = opts
      BY <2>1 DEF opts
    <3>4. QED
      BY <2>3, <3>1, <3>2, <3>3 DEF Loaded, State
  <2>5. Typed'
    <3>1. options' \subseteq (Contexts \X (Names \cup {""}))
      BY <2>1, <2>3
    <3>2. QED
      BY <1>1, <2>2, <2>4, <3>1, SettleType DEF Typed, TypeOK, State, Request, Switch, backend
  <2>6. Aligned' /\ OptionsBelong'
    BY <2>1, <2>2, <2>3, <2>4 DEF Aligned, OptionsBelong
  <2>7. QED
    BY <2>2, <2>4, <2>5, <2>6 DEF SelectionOffered, Persisted
<1>4. QED
  BY <1>2, <1>3

LEMMA ListFailedInv == ASSUME Inv, NEW r \in Requests, ListFailed(r) PROVE Inv'
<1> USE SessionAssumption DEF Inv
<1>1. Settle(r) /\ UNCHANGED <<backend, switch, ref, options, seen, saved>>
  BY DEF ListFailed
<1>2. set' \in State /\ set'.ctx = set.ctx /\ set'.selected = set.selected
  BY DEF ListFailed, Typed, TypeOK, State, Request, Switch
<1>3. Typed'
  BY <1>1, <1>2, SettleType DEF Typed, TypeOK, State, Request, Switch, backend
<1>4. QED
  BY <1>1, <1>2, <1>3 DEF Aligned, OptionsBelong, SelectionOffered, Persisted, Offered

LEMMA NamespaceEventInv ==
  ASSUME Inv, NEW c \in events, NEW n \in Names, NEW deleted \in BOOLEAN,
         NamespaceEvent(c, n, deleted)
  PROVE  Inv'
<1> USE SessionAssumption DEF Inv
<1>1. UNCHANGED <<client, watching, asking, switch, request, slot, load, ref, seen, saved>>
      /\ events' \subseteq events /\ c \in Contexts
  BY DEF NamespaceEvent, Typed, TypeOK, State, Request, Switch
<1>2. CASE UNCHANGED <<options, set>>
  <2>1. Typed'
    BY <1>1, <1>2 DEF Typed, TypeOK
  <2>2. QED
    BY <1>1, <1>2, <2>1, FrameInv
<1>3. CASE /\ c = ref /\ options' = Applied(c, n, deleted)
           /\ set' = IF options' # options THEN [set EXCEPT !.selected = Prune(@, options')] ELSE set
  <2>1. options' \subseteq (Contexts \X (Names \cup {""})) /\ \A o \in options' : o[1] = ref
    <3>1. options \subseteq (Contexts \X (Names \cup {""})) /\ \A o \in options : o[1] = ref
      BY DEF Typed, TypeOK, OptionsBelong
    <3>2. <<c, "">> \in Contexts \X (Names \cup {""}) /\ <<c, n>> \in Contexts \X (Names \cup {""})
          /\ <<c, "">>[1] = c /\ <<c, n>>[1] = c
      BY <1>1
    <3>3. CASE options' \subseteq options
      BY <3>1, <3>3
    <3>4. CASE options' = options \cup {<<c, "">>, <<c, n>>}
      BY <1>3, <3>1, <3>2, <3>4
    <3>5. QED
      BY <1>3, <3>3, <3>4 DEF Applied
  <2>2. Prune(set.selected, options') \in Selections
        /\ Prune(set.selected, options') \subseteq All \cup Offered(options')
    BY PruneType DEF Typed, TypeOK, State, Request, Switch
  <2>3. set' \in State /\ set'.ctx = set.ctx
    BY <1>3, <2>2 DEF Typed, TypeOK, State, Request, Switch
  <2>4. SelectionOffered'
    <3>1. CASE options' = options
      BY <1>3, <3>1 DEF SelectionOffered, Offered
    <3>2. CASE options' # options
      BY <1>3, <2>2, <3>2 DEF SelectionOffered, Typed, TypeOK, State, Request, Switch
    <3>3. QED
      BY <3>1, <3>2
  <2>5. Aligned'
    BY <1>1, <1>3, <2>3 DEF Aligned, Applied
  <2>6. Typed'
    BY <1>1, <2>1, <2>3 DEF Typed, TypeOK, State, Request, Switch
  <2>7. QED
    BY <1>1, <2>1, <2>4, <2>5, <2>6 DEF OptionsBelong, Persisted
<1>4. QED
  BY <1>2, <1>3 DEF NamespaceEvent

LEMMA SwitchInv ==
  ASSUME Inv, NEW s \in Switches, NEW c \in Contexts,
         SwitchContext(s, c) \/ ServeSwitch(s) \/ Rejected(s) \/ Commit(s)
  PROVE  Inv'
<1> USE SessionAssumption, AllType DEF Inv
<1>1. CASE SwitchContext(s, c)
  BY <1>1 DEF SwitchContext, backend, Typed, TypeOK, State, Request, Switch, Aligned, OptionsBelong,
              SelectionOffered, Persisted, Offered
<1>2. CASE ServeSwitch(s)
  <2>1. Typed'
    BY <1>2 DEF ServeSwitch, Typed, TypeOK, Switch
  <2>2. QED
    BY <1>2, <2>1, FrameInv DEF ServeSwitch
<1>3. CASE Rejected(s)
  <2>1. set' \in State /\ set'.ctx = set.ctx /\ set'.selected = set.selected
    BY <1>3 DEF Rejected, Typed, TypeOK, State
  <2>2. switch' \in [Switches -> Switch]
        /\ \A t \in Switches : switch'[t].at # "idle" => switch'[t].to \in Contexts
    BY <1>3 DEF Rejected, Idle, Typed, TypeOK, Switch
  <2>3. UNCHANGED <<backend, request, slot, load, ref, options, seen, saved>>
    BY <1>3 DEF Rejected
  <2>4. Typed'
    BY <2>1, <2>2, <2>3 DEF backend, Typed, TypeOK
  <2>5. QED
    BY <2>1, <2>3, <2>4 DEF Aligned, OptionsBelong, SelectionOffered, Persisted, Offered
<1>4. CASE Commit(s)
  <2>1. switch[s].to \in Contexts
    BY <1>4 DEF Commit, Typed
  <2>2. Typed'
    BY <1>4, <2>1 DEF Commit, backend, Idle, Typed, TypeOK, State, Request, Switch
  <2>3. Aligned' /\ OptionsBelong' /\ SelectionOffered' /\ Persisted'
    BY <1>4, <2>1 DEF Commit, Typed, TypeOK, State, Request, Switch, Aligned, OptionsBelong, SelectionOffered, Persisted
  <2>4. QED
    BY <2>2, <2>3
<1>5. QED
  BY <1>1, <1>2, <1>3, <1>4

LEMMA FetchInv == ASSUME Inv, NEW c \in Contexts, FetchContexts(c) PROVE Inv'
BY SessionAssumption DEF Inv, FetchContexts, Typed, TypeOK, State, Request, Switch, Aligned, OptionsBelong,
   SelectionOffered, Persisted

LEMMA UserInv ==
  ASSUME Inv, NEW r \in Requests, NEW sel \in Selections,
         FetchNamespaces(r) \/ RetryConnection \/ SelectNamespaces(sel)
  PROVE  Inv'
<1> USE SessionAssumption DEF Inv
<1>1. CASE FetchNamespaces(r)
  <2>1. seen.ctx \in Contexts
    BY <1>1 DEF FetchNamespaces, Typed, TypeOK, State, Request, Switch
  <2>2. Typed'
    <3>1. request' = [request EXCEPT ![r] = [at |-> "listing", ctx |-> seen.ctx, background |-> TRUE]]
          /\ slot' = r
      BY <1>1 DEF FetchNamespaces, Refresh
    <3>2. [at |-> "listing", ctx |-> seen.ctx, background |-> TRUE] \in Request
      BY <2>1 DEF Request
    <3>3. QED
      BY <1>1, <2>1, <3>1, <3>2 DEF FetchNamespaces, backend, Typed, TypeOK
  <2>3. QED
    BY <1>1, <2>2, FrameInv DEF FetchNamespaces
<1>2. CASE RetryConnection
  BY <1>2 DEF RetryConnection, backend, Typed, TypeOK, State, Request, Switch, Aligned, OptionsBelong,
              SelectionOffered, Persisted, Offered
<1>3. CASE SelectNamespaces(sel)
  BY <1>3 DEF SelectNamespaces, backend, Typed, TypeOK, State, Request, Switch, Aligned, OptionsBelong,
              SelectionOffered, Persisted, Offered
<1>4. QED
  BY <1>1, <1>2, <1>3

LEMMA OtherInv == ASSUME Inv, Restart \/ Subscribe \/ ChangeNamespace PROVE Inv'
<1> USE SessionAssumption, AllType DEF Inv
<1>1. CASE Restart
  BY <1>1 DEF Restart, Idle, Unused, Initial, Typed, TypeOK, State, Request, Switch, Aligned, OptionsBelong,
              SelectionOffered, Persisted
<1>2. CASE Subscribe
  <2>1. Typed'
    BY <1>2 DEF Subscribe, Typed, TypeOK
  <2>2. QED
    BY <1>2, <2>1, FrameInv DEF Subscribe
<1>3. CASE ChangeNamespace
  <2>1. Typed'
    BY <1>3 DEF ChangeNamespace, Typed, TypeOK
  <2>2. QED
    BY <1>3, <2>1, FrameInv DEF ChangeNamespace
<1>4. QED
  BY <1>1, <1>2, <1>3

LEMMA StepInv == Inv /\ [Next]_vars => Inv'
<1> SUFFICES ASSUME Inv, [Next]_vars PROVE Inv'
  OBVIOUS
<1>1. CASE UNCHANGED vars
  <2>1. Typed'
    BY <1>1 DEF Inv, vars, Typed, TypeOK
  <2>2. QED
    BY <1>1, <2>1, FrameInv DEF vars
<1>2. CASE Render \/ Restart \/ Subscribe \/ ChangeNamespace
  BY <1>2, RenderInv, OtherInv
<1>3. CASE \E c \in Contexts : FetchContexts(c) \/ \E s \in Switches : SwitchContext(s, c)
  BY <1>3, FetchInv, SwitchInv
<1>4. CASE \E s \in Switches : ServeSwitch(s) \/ Commit(s) \/ Rejected(s)
  <2>1. client \in Contexts
    BY DEF Inv, Typed, TypeOK, State, Request, Switch
  <2>2. QED
    BY <1>4, <2>1, SwitchInv
<1>5. CASE \E r \in Requests : Listed(r) \/ ListFailed(r)
  BY <1>5, ListedInv, ListFailedInv
<1>6. CASE \E r \in Requests : FetchNamespaces(r)
  BY <1>6, AllType, UserInv
<1>7. CASE RetryConnection
  BY <1>7 DEF Inv, RetryConnection, backend, Typed, TypeOK, State, Request, Switch, Aligned, OptionsBelong,
              SelectionOffered, Persisted, Offered
<1>8. CASE \E sel \in Selections : SelectNamespaces(sel)
  BY <1>8 DEF Inv, SelectNamespaces, backend, Typed, TypeOK, State, Request, Switch, Aligned, OptionsBelong,
              SelectionOffered, Persisted, Offered
<1>9. CASE \E c \in events, n \in Names, deleted \in BOOLEAN : NamespaceEvent(c, n, deleted)
  BY <1>9, NamespaceEventInv
<1>10. QED
  BY <1>1, <1>2, <1>3, <1>4, <1>5, <1>6, <1>7, <1>8, <1>9 DEF Next

LEMMA SpecInv == Spec => []Inv
BY InitInv, StepInv, PTL DEF Spec

(* Every reachable state is well typed; a selection is never empty. *)
THEOREM TypeCorrect == Spec => []TypeOK
<1>1. Inv => TypeOK
  BY DEF Inv, Typed
<1>2. QED
  BY <1>1, SpecInv, PTL

(* The selector offers no namespace of another context, in every order of   *)
(* switches, answers and events.                                            *)
THEOREM OptionsAlwaysBelong == Spec => []OptionsBelong
<1>1. Inv => OptionsBelong
  BY DEF Inv
<1>2. QED
  BY <1>1, SpecInv, PTL

(* The selection stays within what is offered. *)
THEOREM SelectionAlwaysOffered == Spec => []SelectionOffered
<1>1. Inv => SelectionOffered
  BY DEF Inv
<1>2. QED
  BY <1>1, SpecInv, PTL

(* What is selected in the current context is what a restart would find. *)
THEOREM SavedIsAlwaysSelected == Spec => []SavedIsSelected
<1>1. Inv => SavedIsSelected
  BY DEF Inv, Persisted, SavedIsSelected, Quiet
<1>2. QED
  BY <1>1, SpecInv, PTL

(* What is offered, selected and saved agree, in every order. *)
THEOREM SelectionAlwaysSound == Spec => []SelectionSound
<1>1. OptionsBelong /\ SelectionOffered /\ SavedIsSelected => SelectionSound
  BY DEF SelectionSound
<1>2. QED
  BY <1>1, OptionsAlwaysBelong, SelectionAlwaysOffered, SavedIsAlwaysSelected, PTL

-----------------------------------------------------------------------------
(* What is shown is what the backend works with.                            *)

Served == \E s \in Switches : switch[s].at = "done"

(* One switch at a time, to another context than the one that is shown; one *)
(* that was served has changed the client.                                  *)
OneSwitch ==
  /\ \A s, t \in Switches : switch[s].at # "idle" /\ switch[t].at # "idle" => s = t
  /\ Busy => set.ctx = seen.ctx /\ seen.ctx # NoContext
  /\ \A s \in Switches : switch[s].at # "idle" => switch[s].to # seen.ctx
  /\ \A s \in Switches : switch[s].at = "done" => client = switch[s].to

(* Outside of a switch that was served the client is that of the context    *)
(* that was set.                                                            *)
SameClient == ~Served => set.ctx = NoContext \/ client = set.ctx

(* A render that shows that context has its namespaces watched, or has      *)
(* asked for it.                                                            *)
Followed ==
  ~Served /\ set.ctx = seen.ctx /\ Watches(seen) /\ ~asking => watching = seen.ctx

Live == OneSwitch /\ SameClient /\ Followed

(* What the user does, and answers to requests, concern none of this. *)
LEMMA FrameLive ==
  ASSUME Live, set'.ctx = set.ctx, UNCHANGED <<client, watching, asking, switch, seen>>
  PROVE  Live'
BY DEF Live, OneSwitch, SameClient, Followed, Served, Busy

LEMMA InitLive == Init => Live
BY DEF Init, Idle, Initial, Live, OneSwitch, SameClient, Followed, Served, Busy

LEMMA SwitchContextLive ==
  ASSUME Orderly, Typed, Live, NEW s \in Switches, NEW c \in Contexts, SwitchContext(s, c)
  PROVE  Live'
<1> USE DEF Live
<1>1. /\ ~Busy /\ set.ctx = seen.ctx /\ seen.ctx # NoContext /\ seen.ctx # c
      /\ switch' = [switch EXCEPT ![s] = [at |-> "sent", to |-> c]]
      /\ UNCHANGED <<client, watching, asking, seen>>
  BY DEF SwitchContext, backend
<1>2. set'.ctx = set.ctx
  BY DEF SwitchContext, Typed, TypeOK, State
<1>3. /\ switch'[s].at = "sent" /\ switch'[s].to = c
      /\ \A t \in Switches \ {s} : switch'[t].at = "idle"
  BY <1>1 DEF Typed, TypeOK, Switch, Busy
<1>4. OneSwitch'
  BY <1>1, <1>2, <1>3 DEF OneSwitch, Busy
<1>5. ~Served /\ ~Served'
  BY <1>1, <1>3 DEF Served, Busy
<1>6. QED
  BY <1>1, <1>2, <1>4, <1>5 DEF SameClient, Followed

LEMMA ServeSwitchLive ==
  ASSUME Typed, Live, NEW s \in Switches, ServeSwitch(s)
  PROVE  Live'
<1> USE DEF Live
<1>1. /\ switch[s].at = "sent" /\ switch' = [switch EXCEPT ![s].at = "done"]
      /\ client' = switch[s].to /\ UNCHANGED <<set, seen>>
  BY DEF ServeSwitch
<1>2. /\ switch'[s].at = "done" /\ switch'[s].to = switch[s].to
      /\ \A t \in Switches \ {s} : switch'[t] = switch[t] /\ switch[t].at = "idle"
  BY <1>1 DEF Typed, TypeOK, Switch, OneSwitch
<1>3. Busy /\ Served'
  BY <1>1, <1>2 DEF Busy, Served
<1>4. OneSwitch'
  BY <1>1, <1>2, <1>3 DEF OneSwitch, Busy
<1>5. QED
  BY <1>3, <1>4 DEF SameClient, Followed

LEMMA RejectedLive ==
  ASSUME Typed, Live, NEW s \in Switches, Rejected(s)
  PROVE  Live'
<1> USE DEF Live
<1>1. /\ switch[s].at = "sent" /\ switch' = [switch EXCEPT ![s] = Idle]
      /\ UNCHANGED <<client, watching, asking, seen>>
  BY DEF Rejected, backend
<1>2. set'.ctx = set.ctx
  BY DEF Rejected, Typed, TypeOK, State
<1>3. \A t \in Switches : switch'[t].at = "idle" /\ (t # s => switch[t].at = "idle")
  BY <1>1 DEF Typed, TypeOK, Switch, OneSwitch, Idle
<1>4. ~Served /\ ~Served' /\ ~Busy'
  BY <1>1, <1>3 DEF Served, Busy
<1>5. OneSwitch'
  BY <1>3, <1>4 DEF OneSwitch
<1>6. QED
  BY <1>1, <1>2, <1>4, <1>5 DEF SameClient, Followed

(* The context that is shown is another one, until the next render. *)
LEMMA CommitLive ==
  ASSUME Typed, Live, NEW s \in Switches, Commit(s)
  PROVE  Live'
<1> USE DEF Live
<1>1. /\ switch[s].at = "done" /\ switch' = [switch EXCEPT ![s] = Idle]
      /\ UNCHANGED <<client, watching, asking, seen>>
  BY DEF Commit, backend
<1>2. set'.ctx = switch[s].to
  BY DEF Commit, Typed, TypeOK, State
<1>3. \A t \in Switches : switch'[t].at = "idle"
  BY <1>1 DEF Typed, TypeOK, Switch, OneSwitch, Idle
<1>4. switch[s].to # seen.ctx /\ client = switch[s].to
  BY <1>1 DEF OneSwitch
<1>5. OneSwitch'
  BY <1>3 DEF OneSwitch, Busy
<1>6. QED
  BY <1>1, <1>2, <1>4, <1>5 DEF SameClient, Followed

(* A render that changes anything the watch depends on asks for it again.   *)
LEMMA RenderLive == ASSUME Typed, Live, Render PROVE Live'
<1> USE DEF Live
<1>1. UNCHANGED <<client, switch>>
  BY DEF Render
<1>2. /\ set'.ctx = set.ctx /\ seen'.ctx = set.ctx
      /\ seen'.connecting = set.connecting /\ seen'.error = set.error
  BY DEF Render, Typed, TypeOK, State
<1>3. OneSwitch'
  BY <1>1, <1>2 DEF OneSwitch, Busy
<1>4. SameClient'
  BY <1>1, <1>2 DEF SameClient, Served
<1>5. Followed'
  <2>1. CASE Rewatch
    BY <1>2, <2>1 DEF Render, Followed, Watches
  <2>2. CASE ~Rewatch
    BY <1>1, <1>2, <2>2 DEF Render, Rewatch, Followed, Watches, Served
  <2>3. QED
    BY <2>1, <2>2
<1>6. QED
  BY <1>3, <1>4, <1>5

LEMMA FetchLive == ASSUME Typed, Live, NEW c \in Contexts, FetchContexts(c) PROVE Live'
<1> USE SessionAssumption DEF Live
<1>1. /\ set.ctx = NoContext /\ seen = set /\ client' = c
      /\ UNCHANGED <<watching, asking, switch, seen>>
  BY DEF FetchContexts
<1>2. set'.ctx = c /\ c # seen.ctx
  BY <1>1 DEF FetchContexts, Typed, TypeOK, State
<1>3. ~Busy /\ ~Busy'
  BY <1>1 DEF OneSwitch, Busy
<1>4. OneSwitch'
  BY <1>1, <1>3 DEF OneSwitch, Busy
<1>5. QED
  BY <1>1, <1>2, <1>4 DEF SameClient, Followed

LEMMA StepLive == Orderly /\ Typed /\ Live /\ [Next]_vars => Live'
<1> SUFFICES ASSUME Orderly, Typed, Live, [Next]_vars PROVE Live'
  OBVIOUS
<1>1. CASE UNCHANGED vars
  BY <1>1, FrameLive DEF vars
<1>2. CASE Restart
  BY <1>2 DEF Restart, Idle, Initial, Live, OneSwitch, SameClient, Followed, Served, Busy, Watches
<1>3. CASE Subscribe
  BY <1>3 DEF Subscribe, Live, OneSwitch, SameClient, Followed, Served, Busy, Watches
<1>4. CASE Render
  BY <1>4, RenderLive
<1>5. CASE \E c \in Contexts : FetchContexts(c) \/ \E s \in Switches : SwitchContext(s, c)
  BY <1>5, FetchLive, SwitchContextLive
<1>6. CASE \E s \in Switches : ServeSwitch(s) \/ Commit(s) \/ Rejected(s)
  BY <1>6, ServeSwitchLive, CommitLive, RejectedLive
<1>7. CASE \E r \in Requests : Listed(r) \/ ListFailed(r) \/ FetchNamespaces(r)
  <2>1. UNCHANGED <<client, watching, asking, switch, seen>>
    BY <1>7 DEF Listed, ListFailed, FetchNamespaces, backend
  <2>2. set'.ctx = set.ctx
    BY <1>7 DEF Listed, Loaded, ListFailed, FetchNamespaces, Typed, TypeOK, State
  <2>3. QED
    BY <2>1, <2>2, FrameLive
<1>8. CASE RetryConnection \/ \E sel \in Selections : SelectNamespaces(sel)
  <2>1. UNCHANGED <<client, watching, asking, switch, seen>> /\ set'.ctx = set.ctx
    BY <1>8 DEF RetryConnection, SelectNamespaces, backend, Typed, TypeOK, State
  <2>2. QED
    BY <2>1, FrameLive
<1>9. CASE ChangeNamespace
  BY <1>9, FrameLive DEF ChangeNamespace
<1>10. CASE \E c \in events, n \in Names, deleted \in BOOLEAN : NamespaceEvent(c, n, deleted)
  <2>1. UNCHANGED <<client, watching, asking, switch, seen>> /\ set'.ctx = set.ctx
    BY <1>10 DEF NamespaceEvent, Typed, TypeOK, State
  <2>2. QED
    BY <2>1, FrameLive
<1>11. QED
  BY <1>1, <1>2, <1>3, <1>4, <1>5, <1>6, <1>7, <1>8, <1>9, <1>10 DEF Next

(* With one switch at a time, once all calls have ended, the frontend shows *)
(* the context the backend works with and that context's namespaces are     *)
(* watched, whatever was refused, failed or restarted on the way.           *)
THEOREM QuietAlwaysLive == Spec => []QuietIsLive
<1>1. Init => (Orderly => Live)
  BY InitLive
<1>2. Inv /\ (Orderly => Live) /\ [Next]_vars => (Orderly => Live)'
  BY StepLive DEF Inv
<1>3. (Orderly => Live) => QuietIsLive
  <2>1. Quiet => ~Served
    BY DEF Quiet, Busy, Served
  <2>2. QED
    BY <2>1 DEF QuietIsLive, Quiet, Watches, Live, SameClient, Followed
<1>4. QED
  BY <1>1, <1>2, <1>3, SpecInv, PTL DEF Spec
=============================================================================
