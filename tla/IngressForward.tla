--------------------------- MODULE IngressForward ---------------------------
(***************************************************************************)
(* Ingress forwarding (ingressforward.go): port forwards to the ingress    *)
(* controller and entries in the hosts file, set up and taken down by      *)
(* calls that hold the mutex only to read or write the state.  The port    *)
(* forwards are those of PortForward, an operation a step; Start refuses   *)
(* while the state is active, but Stop and RefreshHostnames do not wait    *)
(* for a Start.  `faults` is what may happen in a behaviour besides steps  *)
(* of Start that fail, which the code handles.                             *)
(***************************************************************************)
EXTENDS Integers, FiniteSets

CONSTANTS
  Forwards, \* IDs of port forwards
  Callers,  \* goroutines serving calls
  Contexts, NoContext, \* contexts of the kubeconfig, any of which may be current at a Start
  Troubles  \* those that may happen, out of:
            \* "overlap" a call while another one is under way
            \* "crash"   the program is killed
            \* "denied"  the hosts file cannot be cleaned
            \* "redirect" the hosts file is written, and the redirection of the ports
            \*            that the same command sets up then fails

IngressAssumption ==
  /\ IsFiniteSet(Forwards) /\ NoContext \notin Contexts
  /\ Troubles \subseteq {"overlap", "crash", "denied", "redirect"}

VARIABLES
  faults, \* the trouble of this behaviour, if any
  state,  \* IngressForwardManager.state
  forward,\* ID -> its configuration, for a context: "saved" or, when it is active, "started"
  block,  \* whether the hosts file has entries of ours
  call,   \* caller -> where it is, and its locals
  calm    \* history: no call has overlapped another since the last Start began

vars == <<faults, state, forward, block, call, calm>>

State == [active : BOOLEAN, status : {"stopped", "starting", "running", "error"},
          ids : SUBSET Forwards, updated : BOOLEAN, context : Contexts \cup {NoContext}]
Stopped == [active |-> FALSE, status |-> "stopped", ids |-> {}, updated |-> FALSE, context |-> NoContext]

Forward == [is : {"none", "saved", "started"}, context : Contexts \cup {NoContext}]
NoForward == [is |-> "none", context |-> NoContext]

(* ids: the forwards Start created or Stop copied; context: the one Start   *)
(* found to be current; clean: Stop's copy of hostsFileUpdated; fails: Stop *)
(* was called by a Start that failed.                                       *)
Idle == [at |-> "idle", ids |-> {}, context |-> NoContext, clean |-> FALSE, fails |-> FALSE]

TypeOK ==
  /\ faults \subseteq Troubles /\ calm \in BOOLEAN
  /\ state \in State /\ forward \in [Forwards -> Forward] /\ block \in BOOLEAN
  /\ call \in [Callers -> [at : {"idle", "cleanup", "collect", "https", "http", "publish", "start",
                                 "hosts", "done", "stop", "unstart", "unhost", "reset", "error",
                                 "rehost", "note"},
                           ids : SUBSET Forwards, context : Contexts \cup {NoContext}, clean : BOOLEAN, fails : BOOLEAN]]

Init ==
  /\ faults \in {{}} \cup {{t} : t \in Troubles}
  /\ state = Stopped /\ forward = [f \in Forwards |-> NoForward] /\ block = FALSE
  /\ call = [c \in Callers |-> Idle] /\ calm = TRUE

At(c, place) == call[c].at = place
Goto(c, place) == call' = [call EXCEPT ![c].at = place]
Quiet == \A c \in Callers : At(c, "idle")
MayCall(c) == At(c, "idle") /\ ("overlap" \in faults \/ Quiet)

Saved == {f \in Forwards : forward[f].is # "none"}

-----------------------------------------------------------------------------
(* Start.                                                                   *)

StartBegin(c) ==
  /\ MayCall(c) /\ ~state.active
  /\ \E x \in Contexts :
       /\ state' = [state EXCEPT !.active = TRUE, !.status = "starting", !.context = x]
       /\ call' = [call EXCEPT ![c].at = "cleanup", ![c].context = x]
  /\ calm' = Quiet /\ UNCHANGED <<faults, forward, block>>

(* Mutant: what a crash left behind stays. *)
CleanupNothing(c) ==
  /\ At(c, "cleanup")
  /\ Goto(c, "collect") /\ UNCHANGED <<faults, state, forward, block, calm>>

(* CleanupIngressConfigs: what is left in other contexts stays. *)
Cleanup(c) ==
  /\ At(c, "cleanup")
  /\ forward' = [f \in Forwards |-> IF forward[f].context = call[c].context THEN NoForward ELSE forward[f]]
  /\ Goto(c, "collect") /\ UNCHANGED <<faults, state, block, calm>>

(* The host names, or the first port forward, are not to be had. *)
Fail(c) ==
  /\ call[c].at \in {"collect", "https"}
  /\ Goto(c, "error") /\ UNCHANGED <<faults, state, forward, block, calm>>

Collect(c) ==
  /\ At(c, "collect")
  /\ Goto(c, "https") /\ UNCHANGED <<faults, state, forward, block, calm>>

(* AddConfig; a controller without this port, or a failure of the second,   *)
(* is passed over.                                                          *)
Add(c, next) ==
  \/ \E f \in Forwards :
       /\ forward[f] = NoForward /\ \A d \in Callers : f \notin call[d].ids
       /\ forward' = [forward EXCEPT ![f] = [is |-> "saved", context |-> call[c].context]]
       /\ call' = [call EXCEPT ![c].at = next, ![c].ids = @ \cup {f}]
  \/ Goto(c, next) /\ UNCHANGED forward

AddHTTPS(c) == At(c, "https") /\ Add(c, "http") /\ UNCHANGED <<faults, state, block, calm>>
AddHTTP(c) == At(c, "http") /\ Add(c, "publish") /\ UNCHANGED <<faults, state, block, calm>>

Publish(c) ==
  /\ At(c, "publish")
  /\ IF call[c].ids = {} THEN Goto(c, "error") /\ UNCHANGED state
     ELSE Goto(c, "start") /\ state' = [state EXCEPT !.ids = call[c].ids]
  /\ UNCHANGED <<faults, forward, block, calm>>

(* Start of one port forward; if it fails, what is there is taken down. *)
StartForward(c) ==
  /\ At(c, "start")
  /\ \/ \E f \in call[c].ids :
          forward[f].is = "saved" /\ forward' = [forward EXCEPT ![f].is = "started"] /\ UNCHANGED call
     \/ /\ \A f \in call[c].ids : forward[f].is = "started"
        /\ Goto(c, "hosts") /\ UNCHANGED forward
     \/ /\ \E f \in call[c].ids : forward[f].is # "started"
        /\ call' = [call EXCEPT ![c].at = "stop", ![c].fails = TRUE] /\ UNCHANGED forward
  /\ UNCHANGED <<faults, state, block, calm>>

(* AddEntriesWithPortRedirect, whose failure is not one of Start.  It may   *)
(* fail with the entries written: on macOS one command writes them and then *)
(* redirects the ports.                                                     *)
UpdateHosts(c) ==
  /\ At(c, "hosts")
  /\ \E ok \in BOOLEAN :
       /\ state' = [state EXCEPT !.updated = ok]
       /\ block' \in IF ok THEN {TRUE} ELSE {block} \cup (IF "redirect" \in faults THEN {TRUE} ELSE {})
  /\ Goto(c, "done") /\ UNCHANGED <<faults, forward, calm>>

StartDone(c) ==
  /\ At(c, "done")
  /\ state' = [state EXCEPT !.status = "running"]
  /\ call' = [call EXCEPT ![c] = Idle] /\ UNCHANGED <<faults, forward, block, calm>>

SetError(c) ==
  /\ At(c, "error")
  /\ state' = [state EXCEPT !.active = FALSE, !.status = "error"]
  /\ call' = [call EXCEPT ![c] = Idle] /\ UNCHANGED <<faults, forward, block, calm>>

-----------------------------------------------------------------------------
(* Stop, called by the user, by Cleanup at shutdown and by Start.           *)

Stop(c) ==
  /\ MayCall(c) /\ state.active
  /\ Goto(c, "stop") /\ calm' = (calm /\ Quiet) /\ UNCHANGED <<faults, state, forward, block>>

Ended(c) == IF call[c].fails THEN Goto(c, "error") ELSE call' = [call EXCEPT ![c] = Idle]

StopBegin(c) ==
  /\ At(c, "stop")
  /\ IF state.active
     THEN call' = [call EXCEPT ![c].at = "unstart", ![c].ids = state.ids, ![c].clean = state.updated]
     ELSE Ended(c)
  /\ UNCHANGED <<faults, state, forward, block, calm>>

(* Stop and DeleteConfig of one port forward. *)
StopForward(c) ==
  /\ At(c, "unstart")
  /\ IF call[c].ids = {} THEN Goto(c, "unhost") /\ UNCHANGED forward
     ELSE \E f \in call[c].ids :
            /\ forward' = [forward EXCEPT ![f] = NoForward]
            /\ call' = [call EXCEPT ![c].ids = @ \ {f}]
  /\ UNCHANGED <<faults, state, block, calm>>

CleanHosts(c) ==
  /\ At(c, "unhost")
  /\ block' \in (IF call[c].clean THEN {FALSE} ELSE {block})
                \cup (IF "denied" \in faults THEN {block} ELSE {})
  /\ Goto(c, "reset") /\ UNCHANGED <<faults, state, forward, calm>>

Reset(c) ==
  /\ At(c, "reset")
  /\ state' = Stopped /\ Ended(c)
  /\ UNCHANGED <<faults, forward, block, calm>>

-----------------------------------------------------------------------------
(* RefreshHostnames; AddEntries of no entries leaves the file alone.        *)

Refresh(c) ==
  /\ MayCall(c) /\ state.active
  /\ Goto(c, "rehost") /\ calm' = (calm /\ Quiet) /\ UNCHANGED <<faults, state, forward, block>>

RefreshHosts(c) ==
  /\ At(c, "rehost")
  /\ \/ \E some \in BOOLEAN : block' = (block \/ some) /\ Goto(c, "note")
     \/ call' = [call EXCEPT ![c] = Idle] /\ UNCHANGED block
  /\ UNCHANGED <<faults, state, forward, calm>>

RefreshDone(c) ==
  /\ At(c, "note")
  /\ state' = [state EXCEPT !.updated = TRUE]
  /\ call' = [call EXCEPT ![c] = Idle] /\ UNCHANGED <<faults, forward, block, calm>>

(* The program is killed and started again: the saved configurations and   *)
(* the hosts file remain.                                                   *)
Crash ==
  /\ "crash" \in faults
  /\ state' = Stopped /\ call' = [c \in Callers |-> Idle]
  /\ forward' = [f \in Forwards |-> [forward[f] EXCEPT !.is = IF @ = "started" THEN "saved" ELSE @]]
  /\ UNCHANGED <<faults, block, calm>>

Next ==
  \/ \E c \in Callers :
       \/ StartBegin(c) \/ Cleanup(c) \/ Fail(c) \/ Collect(c) \/ AddHTTPS(c) \/ AddHTTP(c)
       \/ Publish(c) \/ StartForward(c) \/ UpdateHosts(c) \/ StartDone(c) \/ SetError(c)
       \/ Stop(c) \/ StopBegin(c) \/ StopForward(c) \/ CleanHosts(c) \/ Reset(c)
       \/ Refresh(c) \/ RefreshHosts(c) \/ RefreshDone(c)
  \/ Crash

Spec == Init /\ [][Next]_vars

-----------------------------------------------------------------------------
(* When no call is under way and forwarding runs, its port forwards are     *)
(* started and there are no others in its context, whatever a crash, a      *)
(* failed Start or calls that overlapped left before: "Clean up any         *)
(* orphaned ingress configs from previous crash/force-quit".  Those of      *)
(* another context stay until forwarding starts there.                      *)
RunningIsWhole ==
  Quiet /\ state.status = "running" /\ calm =>
    /\ state.ids # {} /\ {f \in Saved : forward[f].context = state.context} = state.ids
    /\ \A f \in state.ids : forward[f].is = "started"

(* When it does not run, nothing is left of it: no port forward of any      *)
(* context and no entry in the hosts file, wherever a Start failed.  An     *)
(* entry is left when its removal is denied; after a crash, until the next  *)
(* Start; and when the redirection of ports failed that was to follow.      *)
StoppedIsClean ==
  Quiet /\ ~state.active =>
    /\ faults \cap {"overlap", "crash"} = {} => Saved = {}
    /\ faults = {} => ~block

(* Entries in the hosts file are known to the state, so that Stop, and the  *)
(* end of the program, remove them; but for those written before the        *)
(* redirection failed, which the state takes for not written.               *)
EntriesAreKnown == Quiet /\ block /\ faults = {} => state.active /\ state.updated

(* Together: forwarding is up as a whole, down as a whole, and whatever it  *)
(* wrote is known to those who have to remove it.                           *)
IngressSound == RunningIsWhole /\ StoppedIsClean /\ EntriesAreKnown
=============================================================================
