---------------------------- MODULE PortForward ----------------------------
(***************************************************************************)
(* PortForwardManager (portforward.go): saved configurations with their    *)
(* local ports, one goroutine per active forward that reconnects with a    *)
(* bounded number of retries, and the calls of the frontend, of a context  *)
(* switch and of the ingress forwarder, each in a goroutine of its own.    *)
(* Stop and DeleteConfig give up the mutex while they wait, at most five   *)
(* seconds, for the goroutine to end.                                      *)
(***************************************************************************)
EXTENDS Integers, FiniteSets

CONSTANTS
  Configs,    \* configuration IDs
  Ports,      \* local ports
  Runs,       \* goroutines of active forwards (runWithReconnect)
  Callers,    \* goroutines serving calls that wait
  NoPort, NoRun, NoConfig,
  Pods,       \* configurations that forward to a pod, not to a service
  KeepAlive,  \* configurations a context switch leaves running
  Slow,       \* configurations whose API calls may outlast Stop's five seconds
  Racy,       \* configurations started, edited or deleted during a Stop or Delete
  MaxRetries  \* maxRetries

ASSUME ForwardAssumption ==
  /\ NoPort \notin Ports /\ NoRun \notin Runs /\ NoConfig \notin Configs
  /\ Pods \cup KeepAlive \cup Slow \cup Racy \subseteq Configs
  /\ MaxRetries \in Nat \ {0}

VARIABLES
  configs,   \* id -> LocalPort of the saved configuration, or NoPort
  usedPorts, \* port -> id, or NoConfig
  active,    \* id -> the goroutine of its record in the active map, or NoRun
  status,    \* id -> Status of that record, "stopped" when there is none
  run,       \* goroutine -> where runWithReconnect is, and its locals
  call       \* caller -> what it is doing

saved == <<configs, usedPorts>>
vars == <<saved, active, status, run, call>>

(* Its copy of the configuration (id, port), the loop counter, and whether *)
(* its stopChan is closed.  Blank: the goroutine ended and no record is    *)
(* left of it.                                                             *)
Blank == [at |-> "done", id |-> NoConfig, port |-> NoPort, attempt |-> 0, stopped |-> FALSE]

(* A caller works through todo, waits for run (of id), and then, if job is *)
(* "delete", removes the configuration, which it found with LocalPort port. *)
Idle == [job |-> "none", todo |-> {}, run |-> NoRun, id |-> NoConfig, port |-> NoPort]

TypeOK ==
  /\ configs \in [Configs -> Ports \cup {NoPort}]
  /\ usedPorts \in [Ports -> Configs \cup {NoConfig}]
  /\ active \in [Configs -> Runs \cup {NoRun}]
  /\ status \in [Configs -> {"stopped", "starting", "running", "reconnecting", "error"}]
  /\ run \in [Runs -> [at : {"check", "resolving", "connecting", "connected", "backoff", "probing", "done"},
                       id : Configs \cup {NoConfig}, port : Ports \cup {NoPort},
                       attempt : 0..MaxRetries, stopped : BOOLEAN]]
  /\ \A r \in Runs : run[r].at # "done" => run[r].id \in Configs /\ run[r].port \in Ports
  /\ \A r \in Runs : run[r].at \in {"resolving", "connecting", "connected"} =>
                     run[r].attempt < MaxRetries
  /\ call \in [Callers -> [job : {"none", "stop", "delete"}, todo : SUBSET Configs,
                           run : Runs \cup {NoRun}, id : Configs \cup {NoConfig},
                           port : Ports \cup {NoPort}]]

Configured(i) == configs[i] # NoPort
Active(i) == active[i] # NoRun
Live(r) == run[r].at # "done"

(* The calls in progress that concern i. *)
Busy(i) == \E t \in Callers : call[t].job # "none" /\ (i \in call[t].todo \/ call[t].id = i)
Settled(i) == i \in Racy \/ ~Busy(i)

(* loadConfigs: what saveConfigs wrote, with the port index rebuilt. *)
Load ==
  /\ usedPorts' = [p \in Ports |-> IF \E i \in Configs : configs[i] = p
                                   THEN CHOOSE i \in Configs : configs[i] = p ELSE NoConfig]
  /\ UNCHANGED configs

Init ==
  /\ configs = [i \in Configs |-> NoPort]
  /\ usedPorts = [p \in Ports |-> NoConfig]
  /\ active = [i \in Configs |-> NoRun]
  /\ status = [i \in Configs |-> "stopped"]
  /\ run = [r \in Runs |-> Blank]
  /\ call = [t \in Callers |-> Idle]

-----------------------------------------------------------------------------
(* Configurations.  Calls that return an error change nothing.             *)

Free(i, p) == usedPorts[p] \in {i, NoConfig}

(* An ID of which nothing is left stands for a new one. *)
Fresh(i) == ~Configured(i) /\ ~Active(i) /\ ~Busy(i) /\ \A r \in Runs : run[r].id # i

AddConfig(i, p) ==
  /\ Fresh(i) /\ Free(i, p)
  /\ configs' = [configs EXCEPT ![i] = p]
  /\ usedPorts' = [usedPorts EXCEPT ![p] = i]
  /\ UNCHANGED <<active, status, run, call>>

(* Mutant: the port the configuration had stays in the index. *)
UpdateConfigKeepsPort(i, p) ==
  /\ Settled(i)
  /\ Configured(i) /\ configs[i] # p /\ Free(i, p)
  /\ configs' = [configs EXCEPT ![i] = p]
  /\ usedPorts' = [usedPorts EXCEPT ![p] = i]
  /\ UNCHANGED <<active, status, run, call>>

(* The other fields of a configuration are not modelled. *)
UpdateConfig(i, p) ==
  /\ Settled(i)
  /\ Configured(i) /\ configs[i] # p /\ Free(i, p)
  /\ configs' = [configs EXCEPT ![i] = p]
  /\ usedPorts' = [usedPorts EXCEPT ![configs[i]] = NoConfig, ![p] = i]
  /\ UNCHANGED <<active, status, run, call>>

Remove(i, p) ==
  /\ usedPorts' = [usedPorts EXCEPT ![p] = NoConfig]
  /\ configs' = [configs EXCEPT ![i] = NoPort]

(* Mutant: an active forward is not stopped. *)
DeleteConfigOnly(t, i) ==
  /\ call[t] = Idle /\ Settled(i) /\ Configured(i)
  /\ Remove(i, configs[i])
  /\ UNCHANGED <<call, active, status, run>>

(* DeleteConfig: at once when nothing is active, otherwise after a Stop    *)
(* without the mutex; the port is the one it read before.                  *)
DeleteConfig(t, i) ==
  /\ call[t] = Idle /\ Settled(i) /\ Configured(i)
  /\ IF Active(i)
     THEN /\ call' = [call EXCEPT ![t] = [job |-> "delete", todo |-> {i}, run |-> NoRun,
                                          id |-> i, port |-> configs[i]]]
          /\ UNCHANGED saved
     ELSE Remove(i, configs[i]) /\ UNCHANGED call
  /\ UNCHANGED <<active, status, run>>

DeleteFinish(t) ==
  LET c == call[t] IN
  /\ c.job = "delete" /\ c.todo = {} /\ c.run = NoRun
  /\ Remove(c.id, c.port)
  /\ call' = [call EXCEPT ![t] = Idle]
  /\ UNCHANGED <<active, status, run>>

-----------------------------------------------------------------------------
(* Start and Stop.                                                         *)

Unused(r) == run[r] = Blank /\ \A t \in Callers : call[t].run # r

PortBound(p) == \E r \in Runs : run[r].at = "connected" /\ run[r].port = p

StartRun(r, i) ==
  /\ Unused(r)
  /\ active' = [active EXCEPT ![i] = r]
  /\ status' = [status EXCEPT ![i] = "starting"]
  /\ run' = [run EXCEPT ![r] = [at |-> "check", id |-> i, port |-> configs[i],
                                attempt |-> 0, stopped |-> FALSE]]

(* Mutant: Start does not look for an active forward. *)
StartTwice(i) ==
  /\ Settled(i) /\ Configured(i) /\ ~PortBound(configs[i])
  /\ \E r \in Runs : StartRun(r, i)
  /\ UNCHANGED <<saved, call>>

(* Start, also called by StartAutoStart and the ingress forwarder. *)
Start(i) ==
  /\ Settled(i) /\ Configured(i) /\ ~Active(i) /\ ~PortBound(configs[i])
  /\ \E r \in Runs : StartRun(r, i)
  /\ UNCHANGED <<saved, call>>

Call(t, todo) ==
  /\ call[t] = Idle /\ todo # {}
  /\ call' = [call EXCEPT ![t] = [Idle EXCEPT !.job = "stop", !.todo = todo]]
  /\ UNCHANGED <<saved, active, status, run>>

Stop(t) == \E i \in Configs : Active(i) /\ Call(t, {i})
StopAll(t) == Call(t, {i \in Configs : Active(i)})
StopAllForContext(t) == Call(t, {i \in Configs \ KeepAlive : Configured(i) /\ Active(i)})

(* A call after one Stop of its list: DeleteConfig goes on with its ID. *)
Return(c) ==
  IF c.job = "delete" THEN c ELSE IF c.todo = {} THEN Idle ELSE [c EXCEPT !.id = NoConfig]

(* One Stop of the list begins: the record is looked up, its channel is    *)
(* closed, which only a live goroutine sees.  If another call was faster   *)
(* there is nothing to stop.                                               *)
StopBegin(t, i) ==
  LET c == call[t]
      rest == c.todo \ {i} IN
  /\ c.run = NoRun /\ i \in c.todo
  /\ IF Active(i)
     THEN /\ run' = [run EXCEPT ![active[i]].stopped = @ \/ Live(active[i])]
          /\ call' = [call EXCEPT ![t] = [c EXCEPT !.run = active[i], !.id = i, !.todo = rest]]
     ELSE /\ call' = [call EXCEPT ![t] = Return([c EXCEPT !.todo = rest])]
          /\ UNCHANGED run
  /\ UNCHANGED <<saved, active, status>>

(* A goroutine reacts to its closed channel at once, unless it is in a     *)
(* call of the Kubernetes API.                                             *)
TimedOut(r) == run[r].at \in {"resolving", "probing"} /\ run[r].id \in Slow

(* What ends the record of an ID: Stop, for whichever goroutine the ID now *)
(* stands for.                                                             *)
Forget(i) ==
  /\ active' = [active EXCEPT ![i] = NoRun]
  /\ status' = [status EXCEPT ![i] = "stopped"]
  /\ run' = [r \in Runs |-> IF active[i] = r /\ ~Live(r) THEN Blank ELSE run[r]]

(* Mutant: Stop has no timeout. *)
StopFinishPatient(t) ==
  LET c == call[t] IN
  /\ c.run # NoRun
  /\ ~Live(c.run)
  /\ Forget(c.id)
  /\ call' = [call EXCEPT ![t] = Return([c EXCEPT !.run = NoRun])]
  /\ UNCHANGED saved

(* The goroutine ended, or five seconds are over. *)
StopFinish(t) ==
  LET c == call[t] IN
  /\ c.run # NoRun
  /\ ~Live(c.run) \/ TimedOut(c.run)
  /\ Forget(c.id)
  /\ call' = [call EXCEPT ![t] = Return([c EXCEPT !.run = NoRun])]
  /\ UNCHANGED saved

-----------------------------------------------------------------------------
(* runWithReconnect.                                                       *)

Goto(r, l) == run' = [run EXCEPT ![r].at = l]
Loop(r, l, n) == run' = [run EXCEPT ![r] = [@ EXCEPT !.at = l, !.attempt = n]]
End(r) == run' = [run EXCEPT ![r] =
            IF active[@.id] = r THEN [Blank EXCEPT !.id = run[r].id] ELSE Blank]

(* updateStatus finds the record by the ID, not by the goroutine. *)
UpdateStatus(r, s) ==
  LET i == run[r].id IN
  status' = IF Active(i) THEN [status EXCEPT ![i] = s] ELSE status

Steady == UNCHANGED <<saved, active, call>>

(* Mutant: the loop has no bound. *)
CheckUnbounded(r) ==
  /\ run[r].at = "check"
  /\ IF run[r].stopped THEN End(r) ELSE Goto(r, "resolving")
  /\ Steady /\ UNCHANGED status

(* The head of the loop: the retries first, then the stop channel. *)
Check(r) ==
  /\ run[r].at = "check"
  /\ IF run[r].attempt = MaxRetries THEN End(r) /\ UpdateStatus(r, "error")
     ELSE /\ IF run[r].stopped THEN End(r) ELSE Goto(r, "resolving")
          /\ UNCHANGED status
  /\ Steady

(* The pod, the client configuration and the dialer are ready. *)
Resolve(r) ==
  /\ run[r].at = "resolving"
  /\ Goto(r, "connecting")
  /\ Steady /\ UNCHANGED status

(* Mutant: a connection that is ready is not reported. *)
ReadyUnreported(r) ==
  /\ run[r].at = "connecting" /\ ~PortBound(run[r].port)
  /\ Goto(r, "connected") /\ UNCHANGED status
  /\ Steady

(* readyChan; binding the local port fails while another forward holds it. *)
Ready(r) ==
  /\ run[r].at = "connecting" /\ ~PortBound(run[r].port)
  /\ Goto(r, "connected") /\ UpdateStatus(r, "running")
  /\ Steady

(* The attempt failed, or the connection was lost or closed by the stop.   *)
(* After a connection the counter starts over.  It is incremented when the *)
(* loop goes round, and nothing reads it before.                           *)
AttemptEnds(r) ==
  /\ run[r].at \in {"resolving", "connecting", "connected"}
  /\ IF run[r].stopped THEN End(r) /\ UNCHANGED status
     ELSE /\ Loop(r, "backoff", IF run[r].at = "connected" THEN 0 ELSE run[r].attempt + 1)
          /\ UpdateStatus(r, "reconnecting")
  /\ Steady

(* The back-off ends, by the timer or by the stop. *)
Backoff(r) ==
  /\ run[r].at = "backoff"
  /\ IF run[r].stopped THEN End(r)
     ELSE Goto(r, IF run[r].id \in Pods THEN "probing" ELSE "check")
  /\ Steady /\ UNCHANGED status

(* isPodAlive, whose errors count as "gone". *)
Probe(r) ==
  /\ run[r].at = "probing"
  /\ \/ Goto(r, "check") /\ UNCHANGED status
     \/ End(r) /\ UpdateStatus(r, "error")
  /\ Steady

(* The program ends and starts again: only the file is left. *)
Restart ==
  /\ Load
  /\ active' = [i \in Configs |-> NoRun]
  /\ status' = [i \in Configs |-> "stopped"]
  /\ run' = [r \in Runs |-> Blank]
  /\ call' = [t \in Callers |-> Idle]

Step(r) ==
  Check(r) \/ Resolve(r) \/ Ready(r) \/ AttemptEnds(r) \/ Backoff(r) \/ Probe(r)

Proceed(t) == StopFinish(t) \/ DeleteFinish(t) \/ \E i \in Configs : StopBegin(t, i)

Next ==
  \/ \E i \in Configs :
       \/ \E p \in Ports : AddConfig(i, p) \/ UpdateConfig(i, p)
       \/ Start(i)
  \/ \E t \in Callers :
       \/ Stop(t) \/ StopAll(t) \/ StopAllForContext(t)
       \/ \E i \in Configs : DeleteConfig(t, i)
       \/ Proceed(t)
  \/ \E r \in Runs : Step(r)
  \/ Restart

Spec == Init /\ [][Next]_vars

(* Calls go on, and a goroutine leaves every state it does not wait in.  A *)
(* connection need not end, and an API call of a Slow configuration need   *)
(* not return.                                                             *)
Fairness ==
  /\ \A t \in Callers : WF_vars(Proceed(t))
  /\ \A r \in Runs : WF_vars(Step(r) /\ ~TimedOut(r) /\ (run[r].at = "connected" => run[r].stopped))

FairSpec == Spec /\ Fairness

-----------------------------------------------------------------------------
(* No two configurations share a local port, and the index is exact: a     *)
(* port that is indexed belongs to the configuration that has it.          *)
PortsExact ==
  \A i \in Configs, p \in Ports : configs[i] = p <=> usedPorts[p] = i

(* No orphan: a goroutine that was not told to stop is in the map, under   *)
(* its own ID, where Stop, StopAll and a context switch find it.           *)
NoOrphan ==
  \A r \in Runs : Live(r) => run[r].stopped \/ active[run[r].id] = r

(* An active forward has a configuration, or StopAllForContext, which      *)
(* looks at the configurations, would miss it.                             *)
ActiveIsConfigured ==
  \A i \in Configs : Active(i) => Configured(i)

(* Ports, goroutines and configurations agree, through calls that overlap.  *)
ForwardsExact == PortsExact /\ NoOrphan /\ ActiveIsConfigured

(* The status the frontend sees of a forward is what its goroutine does,   *)
(* unless an API call of an earlier goroutine outlasts Stop.               *)
StatusHonest ==
  \A i \in Configs \ Slow : Active(i) /\ ~Busy(i) =>
    CASE status[i] = "running" -> run[active[i]].at = "connected"
      [] status[i] = "error" -> ~Live(active[i])
      [] OTHER -> Live(active[i]) /\ run[active[i]].at # "connected"

(* Every Stop, DeleteConfig and StopAllForContext returns, so a context    *)
(* switch is never stuck behind a forward.                                 *)
CallsReturn ==
  \A t \in Callers : call[t] # Idle ~> call[t] = Idle
=============================================================================
