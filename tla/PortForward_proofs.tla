------------------------- MODULE PortForward_proofs -------------------------
(***************************************************************************)
(* Proofs about PortForward for every set of configurations, ports and     *)
(* callers, and every retry bound, when no configuration is started,       *)
(* edited or deleted during a Stop or DeleteConfig of its own.  API calls  *)
(* may outlast Stop.                                                       *)
(***************************************************************************)
EXTENDS PortForward, TLAPS

USE DEF vars, saved, Blank, Idle, Configured, Active, Live

-----------------------------------------------------------------------------
(* Type correctness. *)

(* The initial state is well typed. *)
LEMMA InitType == Init => TypeOK
BY ForwardAssumption DEF Init, TypeOK

(* Removing a configuration keeps the maps of ports typed. *)
LEMMA RemoveType ==
  ASSUME TypeOK, NEW i, NEW p, Remove(i, p)
  PROVE  /\ configs' \in [Configs -> Ports \cup {NoPort}]
         /\ usedPorts' \in [Ports -> Configs \cup {NoConfig}]
BY DEF Remove, TypeOK

(* A call that goes on to its next forward stays a call. *)
LEMMA ReturnType ==
  ASSUME NEW c \in [job : {"none", "stop", "delete"}, todo : SUBSET Configs,
                    run : Runs \cup {NoRun}, id : Configs \cup {NoConfig},
                    port : Ports \cup {NoPort}]
  PROVE  Return(c) \in [job : {"none", "stop", "delete"}, todo : SUBSET Configs,
                        run : Runs \cup {NoRun}, id : Configs \cup {NoConfig},
                        port : Ports \cup {NoPort}]
BY DEF Return

Places == {"check", "resolving", "connecting", "connected", "backoff", "probing", "done"}
RunType == [at : Places, id : Configs \cup {NoConfig}, port : Ports \cup {NoPort},
            attempt : 0..MaxRetries, stopped : BOOLEAN]
Trying == {"resolving", "connecting", "connected"}

(* What a run is allowed to be. *)
RunOK(x) ==
  /\ x \in RunType
  /\ x.at # "done" => x.id \in Configs /\ x.port \in Ports
  /\ x.at \in Trying => x.attempt < MaxRetries

(* TypeOK says of every goroutine that it is RunOK. *)
LEMMA RunTypeOK == TypeOK => run \in [Runs -> RunType] /\ \A r \in Runs : RunOK(run[r])
BY DEF TypeOK, RunType, RunOK, Places, Trying

(* A goroutine that goes to another place changes nothing else. *)
LEMMA GotoType ==
  ASSUME TypeOK, NEW r \in Runs, Live(r), NEW l \in Places \ {"done"}, Goto(r, l),
         l \in Trying => run[r].attempt < MaxRetries
  PROVE  /\ run' \in [Runs -> RunType] /\ \A q \in Runs : RunOK(run'[q])
         /\ \A q \in Runs \ {r} : run'[q] = run[q]
         /\ run'[r].id = run[r].id /\ run'[r].stopped = run[r].stopped /\ run'[r].at = l
<1> DEFINE x == [run[r] EXCEPT !.at = l]
<1>1. run' = [run EXCEPT ![r] = x]
  BY DEF Goto
<1>2. RunOK(run[r]) /\ run \in [Runs -> RunType]
  BY RunTypeOK
<1>3. x \in RunType /\ x.at = l /\ x.id = run[r].id /\ x.port = run[r].port
      /\ x.attempt = run[r].attempt /\ x.stopped = run[r].stopped
  BY <1>2 DEF RunOK, RunType
<1>4. RunOK(x)
  BY <1>2, <1>3 DEF RunOK
<1> HIDE DEF x
<1>5. QED
  BY <1>1, <1>2, <1>3, <1>4, RunTypeOK

(* A goroutine that backs off keeps its configuration. *)
LEMMA LoopType ==
  ASSUME TypeOK, NEW r \in Runs, Live(r), NEW n \in 0..MaxRetries, Loop(r, "backoff", n)
  PROVE  /\ run' \in [Runs -> RunType] /\ \A q \in Runs : RunOK(run'[q])
         /\ \A q \in Runs \ {r} : run'[q] = run[q]
         /\ run'[r].id = run[r].id /\ run'[r].stopped = run[r].stopped /\ run'[r].at = "backoff"
<1> DEFINE x == [run[r] EXCEPT !.at = "backoff", !.attempt = n]
<1>1. run' = [run EXCEPT ![r] = x]
  BY DEF Loop
<1>2. RunOK(run[r]) /\ run \in [Runs -> RunType]
  BY RunTypeOK
<1>3. x \in RunType /\ x.at = "backoff" /\ x.id = run[r].id /\ x.port = run[r].port
      /\ x.stopped = run[r].stopped
  BY <1>2 DEF RunOK, RunType, Places
<1>4. RunOK(x)
  BY <1>2, <1>3 DEF RunOK, Trying
<1> HIDE DEF x
<1>5. QED
  BY <1>1, <1>2, <1>3, <1>4, RunTypeOK

(* A goroutine that ends is blank but for the ID its record needs. *)
LEMMA EndType ==
  ASSUME TypeOK, NEW r \in Runs, End(r)
  PROVE  /\ run' \in [Runs -> RunType] /\ \A q \in Runs : RunOK(run'[q])
         /\ \A q \in Runs \ {r} : run'[q] = run[q]
         /\ run'[r].at = "done" /\ ~run'[r].stopped
         /\ active[run[r].id] = r => run'[r].id = run[r].id
<1>2. RunOK(run[r]) /\ run \in [Runs -> RunType]
  BY RunTypeOK
<1>3. PICK x : /\ run' = [run EXCEPT ![r] = x]
               /\ x = IF active[run[r].id] = r THEN [Blank EXCEPT !.id = run[r].id] ELSE Blank
  BY DEF End
<1>a. x.at = "done" /\ x.port = NoPort /\ x.attempt = 0 /\ x.stopped = FALSE
      /\ x.id \in {run[r].id, NoConfig} /\ (active[run[r].id] = r => x.id = run[r].id)
      /\ x = [at |-> x.at, id |-> x.id, port |-> x.port, attempt |-> x.attempt, stopped |-> x.stopped]
  BY <1>3
<1>b. run[r].id \in Configs \cup {NoConfig} /\ 0 \in 0..MaxRetries
  BY <1>2, ForwardAssumption DEF RunOK, RunType
<1>4. x \in RunType /\ x.at = "done" /\ ~x.stopped /\ (active[run[r].id] = r => x.id = run[r].id)
  BY <1>a, <1>b DEF RunType, Places
<1>5. RunOK(x)
  BY <1>4 DEF RunOK, Trying
<1>6. QED
  BY <1>2, <1>3, <1>4, <1>5, RunTypeOK

(* Reporting a status keeps the statuses typed. *)
LEMMA StatusType ==
  ASSUME TypeOK, NEW r \in Runs, NEW s \in {"running", "reconnecting", "error"},
         UpdateStatus(r, s)
  PROVE  status' \in [Configs -> {"stopped", "starting", "running", "reconnecting", "error"}]
BY DEF UpdateStatus, TypeOK

(* What any step of a goroutine does to the goroutines. *)
Moved(r) ==
  /\ \A q \in Runs \ {r} : run'[q] = run[q]
  /\ run'[r].at # "done" => run'[r].id = run[r].id /\ run'[r].stopped = run[r].stopped
  /\ active[run[r].id] = r => run'[r].id = run[r].id

StatusKinds == {"stopped", "starting", "running", "reconnecting", "error"}

(* A step of a goroutine moves that one and touches no map but the statuses. *)
LEMMA StepEffect ==
  ASSUME TypeOK, NEW r \in Runs, Step(r)
  PROVE  /\ run' \in [Runs -> RunType] /\ \A q \in Runs : RunOK(run'[q])
         /\ status' \in [Configs -> StatusKinds]
         /\ Live(r) /\ Moved(r) /\ Steady
<1> USE DEF Moved, StatusKinds
<1>0. RunOK(run[r]) /\ run[r].attempt \in 0..MaxRetries /\ MaxRetries \in Nat /\ status \in [Configs -> StatusKinds]
  BY RunTypeOK, ForwardAssumption DEF RunOK, RunType, TypeOK
<1>1. CASE Check(r)
  <2>1. Live(r) /\ Steady
    BY <1>1 DEF Check
  <2>2. CASE run[r].attempt = MaxRetries
    BY <1>1, <2>1, <2>2, EndType, StatusType DEF Check
  <2>3. CASE run[r].attempt # MaxRetries /\ run[r].stopped
    BY <1>0, <1>1, <2>1, <2>3, EndType DEF Check
  <2>4. CASE run[r].attempt # MaxRetries /\ ~run[r].stopped
    <3>1. Goto(r, "resolving") /\ UNCHANGED status /\ run[r].attempt < MaxRetries
      BY <1>0, <1>1, <2>4 DEF Check
    <3>2. QED
      BY <1>0, <2>1, <3>1, GotoType DEF Places
  <2>5. QED
    BY <2>2, <2>3, <2>4
<1>2. CASE Resolve(r)
  <2>1. run[r].attempt < MaxRetries /\ Live(r) /\ Steady /\ Goto(r, "connecting") /\ UNCHANGED status
    BY <1>0, <1>2 DEF Resolve, RunOK, Trying
  <2>2. QED
    BY <1>0, <2>1, GotoType DEF Places
<1>3. CASE Ready(r)
  <2>1. run[r].attempt < MaxRetries /\ Live(r) /\ Steady /\ Goto(r, "connected") /\ UpdateStatus(r, "running")
    BY <1>0, <1>3 DEF Ready, RunOK, Trying
  <2>2. QED
    BY <1>0, <2>1, GotoType, StatusType DEF Places
<1>4. CASE AttemptEnds(r)
  <2>1. run[r].attempt < MaxRetries /\ Live(r) /\ Steady
    BY <1>0, <1>4 DEF AttemptEnds, RunOK, Trying
  <2>2. CASE run[r].stopped
    BY <1>0, <1>4, <2>1, <2>2, EndType DEF AttemptEnds
  <2>3. CASE ~run[r].stopped
    <3>1. PICK n \in 0..MaxRetries : Loop(r, "backoff", n)
      BY <1>0, <1>4, <2>1, <2>3 DEF AttemptEnds
    <3>2. UpdateStatus(r, "reconnecting")
      BY <1>4, <2>3 DEF AttemptEnds
    <3>3. QED
      BY <2>1, <3>1, <3>2, LoopType, StatusType
  <2>4. QED
    BY <2>2, <2>3
<1>5. CASE Backoff(r)
  <2>1. Live(r) /\ Steady /\ UNCHANGED status
    BY <1>5 DEF Backoff
  <2>2. CASE End(r)
    BY <1>0, <2>1, <2>2, EndType
  <2>3. CASE ~End(r)
    <3>1. PICK l \in {"probing", "check"} : Goto(r, l)
      BY <1>5, <2>3 DEF Backoff
    <3>2. QED
      BY <1>0, <2>1, <3>1, GotoType DEF Places, Trying
  <2>4. QED
    BY <2>2, <2>3
<1>6. CASE Probe(r)
  <2>1. Live(r) /\ Steady
    BY <1>6 DEF Probe
  <2>2. CASE Goto(r, "check") /\ UNCHANGED status
    BY <1>0, <2>1, <2>2, GotoType DEF Places, Trying
  <2>3. CASE End(r) /\ UpdateStatus(r, "error")
    BY <2>1, <2>3, EndType, StatusType
  <2>4. QED
    BY <1>6, <2>2, <2>3 DEF Probe
<1>7. QED
  BY <1>1, <1>2, <1>3, <1>4, <1>5, <1>6 DEF Step

CallType == [job : {"none", "stop", "delete"}, todo : SUBSET Configs,
             run : Runs \cup {NoRun}, id : Configs \cup {NoConfig},
             port : Ports \cup {NoPort}]

(* TypeOK again, in parts. *)
Typed ==
  /\ configs \in [Configs -> Ports \cup {NoPort}]
  /\ usedPorts \in [Ports -> Configs \cup {NoConfig}]
  /\ active \in [Configs -> Runs \cup {NoRun}]
  /\ status \in [Configs -> StatusKinds]
  /\ run \in [Runs -> RunType] /\ \A r \in Runs : RunOK(run[r])
  /\ call \in [Callers -> CallType]

(* The form of TypeOK that the proofs use. *)
LEMMA TypedIsTypeOK == Typed <=> TypeOK
BY DEF Typed, TypeOK, RunOK, RunType, Places, Trying, CallType, StatusKinds

(* A blank goroutine is well typed. *)
LEMMA BlankOK == RunOK(Blank)
<1>1. 0 \in 0..MaxRetries
  BY ForwardAssumption
<1>2. QED
  BY <1>1 DEF RunOK, RunType, Places, Trying

(* What StopBegin and Forget do to the goroutines. *)
LEMMA ToldType ==
  ASSUME TypeOK, NEW q \in Runs, run' = [run EXCEPT ![q].stopped = @ \/ Live(q)]
  PROVE  /\ run' \in [Runs -> RunType] /\ \A r \in Runs : RunOK(run'[r])
         /\ \A r \in Runs : run'[r].id = run[r].id /\ run'[r].at = run[r].at
         /\ \A r \in Runs \ {q} : run'[r] = run[r]
         /\ Live(q) => run'[q].stopped
<1> DEFINE x == [run[q] EXCEPT !.stopped = run[q].stopped \/ Live(q)]
<1>1. run' = [run EXCEPT ![q] = x]
  OBVIOUS
<1>2. RunOK(run[q]) /\ run \in [Runs -> RunType]
  BY RunTypeOK
<1>b. (run[q].stopped \/ Live(q)) \in BOOLEAN
  OBVIOUS
<1>3. x \in RunType /\ x.at = run[q].at /\ x.id = run[q].id /\ x.port = run[q].port
      /\ x.attempt = run[q].attempt /\ x.stopped = (run[q].stopped \/ Live(q))
  BY <1>2, <1>b DEF RunOK, RunType
<1>4. RunOK(x)
  BY <1>2, <1>3 DEF RunOK
<1>c. Live(q) => x.stopped
  BY <1>3
<1> HIDE DEF x
<1>5. QED
  BY <1>1, <1>2, <1>3, <1>4, <1>c, RunTypeOK

(* Removing a record keeps the types. *)
LEMMA ForgetType ==
  ASSUME TypeOK, NEW i, Forget(i)
  PROVE  /\ active' \in [Configs -> Runs \cup {NoRun}]
         /\ status' \in [Configs -> StatusKinds]
         /\ run' \in [Runs -> RunType] /\ \A r \in Runs : RunOK(run'[r])
BY RunTypeOK, BlankOK DEF Forget, TypeOK, StatusKinds, RunOK

(* Every step keeps the types. *)
LEMMA NextType == TypeOK /\ [Next]_vars => TypeOK'
<1> SUFFICES ASSUME TypeOK, [Next]_vars PROVE Typed'
  BY TypedIsTypeOK DEF Typed, TypeOK, RunOK, RunType, Places, Trying, CallType, StatusKinds
<1>0. Typed
  BY TypedIsTypeOK
<1>n. /\ Idle \in CallType
      /\ \A i \in Configs, n \in Ports :
           [job |-> "delete", todo |-> {i}, run |-> NoRun, id |-> i, port |-> n] \in CallType
      /\ \A todo \in SUBSET Configs : [Idle EXCEPT !.job = "stop", !.todo = todo] \in CallType
  BY DEF CallType
<1>1. ASSUME NEW i \in Configs, NEW p \in Ports, AddConfig(i, p) \/ UpdateConfig(i, p) PROVE Typed'
  BY <1>0, <1>1 DEF AddConfig, UpdateConfig, Typed
<1>2. ASSUME NEW i \in Configs, Start(i) PROVE Typed'
  <2>1. PICK r \in Runs : StartRun(r, i)
    BY <1>2 DEF Start
  <2>2. PICK x : /\ run' = [run EXCEPT ![r] = x]
                 /\ x = [at |-> "check", id |-> i, port |-> configs[i], attempt |-> 0, stopped |-> FALSE]
    BY <2>1 DEF StartRun
  <2>3. configs[i] \in Ports /\ 0 \in 0..MaxRetries
    BY <1>0, <1>2, ForwardAssumption DEF Start, Typed
  <2>4. RunOK(x) /\ x \in RunType
    BY <2>2, <2>3 DEF RunOK, RunType, Places, Trying
  <2>5. run' \in [Runs -> RunType] /\ \A q \in Runs : RunOK(run'[q])
    BY <1>0, <2>2, <2>4 DEF Typed
  <2>6. active' \in [Configs -> Runs \cup {NoRun}] /\ status' \in [Configs -> StatusKinds]
    BY <1>0, <2>1 DEF StartRun, Typed, StatusKinds
  <2>7. QED
    BY <1>0, <1>2, <2>5, <2>6 DEF Start, Typed
<1>3. ASSUME NEW t \in Callers, Stop(t) \/ StopAll(t) \/ StopAllForContext(t) PROVE Typed'
  <2>1. PICK todo \in SUBSET Configs : Call(t, todo)
    BY <1>3 DEF Stop, StopAll, StopAllForContext
  <2>2. QED
    BY <1>0, <1>n, <2>1 DEF Call, Typed
<1>4. ASSUME NEW t \in Callers, NEW i \in Configs, DeleteConfig(t, i) PROVE Typed'
  <2>1. configs[i] \in Ports
    BY <1>0, <1>4 DEF DeleteConfig, Typed
  <2>2. CASE Active(i)
    BY <1>0, <1>4, <1>n, <2>1, <2>2 DEF DeleteConfig, Typed
  <2>3. CASE ~Active(i)
    <3>1. Remove(i, configs[i]) /\ UNCHANGED <<call, active, status, run>>
      BY <1>4, <2>3 DEF DeleteConfig
    <3>2. QED
      BY <1>0, <2>1, <3>1, RemoveType DEF Typed
  <2>4. QED
    BY <2>2, <2>3
<1>5. ASSUME NEW t \in Callers, StopFinish(t) PROVE Typed'
  <2>1. PICK c \in CallType : /\ c = call[t] /\ Forget(c.id) /\ UNCHANGED saved
                              /\ call' = [call EXCEPT ![t] = Return([c EXCEPT !.run = NoRun])]
    BY <1>0, <1>5 DEF StopFinish, Typed
  <2> PICK y \in CallType : y = [c EXCEPT !.run = NoRun]
    BY DEF CallType
  <2>2. Return(y) \in CallType
    BY ReturnType DEF CallType
  <2>3. QED
    BY <1>0, <2>1, <2>2, ForgetType DEF Typed
<1>6. ASSUME NEW t \in Callers, DeleteFinish(t) PROVE Typed'
  BY <1>0, <1>n, <1>6, RemoveType DEF DeleteFinish, Typed
<1>7. ASSUME NEW t \in Callers, NEW i \in Configs, StopBegin(t, i) PROVE Typed'
  <2>1. CASE Active(i)
    <3>1. active[i] \in Runs
      BY <1>0, <2>1 DEF Typed
    <3>2. PICK y : /\ call' = [call EXCEPT ![t] = y]
                   /\ y = [call[t] EXCEPT !.run = active[i], !.id = i, !.todo = call[t].todo \ {i}]
      BY <1>7, <2>1 DEF StopBegin
    <3>3. y \in CallType
      BY <1>0, <3>1, <3>2 DEF CallType, Typed
    <3>4. call' \in [Callers -> CallType]
      BY <1>0, <3>2, <3>3 DEF Typed
    <3>5. QED
      BY <1>0, <1>7, <2>1, <3>1, <3>4, ToldType DEF StopBegin, Typed
  <2>2. CASE ~Active(i)
    <3>1. PICK y : y = [call[t] EXCEPT !.todo = call[t].todo \ {i}]
      OBVIOUS
    <3>2. y \in CallType
      BY <1>0, <3>1 DEF CallType, Typed
    <3>3. Return(y) \in CallType
      BY <3>2, ReturnType DEF CallType
    <3>4. QED
      BY <1>0, <1>7, <2>2, <3>1, <3>3 DEF StopBegin, Typed
  <2>3. QED
    BY <2>1, <2>2
<1>8. ASSUME NEW r \in Runs, Step(r) PROVE Typed'
  BY <1>0, <1>8, StepEffect DEF Typed, Steady
<1>9. CASE Restart
  <2>1. usedPorts' \in [Ports -> Configs \cup {NoConfig}]
    BY <1>9 DEF Restart, Load
  <2>2. run' \in [Runs -> RunType] /\ \A r \in Runs : RunOK(run'[r])
    BY <1>9, BlankOK DEF Restart, RunOK
  <2>3. call' \in [Callers -> CallType]
    BY <1>9, <1>n DEF Restart
  <2>4. QED
    BY <1>0, <1>9, <2>1, <2>2, <2>3 DEF Restart, Load, Typed, StatusKinds
<1>10. CASE UNCHANGED vars
  BY <1>0, <1>10 DEF Typed
<1>11. QED
  BY <1>1, <1>2, <1>3, <1>4, <1>5, <1>6, <1>7, <1>8, <1>9, <1>10 DEF Next, Proceed

(* Configurations, the port index, goroutines and calls keep their types,  *)
(* and no goroutine goes beyond its retries.                               *)
THEOREM TypeCorrect == Spec => []TypeOK
BY InitType, NextType, PTL DEF Spec

-----------------------------------------------------------------------------
(* The invariant: what the calls in progress and the map know of each      *)
(* other.                                                                  *)

(* A record of the map names the goroutine that works for its ID. *)
RecordsMatch == \A i \in Configs : Active(i) => run[active[i]].id = i

(* A caller that waits has told its goroutine to stop, and no other        *)
(* goroutine has the ID.                                                   *)
WaitMatch(c) ==
  /\ c.job = "none" => c = Idle
  /\ c.run # NoRun => /\ c.id \in Configs /\ active[c.id] \in {c.run, NoRun}
                      /\ Live(c.run) => run[c.run].stopped
WaitsMatch == \A t \in Callers : WaitMatch(call[t])

(* A deletion still finds the port it read, and comes to its end without   *)
(* an active forward.                                                      *)
DeleteMatch(c) ==
  c.job = "delete" =>
    /\ c.id \in Configs /\ c.port \in Ports /\ configs[c.id] = c.port
    /\ c.todo \subseteq {c.id}
    /\ c.todo = {} /\ c.run = NoRun => active[c.id] = NoRun
DeletesMatch == \A t \in Callers : DeleteMatch(call[t])

OneDelete ==
  \A s, t \in Callers :
    s # t /\ call[s].job = "delete" /\ call[t].job = "delete" => call[s].id # call[t].id

CallInv == RecordsMatch /\ WaitsMatch /\ DeletesMatch /\ OneDelete

Inv == PortsExact /\ NoOrphan /\ ActiveIsConfigured /\ CallInv

USE DEF CallInv, RecordsMatch, WaitsMatch, WaitMatch, DeletesMatch, DeleteMatch, OneDelete

(* Nothing is configured, active or called at first. *)
LEMMA InitInv == Init => Inv
BY ForwardAssumption DEF Init, Inv, PortsExact, NoOrphan, ActiveIsConfigured

(* Nothing the other calls rely on changes with the call of t. *)
LEMMA AddKeeps ==
  ASSUME Typed, Inv, NEW i \in Configs, NEW p \in Ports, AddConfig(i, p) PROVE Inv'
<1> USE DEF AddConfig, Fresh, Typed
<1>1. PortsExact'
  BY ForwardAssumption DEF Inv, PortsExact, Free
<1>2. NoOrphan' /\ ActiveIsConfigured'
  BY ForwardAssumption DEF Inv, NoOrphan, ActiveIsConfigured
<1>3. CallInv'
  BY ForwardAssumption DEF Inv
<1>4. QED
  BY <1>1, <1>2, <1>3 DEF Inv

(* An edit moves the port in the index with the configuration. *)
LEMMA UpdateKeeps ==
  ASSUME Racy = {}, Typed, Inv, NEW i \in Configs, NEW p \in Ports, UpdateConfig(i, p) PROVE Inv'
<1> USE DEF UpdateConfig, Settled, Busy, Typed
<1>1. PortsExact'
  <2>1. configs[i] \in Ports \ {p} /\ usedPorts[configs[i]] = i
    BY DEF Inv, PortsExact
  <2>2. /\ configs'[i] = p /\ \A j \in Configs \ {i} : configs'[j] = configs[j]
        /\ usedPorts'[p] = i /\ usedPorts'[configs[i]] = NoConfig
        /\ \A q \in Ports \ {p, configs[i]} : usedPorts'[q] = usedPorts[q]
    BY <2>1
  <2>3. \A j \in Configs \ {i} : configs[j] # p /\ configs[j] # configs[i]
    BY <2>1, ForwardAssumption DEF Inv, PortsExact, Free
  <2>4. QED
    BY <2>1, <2>2, <2>3, ForwardAssumption DEF Inv, PortsExact
<1>2. NoOrphan' /\ ActiveIsConfigured'
  BY ForwardAssumption DEF Inv, NoOrphan, ActiveIsConfigured
<1>3. CallInv'
  BY ForwardAssumption DEF Inv
<1>4. QED
  BY <1>1, <1>2, <1>3 DEF Inv

(* A start makes a record for a configuration that has none. *)
LEMMA StartKeeps ==
  ASSUME Racy = {}, Typed, Inv, NEW i \in Configs, Start(i) PROVE Inv'
<1>1. PICK r \in Runs : StartRun(r, i)
  BY DEF Start
<1>2. /\ UNCHANGED <<saved, call>> /\ Configured(i) /\ ~Active(i) /\ ~Busy(i)
      /\ run[r] = Blank /\ \A t \in Callers : call[t].run # r
  BY <1>1 DEF Start, Settled, StartRun, Unused
<1>3. /\ active'[i] = r /\ \A j \in Configs \ {i} : active'[j] = active[j]
      /\ run'[r].id = i /\ \A q \in Runs \ {r} : run'[q] = run[q]
  BY <1>1 DEF StartRun, Typed
<1>4. \A j \in Configs : active[j] # r
  BY <1>2, ForwardAssumption DEF Inv
<1>5. PortsExact' /\ ActiveIsConfigured'
  BY <1>2, <1>3 DEF Inv, PortsExact, ActiveIsConfigured
<1>6. NoOrphan'
  BY <1>2, <1>3, ForwardAssumption DEF Inv, NoOrphan, Typed, RunOK
<1>7. RecordsMatch'
  BY <1>2, <1>3, <1>4 DEF Inv, Typed
<1>8. WaitsMatch'
  BY <1>2, <1>3 DEF Inv, Typed, Busy, CallType
<1>9. DeletesMatch' /\ OneDelete'
  BY <1>2, <1>3 DEF Inv, Typed, Busy
<1>10. QED
  BY <1>5, <1>6, <1>7, <1>8, <1>9 DEF Inv

(* The calls that do not move keep matching when nothing else does. *)
LEMMA OthersWait ==
  ASSUME Inv, NEW t \in Callers, \A s \in Callers \ {t} : call'[s] = call[s],
         UNCHANGED <<active, run>>, WaitMatch(call[t])'
  PROVE  WaitsMatch'
<1>1. ASSUME NEW s \in Callers, s # t PROVE WaitMatch(call[s])'
  <2>1. WaitMatch(call[s])
    BY DEF Inv
  <2>2. QED
    BY <1>1, <2>1
<1>2. QED
  BY <1>1

(* A call that moves alone leaves the deletions of the others matched. *)
LEMMA OthersDelete ==
  ASSUME Inv, NEW t \in Callers, \A s \in Callers \ {t} : call'[s] = call[s],
         UNCHANGED <<active, configs>>, DeleteMatch(call[t])'
  PROVE  DeletesMatch'
<1>1. ASSUME NEW s \in Callers, s # t PROVE DeleteMatch(call[s])'
  <2>1. DeleteMatch(call[s])
    BY DEF Inv
  <2>2. QED
    BY <1>1, <2>1
<1>2. QED
  BY <1>1

(* A call that begins waits for nobody yet. *)
LEMMA CallKeeps ==
  ASSUME Typed, Inv, NEW t \in Callers, NEW todo \in SUBSET Configs, Call(t, todo) PROVE Inv'
<1>1. /\ UNCHANGED <<configs, usedPorts, active, status, run>>
      /\ call'[t].job = "stop" /\ call'[t].run = NoRun
      /\ \A s \in Callers \ {t} : call'[s] = call[s]
  BY DEF Call, Typed
<1>2. PortsExact' /\ NoOrphan' /\ ActiveIsConfigured' /\ RecordsMatch'
  BY <1>1 DEF Inv, PortsExact, NoOrphan, ActiveIsConfigured
<1>3. WaitMatch(call[t])' /\ DeleteMatch(call[t])'
  BY <1>1
<1>4. WaitsMatch' /\ DeletesMatch'
  BY <1>1, <1>3, OthersWait, OthersDelete
<1>5. OneDelete'
  BY <1>1 DEF Inv
<1>6. QED
  BY <1>2, <1>4, <1>5 DEF Inv

(* Removing a configuration that is not active, with its own port. *)
LEMMA RemovePorts ==
  ASSUME Typed, Inv, NEW i \in Configs, NEW p \in Ports, configs[i] = p, Remove(i, p)
  PROVE  PortsExact' /\ configs'[i] = NoPort /\ \A j \in Configs \ {i} : configs'[j] = configs[j]
BY ForwardAssumption DEF Inv, PortsExact, Remove, Typed

(* DeleteConfig reads what it will remove after its Stop. *)
LEMMA DeleteKeeps ==
  ASSUME Racy = {}, Typed, Inv, NEW t \in Callers, NEW i \in Configs, DeleteConfig(t, i)
  PROVE  Inv'
<1>1. UNCHANGED <<active, status, run>> /\ configs[i] \in Ports /\ ~Busy(i)
  BY DEF DeleteConfig, Settled, Typed
<1>2. NoOrphan' /\ RecordsMatch'
  BY <1>1 DEF Inv, NoOrphan
<1>3. CASE Active(i)
  <2>1. /\ UNCHANGED saved /\ \A s \in Callers \ {t} : call'[s] = call[s]
        /\ call'[t] = [job |-> "delete", todo |-> {i}, run |-> NoRun, id |-> i, port |-> configs[i]]
    BY <1>3 DEF DeleteConfig, Typed
  <2>2. PortsExact' /\ ActiveIsConfigured'
    BY <1>1, <2>1 DEF Inv, PortsExact, ActiveIsConfigured
  <2>3. WaitMatch(call[t])' /\ DeleteMatch(call[t])'
    BY <1>1, <2>1
  <2>4. WaitsMatch' /\ DeletesMatch'
    BY <1>1, <2>1, <2>3, OthersWait, OthersDelete
  <2>5. OneDelete'
    BY <1>1, <2>1 DEF Inv, Busy
  <2>6. QED
    BY <1>2, <2>2, <2>4, <2>5 DEF Inv
<1>4. CASE ~Active(i)
  <2>1. Remove(i, configs[i]) /\ UNCHANGED call
    BY <1>4 DEF DeleteConfig
  <2>2. PortsExact' /\ \A j \in Configs \ {i} : configs'[j] = configs[j]
    BY <1>1, <2>1, RemovePorts
  <2>3. ActiveIsConfigured'
    BY <1>1, <1>4, <2>2 DEF Inv, ActiveIsConfigured
  <2>4. CallInv'
    BY <1>1, <2>1, <2>2 DEF Inv, Busy
  <2>5. QED
    BY <1>2, <2>2, <2>3, <2>4 DEF Inv
<1>5. QED
  BY <1>3, <1>4

(* What DeleteConfig read is still so when it removes it. *)
LEMMA DeleteFinishKeeps ==
  ASSUME Typed, Inv, NEW t \in Callers, DeleteFinish(t) PROVE Inv'
<1>1. PICK i \in Configs, p \in Ports :
        /\ call[t].job = "delete" /\ call[t].id = i /\ call[t].port = p
        /\ configs[i] = p /\ active[i] = NoRun /\ Remove(i, p)
  BY DEF DeleteFinish, Inv
<1>2. /\ UNCHANGED <<active, status, run>>
      /\ call'[t] = Idle /\ \A s \in Callers \ {t} : call'[s] = call[s]
  BY DEF DeleteFinish, Typed
<1>3. PortsExact' /\ \A j \in Configs \ {i} : configs'[j] = configs[j]
  BY <1>1, RemovePorts
<1>4. NoOrphan' /\ RecordsMatch' /\ ActiveIsConfigured'
  BY <1>1, <1>2, <1>3 DEF Inv, NoOrphan, ActiveIsConfigured
<1>5. WaitsMatch'
  <2>1. WaitMatch(call[t])'
    BY <1>2
  <2>2. QED
    BY <1>2, <2>1, OthersWait
<1>6. DeletesMatch' /\ OneDelete'
  BY <1>1, <1>2, <1>3 DEF Inv
<1>7. QED
  BY <1>3, <1>4, <1>5, <1>6 DEF Inv

(* Return keeps the ID of a deletion and forgets that of a Stop. *)
LEMMA ReturnEffect ==
  ASSUME NEW c \in CallType, c.job # "none", c.run = NoRun
  PROVE  /\ Return(c).run = NoRun
         /\ Return(c).job = "none" => Return(c) = Idle
         /\ c.job = "delete" => Return(c) = c
         /\ c.job # "delete" => Return(c).job # "delete"
BY DEF Return, CallType

(* Stop remembers the goroutine whose record it will remove. *)
LEMMA StopBeginKeeps ==
  ASSUME TypeOK, Typed, Inv, NEW t \in Callers, NEW i \in Configs, StopBegin(t, i) PROVE Inv'
<1>1. /\ UNCHANGED <<configs, usedPorts, active>> /\ call[t] \in CallType
      /\ call[t].run = NoRun /\ i \in call[t].todo /\ call[t].job # "none"
  BY DEF StopBegin, Typed, Inv
<1>2. PortsExact' /\ ActiveIsConfigured'
  BY <1>1 DEF Inv, PortsExact, ActiveIsConfigured
<1>3. CASE Active(i)
  <2>1. PICK q \in Runs : /\ q = active[i] /\ run' = [run EXCEPT ![q].stopped = @ \/ Live(q)]
                          /\ call' = [call EXCEPT ![t] = [call[t] EXCEPT !.run = q, !.id = i,
                                                         !.todo = call[t].todo \ {i}]]
    BY <1>3 DEF StopBegin, Typed
  <2>2. PICK y : y = [call[t] EXCEPT !.run = q, !.id = i, !.todo = call[t].todo \ {i}]
    OBVIOUS
  <2>3. /\ y.run = q /\ y.id = i /\ y.todo = call[t].todo \ {i}
        /\ y.job = call[t].job /\ y.port = call[t].port
    BY <1>1, <2>2 DEF CallType
  <2>4. call'[t] = y /\ \A s \in Callers \ {t} : call'[s] = call[s]
    BY <2>1, <2>2 DEF Typed
  <2>5. /\ \A r \in Runs : run'[r].id = run[r].id /\ run'[r].at = run[r].at
        /\ \A r \in Runs : Live(r) /\ run[r].stopped => run'[r].stopped
        /\ Live(q) => run'[q].stopped
    BY <2>1, ToldType
  <2>6. NoOrphan' /\ RecordsMatch'
    BY <1>1, <2>5 DEF Inv, NoOrphan, Typed
  <2>7. WaitsMatch'
    BY <1>1, <2>1, <2>3, <2>4, <2>5 DEF Inv, Typed, CallType
  <2>8. call[t].job = "delete" => i = call[t].id
    BY <1>1 DEF Inv
  <2>9. DeletesMatch' /\ OneDelete'
    BY <1>1, <2>1, <2>3, <2>4, <2>8, ForwardAssumption DEF Inv
  <2>10. QED
    BY <1>2, <2>6, <2>7, <2>9 DEF Inv
<1>4. CASE ~Active(i)
  <2>1. PICK y : y = [call[t] EXCEPT !.todo = call[t].todo \ {i}]
    OBVIOUS
  <2>2. /\ y \in CallType /\ y.run = NoRun /\ y.job = call[t].job /\ y.id = call[t].id
        /\ y.port = call[t].port /\ y.todo = call[t].todo \ {i}
    BY <1>1, <2>1 DEF CallType
  <2>3. /\ UNCHANGED run /\ call'[t] = Return(y)
        /\ \A s \in Callers \ {t} : call'[s] = call[s]
    BY <1>4, <2>1 DEF StopBegin, Typed
  <2>4. NoOrphan' /\ RecordsMatch'
    BY <1>1, <2>3 DEF Inv, NoOrphan
  <2>5. /\ Return(y).run = NoRun /\ (Return(y).job = "none" => Return(y) = Idle)
        /\ (y.job = "delete" => Return(y) = y) /\ (y.job # "delete" => Return(y).job # "delete")
    BY <1>1, <2>2, ReturnEffect
  <2>6. WaitsMatch'
    BY <1>1, <2>3, <2>5 DEF Inv
  <2>7. DeletesMatch' /\ OneDelete'
    BY <1>1, <1>4, <2>2, <2>3, <2>5 DEF Inv
  <2>8. QED
    BY <1>2, <2>4, <2>6, <2>7 DEF Inv
<1>5. QED
  BY <1>3, <1>4

(* The record that Stop removes is of the goroutine it waited for. *)
LEMMA StopFinishKeeps ==
  ASSUME Typed, Inv, NEW t \in Callers, StopFinish(t) PROVE Inv'
<1>1. PICK i \in Configs, q \in Runs :
        /\ call[t].id = i /\ call[t].run = q /\ Forget(i) /\ UNCHANGED saved
        /\ active[i] \in {q, NoRun} /\ (Live(q) => run[q].stopped) /\ call[t].job # "none"
  BY ForwardAssumption DEF StopFinish, Inv, Typed, CallType
<1>2. PICK y : y = [call[t] EXCEPT !.run = NoRun]
  OBVIOUS
<1>3. /\ y \in CallType /\ y.run = NoRun /\ y.job = call[t].job /\ y.id = i
      /\ y.port = call[t].port /\ y.todo = call[t].todo
  BY <1>1, <1>2 DEF CallType, Typed
<1>4. call'[t] = Return(y) /\ \A s \in Callers \ {t} : call'[s] = call[s]
  BY <1>2 DEF StopFinish, Typed
<1>5. /\ Return(y).run = NoRun /\ (Return(y).job = "none" => Return(y) = Idle)
      /\ (y.job = "delete" => Return(y) = y) /\ (y.job # "delete" => Return(y).job # "delete")
  BY <1>1, <1>3, ReturnEffect
<1>6. active'[i] = NoRun /\ \A j \in Configs \ {i} : active'[j] = active[j]
  BY <1>1 DEF Forget, Typed
<1>7. \A r \in Runs :
        run'[r] = run[r] \/ (run[r].at = "done" /\ active[i] = r /\ run'[r] = Blank)
  <2>1. run' = [r \in Runs |-> IF active[i] = r /\ ~Live(r) THEN Blank ELSE run[r]]
    BY <1>1 DEF Forget
  <2>2. ASSUME NEW r \in Runs
        PROVE  run'[r] = run[r] \/ (run[r].at = "done" /\ active[i] = r /\ run'[r] = Blank)
    <3>1. CASE active[i] = r /\ run[r].at = "done"
      BY <2>1, <3>1
    <3>2. CASE ~(active[i] = r /\ run[r].at = "done")
      BY <2>1, <3>2
    <3>3. QED
      BY <3>1, <3>2
  <2>3. QED
    BY <2>2
<1>8. PortsExact' /\ ActiveIsConfigured'
  BY <1>1, <1>6 DEF Inv, PortsExact, ActiveIsConfigured
<1>9. NoOrphan'
  <2> SUFFICES ASSUME NEW r \in Runs, Live(r)', ~run'[r].stopped PROVE active'[run'[r].id] = r
    BY DEF NoOrphan
  <2>1. run'[r] = run[r]
    BY <1>7
  <2>2. active[run[r].id] = r /\ run[r].id \in Configs
    BY <2>1 DEF Inv, NoOrphan, Typed, RunOK
  <2>3. run[r].id # i
    BY <1>1, <2>1, <2>2, ForwardAssumption
  <2>4. QED
    BY <1>6, <2>1, <2>2, <2>3
<1>10. RecordsMatch'
  <2> SUFFICES ASSUME NEW j \in Configs, active'[j] # NoRun PROVE run'[active'[j]].id = j
    OBVIOUS
  <2>1. j # i /\ active'[j] = active[j] /\ active[j] \in Runs /\ run[active[j]].id = j
    BY <1>6 DEF Inv, Typed
  <2>2. active[i] # active[j]
    BY <2>1, ForwardAssumption DEF Inv
  <2>3. QED
    BY <1>7, <2>1, <2>2
<1>11. WaitsMatch'
  <2>1. WaitMatch(call[t])'
    BY <1>4, <1>5
  <2>2. ASSUME NEW s \in Callers, s # t PROVE WaitMatch(call[s])'
    <3>1. WaitMatch(call[s]) /\ call[s].run \in Runs \cup {NoRun}
      BY DEF Inv, Typed, CallType
    <3>2. QED
      BY <1>4, <1>6, <1>7, <2>2, <3>1
  <2>3. QED
    BY <2>1, <2>2
<1>12. DeletesMatch'
  <2>1. ASSUME NEW s \in Callers, s # t PROVE DeleteMatch(call[s])'
    <3>1. DeleteMatch(call[s])
      BY DEF Inv
    <3>2. QED
      BY <1>1, <1>4, <1>6, <2>1, <3>1
  <2>2. DeleteMatch(call[t])
    BY DEF Inv
  <2>3. DeleteMatch(call[t])'
    BY <1>1, <1>3, <1>4, <1>5, <1>6, <2>2
  <2>4. QED
    BY <2>1, <2>3
<1>13. OneDelete'
  BY <1>1, <1>3, <1>4, <1>5 DEF Inv
<1>14. QED
  BY <1>8, <1>9, <1>10, <1>11, <1>12, <1>13 DEF Inv

(* A goroutine cannot break what holds between the maps. *)
LEMMA StepKeeps ==
  ASSUME TypeOK, Typed, Inv, NEW r \in Runs, Step(r) PROVE Inv'
<1>1. UNCHANGED <<configs, usedPorts, active, call>> /\ Moved(r) /\ Live(r)
  BY StepEffect DEF Steady
<1>2. PortsExact' /\ ActiveIsConfigured' /\ OneDelete' /\ DeletesMatch'
  BY <1>1 DEF Inv, PortsExact, ActiveIsConfigured
<1>3. NoOrphan' /\ RecordsMatch'
  BY <1>1 DEF Moved, Inv, NoOrphan, Typed
<1>4. WaitsMatch'
  <2>1. ASSUME NEW s \in Callers PROVE WaitMatch(call[s])'
    <3>1. WaitMatch(call[s]) /\ call[s].run \in Runs \cup {NoRun} /\ call'[s] = call[s]
      BY <1>1 DEF Inv, Typed, CallType
    <3>2. QED
      BY <1>1, <3>1 DEF Moved
  <2>2. QED
    BY <2>1
<1>5. QED
  BY <1>2, <1>3, <1>4 DEF Inv

(* A new process has the saved configurations and nothing else. *)
LEMMA RestartKeeps == ASSUME Typed, Inv, Restart PROVE Inv'
<1>1. PortsExact'
  <2>1. UNCHANGED configs /\ \A p \in Ports :
          usedPorts'[p] = IF \E i \in Configs : configs[i] = p
                          THEN CHOOSE i \in Configs : configs[i] = p ELSE NoConfig
    BY DEF Restart, Load
  <2>2. \A i, j \in Configs, p \in Ports : configs[i] = p /\ configs[j] = p => i = j
    BY DEF Inv, PortsExact
  <2>3. ASSUME NEW i \in Configs, NEW p \in Ports PROVE configs[i] = p <=> usedPorts'[p] = i
    BY <2>1, <2>2, ForwardAssumption
  <2>4. QED
    BY <2>1, <2>3 DEF PortsExact
<1>2. NoOrphan' /\ ActiveIsConfigured' /\ CallInv'
  BY DEF Restart, NoOrphan, ActiveIsConfigured
<1>3. QED
  BY <1>1, <1>2 DEF Inv

(* Without races on a configuration every step keeps the invariant. *)
LEMMA NextInv == Racy = {} => (TypeOK /\ Inv /\ [Next]_vars => Inv')
<1> SUFFICES ASSUME Racy = {}, TypeOK, Inv, [Next]_vars PROVE Inv'
  OBVIOUS
<1>0. Typed
  BY TypedIsTypeOK
<1>1. ASSUME NEW i \in Configs, NEW p \in Ports, AddConfig(i, p) \/ UpdateConfig(i, p) PROVE Inv'
  BY <1>0, <1>1, AddKeeps, UpdateKeeps
<1>2. ASSUME NEW i \in Configs, Start(i) PROVE Inv'
  BY <1>0, <1>2, StartKeeps
<1>3. ASSUME NEW t \in Callers, Stop(t) \/ StopAll(t) \/ StopAllForContext(t) PROVE Inv'
  <2>1. PICK todo \in SUBSET Configs : Call(t, todo)
    BY <1>3 DEF Stop, StopAll, StopAllForContext
  <2>2. QED
    BY <1>0, <2>1, CallKeeps
<1>4. ASSUME NEW t \in Callers, NEW i \in Configs, DeleteConfig(t, i) PROVE Inv'
  BY <1>0, <1>4, DeleteKeeps
<1>5. ASSUME NEW t \in Callers, Proceed(t) PROVE Inv'
  BY <1>0, <1>5, StopFinishKeeps, DeleteFinishKeeps, StopBeginKeeps DEF Proceed
<1>6. ASSUME NEW r \in Runs, Step(r) PROVE Inv'
  BY <1>0, <1>6, StepKeeps
<1>7. CASE Restart
  BY <1>0, <1>7, RestartKeeps
<1>8. CASE UNCHANGED vars
  BY <1>8 DEF Inv, PortsExact, NoOrphan, ActiveIsConfigured
<1>9. QED
  BY <1>1, <1>2, <1>3, <1>4, <1>5, <1>6, <1>7, <1>8 DEF Next

(* So it always holds. *)
LEMMA InvAlways == Racy = {} => (Spec => [](TypeOK /\ Inv))
<1> SUFFICES ASSUME Racy = {} PROVE Spec => [](TypeOK /\ Inv)
  OBVIOUS
<1>1. TypeOK /\ Inv /\ [Next]_vars => (TypeOK /\ Inv)'
  BY NextType, NextInv
<1>2. QED
  BY <1>1, InitType, InitInv, PTL DEF Spec

(* No two configurations share a local port, and the index is exact. *)
THEOREM PortsAlwaysExact == Racy = {} => (Spec => []PortsExact)
<1>1. Inv => PortsExact
  BY DEF Inv
<1>2. QED
  BY <1>1, InvAlways, PTL

(* Every goroutine that was not told to stop can be found under its ID. *)
THEOREM NeverOrphan == Racy = {} => (Spec => []NoOrphan)
<1>1. Inv => NoOrphan
  BY DEF Inv
<1>2. QED
  BY <1>1, InvAlways, PTL

(* A context switch finds every active forward by its configuration. *)
THEOREM ActiveAlwaysConfigured == Racy = {} => (Spec => []ActiveIsConfigured)
<1>1. Inv => ActiveIsConfigured
  BY DEF Inv
<1>2. QED
  BY <1>1, InvAlways, PTL

(* Ports, goroutines and configurations agree, which is what Stop, a        *)
(* context switch and the end of the program rely on.                       *)
THEOREM ForwardsAlwaysExact == Racy = {} => (Spec => []ForwardsExact)
<1>1. PortsExact /\ NoOrphan /\ ActiveIsConfigured => ForwardsExact
  BY DEF ForwardsExact
<1>2. QED
  BY <1>1, PortsAlwaysExact, NeverOrphan, ActiveAlwaysConfigured, PTL

-----------------------------------------------------------------------------
(* Statuses.                                                               *)

(* An ID whose API calls end in time has no goroutine but that of its       *)
(* record, which could report for it.                                      *)
OneRun == \A r \in Runs : Live(r) /\ run[r].id \notin Slow => active[run[r].id] = r

(* Between two of its Stops a call concerns only what it has still to do.   *)
Between == \A t \in Callers : call[t].job = "stop" /\ call[t].run = NoRun => call[t].id = NoConfig

(* Only a goroutine that a call waits for is told to stop. *)
NotTold == \A i \in Configs \ Slow : Active(i) /\ ~Busy(i) => ~run[active[i]].stopped

StatusInv == OneRun /\ Between /\ NotTold /\ StatusHonest

(* Forwards that no step touches keep their statuses. *)
LEMMA SameStatus ==
  ASSUME NotTold, StatusHonest,
         \A i \in Configs \ Slow : (Active(i) /\ ~Busy(i))' =>
           /\ Active(i) /\ ~Busy(i) /\ active'[i] = active[i] /\ status'[i] = status[i]
           /\ run'[active[i]].at = run[active[i]].at
           /\ run'[active[i]].stopped = run[active[i]].stopped
  PROVE  NotTold' /\ StatusHonest'
<1>1. NotTold'
  BY DEF NotTold
<1>2. ASSUME NEW i \in Configs \ Slow, (Active(i) /\ ~Busy(i))'
      PROVE  CASE status'[i] = "running" -> run'[active'[i]].at = "connected"
               [] status'[i] = "error" -> run'[active'[i]].at = "done"
               [] OTHER -> run'[active'[i]].at # "done" /\ run'[active'[i]].at # "connected"
  BY <1>2 DEF StatusHonest
<1>3. StatusHonest'
  BY <1>2 DEF StatusHonest
<1>4. QED
  BY <1>1, <1>3

(* There is nothing to show at first, nor after a restart. *)
LEMMA NoneHonest == (\A i \in Configs : ~Active(i)) => NotTold /\ StatusHonest
BY DEF NotTold, StatusHonest

(* The initial state shows nothing. *)
LEMMA InitStatus == Init => StatusInv
<1> SUFFICES ASSUME Init PROVE StatusInv
  OBVIOUS
<1>1. OneRun /\ Between
  BY DEF Init, OneRun, Between
<1>2. QED
  BY <1>1, NoneHonest DEF Init, StatusInv

(* A start shows "starting" for its goroutine, the only one of the ID. *)
LEMMA StartStatus ==
  ASSUME Racy = {}, Typed, Inv, StatusInv, NEW i \in Configs, Start(i) PROVE StatusInv'
<1>1. PICK r \in Runs : StartRun(r, i)
  BY DEF Start
<1>2. /\ UNCHANGED call /\ ~Active(i) /\ run[r] = Blank
  BY <1>1 DEF Start, StartRun, Unused
<1>3. /\ active'[i] = r /\ \A j \in Configs \ {i} : active'[j] = active[j]
      /\ status'[i] = "starting" /\ \A j \in Configs \ {i} : status'[j] = status[j]
      /\ run'[r].id = i /\ run'[r].at = "check" /\ run'[r].stopped = FALSE
      /\ \A q \in Runs \ {r} : run'[q] = run[q]
  BY <1>1 DEF StartRun, Typed
<1>4. \A j \in Configs : active[j] # r
  BY <1>2, ForwardAssumption DEF Inv
<1>5. OneRun'
  <2>1. ASSUME NEW q \in Runs, q # r, Live(q)', run'[q].id \notin Slow PROVE active'[run'[q].id] = q
    <3>1. run'[q] = run[q] /\ active[run[q].id] = q /\ run[q].id \in Configs
      BY <1>3, <2>1 DEF StatusInv, OneRun, Typed, RunOK
    <3>2. run[q].id # i
      BY <1>2, <3>1, ForwardAssumption
    <3>3. QED
      BY <1>3, <3>1, <3>2
  <2>2. QED
    BY <1>3, <2>1 DEF OneRun
<1>6. \A j \in Configs : Busy(j)' <=> Busy(j)
  BY <1>2 DEF Busy
<1>7. ASSUME NEW j \in Configs \ Slow, (Active(j) /\ ~Busy(j))'
      PROVE  /\ ~run'[active'[j]].stopped
             /\ CASE status'[j] = "running" -> run'[active'[j]].at = "connected"
                  [] status'[j] = "error" -> run'[active'[j]].at = "done"
                  [] OTHER -> run'[active'[j]].at # "done" /\ run'[active'[j]].at # "connected"
  <2>1. CASE j = i
    BY <1>3, <2>1
  <2>2. CASE j # i
    <3>1. /\ active'[j] = active[j] /\ status'[j] = status[j] /\ active[j] \in Runs \ {r}
          /\ Active(j) /\ ~Busy(j)
      BY <1>3, <1>4, <1>6, <1>7, <2>2 DEF Typed
    <3>2. run'[active[j]] = run[active[j]]
      BY <1>3, <3>1
    <3>3. QED
      BY <3>1, <3>2 DEF StatusInv, NotTold, StatusHonest
  <2>3. QED
    BY <2>1, <2>2
<1>8. NotTold' /\ StatusHonest'
  BY <1>7 DEF NotTold, StatusHonest
<1>9. Between'
  BY <1>2 DEF StatusInv, Between
<1>10. QED
  BY <1>5, <1>8, <1>9 DEF StatusInv

(* A call that moves without touching a goroutine or a record: what it no   *)
(* longer concerns is not active.                                          *)
LEMMA CallStatus ==
  ASSUME Typed, StatusInv, UNCHANGED <<active, status, run>>, NEW t \in Callers,
         \A s \in Callers \ {t} : call'[s] = call[s],
         call'[t].job = "stop" /\ call'[t].run = NoRun => call'[t].id = NoConfig,
         \A i \in Configs : Active(i) /\ call[t].job # "none" /\ (i \in call[t].todo \/ call[t].id = i) =>
           call'[t].job # "none" /\ (i \in call'[t].todo \/ call'[t].id = i)
  PROVE  StatusInv'
<1>1. \A i \in Configs : Active(i) /\ Busy(i) => Busy(i)'
  BY DEF Busy
<1>2. NotTold' /\ StatusHonest'
  BY <1>1, SameStatus DEF StatusInv
<1>3. OneRun' /\ Between'
  BY DEF StatusInv, OneRun, Between
<1>4. QED
  BY <1>2, <1>3 DEF StatusInv

(* A Stop closes a channel, and its ID is busy from then on. *)
LEMMA StopBeginStatus ==
  ASSUME TypeOK, Typed, Inv, StatusInv, NEW t \in Callers, NEW i \in Configs, StopBegin(t, i)
  PROVE  StatusInv'
<1>1. /\ UNCHANGED <<active, status>> /\ call[t] \in CallType /\ call[t].run = NoRun
      /\ i \in call[t].todo /\ call[t].job # "none"
  BY DEF StopBegin, Typed, Inv
<1>2. CASE Active(i)
  <2>1. PICK q \in Runs : /\ q = active[i] /\ run' = [run EXCEPT ![q].stopped = @ \/ Live(q)]
                          /\ call' = [call EXCEPT ![t] = [call[t] EXCEPT !.run = q, !.id = i,
                                                         !.todo = call[t].todo \ {i}]]
    BY <1>2 DEF StopBegin, Typed
  <2>2. PICK y : y = [call[t] EXCEPT !.run = q, !.id = i, !.todo = call[t].todo \ {i}]
    OBVIOUS
  <2>3. y.run = q /\ y.id = i /\ y.todo = call[t].todo \ {i} /\ y.job = call[t].job
    BY <1>1, <2>2 DEF CallType
  <2>4. call'[t] = y /\ \A s \in Callers \ {t} : call'[s] = call[s]
    BY <2>1, <2>2 DEF Typed
  <2>5. /\ \A r \in Runs : run'[r].id = run[r].id /\ run'[r].at = run[r].at
        /\ \A r \in Runs \ {q} : run'[r] = run[r]
    BY <2>1, ToldType
  <2>6. Busy(i)'
    BY <1>1, <2>3, <2>4 DEF Busy
  <2>7. ASSUME NEW j \in Configs, j # i, Busy(j), Active(j) PROVE Busy(j)'
    <3>1. PICK s \in Callers : call[s].job # "none" /\ (j \in call[s].todo \/ call[s].id = j)
      BY <2>7 DEF Busy
    <3>2. CASE s # t
      BY <2>4, <3>1, <3>2 DEF Busy
    <3>3. CASE s = t
      <4>1. j \in call[t].todo
        <5>1. call[t].job = "stop" => call[t].id = NoConfig
          BY <1>1 DEF StatusInv, Between
        <5>2. call[t].job = "delete" => call[t].id = i
          BY <1>1 DEF Inv
        <5>3. QED
          BY <1>1, <2>7, <3>1, <3>3, <5>1, <5>2, ForwardAssumption DEF CallType
      <4>2. QED
        BY <1>1, <2>3, <2>4, <2>7, <4>1 DEF Busy
    <3>4. QED
      BY <3>2, <3>3
  <2>8. \A j \in Configs \ Slow : (Active(j) /\ ~Busy(j))' =>
          /\ Active(j) /\ ~Busy(j) /\ active'[j] = active[j] /\ status'[j] = status[j]
          /\ run'[active[j]].at = run[active[j]].at
          /\ run'[active[j]].stopped = run[active[j]].stopped
    <3>1. ASSUME NEW j \in Configs \ Slow, (Active(j) /\ ~Busy(j))'
          PROVE  j # i /\ active[j] \in Runs \ {q} /\ ~Busy(j)
      BY <1>1, <2>1, <2>6, <2>7, <3>1 DEF Inv, Typed
    <3>2. QED
      BY <1>1, <2>5, <3>1
  <2>9. NotTold' /\ StatusHonest'
    BY <2>8, SameStatus DEF StatusInv
  <2>10. OneRun'
    BY <1>1, <2>5 DEF StatusInv, OneRun
  <2>11. Between'
    BY <2>1, <2>3, <2>4, ForwardAssumption DEF StatusInv, Between
  <2>12. QED
    BY <2>9, <2>10, <2>11 DEF StatusInv
<1>3. CASE ~Active(i)
  <2>1. PICK y : y = [call[t] EXCEPT !.todo = call[t].todo \ {i}]
    OBVIOUS
  <2>2. /\ y \in CallType /\ y.run = NoRun /\ y.job = call[t].job /\ y.id = call[t].id
        /\ y.todo = call[t].todo \ {i}
    BY <1>1, <2>1 DEF CallType
  <2>3. UNCHANGED run /\ call'[t] = Return(y) /\ \A s \in Callers \ {t} : call'[s] = call[s]
    BY <1>3, <2>1 DEF StopBegin, Typed
  <2>4. \/ y.job = "delete" /\ Return(y) = y
        \/ y.job = "stop" /\ y.todo = {} /\ Return(y) = Idle
        \/ /\ y.job = "stop" /\ y.todo # {} /\ Return(y).job = "stop" /\ Return(y).id = NoConfig
           /\ Return(y).todo = y.todo
    BY <1>1, <2>2 DEF Return, CallType
  <2>5. call[t].job = "stop" => call[t].id = NoConfig
    BY <1>1 DEF StatusInv, Between
  <2>6. ASSUME NEW j \in Configs, Active(j), j \in call[t].todo \/ call[t].id = j
        PROVE  call'[t].job # "none" /\ (j \in call'[t].todo \/ call'[t].id = j)
    BY <1>1, <1>3, <2>2, <2>3, <2>4, <2>5, <2>6, ForwardAssumption
  <2>7. call'[t].job = "stop" /\ call'[t].run = NoRun => call'[t].id = NoConfig
    BY <2>3, <2>4
  <2>8. QED
    BY <1>1, <2>3, <2>6, <2>7, CallStatus
<1>4. QED
  BY <1>2, <1>3

(* The goroutine whose record is removed has ended, or its calls are slow.  *)
LEMMA StopFinishStatus ==
  ASSUME Typed, Inv, StatusInv, NEW t \in Callers, StopFinish(t) PROVE StatusInv'
<1>1. PICK i \in Configs, q \in Runs :
        /\ call[t].id = i /\ call[t].run = q /\ Forget(i)
        /\ active[i] \in {q, NoRun} /\ call[t].job # "none" /\ (~Live(q) \/ TimedOut(q))
  BY ForwardAssumption DEF StopFinish, Inv, Typed, CallType
<1>2. PICK y : y = [call[t] EXCEPT !.run = NoRun]
  OBVIOUS
<1>3. /\ y \in CallType /\ y.run = NoRun /\ y.job = call[t].job /\ y.id = i /\ y.todo = call[t].todo
  BY <1>1, <1>2 DEF CallType, Typed
<1>4. call'[t] = Return(y) /\ \A s \in Callers \ {t} : call'[s] = call[s]
  BY <1>2 DEF StopFinish, Typed
<1>5. \/ y.job = "delete" /\ Return(y) = y
      \/ y.job = "stop" /\ y.todo = {} /\ Return(y) = Idle
      \/ /\ y.job = "stop" /\ y.todo # {} /\ Return(y).job = "stop" /\ Return(y).id = NoConfig
         /\ Return(y).todo = y.todo
  BY <1>1, <1>3 DEF Return, CallType
<1>6. /\ active'[i] = NoRun /\ \A j \in Configs \ {i} : active'[j] = active[j] /\ status'[j] = status[j]
  BY <1>1 DEF Forget, Typed
<1>7. \A r \in Runs : r # active[i] \/ Live(r) => run'[r] = run[r]
  BY <1>1 DEF Forget
<1>8. \A r \in Runs : Live(r)' => run'[r] = run[r]
  BY <1>1 DEF Forget
<1>9. OneRun'
  <2> SUFFICES ASSUME NEW r \in Runs, Live(r)', run'[r].id \notin Slow PROVE active'[run'[r].id] = r
    BY DEF OneRun
  <2>1. run'[r] = run[r] /\ active[run[r].id] = r /\ run[r].id \in Configs
    BY <1>8 DEF StatusInv, OneRun, Typed, RunOK
  <2>2. run[r].id # i
    <3>1. SUFFICES ASSUME run[r].id = i PROVE FALSE
      OBVIOUS
    <3>2. q = r
      BY <1>1, <2>1, <3>1, ForwardAssumption
    <3>3. QED
      BY <1>1, <2>1, <3>1, <3>2 DEF TimedOut
  <2>3. QED
    BY <1>6, <2>1, <2>2
<1>10. ASSUME NEW j \in Configs, j # i, Busy(j) PROVE Busy(j)'
  <2>1. PICK s \in Callers : call[s].job # "none" /\ (j \in call[s].todo \/ call[s].id = j)
    BY <1>10 DEF Busy
  <2>2. CASE s # t
    BY <1>4, <2>1, <2>2 DEF Busy
  <2>3. CASE s = t
    BY <1>1, <1>3, <1>4, <1>5, <1>10, <2>1, <2>3 DEF Busy
  <2>4. QED
    BY <2>2, <2>3
<1>11. ASSUME NEW j \in Configs \ Slow, (Active(j) /\ ~Busy(j))'
       PROVE  /\ Active(j) /\ ~Busy(j) /\ active'[j] = active[j] /\ status'[j] = status[j]
              /\ run'[active[j]] = run[active[j]]
  <2>1. j # i /\ active'[j] = active[j] /\ status'[j] = status[j] /\ Active(j) /\ ~Busy(j)
    BY <1>6, <1>10, <1>11
  <2>2. active[j] \in Runs /\ active[j] # active[i]
    BY <2>1, ForwardAssumption DEF Inv, Typed
  <2>3. QED
    BY <1>7, <2>1, <2>2
<1>12. NotTold' /\ StatusHonest'
  BY <1>11, SameStatus DEF StatusInv
<1>13. Between'
  BY <1>4, <1>5 DEF StatusInv, Between
<1>14. QED
  BY <1>9, <1>12, <1>13 DEF StatusInv

(* A goroutine reports what it does, as long as nobody told it to stop. *)
LEMMA StepStatus ==
  ASSUME TypeOK, Typed, Inv, StatusInv, NEW r \in Runs, Step(r) PROVE StatusInv'
<1>1. UNCHANGED <<configs, usedPorts, active, call>> /\ Moved(r) /\ Live(r)
  BY StepEffect DEF Steady
<1> DEFINE i == run[r].id
<1>2. i \in Configs
  BY <1>1 DEF Typed, RunOK
<1>3. \A j \in Configs : Busy(j)' <=> Busy(j)
  BY <1>1 DEF Busy
<1>4. OneRun' /\ Between'
  BY <1>1 DEF StatusInv, OneRun, Between, Moved
<1>5. \A j \in Configs \ {i} : status'[j] = status[j]
  BY <1>2 DEF Step, Check, Resolve, Ready, AttemptEnds, Backoff, Probe, UpdateStatus, Typed
<1>6. ASSUME i \in Configs \ Slow, Active(i) /\ ~Busy(i)
      PROVE  /\ active[i] = r /\ (run'[r].at = "done" \/ ~run'[r].stopped)
             /\ CASE status'[i] = "running" -> run'[r].at = "connected"
                  [] status'[i] = "error" -> run'[r].at = "done"
                  [] OTHER -> run'[r].at # "done" /\ run'[r].at # "connected"
  <2>1. /\ active[i] = r /\ ~run[r].stopped
        /\ CASE status[i] = "running" -> run[r].at = "connected"
             [] status[i] = "error" -> run[r].at = "done"
             [] OTHER -> run[r].at # "done" /\ run[r].at # "connected"
    BY <1>1, <1>6 DEF StatusInv, OneRun, NotTold, StatusHonest
  <2>2. run'[r].at = "done" \/ ~run'[r].stopped
    BY <1>1, <2>1 DEF Moved
  <2>3. \A s : UpdateStatus(r, s) => status'[i] = s
    BY <1>6 DEF UpdateStatus, Typed
  <2>4. CASE Check(r)
    <3>1. CASE run[r].attempt = MaxRetries
      BY <2>1, <2>2, <2>3, <2>4, <3>1, EndType DEF Check
    <3>2. CASE run[r].attempt # MaxRetries
      <4>1. Goto(r, "resolving") /\ UNCHANGED status /\ run[r].at = "check"
        BY <2>1, <2>4, <3>2 DEF Check
      <4>2. run'[r].at = "resolving"
        BY <4>1 DEF Goto, Typed, RunType
      <4>3. QED
        BY <2>1, <2>2, <4>1, <4>2
    <3>3. QED
      BY <3>1, <3>2
  <2>5. CASE Resolve(r)
    <3>1. Goto(r, "connecting") /\ UNCHANGED status /\ run[r].at = "resolving"
      BY <2>5 DEF Resolve
    <3>2. run'[r].at = "connecting"
      BY <3>1 DEF Goto, Typed, RunType
    <3>3. QED
      BY <2>1, <2>2, <3>1, <3>2
  <2>6. CASE Ready(r)
    <3>1. Goto(r, "connected") /\ status'[i] = "running"
      BY <2>3, <2>6 DEF Ready
    <3>2. run'[r].at = "connected"
      BY <3>1 DEF Goto, Typed, RunType
    <3>3. QED
      BY <2>1, <2>2, <3>1, <3>2
  <2>7. CASE AttemptEnds(r)
    <3>1. PICK n : Loop(r, "backoff", n) /\ status'[i] = "reconnecting"
      BY <2>1, <2>3, <2>7 DEF AttemptEnds
    <3>2. run'[r].at = "backoff"
      BY <3>1 DEF Loop, Typed, RunType
    <3>3. QED
      BY <2>1, <2>2, <3>1, <3>2
  <2>8. CASE Backoff(r)
    <3>1. PICK l \in {"probing", "check"} : Goto(r, l) /\ UNCHANGED status /\ run[r].at = "backoff"
      BY <2>1, <2>8 DEF Backoff
    <3>2. run'[r].at = l
      BY <3>1 DEF Goto, Typed, RunType
    <3>3. QED
      BY <2>1, <2>2, <3>1, <3>2
  <2>9. CASE Probe(r)
    <3>1. CASE Goto(r, "check") /\ UNCHANGED status
      <4>1. run'[r].at = "check" /\ run[r].at = "probing"
        BY <2>9, <3>1 DEF Probe, Goto, Typed, RunType
      <4>2. QED
        BY <2>1, <2>2, <3>1, <4>1
    <3>2. CASE End(r) /\ UpdateStatus(r, "error")
      BY <2>1, <2>2, <2>3, <3>2, EndType
    <3>3. QED
      BY <2>9, <3>1, <3>2 DEF Probe
  <2>10. QED
    BY <2>4, <2>5, <2>6, <2>7, <2>8, <2>9 DEF Step
<1>7. run'[r].at = "done" => ~run'[r].stopped
  BY EndType, <1>1 DEF Step, Check, Resolve, Ready, AttemptEnds, Backoff, Probe, Goto, Loop, Typed, RunType
<1>8. ASSUME NEW j \in Configs \ Slow, (Active(j) /\ ~Busy(j))'
      PROVE  /\ ~run'[active'[j]].stopped
             /\ CASE status'[j] = "running" -> run'[active'[j]].at = "connected"
                  [] status'[j] = "error" -> run'[active'[j]].at = "done"
                  [] OTHER -> run'[active'[j]].at # "done" /\ run'[active'[j]].at # "connected"
  <2>1. Active(j) /\ ~Busy(j) /\ active'[j] = active[j]
    BY <1>1, <1>3, <1>8
  <2>2. CASE j = i
    BY <1>6, <1>7, <2>1, <2>2
  <2>3. CASE j # i
    <3>1. active[j] \in Runs \ {r} /\ status'[j] = status[j]
      BY <1>5, <2>1, <2>3 DEF Inv, Typed
    <3>2. run'[active[j]] = run[active[j]]
      BY <1>1, <3>1 DEF Moved
    <3>3. QED
      BY <2>1, <3>1, <3>2 DEF StatusInv, NotTold, StatusHonest
  <2>4. QED
    BY <2>2, <2>3
<1>9. NotTold' /\ StatusHonest'
  BY <1>8 DEF NotTold, StatusHonest
<1>10. QED
  BY <1>4, <1>9 DEF StatusInv

(* Every step keeps the statuses honest. *)
LEMMA NextStatus ==
  Racy = {} => (TypeOK /\ Inv /\ StatusInv /\ [Next]_vars => StatusInv')
<1> SUFFICES ASSUME Racy = {}, TypeOK, Inv, StatusInv, [Next]_vars PROVE StatusInv'
  OBVIOUS
<1>0. Typed
  BY TypedIsTypeOK
<1>1. ASSUME UNCHANGED <<active, status, run, call>> PROVE StatusInv'
  BY <1>1 DEF StatusInv, OneRun, Between, NotTold, StatusHonest, Busy
<1>2. ASSUME NEW i \in Configs, NEW p \in Ports, AddConfig(i, p) \/ UpdateConfig(i, p)
      PROVE  StatusInv'
  BY <1>1, <1>2 DEF AddConfig, UpdateConfig
<1>3. ASSUME NEW i \in Configs, Start(i) PROVE StatusInv'
  BY <1>0, <1>3, StartStatus
<1>4. ASSUME NEW t \in Callers, Stop(t) \/ StopAll(t) \/ StopAllForContext(t) PROVE StatusInv'
  <2>1. PICK todo \in SUBSET Configs : Call(t, todo)
    BY <1>4 DEF Stop, StopAll, StopAllForContext
  <2>2. /\ UNCHANGED <<active, status, run>> /\ call[t].job = "none"
        /\ call'[t].id = NoConfig /\ \A s \in Callers \ {t} : call'[s] = call[s]
    BY <1>0, <2>1 DEF Call, Typed
  <2>3. QED
    BY <1>0, <2>2, CallStatus
<1>5. ASSUME NEW t \in Callers, NEW i \in Configs, DeleteConfig(t, i) PROVE StatusInv'
  <2>1. CASE Active(i)
    <3>1. /\ UNCHANGED <<active, status, run>> /\ call[t].job = "none"
          /\ call'[t].job = "delete" /\ \A s \in Callers \ {t} : call'[s] = call[s]
      BY <1>0, <1>5, <2>1 DEF DeleteConfig, Typed
    <3>2. QED
      BY <1>0, <3>1, CallStatus
  <2>2. CASE ~Active(i)
    BY <1>1, <1>5, <2>2 DEF DeleteConfig
  <2>3. QED
    BY <2>1, <2>2
<1>6. ASSUME NEW t \in Callers, DeleteFinish(t) PROVE StatusInv'
  <2>1. /\ UNCHANGED <<active, status, run>> /\ call'[t].id = NoConfig
        /\ call[t].todo = {} /\ active[call[t].id] = NoRun
        /\ \A s \in Callers \ {t} : call'[s] = call[s]
    BY <1>0, <1>6 DEF DeleteFinish, Typed, Inv
  <2>2. QED
    BY <1>0, <2>1, CallStatus
<1>7. ASSUME NEW t \in Callers, Proceed(t) PROVE StatusInv'
  BY <1>0, <1>6, <1>7, StopFinishStatus, StopBeginStatus DEF Proceed
<1>8. ASSUME NEW r \in Runs, Step(r) PROVE StatusInv'
  BY <1>0, <1>8, StepStatus
<1>9. CASE Restart
  <2>1. NotTold' /\ StatusHonest'
    BY <1>9 DEF Restart, NotTold, StatusHonest
  <2>2. OneRun' /\ Between'
    BY <1>9 DEF Restart, OneRun, Between
  <2>3. QED
    BY <2>1, <2>2 DEF StatusInv
<1>10. CASE UNCHANGED vars
  BY <1>1, <1>10
<1>11. QED
  BY <1>2, <1>3, <1>4, <1>5, <1>7, <1>8, <1>9, <1>10 DEF Next

(* What the frontend shows of a forward is what its goroutine does, unless  *)
(* its API calls outlast a Stop, or a call is about to change it.          *)
THEOREM StatusAlwaysHonest == Racy = {} => (Spec => []StatusHonest)
<1> SUFFICES ASSUME Racy = {} PROVE Spec => []StatusHonest
  OBVIOUS
<1>1. StatusInv /\ (TypeOK /\ Inv) /\ [Next]_vars => StatusInv'
  BY NextStatus
<1>2. StatusInv => StatusHonest
  BY DEF StatusInv
<1>3. QED
  BY <1>1, <1>2, InitStatus, InvAlways, PTL DEF Spec
=============================================================================
