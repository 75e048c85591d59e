--------------------------- MODULE Services_proofs ---------------------------
(***************************************************************************)
(* Proofs about the services beside the feed: the exec credential guard,   *)
(* for any number of requests, any cool-down and any runs of the plugin;   *)
(* ingress forwarding, for any calls and forwards; the event broadcast and *)
(* the terminals of server mode, for any connections and any queue; bulk   *)
(* actions, for any selections and backups; the cut of a dependency graph, *)
(* for any cluster; and the coalescer of the events that are broadcast, for *)
(* every set of keys and events, every batch cap, clamp and setting.       *)
(***************************************************************************)
EXTENDS EventCoalescer, MCServices, FiniteSetTheorems, NaturalsInduction, TLAPS

-----------------------------------------------------------------------------
(* The exec credential guard.                                              *)

(* Only the newest attempt can be in flight. *)
NewestRuns == inFlight \in {0, Len(attempts)}

(* What the guard remembers of a failure is the end of the last attempt. *)
FailureKept ==
  inFlight = 0 /\ Len(attempts) > 0 =>
    (attempts[Len(attempts)].state = "failed" =>
       err /\ retryAt = attempts[Len(attempts)].ended + Cooldown)

(* A request waits for an attempt that has not ended before it came. *)
WaitFresh(c) ==
  /\ caller[c].came <= wall
  /\ caller[c].at \in {"waiting", "admitted", "denied"} =>
       /\ caller[c].attempt \in DOMAIN attempts
       /\ \/ attempts[caller[c].attempt].state = "running"
          \/ attempts[caller[c].attempt].ended >= caller[c].came
  /\ caller[c].at = "admitted" => attempts[caller[c].attempt].state = "ok"
  /\ caller[c].at = "denied" => attempts[caller[c].attempt].state = "failed"

GuardInv ==
  /\ GuardTypeOK /\ SingleFlight /\ RestsAfterFailure
  /\ NewestRuns /\ FailureKept /\ \A c \in Callers : WaitFresh(c)

LEMMA GuardInitInv == GuardInit => GuardInv
<1> SUFFICES ASSUME GuardInit PROVE GuardInv
  OBVIOUS
<1>1. Len(attempts) = 0 /\ DOMAIN attempts = {} /\ attempts \in Seq(Attempt)
  BY DEF GuardInit
<1>2. GuardTypeOK
  <2>1. caller \in [Callers -> Caller]
    BY DEF GuardInit, Caller
  <2>2. \A c \in Callers : caller[c].attempt = 0 /\ caller[c].at = "idle"
    BY DEF GuardInit
  <2>3. 0 \in 0 .. Len(attempts)
    <3>1. Len(attempts) = 0
      BY <1>1
    <3>2. 0 \in 0 .. 0
      OBVIOUS
    <3>3. QED
      BY <3>1, <3>2
  <2>4. /\ wall \in Nat /\ inFlight \in 0 .. Len(attempts) /\ err \in BOOLEAN /\ retryAt \in Nat
        /\ \A c \in Callers : caller[c].attempt \in 0 .. Len(attempts)
    BY <2>2, <2>3 DEF GuardInit
  <2>5. QED
    BY <1>1, <2>1, <2>2, <2>3, <2>4 DEF GuardTypeOK
<1>3. SingleFlight /\ RestsAfterFailure /\ NewestRuns /\ FailureKept
  BY <1>1 DEF GuardInit, SingleFlight, RestsAfterFailure, NewestRuns, FailureKept
<1>4. ASSUME NEW c \in Callers PROVE WaitFresh(c)
  <2>1. caller[c].at = "idle" /\ caller[c].came = 0 /\ wall = 0
    BY DEF GuardInit
  <2>2. QED
    BY <2>1 DEF WaitFresh
<1>5. QED
  BY <1>2, <1>3, <1>4 DEF GuardInv

(* A request that changes its place, while the guard stays as it is.        *)
LEMMA ReturnInv ==
  ASSUME GuardInv, NEW c \in Callers, NEW how \in {"canceled", "paused", "admitted", "denied"},
         Return(c, how),
         how \in {"admitted", "denied"} =>
           /\ caller[c].at = "waiting"
           /\ attempts[caller[c].attempt].state = IF how = "admitted" THEN "ok" ELSE "failed"
  PROVE  GuardInv'
<1>1. /\ UNCHANGED <<wall, attempts, inFlight, err, retryAt>>
      /\ caller' = [caller EXCEPT ![c].at = how]
  BY DEF Return, guard
<1>2. caller \in [Callers -> Caller]
  BY DEF GuardInv, GuardTypeOK
<1>3. /\ caller' \in [Callers -> Caller]
      /\ \A d \in Callers : /\ caller'[d].attempt = caller[d].attempt
                            /\ caller'[d].came = caller[d].came
                            /\ caller'[d].at = IF d = c THEN how ELSE caller[d].at
  BY <1>1, <1>2 DEF Caller
<1>4. GuardTypeOK'
  BY <1>1, <1>3 DEF GuardInv, GuardTypeOK
<1>5. ASSUME NEW d \in Callers PROVE WaitFresh(d)'
  BY <1>1, <1>3, <1>5 DEF GuardInv, WaitFresh
<1>6. QED
  BY <1>1, <1>4, <1>5 DEF GuardInv, SingleFlight, RestsAfterFailure, NewestRuns, FailureKept

(* A request that begins to wait for the attempt in flight.                 *)
LEMMA JoinInv == ASSUME GuardInv, NEW c \in Callers, CheckJoins(c) PROVE GuardInv'
<1>1. /\ UNCHANGED <<wall, attempts, inFlight, err, retryAt>>
      /\ caller' = [caller EXCEPT ![c] = [at |-> "waiting", attempt |-> inFlight, came |-> wall]]
      /\ inFlight # 0
  BY DEF CheckJoins, Wait, guard
<1>2. inFlight \in DOMAIN attempts /\ attempts[inFlight].state = "running" /\ wall \in Nat
  BY <1>1 DEF GuardInv, GuardTypeOK, SingleFlight
<1>3. GuardTypeOK'
  BY <1>1, <1>2 DEF GuardInv, GuardTypeOK, Caller
<1>4. ASSUME NEW d \in Callers PROVE WaitFresh(d)'
  BY <1>1, <1>2, <1>4 DEF GuardInv, GuardTypeOK, WaitFresh
<1>5. QED
  BY <1>1, <1>3, <1>4 DEF GuardInv, SingleFlight, RestsAfterFailure, NewestRuns, FailureKept

(* A request that starts the plugin: the one before it has ended, and if it *)
(* failed, the cool-down is over.                                           *)
LEMMA StartInv == ASSUME GuardInv, NEW c \in Callers, CheckStarts(c) PROVE GuardInv'
<1> DEFINE n == Len(attempts) + 1
           new == [state |-> "running", began |-> wall, ended |-> 0]
<1>1. /\ UNCHANGED <<wall, err, retryAt>> /\ ~Paused /\ inFlight = 0
      /\ attempts' = Append(attempts, new) /\ inFlight' = Len(attempts')
      /\ caller' = [caller EXCEPT ![c] = [at |-> "waiting", attempt |-> inFlight', came |-> wall]]
  BY DEF CheckStarts, Wait
<1>2. attempts \in Seq(Attempt) /\ wall \in Nat /\ retryAt \in Nat /\ new \in Attempt
  BY DEF GuardInv, GuardTypeOK, Attempt
<1>3. /\ attempts' \in Seq(Attempt) /\ Len(attempts') = n /\ attempts'[n] = new /\ n \in Nat
      /\ n # 0 /\ \A i \in DOMAIN attempts : attempts'[i] = attempts[i]
      /\ DOMAIN attempts' = DOMAIN attempts \cup {n}
  BY <1>1, <1>2
<1>4. inFlight' = n /\ n \notin DOMAIN attempts /\ DOMAIN attempts = 1 .. n - 1
  BY <1>1, <1>2, <1>3
<1>5. GuardTypeOK'
  <2>1. \A d \in Callers : caller'[d].attempt \in 0 .. n
    BY <1>1, <1>2, <1>3, <1>4 DEF GuardInv, GuardTypeOK, Caller
  <2>2. caller' \in [Callers -> Caller]
    BY <1>1, <1>2, <1>3, <1>4 DEF GuardInv, GuardTypeOK, Caller
  <2>3. \A d \in Callers : caller'[d].at = "waiting" => caller'[d].attempt # 0
    BY <1>1, <1>3, <1>4 DEF GuardInv, GuardTypeOK
  <2>4. QED
    BY <1>1, <1>2, <1>3, <1>4, <2>1, <2>2, <2>3 DEF GuardInv, GuardTypeOK
<1>6. SingleFlight'
  BY <1>1, <1>3, <1>4 DEF GuardInv, SingleFlight
<1>7. RestsAfterFailure'
  <2> SUFFICES ASSUME NEW i \in DOMAIN attempts', NEW j \in DOMAIN attempts',
                      j = i + 1, attempts'[i].state = "failed"
               PROVE  attempts'[j].began >= attempts'[i].ended + Cooldown
    BY DEF RestsAfterFailure
  <2>1. CASE j = n
    <3>1. i = Len(attempts) /\ i > 0 /\ attempts'[i] = attempts[i]
      BY <2>1, <1>3, <1>4
    <3>2. err /\ retryAt = attempts[i].ended + Cooldown
      BY <3>1, <1>1 DEF GuardInv, FailureKept
    <3>3. wall >= retryAt
      BY <3>2, <1>1, <1>2 DEF Paused
    <3>4. QED
      BY <2>1, <3>1, <3>2, <3>3, <1>3
  <2>2. CASE j # n
    <3>1. j \in DOMAIN attempts /\ i \in DOMAIN attempts
      BY <2>2, <1>3, <1>4
    <3>2. QED
      BY <3>1, <1>3 DEF GuardInv, RestsAfterFailure
  <2>3. QED
    BY <2>1, <2>2
<1>8. NewestRuns' /\ FailureKept'
  BY <1>3, <1>4 DEF NewestRuns, FailureKept
<1>9. ASSUME NEW d \in Callers PROVE WaitFresh(d)'
  <2>1. CASE d = c
    BY <2>1, <1>1, <1>2, <1>3, <1>4 DEF GuardInv, GuardTypeOK, WaitFresh
  <2>2. CASE d # c
    BY <2>2, <1>1, <1>3, <1>4 DEF GuardInv, GuardTypeOK, WaitFresh
  <2>3. QED
    BY <2>1, <2>2
<1>10. QED
  BY <1>5, <1>6, <1>7, <1>8, <1>9 DEF GuardInv

(* The plugin has ended: the attempt gets its end, which is not before any  *)
(* request that waits for it.                                               *)
LEMMA EndInv == ASSUME GuardInv, NEW how \in {"ok", "failed"}, End(how) PROVE GuardInv'
<1> DEFINE n == inFlight
<1>1. /\ UNCHANGED <<wall, caller>> /\ n # 0 /\ inFlight' = 0
      /\ attempts' = [attempts EXCEPT ![n] = [@ EXCEPT !.state = how, !.ended = wall]]
      /\ err' = (how = "failed") /\ retryAt' = IF how = "failed" THEN wall + Cooldown ELSE retryAt
  BY DEF End, Ended
<1>2. /\ attempts \in Seq(Attempt) /\ wall \in Nat /\ retryAt \in Nat /\ Cooldown \in Nat
      /\ n = Len(attempts) /\ n \in DOMAIN attempts
  BY <1>1, ExecAuthAssumption DEF GuardInv, GuardTypeOK, NewestRuns
<1>3. /\ attempts' \in Seq(Attempt) /\ Len(attempts') = n /\ DOMAIN attempts' = DOMAIN attempts
      /\ \A i \in DOMAIN attempts : i # n => attempts'[i] = attempts[i]
      /\ attempts'[n].state = how /\ attempts'[n].ended = wall
      /\ attempts'[n].began = attempts[n].began
  <2>1. attempts[n] \in Attempt
    BY <1>2
  <2>2. [attempts[n] EXCEPT !.state = how, !.ended = wall] \in Attempt
    BY <1>2, <2>1 DEF Attempt
  <2>3. attempts' \in Seq(Attempt) /\ Len(attempts') = n /\ DOMAIN attempts' = DOMAIN attempts
    BY <1>1, <1>2, <2>2
  <2>4. attempts'[n] = [attempts[n] EXCEPT !.state = how, !.ended = wall]
    BY <1>1, <1>2
  <2>5. \A i \in DOMAIN attempts : i # n => attempts'[i] = attempts[i]
    BY <1>1, <1>2
  <2>6. QED
    BY <2>1, <2>3, <2>4, <2>5 DEF Attempt
<1>4. GuardTypeOK'
  <2>1. err' \in BOOLEAN /\ retryAt' \in Nat
    BY <1>1, <1>2
  <2>2. inFlight' \in 0 .. Len(attempts')
    BY <1>1, <1>2, <1>3
  <2>3. QED
    BY <1>1, <1>2, <1>3, <2>1, <2>2 DEF GuardInv, GuardTypeOK
<1>5. SingleFlight'
  <2> SUFFICES ASSUME NEW i \in DOMAIN attempts' PROVE attempts'[i].state # "running"
    BY <1>1, <1>2, <1>3 DEF SingleFlight
  <2>1. QED
    BY <1>3 DEF GuardInv, SingleFlight
<1>6. RestsAfterFailure'
  <2> SUFFICES ASSUME NEW i \in DOMAIN attempts', NEW j \in DOMAIN attempts',
                      j = i + 1, attempts'[i].state = "failed"
               PROVE  attempts'[j].began >= attempts'[i].ended + Cooldown
    BY DEF RestsAfterFailure
  <2>1. i \in DOMAIN attempts /\ j \in DOMAIN attempts /\ i # n
    BY <1>2, <1>3
  <2>2. attempts'[i] = attempts[i] /\ attempts'[j].began = attempts[j].began
    BY <2>1, <1>3
  <2>3. QED
    BY <2>1, <2>2 DEF GuardInv, RestsAfterFailure
<1>7. NewestRuns' /\ FailureKept'
  BY <1>1, <1>2, <1>3 DEF NewestRuns, FailureKept
<1>8. ASSUME NEW d \in Callers PROVE WaitFresh(d)'
  <2>1. CASE caller[d].attempt = n
    <3>1. caller[d].at \notin {"admitted", "denied"}
      BY <2>1, <1>1, <1>2 DEF GuardInv, WaitFresh, SingleFlight
    <3>2. QED
      BY <2>1, <3>1, <1>1, <1>2, <1>3 DEF GuardInv, WaitFresh
  <2>2. CASE caller[d].attempt # n
    BY <2>2, <1>1, <1>3 DEF GuardInv, WaitFresh
  <2>3. QED
    BY <2>1, <2>2
<1>9. QED
  BY <1>4, <1>5, <1>6, <1>7, <1>8 DEF GuardInv

LEMMA TickInv == ASSUME GuardInv, GuardTick PROVE GuardInv'
<1>1. UNCHANGED <<attempts, inFlight, err, retryAt, caller>> /\ wall' = wall + 1
  BY DEF GuardTick, guard
<1>2. wall \in Nat /\ wall' \in Nat
  BY <1>1 DEF GuardInv, GuardTypeOK
<1>3. ASSUME NEW d \in Callers PROVE WaitFresh(d)'
  <2>1. caller[d].came \in Nat
    BY DEF GuardInv, GuardTypeOK, Caller
  <2>2. QED
    BY <1>1, <1>2, <2>1 DEF GuardInv, WaitFresh
<1>4. QED
  BY <1>1, <1>2, <1>3 DEF GuardInv, GuardTypeOK, SingleFlight, RestsAfterFailure, NewestRuns, FailureKept

LEMMA GuardNextInv == GuardInv /\ [GuardNext]_guardVars => GuardInv'
<1> SUFFICES ASSUME GuardInv, [GuardNext]_guardVars PROVE GuardInv'
  OBVIOUS
<1>1. ASSUME NEW c \in Callers, CheckDone(c) \/ CheckPaused(c) \/ Leave(c) PROVE GuardInv'
  <2>1. Return(c, "canceled") \/ Return(c, "paused")
    BY <1>1 DEF CheckDone, CheckPaused, Leave
  <2>2. QED
    BY <2>1, ReturnInv
<1>2. ASSUME NEW c \in Callers, Answer(c) PROVE GuardInv'
  <2> DEFINE how == IF attempts[caller[c].attempt].state = "ok" THEN "admitted" ELSE "denied"
  <2>1. caller[c].at = "waiting" /\ Return(c, how) /\ attempts[caller[c].attempt].state # "running"
    BY <1>2 DEF Answer
  <2>2. attempts[caller[c].attempt] \in Attempt
    BY <2>1 DEF GuardInv, GuardTypeOK, WaitFresh
  <2>3. attempts[caller[c].attempt].state \in {"ok", "failed"}
    BY <2>1, <2>2 DEF Attempt
  <2>4. QED
    BY <2>1, <2>3, ReturnInv
<1>3. CASE UNCHANGED guardVars
  BY <1>3 DEF guardVars, GuardInv, GuardTypeOK, SingleFlight, RestsAfterFailure, NewestRuns, FailureKept, WaitFresh
<1>4. QED
  BY <1>1, <1>2, <1>3, TickInv, EndInv, StartInv, JoinInv DEF GuardNext

(* Every reachable state is well typed. *)
THEOREM GuardTyped == GuardSpec => []GuardTypeOK
<1>1. GuardInv => GuardTypeOK
  BY DEF GuardInv
<1>2. QED
  BY <1>1, GuardInitInv, GuardNextInv, PTL DEF GuardSpec

(* One run of the plugin at a time, a rest after each failure, and for each *)
(* request an answer from a run that ended while it waited.                 *)
THEOREM GuardSound == GuardSpec => []ExecAuthSound
<1>1. GuardInv => ExecAuthSound
  <2> SUFFICES ASSUME GuardInv PROVE ExecAuthSound
    OBVIOUS
  <2>1. AdmittedFresh
    BY DEF GuardInv, WaitFresh, AdmittedFresh
  <2>2. DeniedFresh
    BY DEF GuardInv, WaitFresh, DeniedFresh
  <2>3. QED
    BY <2>1, <2>2 DEF GuardInv, ExecAuthSound
<1>2. QED
  BY <1>1, GuardInitInv, GuardNextInv, PTL DEF GuardSpec
-----------------------------------------------------------------------------
(***************************************************************************)
(* Ingress forwarding.                                                     *)
(*                                                                         *)
(* IngressInv follows a call through its places.  What a place may rely on *)
(* depends on what may go wrong: CalmOK holds as long as the call has been *)
(* alone since the last Start began, OrderOK when calls never overlap and  *)
(* the forwards never crash, BlockOK when the hosts file can be cleaned,   *)
(* and is not written by a call that fails, too.  The same three formulas  *)
(* about an idle call say what holds when nothing is under way.            *)
(***************************************************************************)

(* The places of a call, and what it keeps. *)
CallState ==
  [at : {"idle", "cleanup", "collect", "https", "http", "publish", "start", "hosts", "done",
         "stop", "unstart", "unhost", "reset", "error", "rehost", "note"},
   ids : SUBSET Forwards, context : Contexts \cup {NoContext}, clean : BOOLEAN, fails : BOOLEAN]

(* The forwards that are saved, and those of one context. *)
Held == {f \in Forwards : forward[f].is # "none"}
Mine(x) == {f \in Forwards : forward[f].is # "none" /\ forward[f].context = x}

(* Forwarding is up: these forwards and no others of its context, all of    *)
(* them started.                                                            *)
Whole ==
  state.ids # {} /\ Mine(state.context) = state.ids /\ \A f \in state.ids : forward[f].is = "started"

(* As long as a call r is alone since the last Start began: what there is   *)
(* in its context is what it has made so far, and forwarding runs only as a *)
(* whole.                                                                   *)
CalmOK(r) ==
  /\ r.at \in {"cleanup", "collect", "https", "http", "publish", "start", "hosts", "done"} =>
       state.status = "starting" /\ state.context = r.context
  /\ r.at \in {"cleanup", "collect", "https"} => r.ids = {}
  /\ r.at \in {"collect", "https", "http", "publish"} => Mine(r.context) = r.ids
  /\ r.at = "start" => Mine(r.context) = r.ids /\ state.ids = r.ids /\ r.ids # {}
  /\ r.at \in {"hosts", "done"} => Whole
  /\ r.at \in {"idle", "rehost", "note", "stop"} /\ state.status = "running" => Whole

(* Without a crash and without an overlap nothing is lost, either, in       *)
(* whatever context.                                                        *)
OrderOK(r) ==
  /\ r.at \notin {"idle", "error"} => state.active
  /\ r.at \in {"cleanup", "collect", "https"} => Held = {}
  /\ r.at \in {"http", "publish"} => Held = r.ids
  /\ r.at = "start" => Held = r.ids /\ state.ids = r.ids
  /\ r.at \in {"hosts", "done", "rehost", "note", "stop"} => Held = state.ids
  /\ r.at = "unstart" => Held = r.ids
  /\ r.at \in {"unhost", "reset", "error"} => Held = {}
  /\ r.at = "idle" => Held = IF state.active THEN state.ids ELSE {}

(* When the hosts file can be cleaned as well: the state knows of entries.  *)
BlockOK(r) ==
  /\ r.at \in {"cleanup", "collect", "https", "http", "publish", "start", "hosts", "reset", "error"} => ~block
  /\ r.at \in {"done", "rehost", "stop"} => (block => state.updated)
  /\ r.at \in {"unstart", "unhost"} => (block => r.clean)
  /\ r.at = "idle" => (block => state.active /\ state.updated)

Regular == trouble \cap {"overlap", "crash"} = {}
Alone(c) == \A d \in Users : d # c => call[d].at = "idle"

IngressInv ==
  /\ Ingress!TypeOK
  /\ \A c \in Users : call[c].at = "idle" => call[c] = Ingress!Idle
  /\ calm => /\ \A c \in Users : call[c].at # "idle" => Alone(c) /\ CalmOK(call[c])
             /\ Ingress!Quiet => CalmOK(Ingress!Idle)
  /\ Regular => /\ calm /\ \A c \in Users : call[c].at # "idle" => OrderOK(call[c])
                /\ Ingress!Quiet => OrderOK(Ingress!Idle)
  /\ trouble = {} => /\ \A c \in Users : call[c].at # "idle" => BlockOK(call[c])
                     /\ Ingress!Quiet => BlockOK(Ingress!Idle)

(* A caller between two calls. *)
LEMMA IdleIs == Ingress!Idle \in CallState /\ Ingress!Idle.at = "idle" /\ Ingress!Idle.ids = {}
BY DEF Ingress!Idle, CallState

(* Nothing is forwarded at the start. *)
LEMMA IngressInitInv == Ingress!Init => IngressInv
<1> SUFFICES ASSUME Ingress!Init PROVE IngressInv
  OBVIOUS
<1>1. Ingress!TypeOK /\ Held = {}
  BY DEF Ingress!Init, Ingress!TypeOK, Ingress!State, Ingress!Stopped, Ingress!Idle, Held,
         Ingress!Forward, Ingress!NoForward
<1>2. state.status = "stopped" /\ ~state.active /\ ~block /\ calm
  BY DEF Ingress!Init, Ingress!Stopped
<1>3. \A c \in Users : call[c] = Ingress!Idle /\ call[c].at = "idle"
  BY IdleIs DEF Ingress!Init
<1>4. CalmOK(Ingress!Idle) /\ OrderOK(Ingress!Idle) /\ BlockOK(Ingress!Idle)
  BY <1>1, <1>2, IdleIs DEF CalmOK, OrderOK, BlockOK
<1>5. QED
  BY <1>1, <1>2, <1>3, <1>4 DEF IngressInv

(* One caller moves on to r; the invariant is about it alone, when there    *)
(* is something to say.                                                     *)
LEMMA OneMoves ==
  ASSUME IngressInv, NEW c \in Users, NEW r \in CallState,
         call' = [call EXCEPT ![c] = r], trouble' = trouble, calm' \in BOOLEAN,
         state' \in Ingress!State, forward' \in [Forwards -> Ingress!Forward],
         block' \in BOOLEAN,
         r.at = "idle" => r = Ingress!Idle,
         calm' => Alone(c) /\ CalmOK(r)',
         Regular => calm' /\ OrderOK(r)',
         trouble = {} => BlockOK(r)'
  PROVE  IngressInv'
<1>1. /\ call' \in [Users -> CallState] /\ call'[c] = r
      /\ \A d \in Users : d # c => call'[d] = call[d]
  BY DEF IngressInv, Ingress!TypeOK, CallState
<1>2. Ingress!TypeOK'
  BY <1>1 DEF IngressInv, Ingress!TypeOK, CallState
<1>3. \A d \in Users : call'[d].at = "idle" => call'[d] = Ingress!Idle
  BY <1>1 DEF IngressInv
<1>4. Regular' = Regular /\ (trouble = {} => Regular)
  BY DEF Regular
<1>5. Ingress!Quiet' => r = Ingress!Idle
  BY <1>1 DEF Ingress!Quiet, Ingress!At
<1>6. ASSUME calm', NEW d \in Users, call'[d].at # "idle"
      PROVE  d = c /\ call'[d] = r /\ Alone(d)'
  <2>1. Alone(c)
    BY <1>6
  <2>2. d = c
    BY <1>1, <1>6, <2>1 DEF Alone
  <2>3. QED
    BY <1>1, <2>1, <2>2 DEF Alone
<1>7. calm' => /\ \A d \in Users : call'[d].at # "idle" => Alone(d)' /\ CalmOK(call[d])'
               /\ Ingress!Quiet' => CalmOK(Ingress!Idle)'
  <2>1. ASSUME calm' PROVE CalmOK(r)'
    BY <2>1
  <2>2. \A d \in Users : call'[d] = r => (CalmOK(r)' => CalmOK(call[d])')
    BY DEF CalmOK
  <2>3. r = Ingress!Idle => (CalmOK(r)' => CalmOK(Ingress!Idle)')
    BY DEF CalmOK
  <2>4. QED
    BY <1>5, <1>6, <2>1, <2>2, <2>3
<1>8. Regular => /\ calm' /\ \A d \in Users : call'[d].at # "idle" => OrderOK(call[d])'
                 /\ Ingress!Quiet' => OrderOK(Ingress!Idle)'
  <2>1. \A d \in Users : call'[d] = r => (OrderOK(r)' => OrderOK(call[d])')
    BY DEF OrderOK
  <2>2. r = Ingress!Idle => (OrderOK(r)' => OrderOK(Ingress!Idle)')
    BY DEF OrderOK
  <2>3. QED
    BY <1>5, <1>6, <2>1, <2>2
<1>9. trouble = {} => /\ \A d \in Users : call'[d].at # "idle" => BlockOK(call[d])'
                      /\ Ingress!Quiet' => BlockOK(Ingress!Idle)'
  <2>1. \A d \in Users : call'[d] = r => (BlockOK(r)' => BlockOK(call[d])')
    BY DEF BlockOK
  <2>2. r = Ingress!Idle => (BlockOK(r)' => BlockOK(Ingress!Idle)')
    BY DEF BlockOK
  <2>3. QED
    BY <1>4, <1>5, <1>6, <2>1, <2>2
<1>10. QED
  BY <1>2, <1>3, <1>4, <1>7, <1>8, <1>9 DEF IngressInv

(* What the caller that moves may rely on. *)
LEMMA MoverFacts ==
  ASSUME IngressInv, NEW c \in Users
  PROVE  /\ call[c] \in CallState /\ calm \in BOOLEAN /\ state \in Ingress!State /\ block \in BOOLEAN
         /\ forward \in [Forwards -> Ingress!Forward]
         /\ call[c].at = "idle" => call[c] = Ingress!Idle
         /\ call[c].at # "idle" => /\ calm => Alone(c) /\ CalmOK(call[c])
                                   /\ Regular => calm /\ OrderOK(call[c])
                                   /\ trouble = {} => BlockOK(call[c])
         /\ trouble = {} => Regular
BY DEF IngressInv, Ingress!TypeOK, CallState, Regular

(* A call begins: alone, unless calls may overlap. *)
LEMMA BeginFacts ==
  ASSUME IngressInv, NEW c \in Users, Ingress!MayCall(c)
  PROVE  /\ call[c] = Ingress!Idle
         /\ Ingress!Quiet => Alone(c)
         /\ Regular => Ingress!Quiet /\ calm
         /\ Ingress!Quiet => /\ calm => CalmOK(Ingress!Idle)
                             /\ Regular => OrderOK(Ingress!Idle)
                             /\ trouble = {} => BlockOK(Ingress!Idle)
BY DEF IngressInv, Ingress!MayCall, Ingress!Quiet, Ingress!At, Alone, Regular

(* A caller that goes to another place keeps its locals. *)
LEMMA GoesTo ==
  ASSUME IngressInv, NEW c \in Users, NEW p \in {"cleanup", "collect", "https", "http", "publish", "start",
         "hosts", "done", "stop", "unstart", "unhost", "reset", "error", "rehost", "note"},
         Ingress!Goto(c, p)
  PROVE  \E r \in CallState : /\ call' = [call EXCEPT ![c] = r] /\ r.at = p /\ r.ids = call[c].ids
                              /\ r.context = call[c].context /\ r.clean = call[c].clean
                              /\ r.fails = call[c].fails
<1>1. call[c] \in CallState /\ call \in [Users -> CallState]
  BY DEF IngressInv, Ingress!TypeOK, CallState
<1> DEFINE r == [call[c] EXCEPT !.at = p]
<1>2. call' = [call EXCEPT ![c] = r]
  BY <1>1 DEF Ingress!Goto, CallState
<1>3. /\ r \in CallState /\ r.at = p /\ r.ids = call[c].ids /\ r.context = call[c].context
      /\ r.clean = call[c].clean /\ r.fails = call[c].fails
  BY <1>1 DEF CallState
<1> HIDE DEF r
<1>4. QED
  BY <1>2, <1>3

(* Start marks the state, in the same critical section as its check. *)
LEMMA StartBeginInv == ASSUME IngressInv, NEW c \in Users, Ingress!StartBegin(c) PROVE IngressInv'
<1>1. PICK x \in Contexts : /\ state' = [state EXCEPT !.active = TRUE, !.status = "starting", !.context = x]
                            /\ call' = [call EXCEPT ![c].at = "cleanup", ![c].context = x]
  BY DEF Ingress!StartBegin
<1>2. /\ Ingress!MayCall(c) /\ ~state.active /\ calm' = Ingress!Quiet /\ UNCHANGED <<trouble, forward, block>>
      /\ Held' = Held
  BY DEF Ingress!StartBegin, Held
<1>3. PICK r \in CallState : call' = [call EXCEPT ![c] = r] /\ r.at = "cleanup" /\ r.ids = {} /\ r.context = x
  <2> DEFINE r == [call[c] EXCEPT !.at = "cleanup", !.context = x]
  <2>1. call[c] \in CallState /\ call[c].ids = {} /\ call \in [Users -> CallState]
    BY <1>2, BeginFacts, MoverFacts, IdleIs DEF IngressInv, Ingress!TypeOK, CallState
  <2>2. r \in CallState /\ r.at = "cleanup" /\ r.ids = {} /\ r.context = x
    BY <2>1 DEF CallState
  <2>3. call' = [call EXCEPT ![c] = r]
    BY <1>1, <2>1 DEF CallState
  <2> HIDE DEF r
  <2>4. QED
    BY <2>2, <2>3
<1>4. state' \in Ingress!State /\ state'.active /\ state'.status = "starting" /\ state'.context = x
  BY <1>1, MoverFacts DEF Ingress!State
<1>5. calm' \in BOOLEAN
  BY <1>2 DEF Ingress!Quiet
<1>6. CalmOK(r)'
  BY <1>3, <1>4 DEF CalmOK
<1>7. Regular => OrderOK(r)'
  BY <1>2, <1>3, <1>4, BeginFacts, IdleIs DEF OrderOK
<1>8. trouble = {} => BlockOK(r)'
  BY <1>2, <1>3, BeginFacts, MoverFacts, IdleIs DEF BlockOK
<1>9. QED
  BY <1>2, <1>3, <1>4, <1>5, <1>6, <1>7, <1>8, BeginFacts, MoverFacts, OneMoves

(* Start removes what an earlier run left in its context. *)
LEMMA CleanupInv == ASSUME IngressInv, NEW c \in Users, Ingress!Cleanup(c) PROVE IngressInv'
<1>1. PICK x : x = call[c].context
  OBVIOUS
<1>2. /\ call[c].at = "cleanup"
      /\ forward' = [f \in Forwards |-> IF forward[f].context = x THEN Ingress!NoForward ELSE forward[f]]
      /\ UNCHANGED <<trouble, state, block, calm>>
  BY <1>1 DEF Ingress!Cleanup, Ingress!At
<1>3. PICK r \in CallState : /\ call' = [call EXCEPT ![c] = r] /\ r.at = "collect" /\ r.ids = call[c].ids
                             /\ r.context = x
  BY <1>1, GoesTo DEF Ingress!Cleanup
<1>4. Mine(x)' = {} /\ Held' \subseteq Held /\ forward' \in [Forwards -> Ingress!Forward]
  <2>1. Ingress!NoForward \in Ingress!Forward /\ Ingress!NoForward.is = "none"
    BY DEF Ingress!NoForward, Ingress!Forward
  <2>2. QED
    BY <1>2, <2>1, MoverFacts DEF Held, Mine
<1>5. calm => CalmOK(r)'
  <2>1. Mine(r.context)' = {}
    BY <1>3, <1>4 DEF Mine
  <2>2. QED
    BY <1>1, <1>2, <1>3, <2>1, MoverFacts DEF CalmOK
<1>6. Regular => OrderOK(r)'
  BY <1>2, <1>3, <1>4, MoverFacts DEF OrderOK
<1>7. trouble = {} => BlockOK(r)'
  BY <1>2, <1>3, MoverFacts DEF BlockOK
<1>8. QED
  BY <1>2, <1>3, <1>4, <1>5, <1>6, <1>7, MoverFacts, OneMoves

(* Start has nothing to forward to. *)
LEMMA FailInv == ASSUME IngressInv, NEW c \in Users, Ingress!Fail(c) PROVE IngressInv'
<1>1. call[c].at \in {"collect", "https"} /\ UNCHANGED <<trouble, state, forward, block, calm>>
  BY DEF Ingress!Fail
<1>2. PICK r \in CallState : call' = [call EXCEPT ![c] = r] /\ r.at = "error" /\ r.ids = call[c].ids
  BY GoesTo DEF Ingress!Fail
<1>3. calm => CalmOK(r)'
  BY <1>1, <1>2 DEF CalmOK
<1>4. Regular => OrderOK(r)'
  BY <1>1, <1>2, MoverFacts DEF OrderOK, Held
<1>5. trouble = {} => BlockOK(r)'
  BY <1>1, <1>2, MoverFacts DEF BlockOK
<1>6. QED
  BY <1>1, <1>2, <1>3, <1>4, <1>5, MoverFacts, OneMoves

(* The host names are collected. *)
LEMMA CollectInv == ASSUME IngressInv, NEW c \in Users, Ingress!Collect(c) PROVE IngressInv'
<1>1. call[c].at = "collect" /\ UNCHANGED <<trouble, state, forward, block, calm>>
  BY DEF Ingress!Collect, Ingress!At
<1>2. PICK r \in CallState : /\ call' = [call EXCEPT ![c] = r] /\ r.at = "https" /\ r.ids = call[c].ids
                             /\ r.context = call[c].context
  BY GoesTo DEF Ingress!Collect
<1>3. calm => CalmOK(r)'
  BY <1>1, <1>2, MoverFacts DEF CalmOK, Mine
<1>4. Regular => OrderOK(r)'
  BY <1>1, <1>2, MoverFacts DEF OrderOK, Held
<1>5. trouble = {} => BlockOK(r)'
  BY <1>1, <1>2, MoverFacts DEF BlockOK
<1>6. QED
  BY <1>1, <1>2, <1>3, <1>4, <1>5, MoverFacts, OneMoves

(* A configuration is saved, or is passed over. *)
LEMMA AddInv ==
  ASSUME IngressInv, NEW c \in Users, NEW p \in {"http", "publish"}, Ingress!Add(c, p),
         call[c].at = IF p = "http" THEN "https" ELSE "http",
         UNCHANGED <<trouble, state, block, calm>>
  PROVE  IngressInv'
<1>1. CASE Ingress!Goto(c, p) /\ UNCHANGED forward
  <2>1. PICK r \in CallState : /\ call' = [call EXCEPT ![c] = r] /\ r.at = p /\ r.ids = call[c].ids
                               /\ r.context = call[c].context
    BY <1>1, GoesTo
  <2>2. calm => CalmOK(r)'
    BY <1>1, <2>1, MoverFacts DEF CalmOK, Mine
  <2>3. Regular => OrderOK(r)'
    BY <1>1, <2>1, MoverFacts DEF OrderOK, CalmOK, Held
  <2>4. trouble = {} => BlockOK(r)'
    BY <2>1, MoverFacts DEF BlockOK
  <2>5. QED
    BY <1>1, <2>1, <2>2, <2>3, <2>4, MoverFacts, OneMoves
<1>2. CASE \E f \in Forwards : /\ forward[f] = Ingress!NoForward
                               /\ forward' = [forward EXCEPT ![f] = [is |-> "saved", context |-> call[c].context]]
                               /\ call' = [call EXCEPT ![c].at = p, ![c].ids = @ \cup {f}]
  <2>1. PICK f \in Forwards : /\ forward[f] = Ingress!NoForward
                              /\ forward' = [forward EXCEPT ![f] = [is |-> "saved", context |-> call[c].context]]
                              /\ call' = [call EXCEPT ![c].at = p, ![c].ids = @ \cup {f}]
    BY <1>2
  <2>2. PICK x, new : x = call[c].context /\ new = [is |-> "saved", context |-> x]
    OBVIOUS
  <2>3. Held' = Held \cup {f} /\ Mine(x)' = Mine(x) \cup {f} /\ forward' \in [Forwards -> Ingress!Forward]
    <3>1. new \in Ingress!Forward /\ new.is = "saved" /\ new.context = x
      BY <2>2, MoverFacts DEF CallState, Ingress!Forward
    <3>2. forward' = [forward EXCEPT ![f] = new]
      BY <2>1, <2>2
    <3>3. QED
      BY <3>1, <3>2, MoverFacts DEF Held, Mine
  <2>4. PICK r \in CallState : /\ call' = [call EXCEPT ![c] = r] /\ r.at = p /\ r.ids = call[c].ids \cup {f}
                               /\ r.context = x
    <3> DEFINE r == [call[c] EXCEPT !.at = p, !.ids = @ \cup {f}]
    <3>1. call[c] \in CallState /\ call \in [Users -> CallState]
      BY MoverFacts DEF IngressInv, Ingress!TypeOK, CallState
    <3>2. r \in CallState /\ r.at = p /\ r.ids = call[c].ids \cup {f} /\ r.context = x
      BY <2>2, <3>1 DEF CallState
    <3>3. call' = [call EXCEPT ![c] = r]
      BY <2>1, <3>1 DEF CallState
    <3> HIDE DEF r
    <3>4. QED
      BY <3>2, <3>3
  <2>5. calm => CalmOK(r)'
    BY <2>2, <2>3, <2>4, MoverFacts DEF CalmOK, Mine
  <2>6. Regular => OrderOK(r)'
    BY <2>3, <2>4, MoverFacts DEF OrderOK, CalmOK
  <2>7. trouble = {} => BlockOK(r)'
    BY <2>4, MoverFacts DEF BlockOK
  <2>8. QED
    BY <2>3, <2>4, <2>5, <2>6, <2>7, MoverFacts, OneMoves
<1>3. QED
  BY <1>1, <1>2 DEF Ingress!Add

(* The state gets to know the forwards, unless there are none. *)
LEMMA PublishInv == ASSUME IngressInv, NEW c \in Users, Ingress!Publish(c) PROVE IngressInv'
<1>1. call[c].at = "publish" /\ UNCHANGED <<trouble, forward, block, calm>> /\ Held' = Held
  BY DEF Ingress!Publish, Ingress!At, Held
<1>2. CASE call[c].ids = {}
  <2>1. state' = state
    BY <1>2 DEF Ingress!Publish
  <2>2. PICK r \in CallState : call' = [call EXCEPT ![c] = r] /\ r.at = "error" /\ r.ids = call[c].ids
    BY <1>2, GoesTo DEF Ingress!Publish
  <2>3. calm => CalmOK(r)'
    BY <2>2 DEF CalmOK
  <2>4. Regular => OrderOK(r)'
    BY <1>1, <1>2, <2>2, MoverFacts DEF OrderOK
  <2>5. trouble = {} => BlockOK(r)'
    BY <1>1, <2>2, MoverFacts DEF BlockOK
  <2>6. QED
    BY <1>1, <2>1, <2>2, <2>3, <2>4, <2>5, MoverFacts, OneMoves
<1>3. CASE call[c].ids # {}
  <2>1. state' = [state EXCEPT !.ids = call[c].ids]
    BY <1>3 DEF Ingress!Publish
  <2>2. /\ state' \in Ingress!State /\ state'.ids = call[c].ids /\ state'.status = state.status
        /\ state'.active = state.active /\ state'.context = state.context
    BY <2>1, MoverFacts DEF Ingress!State, CallState
  <2>3. PICK r \in CallState : /\ call' = [call EXCEPT ![c] = r] /\ r.at = "start" /\ r.ids = call[c].ids
                               /\ r.context = call[c].context
    BY <1>3, GoesTo DEF Ingress!Publish
  <2>4. calm => CalmOK(r)'
    BY <1>1, <1>3, <2>2, <2>3, MoverFacts DEF CalmOK, Mine
  <2>5. Regular => OrderOK(r)'
    BY <1>1, <2>2, <2>3, MoverFacts DEF OrderOK
  <2>6. trouble = {} => BlockOK(r)'
    BY <1>1, <2>3, MoverFacts DEF BlockOK
  <2>7. QED
    BY <1>1, <2>2, <2>3, <2>4, <2>5, <2>6, MoverFacts, OneMoves
<1>4. QED
  BY <1>2, <1>3

(* One of the forwards starts, all have started, or one has failed. *)
LEMMA StartForwardInv == ASSUME IngressInv, NEW c \in Users, Ingress!StartForward(c) PROVE IngressInv'
<1>1. call[c].at = "start" /\ UNCHANGED <<trouble, state, block, calm>>
  BY DEF Ingress!StartForward, Ingress!At
<1>2. CASE \E f \in call[c].ids :
             forward[f].is = "saved" /\ forward' = [forward EXCEPT ![f].is = "started"] /\ UNCHANGED call
  <2>1. PICK f \in call[c].ids : forward[f].is = "saved" /\ forward' = [forward EXCEPT ![f].is = "started"]
    BY <1>2
  <2>2. /\ Held' = Held /\ forward' \in [Forwards -> Ingress!Forward]
        /\ \A x : {g \in Forwards : forward'[g].is # "none" /\ forward'[g].context = x} = Mine(x)
    <3>1. f \in Forwards /\ forward[f] \in Ingress!Forward
      BY MoverFacts DEF CallState
    <3>2. PICK new : new = [forward[f] EXCEPT !.is = "started"]
      OBVIOUS
    <3>3. new \in Ingress!Forward /\ new.is = "started" /\ new.context = forward[f].context
      BY <3>1, <3>2 DEF Ingress!Forward
    <3>4. forward' = [forward EXCEPT ![f] = new]
      BY <2>1, <3>2
    <3>5. QED
      BY <2>1, <3>1, <3>3, <3>4, MoverFacts DEF Held, Mine
  <2>3. PICK r : r = call[c]
    OBVIOUS
  <2>4. r \in CallState /\ call' = [call EXCEPT ![c] = r] /\ r.at = "start"
    BY <1>1, <1>2, <2>3 DEF IngressInv, Ingress!TypeOK, CallState
  <2>5. calm => CalmOK(r)'
    <3>1. Mine(r.context)' = Mine(r.context)
      BY <2>2 DEF Mine
    <3>2. QED
      BY <1>1, <2>3, <3>1, MoverFacts DEF CalmOK
  <2>6. Regular => OrderOK(r)'
    BY <1>1, <2>2, <2>3, MoverFacts DEF OrderOK
  <2>7. trouble = {} => BlockOK(r)'
    BY <1>1, <2>3, MoverFacts DEF BlockOK
  <2>8. QED
    BY <1>1, <2>2, <2>4, <2>5, <2>6, <2>7, MoverFacts, OneMoves
<1>3. CASE /\ \A f \in call[c].ids : forward[f].is = "started"
           /\ Ingress!Goto(c, "hosts") /\ UNCHANGED forward
  <2>1. PICK r \in CallState : /\ call' = [call EXCEPT ![c] = r] /\ r.at = "hosts" /\ r.ids = call[c].ids
                               /\ r.context = call[c].context
    BY <1>3, GoesTo
  <2>2. calm => CalmOK(r)'
    BY <1>1, <1>3, <2>1, MoverFacts DEF CalmOK, Whole, Mine
  <2>3. Regular => OrderOK(r)'
    BY <1>1, <1>3, <2>1, MoverFacts DEF OrderOK, Held
  <2>4. trouble = {} => BlockOK(r)'
    BY <1>1, <2>1, MoverFacts DEF BlockOK
  <2>5. QED
    BY <1>1, <1>3, <2>1, <2>2, <2>3, <2>4, MoverFacts, OneMoves
<1>4. CASE call' = [call EXCEPT ![c].at = "stop", ![c].fails = TRUE] /\ UNCHANGED forward
  <2>1. PICK r \in CallState : call' = [call EXCEPT ![c] = r] /\ r.at = "stop" /\ r.ids = call[c].ids
    <3> DEFINE r == [call[c] EXCEPT !.at = "stop", !.fails = TRUE]
    <3>1. call[c] \in CallState /\ call \in [Users -> CallState]
      BY MoverFacts DEF IngressInv, Ingress!TypeOK, CallState
    <3>2. r \in CallState /\ r.at = "stop" /\ r.ids = call[c].ids
      BY <3>1 DEF CallState
    <3>3. call' = [call EXCEPT ![c] = r]
      BY <1>4, <3>1 DEF CallState
    <3> HIDE DEF r
    <3>4. QED
      BY <3>2, <3>3
  <2>2. calm => CalmOK(r)'
    BY <1>1, <2>1, MoverFacts DEF CalmOK
  <2>3. Regular => OrderOK(r)'
    BY <1>1, <1>4, <2>1, MoverFacts DEF OrderOK, Held
  <2>4. trouble = {} => BlockOK(r)'
    BY <1>1, <2>1, MoverFacts DEF BlockOK
  <2>5. QED
    BY <1>1, <1>4, <2>1, <2>2, <2>3, <2>4, MoverFacts, OneMoves
<1>5. QED
  BY <1>2, <1>3, <1>4 DEF Ingress!StartForward

(* The entries are written, or the hosts file is not to be had. *)
LEMMA UpdateHostsInv == ASSUME IngressInv, NEW c \in Users, Ingress!UpdateHosts(c) PROVE IngressInv'
<1>1. call[c].at = "hosts" /\ UNCHANGED <<trouble, forward, calm>> /\ Held' = Held
  BY DEF Ingress!UpdateHosts, Ingress!At, Held
<1>2. PICK ok \in BOOLEAN :
        /\ state' = [state EXCEPT !.updated = ok]
        /\ block' \in IF ok THEN {TRUE} ELSE {block} \cup (IF "redirect" \in trouble THEN {TRUE} ELSE {})
  BY DEF Ingress!UpdateHosts
<1>3. /\ state' \in Ingress!State /\ state'.ids = state.ids /\ state'.status = state.status
      /\ state'.active = state.active /\ state'.updated = ok /\ state'.context = state.context
  BY <1>2, MoverFacts DEF Ingress!State
<1>4. block' \in BOOLEAN /\ (trouble = {} => (block' => ok \/ block))
  BY <1>2, MoverFacts
<1>5. PICK r \in CallState : /\ call' = [call EXCEPT ![c] = r] /\ r.at = "done" /\ r.ids = call[c].ids
                             /\ r.context = call[c].context
  BY GoesTo DEF Ingress!UpdateHosts
<1>6. calm => CalmOK(r)'
  BY <1>1, <1>3, <1>5, MoverFacts DEF CalmOK, Whole, Mine
<1>7. Regular => OrderOK(r)'
  BY <1>1, <1>3, <1>5, MoverFacts DEF OrderOK
<1>8. trouble = {} => BlockOK(r)'
  BY <1>1, <1>3, <1>4, <1>5, MoverFacts DEF BlockOK
<1>9. QED
  BY <1>1, <1>3, <1>4, <1>5, <1>6, <1>7, <1>8, MoverFacts, OneMoves

(* Forwarding runs. *)
LEMMA StartDoneInv == ASSUME IngressInv, NEW c \in Users, Ingress!StartDone(c) PROVE IngressInv'
<1>1. /\ call[c].at = "done" /\ UNCHANGED <<trouble, forward, block, calm>> /\ Held' = Held
      /\ state' = [state EXCEPT !.status = "running"] /\ call' = [call EXCEPT ![c] = Ingress!Idle]
  BY DEF Ingress!StartDone, Ingress!At, Held
<1>2. /\ state' \in Ingress!State /\ state'.ids = state.ids /\ state'.status = "running"
      /\ state'.active = state.active /\ state'.updated = state.updated /\ state'.context = state.context
  BY <1>1, MoverFacts DEF Ingress!State
<1>3. PICK r : r = Ingress!Idle
  OBVIOUS
<1>4. r \in CallState /\ r.at = "idle" /\ call' = [call EXCEPT ![c] = r]
  BY <1>1, <1>3, IdleIs
<1>5. calm => CalmOK(r)'
  BY <1>1, <1>2, <1>4, MoverFacts DEF CalmOK, Whole, Mine
<1>6. Regular => OrderOK(r)'
  BY <1>1, <1>2, <1>4, MoverFacts DEF OrderOK
<1>7. trouble = {} => BlockOK(r)'
  BY <1>1, <1>2, <1>4, MoverFacts DEF BlockOK, OrderOK
<1>8. QED
  BY <1>1, <1>2, <1>3, <1>4, <1>5, <1>6, <1>7, MoverFacts, OneMoves

(* A failed Start has taken down what it made. *)
LEMMA SetErrorInv == ASSUME IngressInv, NEW c \in Users, Ingress!SetError(c) PROVE IngressInv'
<1>1. /\ call[c].at = "error" /\ UNCHANGED <<trouble, forward, block, calm>> /\ Held' = Held
      /\ state' = [state EXCEPT !.active = FALSE, !.status = "error"] /\ call' = [call EXCEPT ![c] = Ingress!Idle]
  BY DEF Ingress!SetError, Ingress!At, Held
<1>2. state' \in Ingress!State /\ state'.status = "error" /\ ~state'.active
  BY <1>1, MoverFacts DEF Ingress!State
<1>3. PICK r : r = Ingress!Idle
  OBVIOUS
<1>4. r \in CallState /\ r.at = "idle" /\ call' = [call EXCEPT ![c] = r]
  BY <1>1, <1>3, IdleIs
<1>5. calm => CalmOK(r)'
  BY <1>2, <1>4 DEF CalmOK
<1>6. Regular => OrderOK(r)'
  BY <1>1, <1>2, <1>4, MoverFacts DEF OrderOK
<1>7. trouble = {} => BlockOK(r)'
  BY <1>1, <1>2, <1>4, MoverFacts DEF BlockOK
<1>8. QED
  BY <1>1, <1>2, <1>3, <1>4, <1>5, <1>6, <1>7, MoverFacts, OneMoves

(* Stop begins, of a forwarding that runs. *)
LEMMA StopInv == ASSUME IngressInv, NEW c \in Users, Ingress!Stop(c) PROVE IngressInv'
<1>1. /\ Ingress!MayCall(c) /\ state.active /\ calm' = (calm /\ Ingress!Quiet)
      /\ UNCHANGED <<trouble, state, forward, block>> /\ Held' = Held
  BY DEF Ingress!Stop, Held
<1>2. PICK r \in CallState : call' = [call EXCEPT ![c] = r] /\ r.at = "stop"
  BY GoesTo DEF Ingress!Stop
<1>3. calm' => CalmOK(r)'
  BY <1>1, <1>2, BeginFacts, IdleIs DEF CalmOK, Whole, Mine
<1>4. Regular => OrderOK(r)'
  BY <1>1, <1>2, BeginFacts, IdleIs DEF OrderOK
<1>5. trouble = {} => BlockOK(r)'
  BY <1>1, <1>2, BeginFacts, MoverFacts, IdleIs DEF BlockOK
<1>6. calm' \in BOOLEAN
  BY <1>1, MoverFacts DEF Ingress!Quiet
<1>7. QED
  BY <1>1, <1>2, <1>3, <1>4, <1>5, <1>6, BeginFacts, MoverFacts, OneMoves

(* Stop returns: to its caller, or to the Start that failed. *)
LEMMA Returns ==
  ASSUME IngressInv, NEW c \in Users, Ingress!Ended(c)
  PROVE  \E r \in CallState : /\ call' = [call EXCEPT ![c] = r] /\ r.at \in {"idle", "error"}
                              /\ r.at = "idle" => r = Ingress!Idle
<1>1. CASE call[c].fails
  BY <1>1, GoesTo DEF Ingress!Ended
<1>2. CASE ~call[c].fails
  BY <1>2, IdleIs DEF Ingress!Ended
<1>3. QED
  BY <1>1, <1>2

(* Stop reads what there is to remove. *)
LEMMA StopBeginInv == ASSUME IngressInv, NEW c \in Users, Ingress!StopBegin(c) PROVE IngressInv'
<1>1. call[c].at = "stop" /\ UNCHANGED <<trouble, state, forward, block, calm>> /\ Held' = Held
  BY DEF Ingress!StopBegin, Ingress!At, Held
<1>2. CASE state.active
  <2>1. PICK r \in CallState : /\ call' = [call EXCEPT ![c] = r] /\ r.at = "unstart" /\ r.ids = state.ids
                               /\ r.clean = state.updated
    <3> DEFINE r == [call[c] EXCEPT !.at = "unstart", !.ids = state.ids, !.clean = state.updated]
    <3>1. call[c] \in CallState /\ call \in [Users -> CallState] /\ state \in Ingress!State
      BY MoverFacts DEF IngressInv, Ingress!TypeOK, CallState
    <3>2. r \in CallState /\ r.at = "unstart" /\ r.ids = state.ids /\ r.clean = state.updated
      BY <3>1 DEF CallState, Ingress!State
    <3>3. call' = [call EXCEPT ![c] = r]
      BY <1>2, <3>1 DEF CallState, Ingress!StopBegin
    <3> HIDE DEF r
    <3>4. QED
      BY <3>2, <3>3
  <2>2. calm => CalmOK(r)'
    BY <2>1 DEF CalmOK
  <2>3. Regular => OrderOK(r)'
    BY <1>1, <1>2, <2>1, MoverFacts DEF OrderOK
  <2>4. trouble = {} => BlockOK(r)'
    BY <1>1, <2>1, MoverFacts DEF BlockOK
  <2>5. QED
    BY <1>1, <2>1, <2>2, <2>3, <2>4, MoverFacts, OneMoves
<1>3. CASE ~state.active
  <2>1. PICK r \in CallState : /\ call' = [call EXCEPT ![c] = r] /\ r.at \in {"idle", "error"}
                               /\ r.at = "idle" => r = Ingress!Idle
    BY <1>3, Returns DEF Ingress!StopBegin
  <2>2. calm => CalmOK(r)'
    BY <1>1, <2>1, MoverFacts DEF CalmOK, Whole, Mine
  <2>3. ~Regular /\ trouble # {}
    BY <1>1, <1>3, MoverFacts DEF OrderOK
  <2>4. QED
    BY <1>1, <2>1, <2>2, <2>3, MoverFacts, OneMoves
<1>4. QED
  BY <1>2, <1>3

(* Stop removes one forward, or has removed the last. *)
LEMMA StopForwardInv == ASSUME IngressInv, NEW c \in Users, Ingress!StopForward(c) PROVE IngressInv'
<1>1. call[c].at = "unstart" /\ UNCHANGED <<trouble, state, block, calm>>
  BY DEF Ingress!StopForward, Ingress!At
<1>2. CASE call[c].ids = {}
  <2>1. PICK r \in CallState : /\ call' = [call EXCEPT ![c] = r] /\ r.at = "unhost" /\ r.ids = call[c].ids
                               /\ r.clean = call[c].clean
    BY <1>2, GoesTo DEF Ingress!StopForward
  <2>2. forward' = forward /\ Held' = Held
    BY <1>2 DEF Ingress!StopForward, Held
  <2>3. calm => CalmOK(r)'
    BY <2>1 DEF CalmOK
  <2>4. Regular => OrderOK(r)'
    BY <1>1, <1>2, <2>1, <2>2, MoverFacts DEF OrderOK
  <2>5. trouble = {} => BlockOK(r)'
    BY <1>1, <2>1, MoverFacts DEF BlockOK
  <2>6. QED
    BY <1>1, <2>1, <2>2, <2>3, <2>4, <2>5, MoverFacts, OneMoves
<1>3. CASE call[c].ids # {}
  <2>1. PICK f \in call[c].ids : /\ forward' = [forward EXCEPT ![f] = Ingress!NoForward]
                                 /\ call' = [call EXCEPT ![c].ids = @ \ {f}]
    BY <1>3 DEF Ingress!StopForward
  <2>2. PICK r \in CallState : /\ call' = [call EXCEPT ![c] = r] /\ r.at = "unstart"
                               /\ r.ids = call[c].ids \ {f} /\ r.clean = call[c].clean
    <3> DEFINE r == [call[c] EXCEPT !.ids = @ \ {f}]
    <3>1. call[c] \in CallState /\ call \in [Users -> CallState]
      BY MoverFacts DEF IngressInv, Ingress!TypeOK, CallState
    <3>2. r \in CallState /\ r.at = "unstart" /\ r.ids = call[c].ids \ {f} /\ r.clean = call[c].clean
      BY <1>1, <3>1 DEF CallState
    <3>3. call' = [call EXCEPT ![c] = r]
      BY <2>1, <3>1 DEF CallState
    <3> HIDE DEF r
    <3>4. QED
      BY <3>2, <3>3
  <2>3. Held' = Held \ {f} /\ forward' \in [Forwards -> Ingress!Forward]
    BY <2>1, MoverFacts DEF Held, CallState, Ingress!NoForward, Ingress!Forward
  <2>4. calm => CalmOK(r)'
    BY <2>2 DEF CalmOK
  <2>5. Regular => OrderOK(r)'
    BY <1>1, <2>2, <2>3, MoverFacts DEF OrderOK
  <2>6. trouble = {} => BlockOK(r)'
    BY <1>1, <2>2, MoverFacts DEF BlockOK
  <2>7. QED
    BY <1>1, <2>2, <2>3, <2>4, <2>5, <2>6, MoverFacts, OneMoves
<1>4. QED
  BY <1>2, <1>3

(* Stop removes the entries it knows of. *)
LEMMA CleanHostsInv == ASSUME IngressInv, NEW c \in Users, Ingress!CleanHosts(c) PROVE IngressInv'
<1>1. /\ call[c].at = "unhost" /\ UNCHANGED <<trouble, state, forward, calm>> /\ Held' = Held
      /\ block' \in (IF call[c].clean THEN {FALSE} ELSE {block})
                    \cup (IF "denied" \in trouble THEN {block} ELSE {})
  BY DEF Ingress!CleanHosts, Ingress!At, Held
<1>2. PICK r \in CallState : call' = [call EXCEPT ![c] = r] /\ r.at = "reset"
  BY GoesTo DEF Ingress!CleanHosts
<1>3. block' \in BOOLEAN /\ (trouble = {} => ~block')
  <2>1. block' \in BOOLEAN
    BY <1>1, MoverFacts
  <2>2. trouble = {} => (block => call[c].clean)
    BY <1>1, MoverFacts DEF BlockOK
  <2>3. QED
    BY <1>1, <2>1, <2>2
<1>4. calm => CalmOK(r)'
  BY <1>2 DEF CalmOK
<1>5. Regular => OrderOK(r)'
  BY <1>1, <1>2, MoverFacts DEF OrderOK
<1>6. trouble = {} => BlockOK(r)'
  BY <1>2, <1>3 DEF BlockOK
<1>7. QED
  BY <1>1, <1>2, <1>3, <1>4, <1>5, <1>6, MoverFacts, OneMoves

(* Stop leaves nothing. *)
LEMMA ResetInv == ASSUME IngressInv, NEW c \in Users, Ingress!Reset(c) PROVE IngressInv'
<1>1. /\ call[c].at = "reset" /\ UNCHANGED <<trouble, forward, block, calm>> /\ Held' = Held
      /\ state' = Ingress!Stopped /\ Ingress!Ended(c)
  BY DEF Ingress!Reset, Ingress!At, Held
<1>2. state' \in Ingress!State /\ state'.status = "stopped" /\ ~state'.active
  BY <1>1 DEF Ingress!Stopped, Ingress!State
<1>3. PICK r \in CallState : /\ call' = [call EXCEPT ![c] = r] /\ r.at \in {"idle", "error"}
                             /\ r.at = "idle" => r = Ingress!Idle
  BY <1>1, Returns
<1>4. calm => CalmOK(r)'
  BY <1>2, <1>3 DEF CalmOK
<1>5. Regular => OrderOK(r)'
  BY <1>1, <1>2, <1>3, MoverFacts DEF OrderOK
<1>6. trouble = {} => BlockOK(r)'
  BY <1>1, <1>2, <1>3, MoverFacts DEF BlockOK
<1>7. QED
  BY <1>1, <1>2, <1>3, <1>4, <1>5, <1>6, MoverFacts, OneMoves

(* A refresh begins, of a forwarding that runs. *)
LEMMA RefreshInv == ASSUME IngressInv, NEW c \in Users, Ingress!Refresh(c) PROVE IngressInv'
<1>1. /\ Ingress!MayCall(c) /\ state.active /\ calm' = (calm /\ Ingress!Quiet)
      /\ UNCHANGED <<trouble, state, forward, block>> /\ Held' = Held
  BY DEF Ingress!Refresh, Held
<1>2. PICK r \in CallState : call' = [call EXCEPT ![c] = r] /\ r.at = "rehost"
  BY GoesTo DEF Ingress!Refresh
<1>3. calm' => CalmOK(r)'
  BY <1>1, <1>2, BeginFacts, IdleIs DEF CalmOK, Whole, Mine
<1>4. Regular => OrderOK(r)'
  BY <1>1, <1>2, BeginFacts, IdleIs DEF OrderOK
<1>5. trouble = {} => BlockOK(r)'
  BY <1>1, <1>2, BeginFacts, MoverFacts, IdleIs DEF BlockOK
<1>6. calm' \in BOOLEAN
  BY <1>1, MoverFacts DEF Ingress!Quiet
<1>7. QED
  BY <1>1, <1>2, <1>3, <1>4, <1>5, <1>6, BeginFacts, MoverFacts, OneMoves

(* A refresh writes entries, or there is nothing to write. *)
LEMMA RefreshHostsInv == ASSUME IngressInv, NEW c \in Users, Ingress!RefreshHosts(c) PROVE IngressInv'
<1>1. call[c].at = "rehost" /\ UNCHANGED <<trouble, state, forward, calm>> /\ Held' = Held
  BY DEF Ingress!RefreshHosts, Ingress!At, Held
<1>2. CASE \E some \in BOOLEAN : block' = (block \/ some) /\ Ingress!Goto(c, "note")
  <2>1. PICK r \in CallState : call' = [call EXCEPT ![c] = r] /\ r.at = "note"
    BY <1>2, GoesTo
  <2>2. block' \in BOOLEAN
    BY <1>2, MoverFacts
  <2>3. calm => CalmOK(r)'
    BY <1>1, <2>1, MoverFacts DEF CalmOK, Whole, Mine
  <2>4. Regular => OrderOK(r)'
    BY <1>1, <2>1, MoverFacts DEF OrderOK
  <2>5. trouble = {} => BlockOK(r)'
    BY <2>1 DEF BlockOK
  <2>6. QED
    BY <1>1, <2>1, <2>2, <2>3, <2>4, <2>5, MoverFacts, OneMoves
<1>3. CASE call' = [call EXCEPT ![c] = Ingress!Idle] /\ UNCHANGED block
  <2>1. PICK r : r = Ingress!Idle
    OBVIOUS
  <2>2. r \in CallState /\ r.at = "idle" /\ call' = [call EXCEPT ![c] = r]
    BY <1>3, <2>1, IdleIs
  <2>3. calm => CalmOK(r)'
    BY <1>1, <2>2, MoverFacts DEF CalmOK, Whole, Mine
  <2>4. Regular => OrderOK(r)'
    BY <1>1, <2>2, MoverFacts DEF OrderOK
  <2>5. trouble = {} => BlockOK(r)'
    BY <1>1, <1>3, <2>2, MoverFacts DEF BlockOK, OrderOK
  <2>6. QED
    BY <1>1, <1>3, <2>1, <2>2, <2>3, <2>4, <2>5, MoverFacts, OneMoves
<1>4. QED
  BY <1>2, <1>3 DEF Ingress!RefreshHosts

(* The state knows of the entries of a refresh. *)
LEMMA RefreshDoneInv == ASSUME IngressInv, NEW c \in Users, Ingress!RefreshDone(c) PROVE IngressInv'
<1>1. /\ call[c].at = "note" /\ UNCHANGED <<trouble, forward, block, calm>> /\ Held' = Held
      /\ state' = [state EXCEPT !.updated = TRUE] /\ call' = [call EXCEPT ![c] = Ingress!Idle]
  BY DEF Ingress!RefreshDone, Ingress!At, Held
<1>2. /\ state' \in Ingress!State /\ state'.ids = state.ids /\ state'.status = state.status
      /\ state'.active = state.active /\ state'.updated /\ state'.context = state.context
  BY <1>1, MoverFacts DEF Ingress!State
<1>3. PICK r : r = Ingress!Idle
  OBVIOUS
<1>4. r \in CallState /\ r.at = "idle" /\ call' = [call EXCEPT ![c] = r]
  BY <1>1, <1>3, IdleIs
<1>5. calm => CalmOK(r)'
  BY <1>1, <1>2, <1>4, MoverFacts DEF CalmOK, Whole, Mine
<1>6. Regular => OrderOK(r)'
  BY <1>1, <1>2, <1>4, MoverFacts DEF OrderOK
<1>7. trouble = {} => BlockOK(r)'
  BY <1>1, <1>2, <1>4, MoverFacts DEF BlockOK, OrderOK
<1>8. QED
  BY <1>1, <1>2, <1>3, <1>4, <1>5, <1>6, <1>7, MoverFacts, OneMoves

(* A crash loses the state and keeps what was saved. *)
LEMMA CrashInv == ASSUME IngressInv, Ingress!Crash PROVE IngressInv'
<1>1. /\ "crash" \in trouble /\ state' = Ingress!Stopped /\ call' = [c \in Users |-> Ingress!Idle]
      /\ forward' = [f \in Forwards |-> [forward[f] EXCEPT !.is = IF @ = "started" THEN "saved" ELSE @]]
      /\ UNCHANGED <<trouble, block, calm>>
  BY DEF Ingress!Crash
<1>2. state' \in Ingress!State /\ state'.status = "stopped" /\ call' \in [Users -> CallState]
  BY <1>1, IdleIs DEF Ingress!Stopped, Ingress!State
<1>3. Ingress!TypeOK'
  <2>1. \A x \in Ingress!Forward : [x EXCEPT !.is = IF @ = "started" THEN "saved" ELSE @] \in Ingress!Forward
    BY DEF Ingress!Forward
  <2>2. forward \in [Forwards -> Ingress!Forward]
    BY DEF IngressInv, Ingress!TypeOK
  <2>3. forward' \in [Forwards -> Ingress!Forward]
    BY <1>1, <2>1, <2>2
  <2>4. QED
    BY <1>1, <1>2, <2>3 DEF IngressInv, Ingress!TypeOK, CallState
<1>4. \A c \in Users : call'[c] = Ingress!Idle
  BY <1>1
<1>5. CalmOK(Ingress!Idle)'
  BY <1>2, IdleIs DEF CalmOK, Ingress!Idle
<1>6. ~Regular' /\ trouble' # {}
  BY <1>1 DEF Regular
<1>7. QED
  BY <1>3, <1>4, <1>5, <1>6, IdleIs DEF IngressInv, Ingress!Idle

(* Every step of ingress forwarding, and every step elsewhere. *)
LEMMA IngressNextInv == IngressInv /\ (Ingress!Next \/ UNCHANGED ingressVars) => IngressInv'
<1> SUFFICES ASSUME IngressInv, Ingress!Next \/ UNCHANGED ingressVars PROVE IngressInv'
  OBVIOUS
<1>1. CASE UNCHANGED ingressVars
  <2>1. UNCHANGED <<trouble, state, forward, block, call, calm>>
    BY <1>1 DEF ingressVars
  <2>2. Ingress!TypeOK' /\ (Ingress!Quiet' <=> Ingress!Quiet) /\ (Regular' <=> Regular) /\ Ingress!Idle' = Ingress!Idle
    BY <2>1 DEF IngressInv, Ingress!TypeOK, Ingress!Quiet, Ingress!At, Regular, Ingress!Idle
  <2>3. \A r : (CalmOK(r)' <=> CalmOK(r)) /\ (OrderOK(r)' <=> OrderOK(r)) /\ (BlockOK(r)' <=> BlockOK(r))
    BY <2>1 DEF CalmOK, OrderOK, BlockOK, Whole, Held, Mine
  <2>4. \A c \in Users : /\ call'[c] = call[c] /\ (Alone(c)' <=> Alone(c))
                         /\ (CalmOK(call[c])' <=> CalmOK(call[c])) /\ (OrderOK(call[c])' <=> OrderOK(call[c]))
                         /\ (BlockOK(call[c])' <=> BlockOK(call[c]))
    BY <2>1 DEF CalmOK, OrderOK, BlockOK, Whole, Held, Mine, Alone
  <2>5. /\ (CalmOK(Ingress!Idle)' <=> CalmOK(Ingress!Idle)) /\ (OrderOK(Ingress!Idle)' <=> OrderOK(Ingress!Idle))
        /\ (BlockOK(Ingress!Idle)' <=> BlockOK(Ingress!Idle))
    BY <2>1, <2>2 DEF CalmOK, OrderOK, BlockOK, Whole, Held, Mine
  <2>6. QED
    BY <2>1, <2>2, <2>4, <2>5 DEF IngressInv
<1>2. CASE Ingress!Crash
  BY <1>2, CrashInv
<1>3. ASSUME NEW c \in Users,
             \/ Ingress!StartBegin(c) \/ Ingress!Cleanup(c) \/ Ingress!Fail(c) \/ Ingress!Collect(c)
             \/ Ingress!AddHTTPS(c) \/ Ingress!AddHTTP(c) \/ Ingress!Publish(c) \/ Ingress!StartForward(c)
             \/ Ingress!UpdateHosts(c) \/ Ingress!StartDone(c) \/ Ingress!SetError(c)
      PROVE  IngressInv'
  <2>1. CASE Ingress!AddHTTPS(c) \/ Ingress!AddHTTP(c)
    BY <2>1, AddInv DEF Ingress!AddHTTPS, Ingress!AddHTTP, Ingress!At
  <2>2. QED
    BY <1>3, <2>1, StartBeginInv, CleanupInv, FailInv, CollectInv, PublishInv, StartForwardInv,
       UpdateHostsInv, StartDoneInv, SetErrorInv
<1>4. ASSUME NEW c \in Users,
             \/ Ingress!Stop(c) \/ Ingress!StopBegin(c) \/ Ingress!StopForward(c) \/ Ingress!CleanHosts(c)
             \/ Ingress!Reset(c) \/ Ingress!Refresh(c) \/ Ingress!RefreshHosts(c) \/ Ingress!RefreshDone(c)
      PROVE  IngressInv'
  BY <1>4, StopInv, StopBeginInv, StopForwardInv, CleanHostsInv, ResetInv, RefreshInv, RefreshHostsInv,
     RefreshDoneInv
<1>5. QED
  BY <1>1, <1>2, <1>3, <1>4 DEF Ingress!Next

(* The invariant says what forwarding promises when nothing is under way. *)
LEMMA IngressInvSound == IngressInv => Ingress!IngressSound
<1> SUFFICES ASSUME IngressInv PROVE Ingress!IngressSound
  OBVIOUS
<1>1. Ingress!Saved = Held /\ \A x : {f \in Ingress!Saved : forward[f].context = x} = Mine(x)
  BY DEF Ingress!Saved, Held, Mine
<1>2. Ingress!RunningIsWhole
  BY <1>1, IdleIs DEF IngressInv, CalmOK, Whole, Ingress!RunningIsWhole
<1>3. Ingress!StoppedIsClean
  <2>1. ASSUME Ingress!Quiet, ~state.active, Regular PROVE Ingress!Saved = {}
    BY <1>1, <2>1, IdleIs DEF IngressInv, OrderOK
  <2>2. ASSUME Ingress!Quiet, ~state.active, trouble = {} PROVE ~block
    BY <2>2, IdleIs DEF IngressInv, BlockOK
  <2>3. QED
    BY <2>1, <2>2 DEF Ingress!StoppedIsClean, Regular
<1>4. Ingress!EntriesAreKnown
  BY IdleIs DEF IngressInv, BlockOK, Ingress!EntriesAreKnown
<1>5. QED
  BY <1>2, <1>3, <1>4 DEF Ingress!IngressSound
-----------------------------------------------------------------------------
(***************************************************************************)
(* Server mode.                                                            *)
(*                                                                         *)
(* The events are numbered as they are sent.  ServerInv says which number  *)
(* each place holds: the channel those after Taken, the writer Taken, and  *)
(* the stream of a registered client that has not failed ends with Taken,  *)
(* or with the one before while the writer has not come to it.             *)
(***************************************************************************)

Hello == Server!Hello

(* Between two places of a sequence there is no event. *)
Quietly(s, i, j) == \A k \in DOMAIN s : i < k /\ k < j => s[k] = Hello

(* The events of a sequence follow each other, and the last one is v. *)
Consecutive(s) ==
  \A i, j \in DOMAIN s : s[i] # Hello /\ s[j] # Hello /\ i < j /\ Quietly(s, i, j) => s[j] = s[i] + 1
EndsWith(s, v) ==
  \A i \in DOMAIN s : s[i] # Hello /\ Quietly(s, i, Len(s) + 1) => s[i] = v

(* Nothing, a greeting, and the next event, at the end of what was written. *)
LEMMA NothingWritten == ASSUME NEW v PROVE Consecutive(<<>>) /\ EndsWith(<<>>, v)
BY DEF Consecutive, EndsWith

LEMMA GreetingWritten ==
  ASSUME NEW s \in Seq(Nat), Consecutive(s)
  PROVE  /\ Consecutive(Append(s, Hello))
         /\ \A v \in Int : EndsWith(s, v) => EndsWith(Append(s, Hello), v)
<1> DEFINE t == Append(s, Hello)
<1>1. /\ t \in Seq(Nat) /\ Len(t) = Len(s) + 1 /\ DOMAIN t = 1 .. Len(s) + 1 /\ DOMAIN s = 1 .. Len(s)
      /\ Len(s) \in Nat /\ t[Len(s) + 1] = Hello /\ \A i \in DOMAIN s : t[i] = s[i]
  BY DEF Hello, Server!Hello
<1> HIDE DEF t
<1>2. \A i \in DOMAIN t : t[i] # Hello => i \in DOMAIN s
  BY <1>1
<1>3. Consecutive(t)
  BY <1>1, <1>2 DEF Consecutive, Quietly
<1>4. ASSUME NEW v \in Int, EndsWith(s, v) PROVE EndsWith(t, v)
  BY <1>1, <1>2, <1>4 DEF EndsWith, Quietly
<1>5. QED
  BY <1>3, <1>4 DEF t

LEMMA EventWritten ==
  ASSUME NEW s \in Seq(Nat), NEW v \in Nat, v # Hello, Consecutive(s), EndsWith(s, v - 1)
  PROVE  Consecutive(Append(s, v)) /\ EndsWith(Append(s, v), v)
<1> DEFINE t == Append(s, v)
<1>1. /\ t \in Seq(Nat) /\ Len(t) = Len(s) + 1 /\ DOMAIN t = 1 .. Len(s) + 1 /\ DOMAIN s = 1 .. Len(s)
      /\ Len(s) \in Nat /\ t[Len(s) + 1] = v /\ \A i \in DOMAIN s : t[i] = s[i]
  OBVIOUS
<1> HIDE DEF t
<1>2. Consecutive(t)
  <2> SUFFICES ASSUME NEW i \in DOMAIN t, NEW j \in DOMAIN t, t[i] # Hello, t[j] # Hello, i < j,
                      Quietly(t, i, j)
               PROVE  t[j] = t[i] + 1
    BY DEF Consecutive
  <2>0. i \in DOMAIN s /\ t[i] = s[i] /\ s[i] \in Nat /\ i \in Nat
    BY <1>1
  <2>1. CASE j \in DOMAIN s
    <3>1. Quietly(s, i, j)
      BY <1>1 DEF Quietly
    <3>2. QED
      BY <1>1, <2>0, <2>1, <3>1 DEF Consecutive
  <2>2. CASE j \notin DOMAIN s
    <3>1. j = Len(s) + 1
      BY <1>1, <2>2
    <3>2. Quietly(s, i, Len(s) + 1)
      BY <1>1, <3>1 DEF Quietly
    <3>3. s[i] = v - 1
      BY <2>0, <3>2 DEF EndsWith
    <3>4. QED
      BY <1>1, <2>0, <3>1, <3>3
  <2>3. QED
    BY <2>1, <2>2
<1>3. EndsWith(t, v)
  <2> SUFFICES ASSUME NEW i \in DOMAIN t, t[i] # Hello, Quietly(t, i, Len(t) + 1) PROVE t[i] = v
    BY DEF EndsWith
  <2>1. CASE i \in DOMAIN s
    <3>1. i < Len(s) + 1 /\ Len(s) + 1 < Len(t) + 1 /\ Len(s) + 1 \in DOMAIN t
      BY <1>1, <2>1
    <3>2. QED
      BY <1>1, <3>1 DEF Quietly
  <2>2. CASE i \notin DOMAIN s
    BY <1>1, <2>2
  <2>3. QED
    BY <2>1, <2>2
<1>4. QED
  BY <1>2, <1>3 DEF t

(* The number of the last event that was taken off the channel.            *)
Taken == sent - Len(channel)

(* What the last event written to a registered client is. *)
Reached(c) == IF writer.at = "writing" /\ c \in writer.left THEN Taken - 1 ELSE Taken

ChannelOK ==
  /\ Len(channel) <= sent /\ \A i \in 1 .. Len(channel) : channel[i] = Taken + i
  /\ writer.at = "writing" => writer.event = Taken /\ Taken # Hello

WriterOK ==
  /\ writer.at = "writing" => writer.left \cup writer.failed \subseteq clients
  /\ writer.at = "writing" => writer.left \cap writer.failed = {}
  /\ writer.at \in {"idle", "ended"} => writer.failed = {}
  /\ \A c \in writer.failed : conn[c] \in {"broken", "removed", "over"}

ConnOK(c) ==
  /\ conn[c] \in {"unused", "opening"} => stream[c] = <<>>
  /\ c \in clients => conn[c] \in {"open", "broken"}
  /\ Consecutive(stream[c])
  /\ c \in clients \ writer.failed => EndsWith(stream[c], Reached(c))

(* A terminal ends with its client. *)
SessionOK(s) == session[s].at = "live" /\ ~session[s].orphan =>
  session[s].owner \in Conns /\ conn[session[s].owner] # "over"

(* The whole invariant. *)
ServerInv ==
  /\ Server!TypeOK /\ ChannelOK /\ WriterOK
  /\ \A c \in Conns : ConnOK(c)
  /\ \A s \in Terminals : SessionOK(s)
  /\ Server!ShutdownFreesEmitters

(* What the constants are. *)
LEMMA ServerConstants == NoConn \notin Conns /\ QueueSize \in Nat \ {0} /\ MaxEvents \in Nat /\ Hello = 0
BY ServicesAssumption DEF Server!ServerAssumption, Hello, Server!Hello

(* Nothing was sent at the start. *)
LEMMA ServerInitInv == Server!Init => ServerInv
<1> SUFFICES ASSUME Server!Init PROVE ServerInv
  OBVIOUS
<1>1. Server!TypeOK
  <2>1. channel \in Seq(1..MaxEvents) /\ Len(channel) <= QueueSize /\ sent \in 0 .. MaxEvents
    BY ServerConstants DEF Server!Init
  <2>2. stream \in [Conns -> Seq(0 .. MaxEvents)]
    BY DEF Server!Init
  <2>3. session \in [Terminals -> [at : {"none", "asked", "live", "closed"}, owner : Conns \cup {NoConn}, orphan : BOOLEAN]]
    BY DEF Server!Init, Server!NoSession
  <2>4. QED
    BY <2>1, <2>2, <2>3, ServerConstants DEF Server!Init, Server!TypeOK
<1>2. ChannelOK /\ WriterOK
  BY ServerConstants DEF Server!Init, ChannelOK, WriterOK, Taken
<1>3. ASSUME NEW c \in Conns PROVE ConnOK(c)
  <2>1. stream[c] = <<>> /\ c \notin clients
    BY DEF Server!Init
  <2>2. Consecutive(stream[c])
    BY <2>1, NothingWritten
  <2>3. QED
    BY <2>1, <2>2 DEF ConnOK
<1>4. QED
  BY <1>1, <1>2, <1>3 DEF ServerInv, SessionOK, Server!Init, Server!NoSession, Server!ShutdownFreesEmitters

(* Steps that have nothing to do with the broadcast. *)
LEMMA BroadcastFrame ==
  ASSUME ServerInv, UNCHANGED <<channel, sent, writer, clients, conn, stream>>
  PROVE  ChannelOK' /\ WriterOK' /\ \A c \in Conns : ConnOK(c)'
BY DEF ServerInv, ChannelOK, WriterOK, ConnOK, Taken, Reached

(* Steps that have nothing to do with the terminals. *)
LEMMA SessionFrame ==
  ASSUME ServerInv, UNCHANGED <<conn, session>>
  PROVE  \A s \in Terminals : SessionOK(s)'
BY DEF ServerInv, SessionOK

(* An emitter that does not send leaves the channel alone. *)
LEMMA EmitterInv ==
  ASSUME ServerInv, NEW e \in Emitters,
         Server!Emit(e) \/ Server!Block(e) \/ Server!Drop(e)
  PROVE  ServerInv'
<1>1. UNCHANGED <<phase, channel, sent, writer, clients, conn, stream, browser, session>>
  BY DEF Server!Emit, Server!Block, Server!Drop
<1>2. /\ emitter' \in [Emitters -> {"idle", "called", "blocked", "panicked"}]
      /\ \A d \in Emitters : d # e => emitter'[d] = emitter[d]
      /\ emitter'[e] = "blocked" => phase = "open"
      /\ emitter'[e] = "panicked" => phase = "closed"
  <2>1. emitter \in [Emitters -> {"idle", "called", "blocked", "panicked"}]
    BY DEF ServerInv, Server!TypeOK
  <2>2. CASE Server!Emit(e)
    BY <2>1, <2>2 DEF Server!Emit
  <2>3. CASE Server!Block(e)
    BY <2>1, <2>3 DEF Server!Block
  <2>4. CASE Server!Drop(e)
    BY <2>1, <2>4 DEF Server!Drop
  <2>5. QED
    BY <2>2, <2>3, <2>4
<1>3. Server!TypeOK'
  BY <1>1, <1>2 DEF ServerInv, Server!TypeOK
<1>4. Server!ShutdownFreesEmitters'
  BY <1>1, <1>2 DEF ServerInv, Server!ShutdownFreesEmitters
<1>5. QED
  BY <1>1, <1>3, <1>4, BroadcastFrame, SessionFrame DEF ServerInv

(* An emitter sends: the channel has room, and holds the newest at its end. *)
LEMMA SendInv == ASSUME ServerInv, NEW e \in Emitters, Server!Send(e) PROVE ServerInv'
<1> DEFINE n == Len(channel)
<1>0. /\ channel \in Seq(1 .. MaxEvents) /\ channel \in Seq(Nat) /\ n \in Nat /\ n < QueueSize
      /\ sent \in Nat /\ sent < MaxEvents /\ MaxEvents \in Nat /\ QueueSize \in Nat
  BY ServerConstants DEF ServerInv, Server!TypeOK, Server!Send
<1>1. /\ UNCHANGED <<phase, writer, clients, conn, stream, browser, session>>
      /\ sent' = sent + 1 /\ channel' = Append(channel, sent + 1)
      /\ emitter' = [emitter EXCEPT ![e] = "idle"]
  BY DEF Server!Send
<1>2. /\ Len(channel') = n + 1 /\ channel'[n + 1] = sent + 1 /\ \A i \in 1 .. n : channel'[i] = channel[i]
      /\ channel' \in Seq(1 .. MaxEvents)
  <2>1. sent + 1 \in 1 .. MaxEvents
    BY <1>0
  <2>2. QED
    BY <1>0, <1>1, <2>1
<1> HIDE DEF n
<1>3. Taken' = Taken /\ Taken + (n + 1) = sent + 1
  BY <1>0, <1>1, <1>2 DEF Taken, n
<1>4. Server!TypeOK'
  <2>1. sent' \in 0 .. MaxEvents /\ Len(channel') <= QueueSize
    BY <1>0, <1>1, <1>2
  <2>2. emitter' \in [Emitters -> {"idle", "called", "blocked", "panicked"}]
    BY <1>1 DEF ServerInv, Server!TypeOK
  <2>3. QED
    BY <1>1, <1>2, <2>1, <2>2 DEF ServerInv, Server!TypeOK
<1>5. ChannelOK'
  <2>1. n <= sent /\ \A i \in 1 .. n : channel[i] = Taken + i
    BY DEF ServerInv, ChannelOK, n
  <2>2. n + 1 <= sent + 1
    BY <1>0, <2>1
  <2>3. ASSUME NEW i \in 1 .. n + 1 PROVE channel'[i] = Taken + i
    <3>1. CASE i = n + 1
      BY <1>2, <1>3, <3>1
    <3>2. CASE i # n + 1
      BY <1>0, <1>2, <2>1, <3>2
    <3>3. QED
      BY <3>1, <3>2
  <2>4. writer.at = "writing" => writer.event = Taken /\ Taken # Hello
    BY DEF ServerInv, ChannelOK
  <2>5. QED
    BY <1>1, <1>2, <1>3, <2>2, <2>3, <2>4 DEF ChannelOK, Hello, Server!Hello
<1>6. WriterOK' /\ \A c \in Conns : ConnOK(c)'
  BY <1>1, <1>3 DEF ServerInv, WriterOK, ConnOK, Reached
<1>7. Server!ShutdownFreesEmitters'
  BY <1>1 DEF ServerInv, Server!TypeOK, Server!ShutdownFreesEmitters
<1>8. QED
  BY <1>1, <1>4, <1>5, <1>6, <1>7, SessionFrame DEF ServerInv

(* A shutdown frees those who are blocked before it closes the channel. *)
LEMMA ShutdownInv == ASSUME ServerInv, Server!Shutdown PROVE ServerInv'
<1>1. UNCHANGED <<channel, sent, writer, clients, conn, stream, browser, session>>
  BY DEF Server!Shutdown
<1>2. /\ phase' \in {"open", "done", "closed"}
      /\ emitter' \in [Emitters -> {"idle", "called", "blocked", "panicked"}]
  BY DEF ServerInv, Server!TypeOK, Server!Shutdown
<1>3. Server!TypeOK'
  BY <1>1, <1>2 DEF ServerInv, Server!TypeOK
<1>4. Server!ShutdownFreesEmitters'
  BY DEF ServerInv, Server!TypeOK, Server!ShutdownFreesEmitters, Server!Shutdown
<1>5. QED
  BY <1>1, <1>3, <1>4, BroadcastFrame, SessionFrame DEF ServerInv

WriterState ==
  [at : {"idle", "writing", "removing", "ended"}, event : 0 .. MaxEvents,
   left : SUBSET Conns, failed : SUBSET Conns]

(* The first of the channel is taken off. *)
LEMMA FirstOff ==
  ASSUME NEW S, NEW q \in Seq(S), q # <<>>
  PROVE  /\ Len(Tail(q)) = Len(q) - 1 /\ \A i \in 1 .. Len(q) - 1 : Tail(q)[i] = q[i + 1]
         /\ Head(q) = q[1] /\ Len(q) > 0 /\ Head(q) \in S /\ Tail(q) \in Seq(S)
OBVIOUS

(* The writer takes an event for those who are clients now, or ends. *)
LEMMA TakeInv == ASSUME ServerInv, Server!Take PROVE ServerInv'
<1>0. /\ channel \in Seq(1 .. MaxEvents) /\ channel \in Seq(Nat) /\ Len(channel) \in Nat /\ sent \in Nat
      /\ writer \in WriterState /\ writer.at = "idle" /\ clients \in SUBSET Conns
      /\ Len(channel) <= QueueSize /\ QueueSize \in Nat
  BY ServerConstants DEF ServerInv, Server!TypeOK, Server!Take, WriterState
<1>1. UNCHANGED <<phase, sent, emitter, clients, conn, stream, browser, session>>
  BY DEF Server!Take
<1>2. CASE channel # <<>> /\ channel' = Tail(channel) /\
           writer' = [at |-> "writing", event |-> Head(channel), left |-> clients, failed |-> {}]
  <2>1. /\ Len(channel') = Len(channel) - 1 /\ \A i \in 1 .. Len(channel) - 1 : channel'[i] = channel[i + 1]
        /\ Head(channel) = channel[1] /\ Len(channel) > 0 /\ Head(channel) \in 1 .. MaxEvents
        /\ channel' \in Seq(1 .. MaxEvents)
    BY <1>0, <1>2, FirstOff
  <2>2. /\ writer' \in WriterState /\ writer'.at = "writing" /\ writer'.event = channel[1]
        /\ writer'.left = clients /\ writer'.failed = {}
    BY <1>0, <1>2, <2>1, ServerConstants DEF WriterState
  <2>3. Taken' = Taken + 1 /\ Taken \in Nat /\ Taken' - 1 = Taken
    BY <1>0, <1>1, <2>1 DEF Taken, ServerInv, ChannelOK
  <2>4. Server!TypeOK'
    <3>1. Len(channel') <= QueueSize
      BY <1>0, <2>1
    <3>2. QED
      BY <1>1, <2>1, <2>2, <3>1 DEF ServerInv, Server!TypeOK, WriterState
  <2>5. ChannelOK'
    <3>1. Len(channel) <= sent /\ \A i \in 1 .. Len(channel) : channel[i] = Taken + i
      BY DEF ServerInv, ChannelOK
    <3>2. channel[1] = Taken' /\ Taken' # Hello
      BY <1>0, <2>1, <2>3, <3>1, ServerConstants
    <3>3. Len(channel') <= sent'
      BY <1>0, <1>1, <2>1, <3>1
    <3>4. ASSUME NEW i \in 1 .. Len(channel) - 1 PROVE channel'[i] = Taken' + i
      <4>1. i + 1 \in 1 .. Len(channel) /\ i \in Nat
        BY <1>0
      <4>2. channel'[i] = Taken + (i + 1)
        BY <2>1, <3>1, <4>1
      <4>3. QED
        BY <2>3, <4>1, <4>2
    <3>5. QED
      BY <2>1, <2>2, <3>2, <3>3, <3>4 DEF ChannelOK, Hello, Server!Hello
  <2>6. WriterOK'
    BY <1>1, <2>2 DEF WriterOK
  <2>7. ASSUME NEW c \in Conns PROVE ConnOK(c)'
    <3>1. c \in clients => EndsWith(stream[c], Taken)
      BY <1>0 DEF ServerInv, ConnOK, WriterOK, Reached
    <3>2. c \in clients => Reached(c)' = Taken
      BY <1>1, <2>2, <2>3 DEF Reached
    <3>3. QED
      BY <1>1, <3>1, <3>2 DEF ServerInv, ConnOK
  <2>8. Server!ShutdownFreesEmitters'
    BY <1>1 DEF ServerInv, Server!ShutdownFreesEmitters
  <2>9. QED
    BY <1>1, <2>4, <2>5, <2>6, <2>7, <2>8, SessionFrame DEF ServerInv
<1>3. CASE channel = <<>> /\ writer' = [writer EXCEPT !.at = "ended"] /\ UNCHANGED channel
  <2>1. /\ writer' \in WriterState /\ writer'.at = "ended" /\ writer'.failed = writer.failed
    BY <1>0, <1>3 DEF WriterState
  <2>2. Taken' = Taken
    BY <1>1, <1>3 DEF Taken
  <2>3. Server!TypeOK'
    BY <1>1, <1>3, <2>1 DEF ServerInv, Server!TypeOK, WriterState
  <2>4. ChannelOK' /\ WriterOK'
    BY <1>0, <1>1, <1>3, <2>1, <2>2 DEF ServerInv, ChannelOK, WriterOK, Hello, Server!Hello
  <2>5. \A c \in Conns : ConnOK(c)'
    BY <1>0, <1>1, <2>1, <2>2 DEF ServerInv, ConnOK, Reached
  <2>6. Server!ShutdownFreesEmitters'
    BY <1>1 DEF ServerInv, Server!ShutdownFreesEmitters
  <2>7. QED
    BY <1>1, <2>3, <2>4, <2>5, <2>6, SessionFrame DEF ServerInv
<1>4. QED
  BY <1>2, <1>3 DEF Server!Take

(* The writer writes to one client, or fails to. *)
LEMMA WriteInv == ASSUME ServerInv, NEW c \in Conns, Server!Write(c) PROVE ServerInv'
<1>0. /\ writer \in WriterState /\ writer.at = "writing" /\ c \in writer.left /\ c \in clients
      /\ c \notin writer.failed /\ writer.event = Taken /\ Taken \in Nat /\ Taken # Hello
      /\ stream \in [Conns -> Seq(0 .. MaxEvents)] /\ Taken \in 0 .. MaxEvents
  BY DEF ServerInv, Server!TypeOK, Server!Write, WriterState, ChannelOK, WriterOK
<1>1. UNCHANGED <<phase, channel, sent, emitter, clients, conn, browser, session>> /\ Taken' = Taken
  BY DEF Server!Write, Server!bus, Taken
<1>2. Server!ShutdownFreesEmitters'
  BY <1>1 DEF ServerInv, Server!ShutdownFreesEmitters
<1>3. CASE /\ stream' = [stream EXCEPT ![c] = Append(@, writer.event)]
           /\ writer' = [writer EXCEPT !.left = @ \ {c}]
  <2>1. /\ writer' \in WriterState /\ writer'.at = "writing" /\ writer'.event = writer.event
        /\ writer'.left = writer.left \ {c} /\ writer'.failed = writer.failed
    BY <1>0, <1>3 DEF WriterState
  <2>2. stream[c] \in Seq(0 .. MaxEvents) /\ stream[c] \in Seq(Nat)
    <3>1. stream[c] \in Seq(0 .. MaxEvents) /\ MaxEvents \in Nat
      BY <1>0, ServerConstants
    <3>2. QED
      BY <3>1
  <2>3. PICK t : t = Append(stream[c], Taken)
    OBVIOUS
  <2>4. t \in Seq(0 .. MaxEvents)
    BY <1>0, <2>2, <2>3
  <2>5. /\ stream' \in [Conns -> Seq(0 .. MaxEvents)] /\ stream'[c] = t
        /\ \A d \in Conns : d # c => stream'[d] = stream[d]
    <3>1. stream' = [stream EXCEPT ![c] = t]
      BY <1>0, <1>3, <2>3
    <3>2. QED
      BY <1>0, <2>4, <3>1
  <2>6. Consecutive(t) /\ EndsWith(t, Taken)
    <3>1. Consecutive(stream[c]) /\ EndsWith(stream[c], Taken - 1)
      BY <1>0 DEF ServerInv, ConnOK, Reached
    <3>2. QED
      BY <1>0, <2>2, <2>3, <3>1, EventWritten
  <2>7. Server!TypeOK'
    BY <1>1, <2>1, <2>5 DEF ServerInv, Server!TypeOK, WriterState
  <2>8. ChannelOK' /\ WriterOK'
    BY <1>0, <1>1, <2>1 DEF ServerInv, ChannelOK, WriterOK, Hello, Server!Hello
  <2>9. ASSUME NEW d \in Conns PROVE ConnOK(d)'
    <3>1. CASE d = c
      <4>1. conn[c] \in {"open", "broken"}
        BY <1>0 DEF ServerInv, ConnOK
      <4>2. Reached(c)' = Taken
        BY <1>1, <2>1 DEF Reached
      <4>3. QED
        BY <1>1, <2>5, <2>6, <3>1, <4>1, <4>2 DEF ConnOK
    <3>2. CASE d # c
      <4>1. Reached(d)' = Reached(d)
        BY <1>0, <1>1, <2>1, <3>2 DEF Reached
      <4>2. QED
        BY <1>1, <2>1, <2>5, <3>2, <4>1 DEF ServerInv, ConnOK
    <3>3. QED
      BY <3>1, <3>2
  <2>10. QED
    BY <1>1, <1>2, <2>7, <2>8, <2>9, SessionFrame DEF ServerInv
<1>4. CASE /\ conn[c] = "broken" /\ UNCHANGED stream
           /\ writer' = [writer EXCEPT !.left = @ \ {c}, !.failed = @ \cup {c}]
  <2>1. /\ writer' \in WriterState /\ writer'.at = "writing" /\ writer'.event = writer.event
        /\ writer'.left = writer.left \ {c} /\ writer'.failed = writer.failed \cup {c}
    BY <1>0, <1>4 DEF WriterState
  <2>2. Server!TypeOK'
    BY <1>1, <1>4, <2>1 DEF ServerInv, Server!TypeOK, WriterState
  <2>3. ChannelOK'
    BY <1>0, <1>1, <2>1 DEF ServerInv, ChannelOK, Hello, Server!Hello
  <2>4. WriterOK'
    BY <1>0, <1>1, <1>4, <2>1 DEF ServerInv, WriterOK
  <2>5. ASSUME NEW d \in Conns PROVE ConnOK(d)'
    <3>1. d # c => Reached(d)' = Reached(d)
      BY <1>0, <1>1, <2>1 DEF Reached
    <3>2. QED
      BY <1>1, <1>4, <2>1, <3>1 DEF ServerInv, ConnOK
  <2>6. QED
    BY <1>1, <1>2, <2>2, <2>3, <2>4, <2>5, SessionFrame DEF ServerInv
<1>5. QED
  BY <1>3, <1>4 DEF Server!Write

(* Every client has the event, or has failed. *)
LEMMA WrittenInv == ASSUME ServerInv, Server!Written PROVE ServerInv'
<1>0. writer \in WriterState /\ writer.at = "writing" /\ writer.left = {}
  BY DEF ServerInv, Server!TypeOK, Server!Written, WriterState
<1>1. UNCHANGED <<phase, channel, sent, emitter, clients, conn, stream, browser, session>> /\ Taken' = Taken
  BY DEF Server!Written, Server!bus, Taken
<1>2. /\ writer' \in WriterState /\ writer'.at \in {"idle", "removing"} /\ writer'.failed = writer.failed
      /\ writer'.at = "idle" => writer.failed = {}
  BY <1>0 DEF Server!Written, WriterState
<1>3. Server!TypeOK'
  BY <1>1, <1>2 DEF ServerInv, Server!TypeOK, WriterState
<1>4. ChannelOK' /\ WriterOK'
  BY <1>1, <1>2 DEF ServerInv, ChannelOK, WriterOK
<1>5. \A c \in Conns : ConnOK(c)'
  BY <1>0, <1>1, <1>2 DEF ServerInv, ConnOK, Reached
<1>6. Server!ShutdownFreesEmitters'
  BY <1>1 DEF ServerInv, Server!ShutdownFreesEmitters
<1>7. QED
  BY <1>1, <1>3, <1>4, <1>5, <1>6, SessionFrame DEF ServerInv

(* Those that failed are clients no more. *)
LEMMA RemoveInv == ASSUME ServerInv, Server!RemoveFailed PROVE ServerInv'
<1>0. writer \in WriterState /\ writer.at = "removing" /\ clients' = clients \ writer.failed
  BY DEF ServerInv, Server!TypeOK, Server!RemoveFailed, WriterState
<1>1. UNCHANGED <<phase, channel, sent, emitter, conn, stream, browser, session>> /\ Taken' = Taken
  BY DEF Server!RemoveFailed, Server!bus, Taken
<1>2. writer' \in WriterState /\ writer'.at = "idle" /\ writer'.failed = {}
  BY <1>0 DEF Server!RemoveFailed, WriterState
<1>3. Server!TypeOK'
  BY <1>0, <1>1, <1>2 DEF ServerInv, Server!TypeOK, WriterState
<1>4. ChannelOK' /\ WriterOK'
  BY <1>1, <1>2 DEF ServerInv, ChannelOK, WriterOK
<1>5. \A c \in Conns : ConnOK(c)'
  BY <1>0, <1>1, <1>2 DEF ServerInv, ConnOK, Reached
<1>6. Server!ShutdownFreesEmitters'
  BY <1>1 DEF ServerInv, Server!ShutdownFreesEmitters
<1>7. QED
  BY <1>1, <1>3, <1>4, <1>5, <1>6, SessionFrame DEF ServerInv

(* A connection moves on to another state. *)
LEMMA ConnMoves ==
  ASSUME ServerInv, NEW c \in Conns,
         NEW to \in {"opening", "open", "broken", "removed", "over"},
         conn' = [conn EXCEPT ![c] = to]
  PROVE  /\ conn' \in [Conns -> {"unused", "opening", "open", "broken", "removed", "over"}]
         /\ conn'[c] = to /\ \A d \in Conns : d # c => conn'[d] = conn[d]
BY DEF ServerInv, Server!TypeOK

(* A connection is opened, registered, lost or read to its end. *)
LEMMA ConnInv ==
  ASSUME ServerInv, NEW c \in Conns,
         Server!Connect(c) \/ Server!Register(c) \/ Server!Break(c) \/ Server!ReadEnds(c)
  PROVE  ServerInv'
<1>0. writer \in WriterState /\ clients \in SUBSET Conns
  BY DEF ServerInv, Server!TypeOK, WriterState
<1>1. UNCHANGED <<phase, channel, sent, emitter, writer, stream, session>> /\ Taken' = Taken
  BY DEF Server!Connect, Server!Register, Server!Break, Server!ReadEnds, Server!bus, Taken
<1>2. PICK to \in {"opening", "open", "broken", "removed"} :
        /\ conn' = [conn EXCEPT ![c] = to]
        /\ to = "opening" => conn[c] = "unused" /\ clients' = clients
        /\ to = "open" => conn[c] = "opening" /\ clients' = clients \cup {c} /\ writer.at # "writing"
        /\ to = "broken" => conn[c] = "open" /\ clients' = clients
        /\ to = "removed" => conn[c] = "broken" /\ clients' = clients \ {c} /\ writer.at # "writing"
        /\ browser' \in [ws : Conns \cup {NoConn}, id : Conns \cup {NoConn}, read : Nat]
  <2>1. browser \in [ws : Conns \cup {NoConn}, id : Conns \cup {NoConn}, read : Nat]
    BY DEF ServerInv, Server!TypeOK
  <2>2. CASE Server!Connect(c)
    BY <2>1, <2>2 DEF Server!Connect
  <2>3. CASE Server!Register(c)
    BY <2>1, <2>3 DEF Server!Register, Server!Unlocked
  <2>4. CASE Server!Break(c)
    BY <2>1, <2>4 DEF Server!Break
  <2>5. CASE Server!ReadEnds(c)
    BY <2>1, <2>5 DEF Server!ReadEnds, Server!Unlocked
  <2>6. QED
    BY <2>2, <2>3, <2>4, <2>5
<1>3. /\ conn' \in [Conns -> {"unused", "opening", "open", "broken", "removed", "over"}]
      /\ conn'[c] = to /\ \A d \in Conns : d # c => conn'[d] = conn[d]
  BY <1>2, ConnMoves
<1>4. clients' \subseteq Conns /\ \A d \in Conns : d # c => (d \in clients' <=> d \in clients)
  BY <1>0, <1>2
<1>5. Server!TypeOK'
  BY <1>1, <1>2, <1>3, <1>4 DEF ServerInv, Server!TypeOK
<1>6. ChannelOK'
  BY <1>1 DEF ServerInv, ChannelOK
<1>7. WriterOK'
  <2>1. writer.at = "writing" => writer.left \cup writer.failed \subseteq clients'
    BY <1>0, <1>2 DEF ServerInv, WriterOK
  <2>2. \A d \in writer.failed : conn'[d] \in {"broken", "removed", "over"}
    BY <1>0, <1>2, <1>3 DEF ServerInv, WriterOK, WriterState
  <2>3. QED
    BY <1>1, <2>1, <2>2 DEF ServerInv, WriterOK
<1>8. ASSUME NEW d \in Conns PROVE ConnOK(d)'
  <2>0. ConnOK(d) /\ Reached(d)' = Reached(d)
    BY <1>1 DEF ServerInv, Reached
  <2>1. CASE d # c
    BY <1>1, <1>3, <1>4, <2>0, <2>1 DEF ConnOK
  <2>2. CASE d = c /\ to = "opening"
    BY <1>1, <1>2, <1>3, <2>0, <2>2 DEF ConnOK
  <2>3. CASE d = c /\ to = "open"
    <3>1. stream[c] = <<>>
      BY <1>2, <2>0, <2>3 DEF ConnOK
    <3>2. EndsWith(stream[c], Reached(c))
      BY <3>1, NothingWritten
    <3>3. QED
      BY <1>1, <1>3, <2>0, <2>3, <3>2 DEF ConnOK
  <2>4. CASE d = c /\ to = "broken"
    BY <1>1, <1>2, <1>3, <2>0, <2>4 DEF ConnOK
  <2>5. CASE d = c /\ to = "removed"
    BY <1>1, <1>2, <1>3, <2>0, <2>5 DEF ConnOK
  <2>6. QED
    BY <2>1, <2>2, <2>3, <2>4, <2>5
<1>9. \A s \in Terminals : SessionOK(s)'
  BY <1>1, <1>3 DEF ServerInv, SessionOK
<1>10. Server!ShutdownFreesEmitters'
  BY <1>1 DEF ServerInv, Server!ShutdownFreesEmitters
<1>11. QED
  BY <1>5, <1>6, <1>7, <1>8, <1>9, <1>10 DEF ServerInv

(* A greeting is no event. *)
LEMMA GreetInv == ASSUME ServerInv, NEW c \in Conns, Server!Greet(c) PROVE ServerInv'
<1>1. UNCHANGED <<phase, channel, sent, emitter, writer, clients, conn, browser, session>> /\ Taken' = Taken
      /\ conn[c] = "open"
  BY DEF Server!Greet, Server!bus, Taken
<1>2. PICK t : t = Append(stream[c], Hello)
  OBVIOUS
<1>3. stream[c] \in Seq(0 .. MaxEvents) /\ stream[c] \in Seq(Nat) /\ t \in Seq(0 .. MaxEvents)
  <2>1. stream[c] \in Seq(0 .. MaxEvents) /\ MaxEvents \in Nat
    BY ServerConstants DEF ServerInv, Server!TypeOK
  <2>2. stream[c] \in Seq(Nat)
    BY <2>1
  <2>3. QED
    BY <1>2, <2>1, <2>2, ServerConstants
<1>4. /\ stream' \in [Conns -> Seq(0 .. MaxEvents)] /\ stream'[c] = t
      /\ \A d \in Conns : d # c => stream'[d] = stream[d]
  <2>1. stream' = [stream EXCEPT ![c] = t]
    BY <1>2 DEF Server!Greet, Hello
  <2>2. stream \in [Conns -> Seq(0 .. MaxEvents)]
    BY DEF ServerInv, Server!TypeOK
  <2>3. QED
    BY <1>3, <2>1, <2>2
<1>5. Server!TypeOK'
  BY <1>1, <1>4 DEF ServerInv, Server!TypeOK
<1>6. ChannelOK' /\ WriterOK'
  BY <1>1 DEF ServerInv, ChannelOK, WriterOK
<1>7. ASSUME NEW d \in Conns PROVE ConnOK(d)'
  <2>0. ConnOK(d) /\ Reached(d)' = Reached(d)
    BY <1>1 DEF ServerInv, Reached
  <2>1. CASE d # c
    BY <1>1, <1>4, <2>0, <2>1 DEF ConnOK
  <2>2. CASE d = c
    <3>1. Consecutive(t) /\ (c \in clients \ writer.failed => EndsWith(t, Reached(c)))
      <4>1. Consecutive(stream[c])
        BY <2>0, <2>2 DEF ConnOK
      <4>2. Reached(c) \in Int
        BY DEF Reached, Taken, ServerInv, Server!TypeOK
      <4>3. QED
        BY <1>2, <1>3, <2>0, <2>2, <4>1, <4>2, GreetingWritten DEF ConnOK
    <3>2. QED
      BY <1>1, <1>4, <2>0, <2>2, <3>1 DEF ConnOK
  <2>3. QED
    BY <2>1, <2>2
<1>8. Server!ShutdownFreesEmitters'
  BY <1>1 DEF ServerInv, Server!ShutdownFreesEmitters
<1>9. QED
  BY <1>1, <1>5, <1>6, <1>7, <1>8, SessionFrame DEF ServerInv

SessionState ==
  [at : {"none", "asked", "live", "closed"}, owner : Conns \cup {NoConn}, orphan : BOOLEAN]

(* The terminals of a connection that is over are closed. *)
LEMMA DisconnectInv == ASSUME ServerInv, NEW c \in Conns, Server!OnClientDisconnect(c) PROVE ServerInv'
<1>0. session \in [Terminals -> SessionState]
  BY DEF ServerInv, Server!TypeOK, SessionState
<1>1. /\ UNCHANGED <<phase, channel, sent, emitter, writer, clients, stream, browser>> /\ Taken' = Taken
      /\ conn[c] = "removed" /\ conn' = [conn EXCEPT ![c] = "over"]
  BY DEF Server!OnClientDisconnect, Server!bus, Taken
<1>2. /\ conn' \in [Conns -> {"unused", "opening", "open", "broken", "removed", "over"}]
      /\ conn'[c] = "over" /\ \A d \in Conns : d # c => conn'[d] = conn[d]
  BY <1>1, ConnMoves
<1>3. /\ session' \in [Terminals -> SessionState]
      /\ \A s \in Terminals : \/ session[s].at = "live" /\ session[s].owner = c /\ session'[s].at = "closed"
                              \/ session'[s] = session[s] /\ ~(session[s].at = "live" /\ session[s].owner = c)
  BY <1>0 DEF Server!OnClientDisconnect, SessionState
<1>4. Server!TypeOK'
  BY <1>1, <1>2, <1>3 DEF ServerInv, Server!TypeOK, SessionState
<1>5. ChannelOK' /\ WriterOK'
  BY <1>1, <1>2 DEF ServerInv, ChannelOK, WriterOK, Server!TypeOK
<1>6. \A d \in Conns : ConnOK(d)'
  BY <1>1, <1>2 DEF ServerInv, ConnOK, Reached
<1>7. ASSUME NEW s \in Terminals PROVE SessionOK(s)'
  BY <1>2, <1>3 DEF ServerInv, SessionOK
<1>8. Server!ShutdownFreesEmitters'
  BY <1>1 DEF ServerInv, Server!ShutdownFreesEmitters
<1>9. QED
  BY <1>4, <1>5, <1>6, <1>7, <1>8 DEF ServerInv

(* The browser reads, or notices the loss. *)
LEMMA BrowserInv == ASSUME ServerInv, Server!Receive \/ Server!Lost PROVE ServerInv'
<1>1. UNCHANGED <<phase, channel, sent, emitter, writer, clients, conn, stream, session>>
  BY DEF Server!Receive, Server!Lost, Server!bus
<1>2. browser' \in [ws : Conns \cup {NoConn}, id : Conns \cup {NoConn}, read : Nat]
  <2>1. browser \in [ws : Conns \cup {NoConn}, id : Conns \cup {NoConn}, read : Nat]
    BY DEF ServerInv, Server!TypeOK
  <2>2. CASE Server!Receive
    <3>1. PICK id \in Conns \cup {NoConn}, n \in Nat : browser' = [browser EXCEPT !.read = n, !.id = id]
      <4>1. browser.read + 1 \in Nat /\ browser.ws \in Conns \cup {NoConn} /\ browser.id \in Conns \cup {NoConn}
        BY <2>1
      <4>2. QED
        BY <2>2, <4>1 DEF Server!Receive
    <3>2. QED
      BY <2>1, <3>1
  <2>3. CASE Server!Lost
    BY <2>1, <2>3 DEF Server!Lost
  <2>4. QED
    BY <2>2, <2>3
<1>3. Server!TypeOK'
  BY <1>1, <1>2 DEF ServerInv, Server!TypeOK
<1>4. Server!ShutdownFreesEmitters'
  BY <1>1 DEF ServerInv, Server!ShutdownFreesEmitters
<1>5. QED
  BY <1>1, <1>3, <1>4, BroadcastFrame, SessionFrame DEF ServerInv

(* A terminal is asked for, starts or is closed. *)
LEMMA TerminalInv ==
  ASSUME ServerInv, NEW s \in Terminals,
         Server!AskSession(s) \/ Server!StartSession(s) \/ Server!CloseSession(s)
  PROVE  ServerInv'
<1>0. session \in [Terminals -> SessionState] /\ browser.id \in Conns \cup {NoConn}
  BY DEF ServerInv, Server!TypeOK, SessionState
<1>1. UNCHANGED <<phase, channel, sent, emitter, writer, clients, conn, stream, browser>>
  BY DEF Server!AskSession, Server!StartSession, Server!CloseSession, Server!bus
<1>2. PICK r \in SessionState :
        /\ session' = [session EXCEPT ![s] = r]
        /\ r.at = "live" /\ ~r.orphan => r.owner \in Conns /\ conn[r.owner] # "over"
  <2>1. CASE Server!AskSession(s)
    <3> DEFINE r == [Server!NoSession EXCEPT !.at = "asked", !.owner = browser.id]
    <3>1. r \in SessionState /\ r.at = "asked"
      BY <1>0 DEF SessionState, Server!NoSession
    <3>2. session' = [session EXCEPT ![s] = r]
      BY <2>1 DEF Server!AskSession
    <3> HIDE DEF r
    <3>3. QED
      BY <3>1, <3>2
  <2>2. CASE Server!StartSession(s)
    <3> DEFINE o == IF session[s].owner = NoConn THEN TRUE ELSE conn[session[s].owner] = "over"
               r == [session[s] EXCEPT !.at = "live", !.orphan = o]
    <3>0. session[s] \in SessionState /\ o \in BOOLEAN
      BY <1>0
    <3>1. r \in SessionState /\ r.orphan = o /\ r.owner = session[s].owner
      <4> HIDE DEF o
      <4>1. QED
        BY <3>0 DEF SessionState
    <3>2. session' = [session EXCEPT ![s] = r]
      BY <1>0, <2>2 DEF Server!StartSession, SessionState
    <3>3. ~o => r.owner \in Conns /\ conn[r.owner] # "over"
      BY <3>0, <3>1 DEF SessionState
    <3> HIDE DEF r, o
    <3>4. QED
      BY <3>1, <3>2, <3>3
  <2>3. CASE Server!CloseSession(s)
    <3> DEFINE r == [session[s] EXCEPT !.at = "closed"]
    <3>0. session[s] \in SessionState
      BY <1>0
    <3>1. r \in SessionState /\ r.at = "closed"
      BY <3>0 DEF SessionState
    <3>2. session' = [session EXCEPT ![s] = r]
      BY <1>0, <2>3 DEF Server!CloseSession, SessionState
    <3> HIDE DEF r
    <3>3. QED
      BY <3>1, <3>2
  <2>4. QED
    BY <2>1, <2>2, <2>3
<1>3. /\ session' \in [Terminals -> SessionState] /\ session'[s] = r
      /\ \A t \in Terminals : t # s => session'[t] = session[t]
  <2>1. r \in SessionState /\ session' = [session EXCEPT ![s] = r]
    BY <1>2
  <2>2. QED
    BY <1>0, <2>1
<1>4. Server!TypeOK'
  BY <1>1, <1>3 DEF ServerInv, Server!TypeOK, SessionState
<1>5. \A t \in Terminals : SessionOK(t)'
  <2>1. SessionOK(s)'
    BY <1>1, <1>2, <1>3 DEF SessionOK
  <2>2. \A t \in Terminals : t # s => SessionOK(t)'
    BY <1>1, <1>3 DEF ServerInv, SessionOK
  <2>3. QED
    BY <2>1, <2>2
<1>6. Server!ShutdownFreesEmitters'
  BY <1>1 DEF ServerInv, Server!ShutdownFreesEmitters
<1>7. QED
  BY <1>1, <1>4, <1>5, <1>6, BroadcastFrame DEF ServerInv

(* Every step of the server, and every step elsewhere. *)
LEMMA ServerNextInv == ServerInv /\ (Server!Next \/ UNCHANGED serverVars) => ServerInv'
<1> SUFFICES ASSUME ServerInv, Server!Next \/ UNCHANGED serverVars PROVE ServerInv'
  OBVIOUS
<1>1. CASE UNCHANGED serverVars
  <2>1. UNCHANGED <<phase, channel, sent, emitter, writer, clients, conn, stream, browser, session>>
    BY <1>1 DEF serverVars
  <2>2. Server!TypeOK' /\ Server!ShutdownFreesEmitters'
    BY <2>1 DEF ServerInv, Server!TypeOK, Server!ShutdownFreesEmitters
  <2>3. QED
    BY <2>1, <2>2, BroadcastFrame, SessionFrame DEF ServerInv
<1>2. CASE Server!Next
  BY <1>2, EmitterInv, SendInv, ShutdownInv, TakeInv, WriteInv, WrittenInv, RemoveInv, ConnInv, GreetInv,
     DisconnectInv, BrowserInv, TerminalInv DEF Server!Next
<1>3. QED
  BY <1>1, <1>2

(* The invariant says what clients and emitters are promised. *)
LEMMA ServerInvSound == ServerInv => Server!ServerSound
<1> SUFFICES ASSUME ServerInv PROVE Server!ServerSound
  OBVIOUS
<1>1. Server!NoGaps
  <2> SUFFICES ASSUME NEW c \in Conns
               PROVE  /\ \A i, j \in DOMAIN stream[c] :
                           stream[c][i] # Hello /\ stream[c][j] # Hello /\ i < j /\ Quietly(stream[c], i, j) =>
                             stream[c][j] = stream[c][i] + 1
                      /\ c \in clients /\ conn[c] = "open" /\ Server!Unlocked =>
                           \A i \in DOMAIN stream[c] :
                             stream[c][i] # Hello /\ Quietly(stream[c], i, Len(stream[c]) + 1) =>
                               stream[c][i] + Len(channel) = sent
    BY DEF Server!NoGaps, Server!Silent, Quietly, Hello
  <2>1. ConnOK(c) /\ WriterOK /\ Len(channel) \in Nat /\ sent \in Nat
    BY DEF ServerInv, Server!TypeOK
  <2>2. Consecutive(stream[c])
    BY <2>1 DEF ConnOK
  <2>3. ASSUME c \in clients, conn[c] = "open", Server!Unlocked PROVE EndsWith(stream[c], Taken)
    BY <2>1, <2>3 DEF ConnOK, WriterOK, Reached, Server!Unlocked
  <2>4. Taken + Len(channel) = sent
    BY <2>1 DEF Taken
  <2>5. QED
    BY <2>2, <2>3, <2>4 DEF Consecutive, EndsWith
<1>2. Server!SessionsEndWithClient
  BY DEF ServerInv, SessionOK, Server!SessionsEndWithClient
<1>3. Server!GoneAreForgotten
  BY DEF ServerInv, ConnOK, Server!GoneAreForgotten
<1>4. QED
  BY <1>1, <1>2, <1>3 DEF ServerInv, Server!ServerSound
-----------------------------------------------------------------------------
(***************************************************************************)
(* Bulk actions.                                                           *)
(*                                                                         *)
(* A dialog closed under way leaves its loop or its backup running: stray. *)
(* BulkInv is about the loops in any case, and about the dialog as long as *)
(* nothing of an earlier opening goes on.                                  *)
(***************************************************************************)

Openings == DOMAIN Selections
(* The ranges of the records. *)
LoopState ==
  [pc : {"off", "call", "sleep", "blocked", "complete"}, results : Seq(BOOLEAN), delay : BOOLEAN]
DialogState ==
  [status : {"idle", "inProgress", "paused", "complete"}, current : Nat, total : Nat,
   results : Seq(BOOLEAN)]
BackupState ==
  [pc : {"off", "fetch", "save", "ended"}, of : Openings \cup {0}, fetched : Nat, aborted : BOOLEAN]

BulkTyped ==
  /\ isOpen \in BOOLEAN /\ opening \in Openings \cup {0} /\ bulkProgress \in DialogState
  /\ pausedRef \in BOOLEAN /\ resumeResolver \in Openings \cup {NoLoop}
  /\ action \in [Openings -> LoopState]
  /\ backupProgress.status \in {"idle", "inProgress"} /\ backupAbort \in Backups \cup {NoBackup}
  /\ backup \in [Backups -> BackupState] /\ stray \in BOOLEAN

(* The loop of an opening has ended when it has a result of each resource.  *)
LoopOK(l) ==
  /\ l > opening => action[l].pc = "off"
  /\ action[l].pc = "off" => action[l].results = <<>>
  /\ IF action[l].pc = "complete" THEN Len(action[l].results) = Selections[l]
     ELSE Len(action[l].results) < Selections[l]

(* What the open dialog shows of its loop. *)
DialogOK(l) ==
  /\ bulkProgress.results = action[l].results /\ bulkProgress.current = Len(action[l].results)
  /\ bulkProgress.status = "idle" <=> action[l].pc = "off"
  /\ bulkProgress.status = "complete" <=> action[l].pc = "complete"
  /\ bulkProgress.status = "paused" => pausedRef
  /\ bulkProgress.status = "inProgress" => ~pausedRef /\ action[l].pc \in {"call", "sleep"}
  /\ action[l].pc = "blocked" => resumeResolver = l

(* A backup under way. *)
Active(b) == backup[b].pc \in {"fetch", "save"}

(* A backup under way is one of the resources of the dialog, whose loop has *)
(* not begun; it is the only one, and can be cancelled.                     *)
BackupOK(b) ==
  Active(b) =>
    /\ backup[b].of = opening /\ opening \in Openings /\ action[opening].pc = "off"
    /\ backupProgress.status = "inProgress"
    /\ backup[b].pc = "fetch" => backup[b].aborted \/ backupAbort = b
    /\ \A c \in Backups : Active(c) => c = b

(* As long as nothing of an earlier opening goes on. *)
Undisturbed ==
  /\ \A l \in Openings : l # opening => action[l].pc \in {"off", "complete"}
  /\ resumeResolver # NoLoop => resumeResolver = opening
  /\ isOpen => DialogOK(opening)
  /\ \A b \in Backups : BackupOK(b)

(* The whole invariant. *)
BulkInv ==
  /\ BulkTyped /\ (isOpen => opening \in Openings)
  /\ \A l \in Openings : LoopOK(l)
  /\ resumeResolver # NoLoop => action[resumeResolver].pc = "blocked"
  /\ stray \/ Undisturbed

(* What the constants are. *)
LEMMA OpeningsAre ==
  /\ Openings = 1 .. Len(Selections) /\ Len(Selections) \in Nat
  /\ \A l \in Openings : l \in Nat /\ l # 0 /\ Selections[l] \in Nat /\ Selections[l] > 0
  /\ NoLoop \notin Openings /\ NoBackup \notin Backups
  /\ Bulk!Openings = Openings
BY ServicesAssumption DEF Bulk!BulkAssumption, Openings, Bulk!Openings

(* No dialog is open at the start. *)
LEMMA BulkInitInv == Bulk!Init => BulkInv
<1> SUFFICES ASSUME Bulk!Init PROVE BulkInv
  OBVIOUS
<1>0. /\ isOpen = FALSE /\ opening = 0 /\ bulkProgress = Bulk!Progress(0) /\ pausedRef = FALSE
      /\ resumeResolver = NoLoop /\ backupProgress.status = "idle" /\ backupAbort = NoBackup
      /\ stray = FALSE
  BY DEF Bulk!Init, Bulk!NoBackupProgress
<1>a. action \in [Openings -> LoopState]
  <2>1. [pc |-> "off", results |-> <<>>, delay |-> FALSE] \in LoopState
    BY DEF LoopState
  <2>2. QED
    BY <2>1, OpeningsAre DEF Bulk!Init
<1>b. backup \in [Backups -> BackupState]
  <2>1. [pc |-> "off", of |-> 0, fetched |-> 0, aborted |-> FALSE] \in BackupState
    BY DEF BackupState
  <2>2. QED
    BY <2>1 DEF Bulk!Init
<1>c. bulkProgress \in DialogState
  BY <1>0 DEF DialogState, Bulk!Progress
<1>1. BulkTyped
  BY <1>0, <1>a, <1>b, <1>c DEF BulkTyped
<1>2. ASSUME NEW l \in Openings PROVE action[l].pc = "off" /\ action[l].results = <<>> /\ LoopOK(l)
  <2>1. action[l].pc = "off" /\ action[l].results = <<>>
    BY OpeningsAre DEF Bulk!Init
  <2>2. QED
    BY <2>1, OpeningsAre DEF LoopOK
<1>3. Undisturbed
  BY <1>2 DEF Bulk!Init, Undisturbed, BackupOK, Active
<1>4. QED
  BY <1>1, <1>2, <1>3 DEF BulkInv, Bulk!Init

(* The loop of l goes on to a place. *)
Now(l, pc, results) ==
  /\ action' \in [Openings -> LoopState]
  /\ action'[l].pc = pc /\ action'[l].results = results
  /\ \A k \in Openings : k # l => action'[k] = action[k]

(* What an update of one loop does. *)
LEMMA LoopGoesOn ==
  ASSUME BulkTyped, NEW l \in Openings, NEW pc \in {"call", "sleep", "blocked", "complete"},
         NEW results \in Seq(BOOLEAN),
         action' = [action EXCEPT ![l].results = results, ![l].pc = pc]
  PROVE  Now(l, pc, results)
<1>1. action[l] \in LoopState /\ action \in [Openings -> LoopState]
  BY DEF BulkTyped
<1> DEFINE r == [action[l] EXCEPT !.results = results, !.pc = pc]
<1>2. r \in LoopState /\ r.pc = pc /\ r.results = results
  BY <1>1 DEF LoopState
<1>3. action' = [action EXCEPT ![l] = r]
  BY <1>1 DEF LoopState
<1> HIDE DEF r
<1>4. QED
  BY <1>1, <1>2, <1>3 DEF Now

(* A dialog is opened, over whatever the last one left. *)
LEMMA OpenInv == ASSUME BulkInv, Bulk!OpenBulkAction PROVE BulkInv'
<1> DEFINE o == opening + 1
<1>1. o \in Openings /\ opening < o /\ isOpen' = TRUE /\ opening' = o /\ ~isOpen
  BY OpeningsAre DEF BulkInv, BulkTyped, Bulk!OpenBulkAction
<1>2. UNCHANGED <<pausedRef, resumeResolver, action, backupAbort, backup>> /\ backupProgress'.status = "idle"
  BY DEF Bulk!OpenBulkAction, Bulk!NoBackupProgress
<1>3. /\ bulkProgress' \in DialogState /\ bulkProgress'.status = "idle" /\ bulkProgress'.results = <<>>
      /\ bulkProgress'.current = 0
  BY <1>1, OpeningsAre DEF Bulk!OpenBulkAction, Bulk!Progress, DialogState
<1>4. /\ stray' \in BOOLEAN
      /\ stray \/ (\E l \in Openings : action[l].pc \notin {"off", "complete"}) \/ (\E b \in Backups : Active(b)) => stray'
  BY OpeningsAre DEF BulkInv, BulkTyped, Bulk!OpenBulkAction, Bulk!LoopGoesOn, Bulk!BackupGoesOn, Active
<1> HIDE DEF o
<1>5. BulkTyped'
  BY <1>1, <1>2, <1>3, <1>4 DEF BulkInv, BulkTyped
<1>6. ASSUME NEW l \in Openings PROVE LoopOK(l)'
  <2>1. l > o => l > opening
    BY <1>1, OpeningsAre DEF BulkInv, BulkTyped
  <2>2. QED
    BY <1>1, <1>2, <2>1 DEF BulkInv, LoopOK
<1>7. ASSUME ~stray' PROVE Undisturbed'
  <2>1. ~stray /\ (\A l \in Openings : action[l].pc \in {"off", "complete"}) /\ \A b \in Backups : ~Active(b)
    BY <1>4, <1>7
  <2>2. resumeResolver = NoLoop
    BY <1>1, <2>1, OpeningsAre DEF BulkInv, BulkTyped, Undisturbed
  <2>3. action[o].pc = "off" /\ action[o].results = <<>>
    BY <1>1, OpeningsAre DEF BulkInv, LoopOK
  <2>4. DialogOK(opening)'
    BY <1>1, <1>2, <1>3, <2>3 DEF DialogOK
  <2>5. QED
    BY <1>1, <1>2, <2>1, <2>2, <2>4 DEF Undisturbed, BackupOK, Active
<1>8. QED
  BY <1>1, <1>2, <1>5, <1>6, <1>7 DEF BulkInv

(* CancelBackup leaves the places of the backups alone. *)
LEMMA CancelFacts ==
  ASSUME BulkTyped, Bulk!CancelBackup
  PROVE  /\ backupAbort' = NoBackup /\ backup' \in [Backups -> BackupState]
         /\ \A b \in Backups : /\ backup'[b].pc = backup[b].pc /\ backup'[b].of = backup[b].of
                               /\ backup'[b].aborted = (backup[b].aborted \/ b = backupAbort)
BY DEF BulkTyped, Bulk!CancelBackup, BackupState

(* A cancelled backup is not one under way. *)
LEMMA CancelInv ==
  ASSUME BulkInv, Bulk!CancelBackup, UNCHANGED <<opening, action, backupProgress>>,
         NEW b \in Backups, BackupOK(b), stray \/ Undisturbed
  PROVE  BackupOK(b)'
BY CancelFacts DEF BulkInv, BackupOK, Active

(* A dialog is closed; what goes on then is stray. *)
LEMMA CloseInv == ASSUME BulkInv, Bulk!CloseBulkAction PROVE BulkInv'
<1>1. /\ isOpen' = FALSE /\ UNCHANGED <<opening, pausedRef, resumeResolver, action, backupProgress, stray>>
      /\ Bulk!CancelBackup \/ (bulkProgress.status = "complete" /\ UNCHANGED <<backupAbort, backup>>)
      /\ isOpen
  BY DEF Bulk!CloseBulkAction
<1>2. bulkProgress' \in DialogState
  BY DEF Bulk!CloseBulkAction, Bulk!Progress, DialogState
<1>3. backup' \in [Backups -> BackupState] /\ backupAbort' \in Backups \cup {NoBackup}
  BY <1>1, CancelFacts DEF BulkInv, BulkTyped
<1>4. BulkTyped'
  BY <1>1, <1>2, <1>3 DEF BulkInv, BulkTyped
<1>5. \A l \in Openings : LoopOK(l)'
  BY <1>1 DEF BulkInv, LoopOK
<1>6. ASSUME ~stray' PROVE Undisturbed'
  <2>1. Undisturbed
    BY <1>1, <1>6 DEF BulkInv
  <2>2. ASSUME NEW b \in Backups PROVE BackupOK(b)'
    <3>1. CASE Bulk!CancelBackup
      BY <1>1, <2>1, <3>1, CancelInv DEF Undisturbed
    <3>2. CASE UNCHANGED <<backupAbort, backup>>
      BY <1>1, <2>1, <3>2 DEF Undisturbed, BackupOK, Active
    <3>3. QED
      BY <1>1, <3>1, <3>2
  <2>3. QED
    BY <1>1, <2>1, <2>2 DEF Undisturbed
<1>7. QED
  BY <1>1, <1>4, <1>5, <1>6 DEF BulkInv

(* The action is confirmed: its loop begins, or has nothing to do. *)
LEMMA ConfirmInv == ASSUME BulkInv, NEW delay \in BOOLEAN, Bulk!ConfirmBulkAction(delay) PROVE BulkInv'
<1>1. /\ isOpen /\ bulkProgress.status = "idle" /\ backupProgress.status = "idle"
      /\ pausedRef' = FALSE /\ resumeResolver' = NoLoop /\ opening \in Openings
      /\ UNCHANGED <<isOpen, opening, backupProgress, backupAbort, backup, stray>>
  BY DEF Bulk!ConfirmBulkAction, Bulk!MayAct, Bulk!backupVars, BulkInv
<1>2. Now(opening, "call", <<>>)
  <2> DEFINE r == [pc |-> "call", results |-> <<>>, delay |-> delay]
  <2>1. r \in LoopState /\ r.pc = "call" /\ r.results = <<>>
    BY DEF LoopState
  <2>2. action' = [action EXCEPT ![opening] = r]
    BY DEF Bulk!ConfirmBulkAction
  <2> HIDE DEF r
  <2>3. QED
    BY <1>1, <2>1, <2>2 DEF Now, BulkInv, BulkTyped
<1>3. /\ bulkProgress' \in DialogState /\ bulkProgress'.status = "inProgress"
      /\ bulkProgress'.results = <<>> /\ bulkProgress'.current = bulkProgress.current
  <2>1. PICK e : e = <<>>
    OBVIOUS
  <2>2. e \in Seq(BOOLEAN) /\ bulkProgress \in DialogState
    BY <2>1 DEF BulkInv, BulkTyped
  <2>3. bulkProgress' = [bulkProgress EXCEPT !.status = "inProgress", !.results = e]
    BY <2>1 DEF Bulk!ConfirmBulkAction
  <2>4. QED
    BY <2>1, <2>2, <2>3 DEF DialogState
<1>4. BulkTyped'
  BY <1>1, <1>2, <1>3 DEF BulkInv, BulkTyped, Now
<1>5. ASSUME NEW l \in Openings PROVE LoopOK(l)'
  <2>1. CASE l = opening
    BY <1>1, <1>2, <2>1, OpeningsAre DEF BulkInv, LoopOK, Now
  <2>2. CASE l # opening
    BY <1>1, <1>2, <2>2 DEF BulkInv, LoopOK, Now
  <2>3. QED
    BY <2>1, <2>2
<1>6. ASSUME ~stray' PROVE Undisturbed'
  <2>1. Undisturbed
    BY <1>1, <1>6 DEF BulkInv
  <2>2. bulkProgress.current = 0
    BY <1>1, <2>1 DEF BulkInv, Undisturbed, DialogOK, LoopOK
  <2>3. DialogOK(opening)'
    BY <1>1, <1>2, <1>3, <2>2 DEF DialogOK, Now
  <2>4. \A b \in Backups : ~Active(b)
    BY <1>1, <2>1 DEF Undisturbed, BackupOK
  <2>5. QED
    BY <1>1, <1>2, <2>1, <2>3, <2>4 DEF Undisturbed, BackupOK, Active, Now
<1>7. QED
  BY <1>1, <1>4, <1>5, <1>6 DEF BulkInv

(* A pause lets the item under way end. *)
LEMMA PauseInv == ASSUME BulkInv, Bulk!PauseBulkAction PROVE BulkInv'
<1>1. /\ isOpen /\ bulkProgress.status = "inProgress" /\ pausedRef' = TRUE
      /\ UNCHANGED <<isOpen, opening, resumeResolver, action, backupProgress, backupAbort, backup, stray>>
  BY DEF Bulk!PauseBulkAction, Bulk!backupVars
<1>2. /\ bulkProgress' \in DialogState /\ bulkProgress'.status = "paused"
      /\ bulkProgress'.results = bulkProgress.results /\ bulkProgress'.current = bulkProgress.current
  BY DEF Bulk!PauseBulkAction, BulkInv, BulkTyped, DialogState
<1>3. BulkTyped'
  BY <1>1, <1>2 DEF BulkInv, BulkTyped
<1>4. DialogOK(opening) => DialogOK(opening)'
  BY <1>1, <1>2 DEF DialogOK
<1>5. Undisturbed => Undisturbed'
  BY <1>1, <1>4 DEF Undisturbed, BackupOK, Active
<1>6. QED
  BY <1>1, <1>3, <1>5 DEF BulkInv, LoopOK

(* A resumed loop goes on with the next item. *)
LEMMA ResumeInv == ASSUME BulkInv, Bulk!ResumeBulkAction PROVE BulkInv'
<1>1. /\ isOpen /\ bulkProgress.status = "paused" /\ pausedRef' = FALSE /\ resumeResolver' = NoLoop
      /\ UNCHANGED <<isOpen, opening, backupProgress, backupAbort, backup, stray>>
  BY DEF Bulk!ResumeBulkAction, Bulk!backupVars
<1>2. /\ bulkProgress' \in DialogState /\ bulkProgress'.status = "inProgress"
      /\ bulkProgress'.results = bulkProgress.results /\ bulkProgress'.current = bulkProgress.current
  BY DEF Bulk!ResumeBulkAction, BulkInv, BulkTyped, DialogState
<1>3. /\ action' \in [Openings -> LoopState]
      /\ \A l \in Openings : /\ l # resumeResolver => action'[l] = action[l]
                             /\ l = resumeResolver => action'[l].pc = "call" /\ action'[l].results = action[l].results
  <2> DEFINE called(l) == [action[l] EXCEPT !.pc = "call"]
  <2>1. action' = [l \in Openings |-> IF l = resumeResolver THEN called(l) ELSE action[l]]
    BY DEF Bulk!ResumeBulkAction, Openings, Bulk!Openings
  <2>2. \A l \in Openings : action[l] \in LoopState
    BY DEF BulkInv, BulkTyped
  <2>3. \A l \in Openings :
          called(l) \in LoopState /\ called(l).pc = "call" /\ called(l).results = action[l].results
    BY <2>2 DEF LoopState
  <2> HIDE DEF called
  <2>4. QED
    BY <2>1, <2>2, <2>3
<1>4. BulkTyped'
  BY <1>1, <1>2, <1>3 DEF BulkInv, BulkTyped
<1>5. ASSUME NEW l \in Openings PROVE LoopOK(l)'
  <2>0. LoopOK(l) /\ opening' = opening
    BY <1>1 DEF BulkInv
  <2>1. CASE l # resumeResolver
    BY <1>3, <2>0, <2>1 DEF LoopOK
  <2>2. CASE l = resumeResolver
    <3>1. action[l].pc = "blocked" /\ action'[l].pc = "call" /\ action'[l].results = action[l].results
      BY <1>3, <2>2, OpeningsAre DEF BulkInv
    <3>2. QED
      BY <2>0, <3>1 DEF LoopOK
  <2>3. QED
    BY <2>1, <2>2
<1>6. ASSUME ~stray' PROVE Undisturbed'
  <2>1. Undisturbed /\ opening \in Openings /\ LoopOK(opening)
    BY <1>1, <1>6 DEF BulkInv
  <2>2. \A l \in Openings : l # opening => action'[l] = action[l]
    BY <1>3, <2>1, OpeningsAre DEF Undisturbed
  <2>3. /\ action'[opening].results = action[opening].results
        /\ action'[opening].pc \in {"call", "sleep"}
    <3>1. CASE resumeResolver = opening
      BY <1>3, <2>1, <3>1
    <3>2. CASE resumeResolver # opening
      <4>1. action'[opening] = action[opening] /\ action[opening].pc # "blocked"
        BY <1>1, <1>3, <2>1, <3>2 DEF Undisturbed, DialogOK
      <4>2. action[opening].pc \notin {"off", "complete"} /\ action[opening] \in LoopState
        BY <1>1, <2>1 DEF Undisturbed, DialogOK, BulkInv, BulkTyped
      <4>3. QED
        BY <4>1, <4>2 DEF LoopState
    <3>3. QED
      BY <3>1, <3>2
  <2>4. DialogOK(opening)'
    BY <1>1, <1>2, <2>1, <2>3 DEF DialogOK, Undisturbed
  <2>5. \A b \in Backups : ~Active(b)
    BY <1>1, <2>1 DEF Undisturbed, BackupOK, DialogOK
  <2>6. QED
    BY <1>1, <2>1, <2>2, <2>4, <2>5 DEF Undisturbed, BackupOK, Active
<1>7. QED
  BY <1>1, <1>4, <1>5, <1>6 DEF BulkInv

(* An item ends, and with it the loop or the wait for the next. *)
LEMMA ItemInv == ASSUME BulkInv, NEW l \in Openings, NEW ok \in BOOLEAN, Bulk!ItemEnds(l, ok) PROVE BulkInv'
<1> DEFINE results == Append(action[l].results, ok)
           n == Len(action[l].results)
           last == n + 1 = Selections[l]
<1>0. action[l] \in LoopState /\ LoopOK(l) /\ action[l].results \in Seq(BOOLEAN)
  BY DEF BulkInv, BulkTyped, LoopState
<1>1. /\ action[l].pc = "call" /\ results \in Seq(BOOLEAN) /\ Len(results) = n + 1 /\ n \in Nat
      /\ n < Selections[l] /\ Selections[l] \in Nat
  BY <1>0, OpeningsAre DEF Bulk!ItemEnds, LoopOK
<1>2. UNCHANGED <<isOpen, opening, pausedRef, backupProgress, backupAbort, backup, stray>>
  BY DEF Bulk!ItemEnds, Bulk!backupVars
<1>3. /\ bulkProgress' \in DialogState /\ bulkProgress'.results = results
      /\ bulkProgress'.current = Len(results)
      /\ bulkProgress'.status = IF last THEN "complete" ELSE bulkProgress.status
  <2>1. PICK r : r = results
    OBVIOUS
  <2>2. bulkProgress \in DialogState
    BY DEF BulkInv, BulkTyped
  <2>3. bulkProgress' = [bulkProgress EXCEPT !.current = Len(r), !.results = r,
                                             !.status = IF Len(r) = Selections[l] THEN "complete" ELSE @]
    BY <2>1 DEF Bulk!ItemEnds
  <2>4. r \in Seq(BOOLEAN) /\ Len(r) \in Nat /\ (Len(r) = Selections[l] <=> last)
    BY <1>1, <2>1
  <2> HIDE DEF results, last, n
  <2>5. QED
    BY <2>1, <2>2, <2>3, <2>4 DEF DialogState
<1>4. PICK pc \in {"call", "sleep", "blocked", "complete"} :
        /\ action' = [action EXCEPT ![l].results = results, ![l].pc = pc]
        /\ pc = "complete" <=> last
        /\ pc = "blocked" => pausedRef /\ resumeResolver' = l
        /\ pc # "blocked" => resumeResolver' = resumeResolver
        /\ pc = "call" => ~pausedRef
  <2>1. CASE last /\ action' = [action EXCEPT ![l].results = results, ![l].pc = "complete"]
             /\ UNCHANGED resumeResolver
    BY <2>1
  <2>2. CASE ~last /\ action' = [action EXCEPT ![l].results = results, ![l].pc = "sleep"]
             /\ UNCHANGED resumeResolver
    BY <2>2
  <2>3. CASE ~last /\ Bulk!NextItem(l, results)
    <3>1. CASE pausedRef
      BY <2>3, <3>1 DEF Bulk!NextItem
    <3>2. CASE ~pausedRef
      BY <2>3, <3>2 DEF Bulk!NextItem
    <3>3. QED
      BY <3>1, <3>2
  <2>4. QED
    BY <1>1, <2>1, <2>2, <2>3 DEF Bulk!ItemEnds
<1>5. Now(l, pc, results)
  BY <1>1, <1>4, LoopGoesOn DEF BulkInv
<1> HIDE DEF results, last
<1>6. BulkTyped'
  BY <1>2, <1>3, <1>4, <1>5 DEF BulkInv, BulkTyped, Now
<1>7. ASSUME NEW k \in Openings PROVE LoopOK(k)'
  <2>1. CASE k = l
    <3>1. ~(l > opening)
      BY <1>0, <1>1 DEF LoopOK
    <3>2. Len(results) = Selections[l] <=> last
      BY <1>1 DEF last
    <3>3. Len(results) <= Selections[l]
      BY <1>1
    <3>4. pc # "off" /\ action'[l].pc = pc /\ action'[l].results = results /\ Len(results) \in Nat
      BY <1>1, <1>4, <1>5 DEF Now
    <3>5. QED
      BY <1>1, <1>2, <1>4, <2>1, <3>1, <3>2, <3>3, <3>4 DEF LoopOK
  <2>2. CASE k # l
    BY <1>2, <1>5, <2>2 DEF BulkInv, LoopOK, Now
  <2>3. QED
    BY <2>1, <2>2
<1>8. resumeResolver' # NoLoop => action'[resumeResolver'].pc = "blocked"
  BY <1>1, <1>4, <1>5, OpeningsAre DEF BulkInv, BulkTyped, Now
<1>9. ASSUME ~stray' PROVE Undisturbed'
  <2>1. Undisturbed /\ l = opening
    BY <1>1, <1>2, <1>9 DEF BulkInv, Undisturbed
  <2>2. \A k \in Openings : k # opening => action'[k].pc \in {"off", "complete"}
    BY <1>5, <2>1 DEF Undisturbed, Now
  <2>3. resumeResolver' # NoLoop => resumeResolver' = opening
    BY <1>4, <2>1 DEF Undisturbed
  <2>4. isOpen => DialogOK(opening)'
    <3>1. SUFFICES ASSUME isOpen PROVE DialogOK(opening)'
      OBVIOUS
    <3>2. DialogOK(l)
      BY <2>1, <3>1 DEF Undisturbed
    <3>3. /\ bulkProgress'.status # "idle" /\ (bulkProgress'.status = "complete" <=> pc = "complete")
          /\ bulkProgress'.status \in {"paused", "inProgress"} => bulkProgress'.status = bulkProgress.status
      BY <1>1, <1>3, <1>4, <3>2 DEF DialogOK
    <3>4. pc # "off" /\ action'[l].pc = pc /\ action'[l].results = results
      BY <1>4, <1>5 DEF Now
    <3>5. bulkProgress'.status = "inProgress" => ~pausedRef /\ pc \in {"call", "sleep"}
      BY <1>4, <3>2, <3>3 DEF DialogOK
    <3>6. bulkProgress'.status = "paused" => pausedRef
      BY <3>2, <3>3 DEF DialogOK
    <3>7. QED
      BY <1>2, <1>3, <1>4, <2>1, <3>3, <3>4, <3>5, <3>6 DEF DialogOK
  <2>5. \A b \in Backups : ~Active(b)
    BY <1>1, <2>1 DEF Undisturbed, BackupOK
  <2>6. QED
    BY <1>2, <2>2, <2>3, <2>4, <2>5 DEF Undisturbed, BackupOK, Active
<1>10. QED
  BY <1>2, <1>6, <1>7, <1>8, <1>9 DEF BulkInv

(* The delay between two items is over. *)
LEMMA SleepInv == ASSUME BulkInv, NEW l \in Openings, Bulk!SleepEnds(l) PROVE BulkInv'
<1>0. action[l] \in LoopState /\ LoopOK(l) /\ action[l].results \in Seq(BOOLEAN)
  BY DEF BulkInv, BulkTyped, LoopState
<1>1. /\ action[l].pc = "sleep"
      /\ UNCHANGED <<isOpen, opening, bulkProgress, pausedRef, backupProgress, backupAbort, backup, stray>>
  BY DEF Bulk!SleepEnds, Bulk!backupVars
<1>2. PICK pc \in {"call", "blocked"} :
        /\ action' = [action EXCEPT ![l].results = action[l].results, ![l].pc = pc]
        /\ pc = "blocked" => pausedRef /\ resumeResolver' = l
        /\ pc # "blocked" => resumeResolver' = resumeResolver
        /\ pc = "call" => ~pausedRef
  <2>1. CASE pausedRef
    BY <2>1 DEF Bulk!SleepEnds, Bulk!NextItem
  <2>2. CASE ~pausedRef
    BY <2>2 DEF Bulk!SleepEnds, Bulk!NextItem
  <2>3. QED
    BY <2>1, <2>2
<1>3. Now(l, pc, action[l].results)
  BY <1>0, <1>2, LoopGoesOn DEF BulkInv
<1>4. BulkTyped'
  BY <1>1, <1>2, <1>3 DEF BulkInv, BulkTyped, Now
<1>5. ASSUME NEW k \in Openings PROVE LoopOK(k)'
  <2>1. CASE k = l
    BY <1>0, <1>1, <1>2, <1>3, <2>1 DEF LoopOK, Now
  <2>2. CASE k # l
    BY <1>1, <1>3, <2>2 DEF BulkInv, LoopOK, Now
  <2>3. QED
    BY <2>1, <2>2
<1>6. resumeResolver' # NoLoop => action'[resumeResolver'].pc = "blocked"
  BY <1>1, <1>2, <1>3, OpeningsAre DEF BulkInv, BulkTyped, Now
<1>7. ASSUME ~stray' PROVE Undisturbed'
  <2>1. Undisturbed /\ l = opening
    BY <1>1, <1>7 DEF BulkInv, Undisturbed
  <2>2. isOpen => DialogOK(opening)'
    BY <1>1, <1>2, <1>3, <2>1 DEF Undisturbed, DialogOK, Now
  <2>3. \A b \in Backups : ~Active(b)
    BY <1>1, <2>1 DEF Undisturbed, BackupOK
  <2>4. QED
    BY <1>1, <1>2, <1>3, <2>1, <2>2, <2>3 DEF Undisturbed, BackupOK, Active, Now
<1>8. QED
  BY <1>1, <1>4, <1>5, <1>6, <1>7 DEF BulkInv

(* A backup begins, of the resources of the dialog. *)
LEMMA HandleInv == ASSUME BulkInv, NEW b \in Backups, Bulk!HandleBackup(b) PROVE BulkInv'
<1>1. /\ isOpen /\ bulkProgress.status = "idle" /\ backupProgress.status = "idle" /\ opening \in Openings
      /\ UNCHANGED <<isOpen, opening, bulkProgress, pausedRef, resumeResolver, action, stray>>
      /\ backupAbort' = b /\ backupProgress'.status = "inProgress"
  BY DEF Bulk!HandleBackup, Bulk!MayAct, Bulk!loopVars, BulkInv
<1>2. /\ backup' \in [Backups -> BackupState] /\ backup'[b].pc = "fetch" /\ backup'[b].of = opening
      /\ \A c \in Backups : c # b => backup'[c] = backup[c]
  <2> DEFINE r == [pc |-> "fetch", of |-> opening, fetched |-> 0, aborted |-> FALSE]
  <2>1. r \in BackupState /\ r.pc = "fetch" /\ r.of = opening
    BY <1>1 DEF BackupState
  <2>2. backup' = [backup EXCEPT ![b] = r]
    BY DEF Bulk!HandleBackup
  <2> HIDE DEF r
  <2>3. QED
    BY <2>1, <2>2 DEF BulkInv, BulkTyped
<1>3. BulkTyped'
  BY <1>1, <1>2 DEF BulkInv, BulkTyped
<1>4. ASSUME ~stray' PROVE Undisturbed'
  <2>1. Undisturbed /\ action[opening].pc = "off"
    BY <1>1, <1>4 DEF BulkInv, Undisturbed, DialogOK
  <2>2. \A c \in Backups : ~Active(c)
    BY <1>1, <2>1 DEF Undisturbed, BackupOK
  <2>3. \A c \in Backups : BackupOK(c)'
    BY <1>1, <1>2, <2>1, <2>2 DEF BackupOK, Active
  <2>4. DialogOK(opening)'
    BY <1>1, <2>1 DEF Undisturbed, DialogOK
  <2>5. QED
    BY <1>1, <2>1, <2>3, <2>4 DEF Undisturbed
<1>5. QED
  BY <1>1, <1>3, <1>4 DEF BulkInv, LoopOK

(* The backup is cancelled by the user. *)
LEMMA CancelClickedInv == ASSUME BulkInv, Bulk!CancelClicked PROVE BulkInv'
<1>1. /\ Bulk!CancelBackup
      /\ UNCHANGED <<isOpen, opening, bulkProgress, pausedRef, resumeResolver, action, backupProgress, stray>>
  BY DEF Bulk!CancelClicked, Bulk!loopVars
<1>2. BulkTyped'
  BY <1>1, CancelFacts DEF BulkInv, BulkTyped
<1>3. ASSUME ~stray' PROVE Undisturbed'
  <2>1. Undisturbed
    BY <1>1, <1>3 DEF BulkInv
  <2>2. \A b \in Backups : BackupOK(b)'
    BY <1>1, <2>1, CancelInv DEF Undisturbed
  <2>3. isOpen => DialogOK(opening)'
    BY <1>1, <2>1 DEF Undisturbed, DialogOK
  <2>4. QED
    BY <1>1, <2>1, <2>2, <2>3 DEF Undisturbed
<1>4. QED
  BY <1>1, <1>2, <1>3 DEF BulkInv, LoopOK

(* A resource of the backup was fetched. *)
LEMMA FetchedInv == ASSUME BulkInv, NEW b \in Backups, Bulk!ItemFetched(b) PROVE BulkInv'
<1>1. /\ UNCHANGED <<isOpen, opening, bulkProgress, pausedRef, resumeResolver, action, backupAbort, stray>>
      /\ backup[b].pc = "fetch" /\ backupProgress'.status = "inProgress"
  BY DEF Bulk!ItemFetched, Bulk!loopVars
<1>2. /\ backup' \in [Backups -> BackupState] /\ backup'[b].pc \in {"fetch", "save"}
      /\ backup'[b].of = backup[b].of /\ backup'[b].aborted = backup[b].aborted
      /\ \A c \in Backups : c # b => backup'[c] = backup[c]
  <2>1. backup[b] \in BackupState /\ backup \in [Backups -> BackupState]
    BY DEF BulkInv, BulkTyped
  <2>2. PICK pc \in {"fetch", "save"}, n \in Nat : backup' = [backup EXCEPT ![b].fetched = n, ![b].pc = pc]
    <3> DEFINE n == backup[b].fetched + 1
               pc == IF n = Selections[backup[b].of] \/ backup[b].aborted THEN "save" ELSE "fetch"
    <3>1. n \in Nat /\ pc \in {"fetch", "save"}
      BY <2>1 DEF BackupState
    <3>2. backup' = [backup EXCEPT ![b].fetched = n, ![b].pc = pc]
      BY DEF Bulk!ItemFetched
    <3> HIDE DEF n, pc
    <3>3. QED
      BY <3>1, <3>2
  <2>3. QED
    BY <2>1, <2>2 DEF BackupState
<1>3. BulkTyped'
  BY <1>1, <1>2 DEF BulkInv, BulkTyped
<1>4. ASSUME ~stray' PROVE Undisturbed'
  <2>1. Undisturbed
    BY <1>1, <1>4 DEF BulkInv
  <2>2. \A c \in Backups : Active(c)' = Active(c)
    BY <1>1, <1>2 DEF Active
  <2>3. ASSUME NEW c \in Backups PROVE BackupOK(c)'
    BY <1>1, <1>2, <2>1, <2>2 DEF BackupOK, Undisturbed, Active
  <2>4. isOpen => DialogOK(opening)'
    BY <1>1, <2>1 DEF Undisturbed, DialogOK
  <2>5. QED
    BY <1>1, <2>1, <2>3, <2>4 DEF Undisturbed
<1>5. QED
  BY <1>1, <1>3, <1>4 DEF BulkInv, LoopOK

(* The backup is saved. *)
LEMMA SavedInv == ASSUME BulkInv, NEW b \in Backups, Bulk!BackupSaved(b) PROVE BulkInv'
<1>1. /\ UNCHANGED <<isOpen, opening, bulkProgress, pausedRef, resumeResolver, action, stray>>
      /\ backup[b].pc = "save" /\ backupAbort' = NoBackup /\ backupProgress'.status = "idle"
  BY DEF Bulk!BackupSaved, Bulk!loopVars, Bulk!NoBackupProgress
<1>2. /\ backup' \in [Backups -> BackupState] /\ backup'[b].pc = "ended"
      /\ \A c \in Backups : c # b => backup'[c] = backup[c]
  BY DEF Bulk!BackupSaved, BulkInv, BulkTyped, BackupState
<1>3. BulkTyped'
  BY <1>1, <1>2 DEF BulkInv, BulkTyped
<1>4. ASSUME ~stray' PROVE Undisturbed'
  <2>1. Undisturbed
    BY <1>1, <1>4 DEF BulkInv
  <2>2. \A c \in Backups : Active(c) => c = b
    BY <1>1, <2>1 DEF Undisturbed, BackupOK, Active
  <2>3. \A c \in Backups : ~Active(c)'
    BY <1>2, <2>2 DEF Active
  <2>4. isOpen => DialogOK(opening)'
    BY <1>1, <2>1 DEF Undisturbed, DialogOK
  <2>5. QED
    BY <1>1, <2>1, <2>3, <2>4 DEF Undisturbed, BackupOK
<1>5. QED
  BY <1>1, <1>3, <1>4 DEF BulkInv, LoopOK

(* Every step of the bulk actions, and every step elsewhere.               *)
LEMMA BulkNextInv == BulkInv /\ (Bulk!Next \/ UNCHANGED bulkVars) => BulkInv'
<1> SUFFICES ASSUME BulkInv, Bulk!Next \/ UNCHANGED bulkVars PROVE BulkInv'
  OBVIOUS
<1>1. CASE UNCHANGED bulkVars
  <2>1. UNCHANGED <<isOpen, opening, bulkProgress, pausedRef, resumeResolver, action, backupProgress,
                    backupAbort, backup, stray>>
    BY <1>1 DEF bulkVars
  <2>2. /\ BulkTyped' = BulkTyped /\ \A l \in Openings : LoopOK(l)' = LoopOK(l) /\ DialogOK(l)' = DialogOK(l)
        /\ \A b \in Backups : BackupOK(b)' = BackupOK(b)
    BY <2>1 DEF BulkTyped, LoopOK, DialogOK, BackupOK, Active
  <2>3. Undisturbed => Undisturbed'
    BY <2>1, <2>2 DEF Undisturbed, DialogOK
  <2>4. QED
    BY <2>1, <2>2, <2>3 DEF BulkInv
<1>2. CASE Bulk!Next
  <2>1. Bulk!Openings = Openings
    BY OpeningsAre
  <2>2. QED
    BY <1>2, <2>1, OpenInv, CloseInv, PauseInv, ResumeInv, CancelClickedInv, ConfirmInv, SleepInv, ItemInv,
       HandleInv, FetchedInv, SavedInv DEF Bulk!Next
<1>3. QED
  BY <1>1, <1>2

(* The invariant says what the dialog shows. *)
LEMMA BulkInvSound == BulkInv => Bulk!TypeOK /\ Bulk!BulkSound
<1> SUFFICES ASSUME BulkInv PROVE Bulk!TypeOK /\ Bulk!BulkSound
  OBVIOUS
<1>1. Bulk!TypeOK
  BY OpeningsAre DEF BulkInv, BulkTyped, Bulk!TypeOK, LoopState, DialogState, BackupState
<1>2. ASSUME ~stray PROVE Bulk!ProgressExact /\ Bulk!PausedCanResume /\ Bulk!BackupComesFirst
  <2>1. Undisturbed /\ \A l \in Openings : LoopOK(l)
    BY <1>2 DEF BulkInv
  <2>2. Bulk!BackupComesFirst
    BY <2>1 DEF Undisturbed, BackupOK, Active, Bulk!BackupComesFirst
  <2>3. ASSUME isOpen PROVE Bulk!ProgressExact /\ Bulk!PausedCanResume
    <3>1. opening \in Openings /\ DialogOK(opening) /\ LoopOK(opening) /\ bulkProgress \in DialogState
          /\ action[opening] \in LoopState
      BY <2>1, <2>3 DEF BulkInv, BulkTyped, Undisturbed
    <3>2. bulkProgress.status = "complete" <=> Len(action[opening].results) = Selections[opening]
      BY <3>1, OpeningsAre DEF DialogOK, LoopOK, LoopState
    <3>3. Bulk!ProgressExact
      BY <2>3, <3>1, <3>2 DEF DialogOK, Bulk!ProgressExact
    <3>4. action[opening].pc = "blocked" => bulkProgress.status = "paused"
      BY <3>1 DEF DialogOK, DialogState
    <3>5. QED
      BY <2>3, <3>1, <3>3, <3>4 DEF DialogOK, Bulk!PausedCanResume
  <2>4. CASE ~isOpen
    BY <2>2, <2>4 DEF Bulk!ProgressExact, Bulk!PausedCanResume
  <2>5. QED
    BY <2>2, <2>3, <2>4
<1>3. QED
  BY <1>1, <1>2 DEF Bulk!BulkSound

-----------------------------------------------------------------------------
(***************************************************************************)
(* The cut of a dependency graph.                                          *)
(***************************************************************************)

(* A set of numbers has a least one. *)
LEMMA LeastNumber ==
  ASSUME NEW T \in SUBSET Nat, T # {}
  PROVE  \E m \in T : \A k \in T : m <= k
<1>1. IsWellFoundedOn(OpToRel(<,Nat), Nat)
  BY NatLessThanWellFounded, Zenon
<1>2. PICK m \in T : \A k \in T : ~(<<k, m>> \in OpToRel(<,Nat))
  BY <1>1, WFMin, Zenon
<1>3. \A k \in T : ~(k < m)
  BY <1>2 DEF OpToRel
<1>4. QED
  BY <1>3

(* Induction over the natural numbers, for sets instead of predicates. *)
LEMMA SetInduction ==
  ASSUME NEW T \in SUBSET Nat, 0 \in T, \A n \in T : n + 1 \in T
  PROVE  T = Nat
<1>1. SUFFICES ASSUME Nat \ T # {} PROVE FALSE
  OBVIOUS
<1>2. PICK m \in Nat \ T : \A k \in Nat \ T : m <= k
  BY <1>1, LeastNumber
<1>3. m # 0 /\ m - 1 \in Nat
  BY <1>2
<1>4. m - 1 \in T
  BY <1>2, <1>3
<1>5. QED
  BY <1>2, <1>4

(* Of the elements of a set that have places of their own, the last one. *)
LEMMA LastPlace ==
  ASSUME NEW F, F # {}, NEW b \in Nat, NEW p \in [F -> 0 .. b]
  PROVE  \E x \in F : \A y \in F : p[y] <= p[x]
<1>1. PICK U : U = {k \in Nat : \A y \in F : p[y] <= k}
  OBVIOUS
<1>2. b \in U
  BY <1>1
<1>3. PICK u \in U : \A k \in U : u <= k
  BY <1>1, <1>2, LeastNumber
<1>4. u \in Nat /\ \A y \in F : p[y] \in Nat /\ p[y] <= u
  BY <1>1
<1>5. SUFFICES ASSUME \A y \in F : p[y] # u PROVE FALSE
  BY <1>4
<1>6. \A y \in F : p[y] <= u - 1
  BY <1>4, <1>5
<1>7. u - 1 \in Nat
  BY <1>4, <1>6
<1>8. u - 1 \in U
  BY <1>1, <1>6, <1>7
<1>9. QED
  BY <1>3, <1>4, <1>8

(* Of those with fewer than r before them, there are no more than r. *)
LEMMA FewBefore ==
  ASSUME NEW S, IsFiniteSet(S), NEW b \in Nat, NEW p \in [S -> 0 .. b],
         \A x, y \in S : p[x] = p[y] => x = y, NEW r \in Nat, NEW F \in SUBSET S,
         \A x \in F : Cardinality({m \in S : p[m] < p[x]}) < r
  PROVE  Cardinality(F) <= r
<1>1. IsFiniteSet(F) /\ Cardinality(F) \in Nat
  BY FS_Subset, FS_CardinalityType
<1>2. CASE F = {}
  BY <1>2, FS_EmptySet
<1>3. CASE F # {}
  <2>1. PICK q : q = [x \in F |-> p[x]]
    OBVIOUS
  <2>2. q \in [F -> 0 .. b]
    BY <2>1
  <2>3. PICK x \in F : \A y \in F : p[y] <= p[x]
    BY <1>3, <2>1, <2>2, LastPlace
  <2>4. PICK B : B = {m \in S : p[m] < p[x]}
    OBVIOUS
  <2>5. IsFiniteSet(B) /\ Cardinality(B) \in Nat /\ Cardinality(B) < r
    <3>1. B \in SUBSET S
      BY <2>4
    <3>2. IsFiniteSet(B)
      BY <3>1, FS_Subset
    <3>3. QED
      BY <2>4, <3>2, FS_CardinalityType
  <2>6. F \ {x} \in SUBSET B
    <3>1. ASSUME NEW y \in F, y # x PROVE y \in B
      <4>1. p[y] \in Nat /\ p[x] \in Nat /\ p[y] # p[x] /\ p[y] <= p[x]
        BY <2>3, <3>1
      <4>2. QED
        BY <2>4, <4>1
    <3>2. QED
      BY <3>1
  <2>7. Cardinality(F \ {x}) <= Cardinality(B)
    BY <2>5, <2>6, FS_Subset
  <2>8. Cardinality(F \ {x}) = Cardinality(F) - 1
    BY <1>1, FS_RemoveElement
  <2>9. QED
    BY <1>1, <2>5, <2>7, <2>8
<1>4. QED
  BY <1>2, <1>3

(* The nodes of a collected graph are finitely many, each at a place of its *)
(* own.                                                                     *)
LEMMA NodesArePlaced ==
  ASSUME Graph!Listed
  PROVE  /\ IsFiniteSet(Graph!Nodes) /\ Graph!NoNode \notin Graph!Nodes
         /\ Len(graph.nodes) \in Nat
         /\ \A n \in Graph!Nodes : /\ Graph!Position(n) \in 0 .. Len(graph.nodes)
                                   /\ graph.nodes[Graph!Position(n)] = n
<1>1. PICK s : s = graph.nodes
  OBVIOUS
<1>2. s \in Seq(DOMAIN cluster.kind \ {Graph!NoNode})
  BY <1>1 DEF Graph!Listed
<1>3. PICK k \in Nat : k = Len(s) /\ DOMAIN s = 1 .. k
  BY <1>2
<1>4. Graph!Nodes = {s[i] : i \in 1 .. k}
  BY <1>1, <1>3 DEF Graph!Nodes, Graph!ToSet
<1>5. IsFiniteSet(Graph!Nodes)
  <2>1. IsFiniteSet(1 .. k)
    BY FS_Interval
  <2>2. PICK f : f = [i \in 1 .. k |-> s[i]]
    OBVIOUS
  <2>3. f \in Surjection(1 .. k, Graph!Nodes)
    BY <1>4, <2>2 DEF Surjection
  <2>4. QED
    BY <2>1, <2>3, FS_Surjection
<1>6. Graph!NoNode \notin Graph!Nodes
  BY <1>2, <1>3, <1>4
<1>7. ASSUME NEW n \in Graph!Nodes
      PROVE  Graph!Position(n) \in 0 .. k /\ s[Graph!Position(n)] = n
  <2>1. Graph!Position(n) = CHOOSE i \in DOMAIN s : s[i] = n
    BY <1>1 DEF Graph!Position
  <2>2. \E i \in DOMAIN s : s[i] = n
    BY <1>3, <1>4
  <2>3. Graph!Position(n) \in DOMAIN s /\ s[Graph!Position(n)] = n
    BY <2>1, <2>2
  <2>4. QED
    BY <1>3, <2>3
<1>8. QED
  BY <1>1, <1>3, <1>5, <1>6, <1>7

(* Sets are counted in that module as they are here. *)
LEMMA GraphCounts == \A S : Graph!Cardinality(S) = Cardinality(S)
BY DEF Graph!Cardinality, Cardinality

(* What is kept of a group is part of it, nothing below a hidden node; it   *)
(* is within the limit, or all of it are connectors.                       *)
LEMMA KeptOfGroup ==
  ASSUME Graph!Listed, NEW g
  PROVE  /\ Graph!Kept(g) \subseteq Graph!Group(g) /\ IsFiniteSet(Graph!Kept(g))
         /\ g.parent \in hiddenNodes => Graph!Kept(g) = {}
         /\ \/ Cardinality(Graph!Kept(g)) <= NodeLimit
            \/ \A n \in Graph!Kept(g) : Graph!IsConnector(n)
<1> DEFINE C == {n \in Graph!Group(g) : Graph!IsConnector(n)}
           S == Graph!Group(g) \ C
           First(n) == Cardinality({m \in S : Graph!Position(m) < Graph!Position(n)})
           Room == NodeLimit - Cardinality(C)
<1>1. /\ g.parent \in hiddenNodes => Graph!Kept(g) = {}
      /\ \A n \in Graph!Kept(g) :
           n \in Graph!Group(g) /\ (Cardinality(Graph!Group(g)) <= NodeLimit \/ n \in C \/ First(n) < Room)
  BY GraphCounts DEF Graph!Kept
<1>2. Graph!Group(g) \in SUBSET Graph!Nodes /\ IsFiniteSet(Graph!Group(g))
  <2>1. Graph!Group(g) \in SUBSET Graph!Nodes
    BY DEF Graph!Group, Graph!Level
  <2>2. QED
    BY <2>1, NodesArePlaced, FS_Subset
<1>3. /\ C \subseteq Graph!Group(g) /\ S \subseteq Graph!Group(g) /\ S \cap C = {}
      /\ \A n \in C : Graph!IsConnector(n)
  OBVIOUS
<1>4. PICK limit \in Nat : limit = NodeLimit
  BY ServicesAssumption DEF Graph!GraphAssumption
<1> HIDE DEF C
<1>5. IsFiniteSet(C) /\ IsFiniteSet(S) /\ Cardinality(C) \in Nat
  BY <1>2, <1>3, FS_Subset, FS_CardinalityType
<1> DEFINE K == Graph!Kept(g)
<1>6. K \subseteq Graph!Group(g) /\ IsFiniteSet(K)
  <2>1. K \in SUBSET Graph!Group(g)
    BY <1>1
  <2>2. QED
    BY <1>2, <2>1, FS_Subset
<1>7. CASE Cardinality(Graph!Group(g)) <= NodeLimit
  <2>1. Cardinality(K) <= Cardinality(Graph!Group(g))
    BY <1>2, <1>6, FS_Subset
  <2>2. Cardinality(K) \in Nat /\ Cardinality(Graph!Group(g)) \in Nat
    BY <1>2, <1>6, FS_CardinalityType
  <2>3. QED
    BY <1>1, <1>4, <1>6, <1>7, <2>1, <2>2
<1>8. CASE ~(Cardinality(Graph!Group(g)) <= NodeLimit)
  <2>1. \A n \in K : n \in C \/ First(n) < Room
    BY <1>1, <1>8
  <2>2. \A n : First(n) \in Nat
    <3>1. ASSUME NEW n PROVE First(n) \in Nat
      <4>1. {m \in S : Graph!Position(m) < Graph!Position(n)} \in SUBSET S
        BY Zenon
      <4>2. QED
        BY <1>5, <4>1, FS_Subset, FS_CardinalityType
    <3>2. QED
      BY <3>1
  <2>3. CASE Cardinality(C) >= limit
    <3> HIDE DEF First
    <3>1. \A n \in K : n \in C
      BY <1>4, <1>5, <2>1, <2>2, <2>3
    <3>2. QED
      BY <1>1, <1>3, <1>6, <3>1
  <2>4. CASE ~(Cardinality(C) >= limit)
    <3>1. PICK r \in Nat : r = Room
      BY <1>4, <1>5, <2>4
    <3>2. PICK b \in Nat : b = Len(graph.nodes)
      BY NodesArePlaced
    <3>3. PICK p : p = [n \in S |-> Graph!Position(n)]
      OBVIOUS
    <3>4. p \in [S -> 0 .. b] /\ \A x, y \in S : p[x] = p[y] => x = y
      <4>1. \A n \in S : Graph!Position(n) \in 0 .. b /\ graph.nodes[Graph!Position(n)] = n
        BY <1>2, <1>3, <3>2, NodesArePlaced
      <4>2. p \in [S -> 0 .. b]
        BY <3>3, <4>1
      <4>3. \A x, y \in S : p[x] = p[y] => x = y
        BY <3>3, <4>1
      <4>4. QED
        BY <4>2, <4>3
    <3>5. PICK F : F = K \ C
      OBVIOUS
    <3>6. F \in SUBSET S
      BY <1>6, <3>5
    <3>7. \A x \in F : Cardinality({m \in S : p[m] < p[x]}) < r
      <4>1. ASSUME NEW x \in F PROVE Cardinality({m \in S : p[m] < p[x]}) < r
        <5>1. First(x) < r
          BY <2>1, <3>1, <3>5
        <5>2. \A m \in S : p[m] = Graph!Position(m)
          BY <3>3
        <5>3. x \in S
          BY <3>6
        <5>4. {m \in S : p[m] < p[x]} = {m \in S : Graph!Position(m) < Graph!Position(x)}
          BY <5>2, <5>3
        <5>5. QED
          BY <5>1, <5>4
      <4>2. QED
        BY <4>1
    <3> HIDE DEF S, Room, First, K
    <3>8. Cardinality(F) <= r
      BY <1>5, <3>4, <3>6, <3>7, FewBefore
    <3>9. IsFiniteSet(F) /\ Cardinality(F) \in Nat
      BY <1>5, <3>6, FS_Subset, FS_CardinalityType
    <3>10. Cardinality(C \cup F) <= limit
      <4>1. Cardinality(C \cup F) = Cardinality(C) + Cardinality(F) - Cardinality(C \cap F)
        BY <1>5, <3>9, FS_Union
      <4>2. C \cap F = {}
        BY <3>5
      <4>3. Cardinality(C \cap F) = 0
        BY <4>2, FS_EmptySet
      <4>4. r = limit - Cardinality(C)
        BY <1>4, <3>1 DEF Room
      <4>5. QED
        BY <1>5, <3>8, <3>9, <4>1, <4>3, <4>4
    <3>11. Cardinality(K) <= Cardinality(C \cup F)
      <4>1. K \in SUBSET (C \cup F) /\ IsFiniteSet(C \cup F)
        BY <1>5, <3>5, <3>9, FS_Union
      <4>2. QED
        BY <4>1, FS_Subset
    <3>12. Cardinality(K) \in Nat /\ Cardinality(C \cup F) \in Nat
      BY <1>5, <1>6, <3>9, FS_Union, FS_CardinalityType
    <3>13. Cardinality(K) <= NodeLimit
      BY <1>4, <3>10, <3>11, <3>12
    <3>14. QED
      BY <1>1, <1>6, <3>13 DEF K
  <2>5. QED
    BY <2>3, <2>4
<1>9. QED
  BY <1>7, <1>8

(* The children of a parent that are of a kind. *)
Below(p, k) == {n \in Graph!Nodes \ {root} : Graph!GroupParent(n) = p /\ Graph!Kind(n) = k}

(* From a node that is hidden up to one whose parent is kept, by no more    *)
(* steps than there are nodes that were looked at.                         *)
Hangs(n) ==
  \E k \in Nat : \E f \in [0 .. k -> hiddenNodes] :
    /\ k < Cardinality(Graph!Processed) /\ f[0] = n /\ Graph!GroupParent(f[k]) \in keptNodes
    /\ \A i \in 0 .. k - 1 : Graph!GroupParent(f[i]) = f[i + 1]

(* Children of one parent are looked at together. *)
Together ==
  \A n \in Graph!Processed \ {root} :
    /\ Graph!GroupParent(n) \in Graph!Processed
    /\ \A m \in Graph!Nodes \ {root} :
         Graph!GroupParent(m) = Graph!GroupParent(n) => m \in Graph!Processed

(* A summary is about the hidden children of a kept parent, and counts them.*)
Counts(s) ==
  /\ s = [parent |-> s.parent, kind |-> s.kind, remaining |-> s.remaining]
  /\ s.parent \in keptNodes /\ Below(s.parent, s.kind) \cap hiddenNodes # {}
  /\ s.remaining = Cardinality(Below(s.parent, s.kind) \cap hiddenNodes)

WithinLimit(S) == Cardinality(S) <= NodeLimit \/ \A n \in S : Graph!IsConnector(n)

CutInv ==
  /\ root \in keptNodes /\ root \notin hiddenNodes /\ keptNodes \cap hiddenNodes = {}
  /\ Graph!Processed \subseteq Graph!Nodes
  /\ ~Graph!ParentsKnown => keptNodes = {root} /\ hiddenNodes = {} /\ keptSummaries = {}
  /\ Together
  /\ \A n \in keptNodes \ {root} :
       WithinLimit(Below(Graph!GroupParent(n), Graph!Kind(n)) \cap keptNodes)
  /\ \A n \in hiddenNodes : Graph!GroupParent(n) \in keptNodes =>
       \E s \in keptSummaries : s.parent = Graph!GroupParent(n) /\ s.kind = Graph!Kind(n)
  /\ \A s \in keptSummaries : Counts(s)
  /\ \A n \in hiddenNodes : Hangs(n)

GraphInv ==
  /\ stage \in {"collect", "aggregate", "shown"}
  /\ stage = "collect" => hiddenNodes = {} /\ keptSummaries = {}
  /\ stage # "collect" /\ Graph!Listed => CutInv

(* Before the first level, the root is kept and nothing is hidden. *)
LEMMA CutBegins ==
  ASSUME keptNodes' = {root'}, hiddenNodes' = {}, keptSummaries' = {}, (root \in Graph!Nodes)'
  PROVE  CutInv'
<1>1. /\ (Graph!Processed)' = {root'} /\ Together' /\ ((Graph!Processed) \subseteq Graph!Nodes)'
  BY DEF Graph!Processed, Together
<1>2. QED
  BY <1>1 DEF CutInv

LEMMA GraphInitInv == Graph!Init => GraphInv
BY DEF Graph!Init, GraphInv

LEMMA CollectedInv == ASSUME GraphInv, Graph!GetResourceDependencies PROVE GraphInv'
<1>1. /\ stage' = "aggregate" /\ keptNodes' = {root'} /\ hiddenNodes' = {} /\ keptSummaries' = {}
  BY DEF GraphInv, Graph!GetResourceDependencies
<1>2. (Graph!Listed)' => (root \in Graph!Nodes)'
  BY <1>1 DEF Graph!Listed
<1>3. QED
  BY <1>1, <1>2, CutBegins DEF GraphInv

LEMMA ParentSetInv == ASSUME GraphInv, NEW n \in Graph!Nodes, Graph!SetPrimaryParent(n) PROVE GraphInv'
<1>1. /\ stage = "aggregate" /\ ~Graph!ParentsKnown
      /\ UNCHANGED <<cluster, root, graph, keptNodes, hiddenNodes, keptSummaries, stage>>
  BY DEF Graph!SetPrimaryParent, Graph!ParentsKnown
<1>2. (Graph!Listed)' => Graph!Listed
  BY <1>1 DEF Graph!Listed, Graph!Nodes, Graph!ToSet
<1>3. ASSUME (Graph!Listed)' PROVE CutInv'
  <2>1. keptNodes' = {root'} /\ hiddenNodes' = {} /\ keptSummaries' = {}
    BY <1>1, <1>2, <1>3 DEF GraphInv, CutInv
  <2>2. (root \in Graph!Nodes)'
    BY <1>1, <1>3 DEF Graph!Listed
  <2>3. QED
    BY <2>1, <2>2, CutBegins
<1>4. QED
  BY <1>1, <1>3 DEF GraphInv

(* The edges of a node are those of the graph, in every state. *)
EdgesTo(g, n) == SelectSeq(g.edges, LAMBDA e : e.target = n)
EdgesFrom(g, n) == SelectSeq(g.edges, LAMBDA e : e.source = n)
EdgesOfGraph ==
  \A n : Graph!Incoming(n) = EdgesTo(graph, n) /\ Graph!Outgoing(n) = EdgesFrom(graph, n)

LEMMA EdgesNow == EdgesOfGraph
<1>1. ASSUME NEW n PROVE Graph!Incoming(n) = EdgesTo(graph, n)
  BY Zenon DEF Graph!Incoming, EdgesTo
<1>2. ASSUME NEW n PROVE Graph!Outgoing(n) = EdgesFrom(graph, n)
  BY Zenon DEF Graph!Outgoing, EdgesFrom
<1>3. QED
  BY <1>1, <1>2 DEF EdgesOfGraph

LEMMA EdgesThen == EdgesOfGraph'
BY EdgesNow, PTL

(* As long as the graph and the parents stay, so do the groups. *)
LEMMA GroupsStay ==
  ASSUME UNCHANGED <<cluster, root, graph, primaryParent>>
  PROVE  /\ (Graph!Nodes)' = Graph!Nodes /\ (Graph!ParentsKnown)' = Graph!ParentsKnown
         /\ \A n : Graph!GroupParent(n)' = Graph!GroupParent(n) /\ Graph!Kind(n)' = Graph!Kind(n)
         /\ \A n : Graph!IsConnector(n)' <=> Graph!IsConnector(n)
         /\ \A p, k : Below(p, k)' = Below(p, k)
<1>1. (Graph!Nodes)' = Graph!Nodes
  BY DEF Graph!Nodes
<1>2. (Graph!ParentsKnown)' = Graph!ParentsKnown
  BY <1>1 DEF Graph!ParentsKnown
<1>3. \A n : Graph!GroupParent(n)' = Graph!GroupParent(n) /\ Graph!Kind(n)' = Graph!Kind(n)
  BY DEF Graph!GroupParent, Graph!Kind
<1>4. ASSUME NEW n PROVE Graph!IsConnector(n)' <=> Graph!IsConnector(n)
  <2>1. Graph!Incoming(n)' = Graph!Incoming(n) /\ Graph!Outgoing(n)' = Graph!Outgoing(n)
    BY EdgesNow, EdgesThen DEF EdgesOfGraph
  <2>2. /\ {Graph!Kind(e.source)' : e \in Graph!ToSet(Graph!Incoming(n))'}
             = {Graph!Kind(e.source) : e \in Graph!ToSet(Graph!Incoming(n))}
        /\ {Graph!Kind(e.target)' : e \in Graph!ToSet(Graph!Outgoing(n))'}
             = {Graph!Kind(e.target) : e \in Graph!ToSet(Graph!Outgoing(n))}
    BY <1>3, <2>1
  <2>3. QED
    BY <2>2 DEF Graph!IsConnector
<1>5. \A p, k : Below(p, k)' = Below(p, k)
  BY <1>1, <1>3 DEF Below
<1>6. QED
  BY <1>1, <1>2, <1>3, <1>4, <1>5

(* What the cut is about does not change. *)
LEMMA CutFrame ==
  ASSUME GraphInv, stage # "collect", stage' \in {"aggregate", "shown"},
         UNCHANGED <<cluster, root, graph, primaryParent, keptNodes, hiddenNodes, keptSummaries>>
  PROVE  GraphInv'
<1>1. (Graph!Listed)' => Graph!Listed
  BY DEF Graph!Listed, Graph!Nodes
<1>2. ASSUME CutInv PROVE CutInv'
  <2>1. (Graph!Processed)' = Graph!Processed /\ (Together => Together')
    BY GroupsStay DEF Graph!Processed, Together
  <2>2. \A s \in keptSummaries : Counts(s)'
    BY <1>2, GroupsStay DEF CutInv, Counts
  <2>3. ASSUME NEW n \in hiddenNodes PROVE Hangs(n)'
    <3>1. Hangs(n)
      BY <1>2 DEF CutInv
    <3>2. QED
      BY <2>1, <3>1, GroupsStay DEF Hangs
  <2>4. ASSUME NEW n \in keptNodes \ {root}
        PROVE  (WithinLimit(Below(Graph!GroupParent(n), Graph!Kind(n)) \cap keptNodes))'
    <3>1. WithinLimit(Below(Graph!GroupParent(n), Graph!Kind(n)) \cap keptNodes)
      BY <1>2 DEF CutInv
    <3>2. QED
      BY <3>1, GroupsStay DEF WithinLimit
  <2>5. QED
    BY <1>2, <2>1, <2>2, <2>3, <2>4, GroupsStay DEF CutInv
<1>3. QED
  BY <1>1, <1>2 DEF GraphInv

(* A node of the next level is kept with its group. *)
LEMMA KeptWithGroup ==
  ASSUME Graph!Listed, NEW n \in Graph!Level, NEW kept,
         kept = UNION {Graph!Kept(g) : g \in Graph!Groups}
  PROVE  n \in kept <=> n \in Graph!Kept([parent |-> Graph!GroupParent(n), kind |-> Graph!Kind(n)])
<1>1. PICK h : h = [parent |-> Graph!GroupParent(n), kind |-> Graph!Kind(n)]
  OBVIOUS
<1>2. h \in Graph!Groups
  BY <1>1 DEF Graph!Groups
<1>3. ASSUME NEW g \in Graph!Groups, n \in Graph!Kept(g) PROVE g = h
  <2>1. n \in Graph!Group(g)
    BY <1>3, KeptOfGroup
  <2>2. g.parent = Graph!GroupParent(n) /\ g.kind = Graph!Kind(n)
    BY <2>1 DEF Graph!Group
  <2>3. g = [parent |-> g.parent, kind |-> g.kind]
    BY DEF Graph!Groups
  <2>4. QED
    BY <1>1, <2>2, <2>3
<1>4. QED
  BY <1>1, <1>2, <1>3

(* What a level comes to: it holds the whole of each of its groups, and     *)
(* none of a group that was looked at before.                               *)
LEMMA LevelIs ==
  ASSUME CutInv
  PROVE  /\ Graph!Level \subseteq Graph!Nodes \ {root} /\ Graph!Level \cap Graph!Processed = {}
         /\ \A n \in Graph!Level :
              /\ Graph!GroupParent(n) \in Graph!Processed
              /\ \A m \in Graph!Nodes \ {root} : Graph!GroupParent(m) = Graph!GroupParent(n) => m \in Graph!Level
              /\ Below(Graph!GroupParent(n), Graph!Kind(n)) \subseteq Graph!Level
              /\ Graph!Group([parent |-> Graph!GroupParent(n), kind |-> Graph!Kind(n)])
                   = Below(Graph!GroupParent(n), Graph!Kind(n))
         /\ \A n \in Graph!Processed \ {root} :
              Below(Graph!GroupParent(n), Graph!Kind(n)) \cap Graph!Level = {}
<1>1. Graph!Level \subseteq Graph!Nodes \ {root} /\ Graph!Level \cap Graph!Processed = {}
  BY DEF CutInv, Graph!Level, Graph!Processed
<1>2. ASSUME NEW n \in Graph!Level
      PROVE  /\ Graph!GroupParent(n) \in Graph!Processed
             /\ \A m \in Graph!Nodes \ {root} : Graph!GroupParent(m) = Graph!GroupParent(n) => m \in Graph!Level
  <2>1. Graph!GroupParent(n) \in Graph!Processed
    BY DEF Graph!Level
  <2>2. ASSUME NEW m \in Graph!Nodes \ {root}, Graph!GroupParent(m) = Graph!GroupParent(n)
        PROVE  m \in Graph!Level
    <3>1. m \notin Graph!Processed
      BY <1>1, <2>2 DEF CutInv, Together
    <3>2. QED
      BY <2>1, <2>2, <3>1 DEF Graph!Level
  <2>3. QED
    BY <2>1, <2>2
<1>3. ASSUME NEW n \in Graph!Level
      PROVE  /\ Below(Graph!GroupParent(n), Graph!Kind(n)) \subseteq Graph!Level
             /\ Graph!Group([parent |-> Graph!GroupParent(n), kind |-> Graph!Kind(n)])
                  = Below(Graph!GroupParent(n), Graph!Kind(n))
  <2>1. Below(Graph!GroupParent(n), Graph!Kind(n)) \subseteq Graph!Level
    BY <1>2 DEF Below
  <2>2. QED
    BY <1>1, <2>1 DEF Below, Graph!Group
<1>4. ASSUME NEW n \in Graph!Processed \ {root}
      PROVE  Below(Graph!GroupParent(n), Graph!Kind(n)) \cap Graph!Level = {}
  BY <1>1 DEF CutInv, Together, Below
<1>5. QED
  BY <1>1, <1>2, <1>3, <1>4

(* The next level joins what was looked at before. *)
LevelJoins(kept) ==
  /\ kept \subseteq Graph!Level
  /\ keptNodes' = keptNodes \cup kept /\ hiddenNodes' = hiddenNodes \cup (Graph!Level \ kept)
  /\ UNCHANGED <<cluster, root, graph, primaryParent>>

LEMMA JoinedNodes ==
  ASSUME CutInv, NEW kept, LevelJoins(kept)
  PROVE  /\ (Graph!Processed)' = Graph!Processed \cup Graph!Level /\ Together'
         /\ \A n \in Graph!Level : Below(Graph!GroupParent(n), Graph!Kind(n)) \cap keptNodes'
                                      = Below(Graph!GroupParent(n), Graph!Kind(n)) \cap kept
         /\ \A n \in Graph!Level : Below(Graph!GroupParent(n), Graph!Kind(n)) \cap hiddenNodes'
                                      = Below(Graph!GroupParent(n), Graph!Kind(n)) \ kept
         /\ \A n \in Graph!Processed \ {root} :
              LET S == Below(Graph!GroupParent(n), Graph!Kind(n))
              IN  S \cap keptNodes' = S \cap keptNodes /\ S \cap hiddenNodes' = S \cap hiddenNodes
<1>1. (Graph!Processed)' = Graph!Processed \cup Graph!Level
  BY DEF LevelJoins, Graph!Processed
<1>2. Graph!Level \cap keptNodes = {} /\ Graph!Level \cap hiddenNodes = {}
  BY LevelIs DEF Graph!Processed
<1>3. ASSUME NEW n \in (Graph!Processed)' \ {root}
      PROVE  /\ Graph!GroupParent(n) \in (Graph!Processed)'
             /\ \A m \in Graph!Nodes \ {root} :
                  Graph!GroupParent(m) = Graph!GroupParent(n) => m \in (Graph!Processed)'
  <2>1. CASE n \in Graph!Processed
    BY <1>1, <1>3, <2>1 DEF CutInv, Together
  <2>2. CASE n \in Graph!Level
    BY <1>1, <2>2, LevelIs
  <2>3. QED
    BY <1>1, <2>1, <2>2
<1>4. root' = root /\ (Graph!Nodes)' = Graph!Nodes /\ \A n : Graph!GroupParent(n)' = Graph!GroupParent(n)
  BY GroupsStay DEF LevelJoins
<1>5. Together'
  BY <1>3, <1>4 DEF Together
<1>6. ASSUME NEW n \in Graph!Level, NEW S, S = Below(Graph!GroupParent(n), Graph!Kind(n))
      PROVE  S \cap keptNodes' = S \cap kept /\ S \cap hiddenNodes' = S \ kept
  <2>1. S \subseteq Graph!Level
    BY <1>6, LevelIs
  <2>2. QED
    BY <1>2, <2>1 DEF LevelJoins
<1>7. ASSUME NEW n \in Graph!Processed \ {root}, NEW S, S = Below(Graph!GroupParent(n), Graph!Kind(n))
      PROVE  S \cap keptNodes' = S \cap keptNodes /\ S \cap hiddenNodes' = S \cap hiddenNodes
  <2>1. S \cap Graph!Level = {}
    BY <1>7, LevelIs
  <2>2. QED
    BY <2>1 DEF LevelJoins
<1>8. QED
  BY <1>1, <1>5, <1>6, <1>7

(* What hung below a kept node still does. *)
LEMMA StillHangs ==
  ASSUME CutInv, IsFiniteSet(Graph!Nodes), NEW kept, LevelJoins(kept), NEW n \in hiddenNodes
  PROVE  Hangs(n)'
<1>1. Hangs(n)
  BY DEF CutInv
<1>2. PICK k \in Nat : \E f \in [0 .. k -> hiddenNodes] :
        /\ k < Cardinality(Graph!Processed) /\ f[0] = n /\ Graph!GroupParent(f[k]) \in keptNodes
        /\ \A i \in 0 .. k - 1 : Graph!GroupParent(f[i]) = f[i + 1]
  BY <1>1 DEF Hangs
<1>3. PICK f \in [0 .. k -> hiddenNodes] :
        /\ k < Cardinality(Graph!Processed) /\ f[0] = n /\ Graph!GroupParent(f[k]) \in keptNodes
        /\ \A i \in 0 .. k - 1 : Graph!GroupParent(f[i]) = f[i + 1]
  BY <1>2
<1>4. \A m : Graph!GroupParent(m)' = Graph!GroupParent(m)
  BY GroupsStay DEF LevelJoins
<1>5. PICK P : P = (Graph!Processed)'
  OBVIOUS
<1>6. P \subseteq Graph!Nodes /\ Graph!Processed \subseteq P
  BY <1>5, JoinedNodes, LevelIs DEF CutInv
<1>7. IsFiniteSet(P) /\ Cardinality(P) \in Nat /\ Cardinality(Graph!Processed) \in Nat
      /\ Cardinality(Graph!Processed) <= Cardinality(P)
  <2>1. IsFiniteSet(P)
    BY <1>6, FS_Subset
  <2>2. QED
    BY <1>6, <2>1, FS_Subset, FS_CardinalityType
<1>8. k < Cardinality(P)
  BY <1>3, <1>7
<1>9. f \in [0 .. k -> hiddenNodes'] /\ Graph!GroupParent(f[k]) \in keptNodes'
  BY <1>3 DEF LevelJoins
<1>10. QED
  BY <1>3, <1>4, <1>5, <1>8, <1>9 DEF Hangs

(* What the level hides hangs below its parent, or below what that does. *)
LEMMA NowHangs ==
  ASSUME CutInv, IsFiniteSet(Graph!Nodes), NEW kept, LevelJoins(kept), NEW n \in Graph!Level \ kept
  PROVE  Hangs(n)'
<1>1. \A m : Graph!GroupParent(m)' = Graph!GroupParent(m)
  BY GroupsStay DEF LevelJoins
<1>2. PICK P : P = (Graph!Processed)'
  OBVIOUS
<1>3. P \subseteq Graph!Nodes /\ Graph!Processed \cup {n} \subseteq P /\ n \notin Graph!Processed
  BY <1>2, JoinedNodes, LevelIs DEF CutInv
<1>4. IsFiniteSet(P) /\ Cardinality(P) \in Nat /\ Cardinality(Graph!Processed) \in Nat
      /\ Cardinality(Graph!Processed) + 1 <= Cardinality(P)
  <2>1. IsFiniteSet(P) /\ IsFiniteSet(Graph!Processed)
    BY <1>3, FS_Subset
  <2>2. Cardinality(Graph!Processed \cup {n}) = Cardinality(Graph!Processed) + 1
    BY <1>3, <2>1, FS_AddElement
  <2>3. QED
    BY <1>3, <2>1, <2>2, FS_Subset, FS_CardinalityType
<1>5. n \in hiddenNodes' /\ Graph!GroupParent(n) \in Graph!Processed
  BY LevelIs DEF LevelJoins
<1>6. CASE Graph!GroupParent(n) \in keptNodes
  <2>1. PICK f : f = [i \in 0 .. 0 |-> n]
    OBVIOUS
  <2>2. f \in [0 .. 0 -> hiddenNodes'] /\ f[0] = n /\ Graph!GroupParent(f[0])' \in keptNodes'
    BY <1>1, <1>5, <1>6, <2>1 DEF LevelJoins
  <2>3. 0 < Cardinality(P) /\ \A i \in 0 .. 0 - 1 : Graph!GroupParent(f[i])' = f[i + 1]
    BY <1>4
  <2>4. QED
    BY <1>2, <2>2, <2>3 DEF Hangs
<1>7. CASE Graph!GroupParent(n) \in hiddenNodes
  <2>1. PICK m \in hiddenNodes : m = Graph!GroupParent(n)
    BY <1>7
  <2>2. Hangs(m)
    BY DEF CutInv
  <2>3. PICK k \in Nat : \E f \in [0 .. k -> hiddenNodes] :
          /\ k < Cardinality(Graph!Processed) /\ f[0] = m
          /\ Graph!GroupParent(f[k]) \in keptNodes
          /\ \A i \in 0 .. k - 1 : Graph!GroupParent(f[i]) = f[i + 1]
    BY <2>2 DEF Hangs
  <2>4. PICK f \in [0 .. k -> hiddenNodes] :
          /\ k < Cardinality(Graph!Processed) /\ f[0] = m
          /\ Graph!GroupParent(f[k]) \in keptNodes
          /\ \A i \in 0 .. k - 1 : Graph!GroupParent(f[i]) = f[i + 1]
    BY <2>3
  <2>5. PICK h : h = [i \in 0 .. k + 1 |-> IF i = 0 THEN n ELSE f[i - 1]]
    OBVIOUS
  <2>6. h \in [0 .. k + 1 -> hiddenNodes'] /\ h[0] = n
    <3>1. \A i \in 0 .. k + 1 : i = 0 \/ i - 1 \in 0 .. k
      OBVIOUS
    <3>2. hiddenNodes \subseteq hiddenNodes'
      BY DEF LevelJoins
    <3>3. \A i \in 0 .. k + 1 : h[i] \in hiddenNodes'
      BY <1>5, <2>5, <3>1, <3>2
    <3>4. 0 \in 0 .. k + 1
      OBVIOUS
    <3>5. QED
      BY <2>5, <3>3, <3>4
  <2>7. h[k + 1] = f[k]
    <3>1. k + 1 \in 0 .. k + 1 /\ k + 1 # 0 /\ (k + 1) - 1 = k
      OBVIOUS
    <3>2. QED
      BY <2>5, <3>1
  <2>8. ASSUME NEW i \in 0 .. (k + 1) - 1 PROVE Graph!GroupParent(h[i])' = h[i + 1]
    <3>1. i \in 0 .. k + 1 /\ i + 1 \in 0 .. k + 1 /\ i + 1 # 0 /\ (i + 1) - 1 = i
      OBVIOUS
    <3>2. h[i + 1] = f[i]
      BY <2>5, <3>1
    <3>3. CASE i = 0
      BY <1>1, <2>1, <2>4, <2>6, <3>2, <3>3
    <3>4. CASE i # 0
      <4>1. i - 1 \in 0 .. k - 1 /\ (i - 1) + 1 = i
        BY <3>4
      <4>2. h[i] = f[i - 1]
        BY <2>5, <3>1, <3>4
      <4>3. Graph!GroupParent(f[i - 1]) = f[i]
        BY <2>4, <4>1
      <4>4. QED
        BY <1>1, <3>2, <4>2, <4>3
    <3>5. QED
      BY <3>3, <3>4
  <2>9. k + 1 \in Nat /\ k + 1 < Cardinality(P)
    BY <1>4, <2>4
  <2>10. Graph!GroupParent(h[k + 1])' \in keptNodes'
    BY <1>1, <2>4, <2>7 DEF LevelJoins
  <2>11. QED
    BY <1>2, <2>6, <2>8, <2>9, <2>10 DEF Hangs
<1>8. QED
  BY <1>5, <1>6, <1>7 DEF Graph!Processed

(* The summaries still count what they counted. *)
LEMMA StillCounts ==
  ASSUME CutInv, NEW kept, LevelJoins(kept), NEW s \in keptSummaries
  PROVE  Counts(s)'
<1>1. Counts(s)
  BY DEF CutInv
<1>2. PICK n \in hiddenNodes : n \in Below(s.parent, s.kind)
  BY <1>1 DEF Counts
<1>3. n \in Graph!Processed \ {root} /\ Graph!GroupParent(n) = s.parent /\ Graph!Kind(n) = s.kind
  BY <1>2 DEF Below, Graph!Processed
<1>4. PICK S : S = Below(s.parent, s.kind)
  OBVIOUS
<1>5. S \cap hiddenNodes' = S \cap hiddenNodes
  BY <1>3, <1>4, JoinedNodes
<1>6. Below(s.parent, s.kind)' = S
  BY <1>4, GroupsStay DEF LevelJoins
<1>7. keptNodes \subseteq keptNodes'
  BY DEF LevelJoins
<1>8. QED
  BY <1>1, <1>4, <1>5, <1>6, <1>7 DEF Counts

(* The summaries of a level, each of a group whose parent is kept. *)
LevelSummaries ==
  {Graph!Summary(g, Cardinality(Graph!Group(g) \ Graph!Kept(g))) :
     g \in {g \in Graph!Groups : g.parent \notin hiddenNodes /\ Graph!Group(g) \ Graph!Kept(g) # {}}}

LEMMA NowCounts ==
  ASSUME CutInv, Graph!Listed, NEW kept, kept = UNION {Graph!Kept(g) : g \in Graph!Groups},
         LevelJoins(kept), NEW g \in Graph!Groups, g.parent \notin hiddenNodes,
         Graph!Group(g) \ Graph!Kept(g) # {},
         NEW s, s = Graph!Summary(g, Cardinality(Graph!Group(g) \ Graph!Kept(g)))
  PROVE  Counts(s)'
<1>1. PICK n \in Graph!Level : g = [parent |-> Graph!GroupParent(n), kind |-> Graph!Kind(n)]
  BY DEF Graph!Groups
<1>2. PICK S : S = Below(Graph!GroupParent(n), Graph!Kind(n))
  OBVIOUS
<1>3. Graph!Group(g) = S /\ S \subseteq Graph!Level
  BY <1>1, <1>2, LevelIs
<1>4. ASSUME NEW m \in S PROVE m \in kept <=> m \in Graph!Kept(g)
  <2>1. m \in Graph!Level /\ Graph!GroupParent(m) = Graph!GroupParent(n) /\ Graph!Kind(m) = Graph!Kind(n)
    BY <1>2, <1>3 DEF Below
  <2>2. QED
    BY <1>1, <2>1, KeptWithGroup
<1>5. S \cap hiddenNodes' = S \ Graph!Kept(g)
  <2>1. S \cap hiddenNodes' = S \ kept
    BY <1>2, JoinedNodes
  <2>2. QED
    BY <1>4, <2>1
<1>6. g.parent \in keptNodes' /\ Below(g.parent, g.kind)' = S
  <2>1. g.parent \in keptNodes
    BY <1>1, LevelIs DEF Graph!Processed
  <2>2. Below(g.parent, g.kind) = S
    BY <1>1, <1>2
  <2>3. QED
    BY <2>1, <2>2, GroupsStay DEF LevelJoins
<1>7. s = [parent |-> s.parent, kind |-> s.kind, remaining |-> s.remaining]
      /\ s.parent = g.parent /\ s.kind = g.kind /\ s.remaining = Cardinality(S \cap hiddenNodes')
  BY <1>3, <1>5 DEF Graph!Summary
<1>8. S \cap hiddenNodes' # {}
  BY <1>3, <1>5
<1>9. QED
  BY <1>6, <1>7, <1>8 DEF Counts

(* A level stays within the limit, ... *)
LEMMA LevelKeepsLimit ==
  ASSUME CutInv, Graph!Listed, NEW kept, kept = UNION {Graph!Kept(g) : g \in Graph!Groups},
         LevelJoins(kept), NEW n \in keptNodes' \ {root}
  PROVE  (WithinLimit(Below(Graph!GroupParent(n), Graph!Kind(n)) \cap keptNodes))'
<1>1. PICK S : S = Below(Graph!GroupParent(n), Graph!Kind(n))
  OBVIOUS
<1>2. WithinLimit(S \cap keptNodes')
  <2>1. CASE n \in keptNodes
    <3>1. S \cap keptNodes' = S \cap keptNodes
      BY <1>1, <2>1, JoinedNodes DEF Graph!Processed
    <3>2. QED
      BY <1>1, <2>1, <3>1 DEF CutInv
  <2>2. CASE n \in kept
    <3>1. PICK g : g = [parent |-> Graph!GroupParent(n), kind |-> Graph!Kind(n)]
      OBVIOUS
    <3>2. n \in Graph!Level
      BY <2>2 DEF LevelJoins
    <3>3. Graph!Group(g) = S /\ S \subseteq Graph!Level /\ S \cap keptNodes' = S \cap kept
      BY <1>1, <3>1, <3>2, LevelIs, JoinedNodes
    <3>4. ASSUME NEW m \in S PROVE m \in kept <=> m \in Graph!Kept(g)
      <4>1. m \in Graph!Level /\ Graph!GroupParent(m) = Graph!GroupParent(n) /\ Graph!Kind(m) = Graph!Kind(n)
        BY <1>1, <3>3 DEF Below
      <4>2. QED
        BY <3>1, <4>1, KeptWithGroup
    <3>5. Graph!Kept(g) \subseteq S /\ WithinLimit(Graph!Kept(g))
      BY <3>3, KeptOfGroup DEF WithinLimit
    <3>6. S \cap keptNodes' = Graph!Kept(g)
      BY <3>3, <3>4, <3>5
    <3>7. QED
      BY <3>5, <3>6
  <2>3. QED
    BY <2>1, <2>2 DEF LevelJoins
<1>3. /\ Graph!GroupParent(n)' = Graph!GroupParent(n) /\ Graph!Kind(n)' = Graph!Kind(n)
      /\ Below(Graph!GroupParent(n), Graph!Kind(n))' = S
      /\ \A m : Graph!IsConnector(m)' <=> Graph!IsConnector(m)
  BY <1>1, GroupsStay DEF LevelJoins
<1>4. QED
  BY <1>2, <1>3 DEF WithinLimit

(* ... and has a summary for what it hides below a node that is kept.       *)
LEMMA LevelIsSummarized ==
  ASSUME CutInv, Graph!Listed, NEW kept, kept = UNION {Graph!Kept(g) : g \in Graph!Groups},
         LevelJoins(kept), keptSummaries' = keptSummaries \cup LevelSummaries,
         NEW n \in hiddenNodes', Graph!GroupParent(n) \in keptNodes'
  PROVE  \E s \in keptSummaries' : s.parent = Graph!GroupParent(n) /\ s.kind = Graph!Kind(n)
<1>1. Graph!GroupParent(n) \in Graph!Processed => Graph!GroupParent(n) \in keptNodes
  BY LevelIs DEF LevelJoins
<1>2. CASE n \in hiddenNodes
  <2>1. n \in Graph!Processed \ {root}
    BY <1>2 DEF CutInv, Graph!Processed
  <2>2. Graph!GroupParent(n) \in keptNodes
    BY <1>1, <2>1 DEF CutInv, Together
  <2>3. QED
    BY <1>2, <2>2 DEF CutInv
<1>3. CASE n \in Graph!Level \ kept
  <2>1. PICK g : g = [parent |-> Graph!GroupParent(n), kind |-> Graph!Kind(n)]
    OBVIOUS
  <2>2. g \in Graph!Groups /\ n \in Graph!Group(g) \ Graph!Kept(g)
    BY <1>3, <2>1, KeptWithGroup DEF Graph!Groups, Graph!Group
  <2>3. g.parent \notin hiddenNodes
    BY <1>1, <1>3, <2>1, LevelIs DEF CutInv
  <2>4. PICK s : s = Graph!Summary(g, Cardinality(Graph!Group(g) \ Graph!Kept(g)))
    OBVIOUS
  <2>5. s \in LevelSummaries
    BY <2>2, <2>3, <2>4 DEF LevelSummaries
  <2>6. s.parent = g.parent /\ s.kind = g.kind
    BY <2>4 DEF Graph!Summary
  <2>7. QED
    BY <2>1, <2>5, <2>6
<1>4. QED
  BY <1>2, <1>3 DEF LevelJoins

LEMMA LevelInv == ASSUME GraphInv, Graph!ProcessLevel PROVE GraphInv'
<1>1. /\ stage = "aggregate" /\ Graph!ParentsKnown
      /\ UNCHANGED <<cluster, root, graph, primaryParent, stage>>
  BY DEF Graph!ProcessLevel
<1>2. (Graph!Listed)' => Graph!Listed
  BY <1>1 DEF Graph!Listed, Graph!Nodes
<1>3. ASSUME Graph!Listed PROVE CutInv'
  <2>1. CutInv
    BY <1>1, <1>3 DEF GraphInv
  <2>2. PICK kept : kept = UNION {Graph!Kept(g) : g \in Graph!Groups}
    OBVIOUS
  <2>3. kept \subseteq Graph!Level
    <3>1. \A g : Graph!Kept(g) \subseteq Graph!Level
      BY <1>3, KeptOfGroup DEF Graph!Group
    <3>2. QED
      BY <2>2, <3>1
  <2>4. LevelJoins(kept) /\ keptSummaries' = keptSummaries \cup LevelSummaries
    BY <1>1, <2>2, <2>3, GraphCounts DEF Graph!ProcessLevel, LevelJoins, LevelSummaries
  <2>5. IsFiniteSet(Graph!Nodes)
    BY <1>3, NodesArePlaced
  <2>6. /\ root' = root /\ (Graph!Nodes)' = Graph!Nodes /\ (Graph!ParentsKnown)' = Graph!ParentsKnown
        /\ \A n : Graph!GroupParent(n)' = Graph!GroupParent(n) /\ Graph!Kind(n)' = Graph!Kind(n)
    BY <1>1, GroupsStay
  <2>7. /\ root \in keptNodes' /\ root \notin hiddenNodes' /\ keptNodes' \cap hiddenNodes' = {}
        /\ (Graph!Processed)' \subseteq Graph!Nodes /\ Together'
    BY <2>1, <2>4, LevelIs, JoinedNodes DEF LevelJoins, CutInv, Graph!Processed
  <2>8. \A n \in keptNodes' \ {root} :
          (WithinLimit(Below(Graph!GroupParent(n), Graph!Kind(n)) \cap keptNodes))'
    BY <1>3, <2>1, <2>2, <2>4, LevelKeepsLimit
  <2>9. \A n \in hiddenNodes' : Graph!GroupParent(n) \in keptNodes' =>
          \E s \in keptSummaries' : s.parent = Graph!GroupParent(n) /\ s.kind = Graph!Kind(n)
    BY <1>3, <2>1, <2>2, <2>4, LevelIsSummarized
  <2>10. ASSUME NEW s \in keptSummaries' PROVE Counts(s)'
    <3>1. CASE s \in keptSummaries
      BY <2>1, <2>4, <3>1, StillCounts
    <3>2. CASE s \in LevelSummaries
      <4>1. PICK g \in Graph!Groups :
              /\ g.parent \notin hiddenNodes /\ Graph!Group(g) \ Graph!Kept(g) # {}
              /\ s = Graph!Summary(g, Cardinality(Graph!Group(g) \ Graph!Kept(g)))
        BY <3>2 DEF LevelSummaries
      <4>2. QED
        BY <1>3, <2>1, <2>2, <2>4, <4>1, NowCounts
    <3>3. QED
      BY <2>4, <3>1, <3>2
  <2>11. ASSUME NEW n \in hiddenNodes' PROVE Hangs(n)'
    <3>1. CASE n \in hiddenNodes
      BY <2>1, <2>4, <2>5, <3>1, StillHangs
    <3>2. CASE n \in Graph!Level \ kept
      BY <2>1, <2>4, <2>5, <3>2, NowHangs
    <3>3. QED
      BY <2>4, <3>1, <3>2 DEF LevelJoins
  <2>12. QED
    BY <1>1, <2>6, <2>7, <2>8, <2>9, <2>10, <2>11 DEF CutInv
<1>4. QED
  BY <1>1, <1>2, <1>3 DEF GraphInv

(* Every step of the collection, the cut and the view keeps the invariant. *)
LEMMA GraphNextInv == GraphInv /\ (Graph!Next \/ UNCHANGED graphVars) => GraphInv'
<1> SUFFICES ASSUME GraphInv, Graph!Next \/ UNCHANGED graphVars PROVE GraphInv'
  OBVIOUS
<1>1. CASE Graph!GetResourceDependencies
  BY <1>1, CollectedInv
<1>2. CASE Graph!ProcessLevel
  BY <1>2, LevelInv
<1>3. CASE \E n \in Graph!Nodes : Graph!SetPrimaryParent(n)
  BY <1>3, ParentSetInv
<1>4. CASE Graph!ShowGraph
  BY <1>4, CutFrame DEF Graph!ShowGraph, Graph!backend
<1>5. CASE UNCHANGED <<cluster, root, graph, primaryParent, keptNodes, hiddenNodes, keptSummaries, stage>>
  <2>1. CASE stage = "collect"
    BY <1>5, <2>1 DEF GraphInv
  <2>2. CASE stage # "collect"
    <3>1. stage' \in {"aggregate", "shown"}
      BY <1>5, <2>2 DEF GraphInv
    <3>2. QED
      BY <1>5, <2>2, <3>1, CutFrame
  <2>3. QED
    BY <2>1, <2>2
<1>6. ASSUME NEW c, Graph!ExpandDependencyNode(c) \/ Graph!ExpandFails(c)
      PROVE  UNCHANGED <<cluster, root, graph, primaryParent, keptNodes, hiddenNodes, keptSummaries, stage>>
  BY <1>6 DEF Graph!ExpandDependencyNode, Graph!ExpandFails, Graph!backend
<1>7. ASSUME NEW s, NEW k, Graph!HandleExpandNode(s, k)
      PROVE  UNCHANGED <<cluster, root, graph, primaryParent, keptNodes, hiddenNodes, keptSummaries, stage>>
  BY <1>7 DEF Graph!HandleExpandNode, Graph!backend
<1>8. Graph!Render \/ UNCHANGED graphVars =>
      UNCHANGED <<cluster, root, graph, primaryParent, keptNodes, hiddenNodes, keptSummaries, stage>>
  BY DEF Graph!Render, Graph!backend, graphVars
<1>9. QED
  BY <1>1, <1>2, <1>3, <1>4, <1>5, <1>6, <1>7, <1>8 DEF Graph!Next

(* Up the parents of a node, step by step. *)
Climbs(h, n, top) ==
  h = [k \in 0 .. top |-> IF k = 0 THEN {n}
         ELSE h[k - 1] \cup {Graph!GroupParent(m) : m \in h[k - 1] \ {root, Graph!NoNode}}]

LEMMA ClimbsExist == ASSUME NEW n, NEW top \in Nat PROVE \E h : Climbs(h, n, top)
<1> DEFINE Up(S) == S \cup {Graph!GroupParent(m) : m \in S \ {root, Graph!NoNode}}
           T == {k \in Nat : \E h : Climbs(h, n, k)}
<1>1. 0 \in T
  <2> DEFINE h == [k \in 0 .. 0 |-> {n}]
  <2>1. Climbs(h, n, 0)
    BY DEF Climbs
  <2>2. QED
    BY <2>1
<1>2. ASSUME NEW k \in T PROVE k + 1 \in T
  <2>1. PICK g : Climbs(g, n, k)
    OBVIOUS
  <2>2. \A i \in 0 .. k : g[i] = IF i = 0 THEN {n} ELSE Up(g[i - 1])
    BY <2>1 DEF Climbs
  <2> HIDE DEF Up
  <2> DEFINE h == [i \in 0 .. (k + 1) |-> IF i = k + 1 THEN Up(g[k]) ELSE g[i]]
  <2>3. \A i \in 0 .. k : h[i] = g[i]
    OBVIOUS
  <2>4. ASSUME NEW i \in 0 .. (k + 1) PROVE h[i] = IF i = 0 THEN {n} ELSE Up(h[i - 1])
    <3>1. CASE i = k + 1
      <4>1. h[i] = Up(g[k]) /\ i # 0 /\ i - 1 = k /\ h[k] = g[k]
        BY <2>3, <3>1
      <4>2. QED
        BY <4>1
    <3>2. CASE i \in 0 .. k /\ i # 0
      <4>1. i - 1 \in 0 .. k
        BY <3>2
      <4>2. h[i] = g[i] /\ h[i - 1] = g[i - 1]
        BY <2>3, <3>2, <4>1
      <4>3. g[i] = Up(g[i - 1])
        BY <2>2, <3>2
      <4>4. QED
        BY <3>2, <4>2, <4>3
    <3>3. CASE i = 0
      BY <2>2, <2>3, <3>3
    <3>4. QED
      BY <3>1, <3>2, <3>3
  <2>5. h = [i \in 0 .. (k + 1) |-> IF i = 0 THEN {n} ELSE Up(h[i - 1])]
    BY <2>4, Zenon
  <2>6. Climbs(h, n, k + 1)
    BY <2>5, Zenon DEF Climbs, Up
  <2>7. QED
    BY <2>6
<1>3. T = Nat
  BY <1>1, <1>2, SetInduction
<1>4. QED
  BY <1>3

(* Every node on the way up is above the first. *)
LEMMA WayUp ==
  ASSUME NEW n, NEW top \in Nat, top = Graph!Cardinality(Graph!Nodes), NEW k \in 0 .. top,
         NEW f, f[0] = n, \A i \in 0 .. k - 1 : Graph!GroupParent(f[i]) = f[i + 1],
         \A i \in 0 .. k : f[i] \notin {root, Graph!NoNode}
  PROVE  f[k] \in Graph!Above(n)
<1> DEFINE N == Graph!Cardinality(Graph!Nodes)
           a == CHOOSE above : above = [j \in 0 .. N |-> IF j = 0 THEN {n}
                  ELSE above[j - 1] \cup {Graph!GroupParent(m) : m \in above[j - 1] \ {root, Graph!NoNode}}]
<1>1. Graph!Above(n) = a[N] \ {root, Graph!NoNode}
  BY Zenon DEF Graph!Above
<1>2. Climbs(a, n, top)
  <2>1. \E h : Climbs(h, n, top)
    BY ClimbsExist
  <2>2. QED
    BY <2>1, Zenon DEF Climbs
<1> HIDE DEF a
<1>3. /\ a[0] = {n}
      /\ \A j \in 0 .. top : j # 0 =>
           a[j] = a[j - 1] \cup {Graph!GroupParent(m) : m \in a[j - 1] \ {root, Graph!NoNode}}
  <2>1. \A j \in 0 .. top : a[j] = IF j = 0 THEN {n}
          ELSE a[j - 1] \cup {Graph!GroupParent(m) : m \in a[j - 1] \ {root, Graph!NoNode}}
    BY <1>2 DEF Climbs
  <2>2. 0 \in 0 .. top
    OBVIOUS
  <2>3. QED
    BY <2>1, <2>2
<1> DEFINE T == {j \in Nat : (j <= k => f[j] \in a[j]) /\ (j >= k /\ j <= top => f[k] \in a[j])}
<1>4. 0 \in T
  BY <1>3
<1>5. ASSUME NEW j \in T PROVE j + 1 \in T
  <2>1. j \in Nat /\ (j + 1) - 1 = j /\ (j + 1 <= top => j + 1 \in 0 .. top /\ j + 1 # 0)
    OBVIOUS
  <2>2. (j <= k => f[j] \in a[j]) /\ (j >= k /\ j <= top => f[k] \in a[j])
    OBVIOUS
  <2>3. ASSUME j + 1 <= k PROVE f[j + 1] \in a[j + 1]
    <3>1. j \in 0 .. k - 1 /\ j \in 0 .. k /\ j <= k /\ j + 1 <= top
      BY <2>1, <2>3
    <3>2. f[j] \in a[j] \ {root, Graph!NoNode} /\ Graph!GroupParent(f[j]) = f[j + 1]
      BY <2>2, <3>1
    <3>3. a[j + 1] = a[j] \cup {Graph!GroupParent(m) : m \in a[j] \ {root, Graph!NoNode}}
      BY <1>3, <2>1, <3>1
    <3>4. QED
      BY <3>2, <3>3
  <2>4. ASSUME j + 1 >= k, j + 1 <= top PROVE f[k] \in a[j + 1]
    <3>1. CASE j + 1 = k
      BY <2>3, <3>1
    <3>2. CASE j >= k
      <4>1. f[k] \in a[j]
        BY <2>1, <2>2, <2>4, <3>2
      <4>2. a[j + 1] = a[j] \cup {Graph!GroupParent(m) : m \in a[j] \ {root, Graph!NoNode}}
        BY <1>3, <2>1, <2>4
      <4>3. QED
        BY <4>1, <4>2
    <3>3. QED
      BY <2>1, <2>4, <3>1, <3>2
  <2>5. QED
    BY <2>1, <2>3, <2>4
<1>6. T = Nat
  BY <1>4, <1>5, SetInduction
<1>7. top \in T /\ top >= k
  BY <1>6
<1>8. f[k] \in a[top]
  BY <1>7
<1>9. QED
  BY <1>1, <1>8

LEMMA GraphInvSound == GraphInv /\ Graph!Listed => Graph!HiddenAreCounted /\ Graph!LimitKept
<1> SUFFICES ASSUME GraphInv, Graph!Listed, stage = "shown"
             PROVE  Graph!HiddenAreCounted /\ Graph!LimitKept
  BY DEF Graph!HiddenAreCounted, Graph!LimitKept
<1>1. CutInv
  BY DEF GraphInv
<1>2. keptNodes \subseteq Graph!Nodes /\ hiddenNodes \subseteq Graph!Nodes \ {root, Graph!NoNode}
  BY <1>1, NodesArePlaced DEF CutInv, Graph!Processed
<1>3. PICK top \in Nat : top = Graph!Cardinality(Graph!Nodes)
  BY NodesArePlaced, FS_CardinalityType, GraphCounts
<1>4. ASSUME NEW n \in hiddenNodes
      PROVE  \E m \in Graph!Above(n) \cap hiddenNodes :
               \E s \in keptSummaries : s.parent = Graph!GroupParent(m) /\ s.kind = Graph!Kind(m)
  <2>1. Hangs(n)
    BY <1>1 DEF CutInv
  <2>2. PICK k \in Nat : \E f \in [0 .. k -> hiddenNodes] :
          /\ k < Cardinality(Graph!Processed) /\ f[0] = n /\ Graph!GroupParent(f[k]) \in keptNodes
          /\ \A i \in 0 .. k - 1 : Graph!GroupParent(f[i]) = f[i + 1]
    BY <2>1 DEF Hangs
  <2>3. PICK f \in [0 .. k -> hiddenNodes] :
          /\ k < Cardinality(Graph!Processed) /\ f[0] = n /\ Graph!GroupParent(f[k]) \in keptNodes
          /\ \A i \in 0 .. k - 1 : Graph!GroupParent(f[i]) = f[i + 1]
    BY <2>2
  <2>4. k \in 0 .. top
    <3>1. Cardinality(Graph!Processed) <= Cardinality(Graph!Nodes) /\ Cardinality(Graph!Processed) \in Nat
      BY <1>1, NodesArePlaced, FS_Subset, FS_CardinalityType DEF CutInv
    <3>2. top = Cardinality(Graph!Nodes)
      BY <1>3, GraphCounts
    <3>3. QED
      BY <2>3, <3>1, <3>2
  <2>5. \A i \in 0 .. k : f[i] \notin {root, Graph!NoNode}
    BY <1>2
  <2>6. f[k] \in Graph!Above(n)
    BY <1>3, <2>3, <2>4, <2>5, WayUp
  <2>7. f[k] \in hiddenNodes /\ \E s \in keptSummaries : s.parent = Graph!GroupParent(f[k]) /\ s.kind = Graph!Kind(f[k])
    BY <1>1, <2>3 DEF CutInv
  <2>8. QED
    BY <2>6, <2>7
<1>5. ASSUME NEW s \in keptSummaries
      PROVE  /\ s.parent \in keptNodes
             /\ s.remaining = Cardinality({n \in hiddenNodes : Graph!GroupParent(n) = s.parent /\ Graph!Kind(n) = s.kind})
             /\ \A r \in keptSummaries : r.parent = s.parent /\ r.kind = s.kind => r = s
  <2>1. \A r \in keptSummaries : Counts(r)
    BY <1>1 DEF CutInv
  <2>2. {n \in hiddenNodes : Graph!GroupParent(n) = s.parent /\ Graph!Kind(n) = s.kind}
          = Below(s.parent, s.kind) \cap hiddenNodes
    BY <1>2 DEF Below
  <2>3. s.parent \in keptNodes /\ s.remaining = Cardinality(Below(s.parent, s.kind) \cap hiddenNodes)
    BY <2>1 DEF Counts
  <2>4. ASSUME NEW r \in keptSummaries, r.parent = s.parent, r.kind = s.kind PROVE r = s
    <3>1. r = [parent |-> r.parent, kind |-> r.kind, remaining |-> r.remaining]
          /\ s = [parent |-> s.parent, kind |-> s.kind, remaining |-> s.remaining]
      BY <2>1 DEF Counts
    <3>2. r.remaining = Cardinality(Below(r.parent, r.kind) \cap hiddenNodes)
      BY <2>1 DEF Counts
    <3>3. r.remaining = s.remaining
      BY <2>3, <2>4, <3>2
    <3>4. QED
      BY <2>4, <3>1, <3>3
  <2>5. QED
    BY <2>2, <2>3, <2>4
<1>6. Graph!HiddenAreCounted
  BY <1>4, <1>5, GraphCounts DEF Graph!HiddenAreCounted, Graph!Is, Graph!IdOf
<1>7. ASSUME NEW n \in keptNodes \ {root}
      PROVE  WithinLimit({m \in keptNodes \ {root} :
                            Graph!GroupParent(m) = Graph!GroupParent(n) /\ Graph!Kind(m) = Graph!Kind(n)})
  <2>1. {m \in keptNodes \ {root} : Graph!GroupParent(m) = Graph!GroupParent(n) /\ Graph!Kind(m) = Graph!Kind(n)}
          = Below(Graph!GroupParent(n), Graph!Kind(n)) \cap keptNodes
    BY <1>2 DEF Below
  <2>2. QED
    BY <1>1, <2>1 DEF CutInv
<1>8. Graph!LimitKept
  BY <1>7, GraphCounts DEF Graph!LimitKept, WithinLimit
<1>9. QED
  BY <1>6, <1>8

-----------------------------------------------------------------------------
(***************************************************************************)
(* The services together.                                                  *)
(***************************************************************************)

(* What holds of the service that a behaviour is about. *)
ServicesInv ==
  /\ GuardInv
  /\ service = "ingress" => IngressInv
  /\ service = "server" => ServerInv
  /\ service = "bulk" => BulkInv
  /\ service = "graph" => GraphInv

(* Every service begins as its invariant says. *)
LEMMA ServicesInitInv == ServicesInit => ServicesInv
BY GuardInitInv, IngressInitInv, ServerInitInv, BulkInitInv, GraphInitInv DEF ServicesInit, ServicesInv

(* A step of one service keeps its invariant and leaves the others alone. *)
LEMMA ServicesNextInv == ServicesInv /\ [ServicesNext]_servicesVars => ServicesInv'
<1> SUFFICES ASSUME ServicesInv, [ServicesNext]_servicesVars PROVE ServicesInv'
  OBVIOUS
<1>1. /\ service' = service
      /\ [GuardNext]_guardVars
      /\ service = "ingress" => Ingress!Next \/ UNCHANGED ingressVars
      /\ service = "server" => Server!Next \/ UNCHANGED serverVars
      /\ service = "bulk" => Bulk!Next \/ UNCHANGED bulkVars
      /\ service = "graph" => Graph!Next \/ UNCHANGED graphVars
  BY DEF ServicesNext, servicesVars
<1>2. GuardInv'
  BY <1>1, GuardNextInv DEF ServicesInv
<1>3. service = "ingress" => IngressInv'
  BY <1>1, IngressNextInv DEF ServicesInv
<1>4. service = "server" => ServerInv'
  BY <1>1, ServerNextInv DEF ServicesInv
<1>5. service = "bulk" => BulkInv'
  BY <1>1, BulkNextInv DEF ServicesInv
<1>6. service = "graph" => GraphInv'
  BY <1>1, GraphNextInv DEF ServicesInv
<1>7. QED
  BY <1>1, <1>2, <1>3, <1>4, <1>5, <1>6 DEF ServicesInv

(* The invariants hold in every reachable state. *)
LEMMA ServicesAlwaysInv == ServicesSpec => []ServicesInv
BY ServicesInitInv, ServicesNextInv, PTL DEF ServicesSpec

(* Every reachable state of the guard, of ingress forwarding, of server     *)
(* mode and of the bulk actions is well typed.                              *)
THEOREM ServicesAlwaysTyped == ServicesSpec => []ServicesTyped
<1>1. ServicesInv => ServicesTyped
  BY BulkInvSound DEF ServicesInv, ServicesTyped, GuardInv, IngressInv, ServerInv
<1>2. QED
  BY <1>1, ServicesAlwaysInv, PTL

(* Ingress forwarding runs as a whole in its context, whatever a crash left *)
(* there; and unless one of the troubles happens that IngressForward names, *)
(* what it wrote is known to the state and removed with it, wherever a      *)
(* Start fails (ingressforward.go).  In server mode a client gets every     *)
(* event of its connection, its terminals end with it, and a shutdown       *)
(* leaves nobody blocked (server.go).                                       *)
THEOREM ServersAlwaysSound == ServicesSpec => []ServersSound
<1>1. ServicesInv => ServersSound
  BY IngressInvSound, ServerInvSound DEF ServicesInv, ServersSound
<1>2. QED
  BY <1>1, ServicesAlwaysInv, PTL

(* The dialog of a bulk action shows what its own loop has done, a paused   *)
(* loop can be resumed, and no resource is touched while its backup is made *)
(* (useBulkActions.tsx), as long as no earlier opening left work under way. *)
THEOREM BulkAlwaysSound == ServicesSpec => []BulkSound
<1>1. ServicesInv => BulkSound
  BY BulkInvSound DEF ServicesInv, BulkSound
<1>2. QED
  BY <1>1, ServicesAlwaysInv, PTL

(* Whatever a cluster holds: of a group, the cut of its graph shows no more *)
(* than the limit, unless the group's connectors are that many; and every   *)
(* node it hides is counted, once, by a summary below a node that is shown  *)
(* (aggregateGraph, deps_graph.go), as long as what was collected is a list *)
(* of nodes with the queried resource.                                      *)
THEOREM CutAlwaysSound ==
  ServicesSpec =>
    [](service = "graph" /\ Graph!Listed => Graph!HiddenAreCounted /\ Graph!LimitKept)
<1>1. ServicesInv => (service = "graph" /\ Graph!Listed => Graph!HiddenAreCounted /\ Graph!LimitKept)
  BY GraphInvSound DEF ServicesInv
<1>2. QED
  BY <1>1, ServicesAlwaysInv, PTL
-----------------------------------------------------------------------------
(***************************************************************************)
(* The event coalescer.                                                    *)
(***************************************************************************)

(* The definitions every step needs. *)
USE DEF vars, clock, settings, history, Buffered, Empty, Millisecond

-----------------------------------------------------------------------------
(* Type correctness of the buffer, the timers and the wire. *)

(* Posting a batch keeps the wire a sequence of batches. *)
LEMMA PostType ==
  ASSUME NEW batch \in SUBSET Event, wire \in Seq(SUBSET Event), Post(batch)
  PROVE  wire' \in Seq(SUBSET Event)
BY DEF Post

(* Arming the timer keeps the timers' types. *)
LEMMA ArmType ==
  ASSUME orphans \in Nat, Arm
  PROVE  timer' = "armed" /\ orphans' \in Nat
BY DEF Arm

(* A number clamped to positive bounds is positive. *)
LEMMA ClampType ==
  ASSUME NEW n \in Int, NEW low \in Nat \ {0}, NEW high \in Nat \ {0}
  PROVE  Clamp(n, low, high) \in Nat \ {0}
BY DEF Clamp

(* What one execution of flush does to the buffer and the wire. *)
LEMMA FlushBodyType ==
  ASSUME TypeOK, FlushBody
  PROVE  /\ events' \in [Keys -> Event \cup {NoEvent}]
         /\ \A k \in Keys : events'[k] # NoEvent => events'[k] = events[k]
         /\ pending' \in BOOLEAN
         /\ timer' \in {"none", "armed"}
         /\ orphans' \in Nat
         /\ wire' \in Seq(SUBSET Event)
<1>1. PICK S \in Batches :
        /\ events' = [k \in Keys |-> IF k \in S THEN NoEvent ELSE events[k]]
        /\ IF S = Buffered
           THEN pending' = FALSE /\ UNCHANGED <<timer, orphans>>
           ELSE pending' = TRUE /\ Arm
        /\ Post({events[k] : k \in S})
  BY DEF FlushBody
<1>2. S \subseteq {k \in Keys : events[k] # NoEvent}
  BY DEF Batches
<1>3. {events[k] : k \in S} \in SUBSET Event
  BY <1>2 DEF TypeOK
<1>4. wire' \in Seq(SUBSET Event)
  BY <1>1, <1>3, PostType DEF TypeOK
<1>5. events' \in [Keys -> Event \cup {NoEvent}]
  BY <1>1 DEF TypeOK
<1>6. \A k \in Keys : events'[k] # NoEvent => events'[k] = events[k]
  BY <1>1
<1>7. timer' \in {"none", "armed"} /\ orphans' \in Nat /\ pending' \in BOOLEAN
  BY <1>1, ArmType DEF TypeOK
<1>8. QED
  BY <1>4, <1>5, <1>6, <1>7

(* The initial state is well typed. *)
LEMMA InitType == Init => TypeOK
<1> SUFFICES ASSUME Init PROVE TypeOK
  OBVIOUS
<1>1. maxBatch \in Nat \ {0} /\ interval \in Nat
  BY SizeAssumption DEF Init
<1>2. wire \in Seq(SUBSET Event)
  BY DEF Init
<1>3. events \in [Keys -> Event \cup {NoEvent}] /\ Buffered = {}
  BY DEF Init
<1>4. QED
  BY <1>1, <1>2, <1>3 DEF Init, TypeOK

(* Every step keeps the types. *)
LEMMA NextType == TypeOK /\ [Next]_vars => TypeOK'
<1> SUFFICES ASSUME TypeOK, [Next]_vars PROVE TypeOK'
  OBVIOUS
<1>1. ASSUME NEW e \in Event, Emit(e) PROVE TypeOK'
  <2>1. {e} \in SUBSET Event
    OBVIOUS
  <2>2. CASE EmitDirect(e)
    <3>1. wire' \in Seq(SUBSET Event)
      BY <2>1, <2>2, PostType DEF EmitDirect, TypeOK
    <3>2. QED
      BY <1>1, <2>2, <3>1, EventAssumption DEF EmitDirect, Emit, TypeOK
  <2>3. CASE EmitDelete(e)
    <3>1. wire' \in Seq(SUBSET Event)
      BY <2>1, <2>3, PostType DEF EmitDelete, TypeOK
    <3>2. QED
      BY <1>1, <2>3, <3>1, EventAssumption DEF EmitDelete, Emit, TypeOK
  <2>4. CASE EmitBuffered(e)
    <3>1. timer' \in {"none", "armed"} /\ orphans' \in Nat
      BY <2>4, ArmType DEF EmitBuffered, TypeOK
    <3>2. QED
      BY <1>1, <2>4, <3>1, EventAssumption DEF EmitBuffered, Emit, TypeOK
  <2>5. QED
    BY <1>1, <2>2, <2>3, <2>4 DEF Emit
<1>2. CASE TimerFires
  BY <1>2 DEF TimerFires, TypeOK
<1>3. CASE OrphanFires
  BY <1>3 DEF OrphanFires, TypeOK
<1>4. CASE Flush
  <2>1. FlushBody
    BY <1>4 DEF Flush
  <2>2. QED
    BY <1>4, <2>1, FlushBodyType DEF Flush, TypeOK
<1>5. CASE FlushNowCheck
  BY <1>5 DEF FlushNowCheck, TypeOK
<1>6. CASE FlushNowFlush
  <2>1. FlushBody
    BY <1>6 DEF FlushNowFlush
  <2>2. QED
    BY <1>6, <2>1, FlushBodyType DEF FlushNowFlush, TypeOK
<1>7. CASE Handle
  <2>1. wire' \in Seq(SUBSET Event) /\ Head(wire) \in SUBSET Event
    BY <1>7 DEF Handle, TypeOK
  <2>2. \A k \in Keys : (\E e \in Head(wire) : e.key = k) =>
          (CHOOSE e \in Head(wire) : e.key = k).ver \in Nat
    BY <2>1, EventAssumption
  <2>3. handled' \in [Keys -> Nat]
    BY <1>7, <2>2 DEF Handle, TypeOK
  <2>4. QED
    BY <1>7, <2>1, <2>3 DEF Handle, TypeOK
<1>8. CASE FlushNow
  BY <1>8 DEF FlushNow, StopTimer, TypeOK
<1>9. CASE Clear
  BY <1>9 DEF Clear, StopTimer, TypeOK
<1>10. ASSUME NEW ms \in FrameRequests, SetFrameInterval(ms) PROVE TypeOK'
  <2>1. Clamp(ms, 1, 100) \in Nat
    BY SizeAssumption, ClampType
  <2>2. QED
    BY <1>10, <2>1 DEF SetFrameInterval, TypeOK
<1>11. ASSUME NEW n \in BatchRequests, SetMaxBatchSize(n) PROVE TypeOK'
  <2>1. Clamp(n, MinBatch, MaxBatch) \in Nat \ {0}
    BY SizeAssumption, ClampType
  <2>2. QED
    BY <1>11, <2>1 DEF SetMaxBatchSize, TypeOK
<1>12. CASE UNCHANGED vars
  BY <1>12 DEF TypeOK
<1>13. QED
  BY <1>1, <1>2, <1>3, <1>4, <1>5, <1>6, <1>7, <1>8, <1>9, <1>10, <1>11, <1>12
  DEF Next, Internal

(* The buffer, the timers and the wire always have their types; no DELETED  *)
(* is ever held back in the buffer.                                         *)
THEOREM TypeCorrect == Spec => []TypeOK
BY InitType, NextType, PTL DEF Spec

-----------------------------------------------------------------------------
(* A buffered event is never without a timer.  Inductive: the pending flag  *)
(* covers a non-empty buffer, and a set flag covers itself with a timer or  *)
(* a flush goroutine.  FlushNow breaks the second part, and runs only at    *)
(* shutdown.                                                                *)
LiveInv ==
  /\ drain # "idle" => closing
  /\ ~closing => (Buffered # {} => pending)
  /\ ~closing => (pending => TimerLive)

(* Every step keeps the promise that what is buffered will be flushed. *)
LEMMA LiveStep == TypeOK /\ LiveInv /\ [Next]_vars => LiveInv'
<1> SUFFICES ASSUME TypeOK, LiveInv, [Next]_vars PROVE LiveInv'
  OBVIOUS
<1> USE DEF TimerLive
<1>1. ASSUME NEW e \in Event, Emit(e) PROVE LiveInv'
  <2>1. CASE EmitDirect(e)
    BY <1>1, <2>1 DEF EmitDirect, Emit, LiveInv
  <2>2. CASE EmitDelete(e)
    <3>1. Buffered' \subseteq Buffered
      BY <2>2 DEF EmitDelete, TypeOK
    <3>2. QED
      BY <1>1, <2>2, <3>1 DEF EmitDelete, Emit, LiveInv
  <2>3. CASE EmitBuffered(e)
    BY <1>1, <2>3 DEF EmitBuffered, Emit, Arm, LiveInv
  <2>4. QED
    BY <1>1, <2>1, <2>2, <2>3 DEF Emit
<1>2. CASE TimerFires
  BY <1>2 DEF TimerFires, LiveInv, TypeOK
<1>3. CASE OrphanFires
  BY <1>3 DEF OrphanFires, LiveInv, TypeOK
<1>4. CASE Flush
  <2>1. PICK S \in Batches :
          /\ events' = [k \in Keys |-> IF k \in S THEN NoEvent ELSE events[k]]
          /\ IF S = Buffered
             THEN pending' = FALSE /\ UNCHANGED <<timer, orphans>>
             ELSE pending' = TRUE /\ Arm
    BY <1>4 DEF Flush, FlushBody
  <2>2. CASE S = Buffered
    <3>1. Buffered' = {}
      BY <2>1, <2>2
    <3>2. QED
      BY <1>4, <2>1, <2>2, <3>1 DEF Flush, LiveInv
  <2>3. CASE S # Buffered
    BY <1>4, <2>1, <2>3 DEF Flush, Arm, LiveInv
  <2>4. QED
    BY <2>2, <2>3
<1>5. CASE FlushNowCheck
  BY <1>5 DEF FlushNowCheck, LiveInv
<1>6. CASE FlushNowFlush
  BY <1>6 DEF FlushNowFlush, LiveInv
<1>7. CASE Handle
  BY <1>7 DEF Handle, LiveInv
<1>8. CASE FlushNow
  BY <1>8 DEF FlushNow, LiveInv
<1>9. CASE Clear
  BY <1>9 DEF Clear, LiveInv
<1>10. ASSUME NEW ms \in FrameRequests, SetFrameInterval(ms) PROVE LiveInv'
  BY <1>10 DEF SetFrameInterval, LiveInv
<1>11. ASSUME NEW n \in BatchRequests, SetMaxBatchSize(n) PROVE LiveInv'
  BY <1>11 DEF SetMaxBatchSize, LiveInv
<1>12. CASE UNCHANGED vars
  BY <1>12 DEF LiveInv
<1>13. QED
  BY <1>1, <1>2, <1>3, <1>4, <1>5, <1>6, <1>7, <1>8, <1>9, <1>10, <1>11, <1>12
  DEF Next, Internal

(* Until shutdown, a non-empty buffer always has an armed timer or a flush  *)
(* goroutine on its way: no interleaving of Emit, Clear and a flush that    *)
(* lost the race with Clear silences the coalescer.                         *)
THEOREM NoStranded == Spec => []NoStrandedEvent
<1>1. Init => LiveInv
  BY DEF Init, LiveInv
<1>2. LiveInv => NoStrandedEvent
  BY DEF LiveInv, NoStrandedEvent
<1>3. QED
  BY <1>1, <1>2, LiveStep, TypeCorrect, PTL DEF Spec

-----------------------------------------------------------------------------
(* Events of a key reach the frontend in stream order. *)
OrderInv ==
  /\ PerKeyOrder
  /\ interval < Millisecond => Buffered = {}

(* Posting a message whose numbers fit between the wire and the buffer. *)
LEMMA PostOrder ==
  ASSUME TypeOK, NEW k \in Keys, KeyOrder(k),
         NEW batch \in SUBSET Event, Post(batch),
         handled' = handled, given[k] <= given'[k], given'[k] \in Nat,
         events'[k] = events[k] \/ events'[k] = NoEvent,
         \A n \in Numbers(batch, k) :
           /\ handled[k] < n
           /\ n <= given'[k]
           /\ events'[k] = NoEvent
           /\ \A i \in DOMAIN wire : \A m \in Numbers(wire[i], k) : m < n
  PROVE  KeyOrder(k)'
<1> USE DEF TypeOK
<1>0. handled'[k] <= given'[k]
  BY DEF KeyOrder
<1>1. CASE batch = {}
  <2>1. wire' = wire
    BY <1>1 DEF Post
  <2>2. \A i \in DOMAIN wire : \A n \in Numbers(wire[i], k) : n \in Nat
    BY EventAssumption DEF Numbers, TypeOK
  <2>3. ASSUME NEW i \in DOMAIN wire, NEW n \in Numbers(wire[i], k)
        PROVE  /\ handled[k] < n
               /\ n <= given'[k]
               /\ events'[k] # NoEvent => n < events'[k].ver
    BY <2>2, <2>3 DEF KeyOrder, TypeOK
  <2>4. events'[k] # NoEvent => handled[k] < events'[k].ver /\ events'[k].ver <= given'[k]
    BY EventAssumption DEF KeyOrder, TypeOK
  <2>5. QED
    BY <1>0, <2>1, <2>3, <2>4 DEF KeyOrder
<1>2. CASE batch # {}
  <2>1. /\ wire' = Append(wire, batch)
        /\ DOMAIN wire' = 1 .. Len(wire) + 1
        /\ DOMAIN wire = 1 .. Len(wire)
        /\ Len(wire) \in Nat
        /\ \A i \in 1 .. Len(wire) : wire'[i] = wire[i]
        /\ wire'[Len(wire) + 1] = batch
    BY <1>2 DEF Post, TypeOK
  <2>2. \A b : \A n \in Numbers(b, k) : b \subseteq Event => n \in Nat
    BY EventAssumption DEF Numbers
  <2>3. \A i \in DOMAIN wire : wire[i] \subseteq Event
    BY DEF TypeOK
  <2>4. ASSUME NEW i \in DOMAIN wire', NEW n \in Numbers(wire'[i], k)
        PROVE  /\ handled[k] < n
               /\ n <= given'[k]
               /\ events'[k] # NoEvent => n < events'[k].ver
    <3>1. CASE i = Len(wire) + 1
      BY <2>1, <2>4, <3>1
    <3>2. CASE i \in DOMAIN wire
      <4>1. n \in Numbers(wire[i], k) /\ n \in Nat
        BY <2>1, <2>2, <2>3, <2>4, <3>2
      <4>2. QED
        BY <3>2, <4>1 DEF KeyOrder, TypeOK
    <3>3. QED
      BY <2>1, <2>4, <3>1, <3>2
  <2>5. ASSUME NEW i \in DOMAIN wire', NEW j \in DOMAIN wire', i < j,
               NEW n \in Numbers(wire'[i], k), NEW m \in Numbers(wire'[j], k)
        PROVE  n < m
    <3>1. i \in DOMAIN wire /\ wire'[i] = wire[i]
      BY <2>1, <2>5
    <3>2. CASE j \in DOMAIN wire
      BY <2>1, <2>5, <3>1, <3>2 DEF KeyOrder
    <3>3. CASE j = Len(wire) + 1
      BY <2>1, <2>5, <3>1, <3>3
    <3>4. QED
      BY <2>1, <2>5, <3>2, <3>3
  <2>6. events'[k] # NoEvent => handled[k] < events'[k].ver /\ events'[k].ver <= given'[k]
    BY EventAssumption DEF KeyOrder, TypeOK
  <2>7. QED
    BY <1>0, <2>4, <2>5, <2>6 DEF KeyOrder
<1>3. QED
  BY <1>1, <1>2

(* Neither the wire nor the buffer changes: the order only needs `given'    *)
(* and `handled' to stand still.                                            *)
LEMMA StillOrder ==
  ASSUME OrderInv, UNCHANGED <<wire, events, history, interval>>
  PROVE  OrderInv'
BY DEF OrderInv, PerKeyOrder, KeyOrder

(* A flush moves the newest numbers from the buffer to the wire, in order. *)
LEMMA FlushOrder ==
  ASSUME TypeOK, OrderInv, FlushBody, UNCHANGED <<settings, history>>
  PROVE  OrderInv'
<1>1. PICK S \in Batches :
        /\ events' = [k \in Keys |-> IF k \in S THEN NoEvent ELSE events[k]]
        /\ Post({events[k] : k \in S})
  BY DEF FlushBody
<1> DEFINE batch == {events[k] : k \in S}
<1>2. S \subseteq Keys /\ \A k \in S : events[k] \in Event /\ events[k].key = k
  BY DEF Batches, TypeOK
<1>3. batch \in SUBSET Event
  BY <1>2
<1>4. ASSUME NEW k \in Keys PROVE KeyOrder(k)'
  <2>1. KeyOrder(k)
    BY DEF OrderInv, PerKeyOrder
  <2>2. \A n \in Numbers(batch, k) : k \in S /\ n = events[k].ver
    BY <1>2 DEF Numbers
  <2>3. \A n \in Numbers(batch, k) :
          /\ handled[k] < n
          /\ n <= given'[k]
          /\ events'[k] = NoEvent
          /\ \A i \in DOMAIN wire : \A m \in Numbers(wire[i], k) : m < n
    BY <1>1, <1>2, <2>1, <2>2, EventAssumption DEF KeyOrder
  <2>4. given[k] <= given'[k] /\ given'[k] \in Nat
    BY DEF TypeOK
  <2>5. events'[k] = events[k] \/ events'[k] = NoEvent
    BY <1>1
  <2> HIDE DEF batch
  <2>6. QED
    BY <1>1, <1>3, <2>1, <2>3, <2>4, <2>5, PostOrder DEF batch
<1>5. Buffered' \subseteq Buffered
  BY <1>1
<1>6. QED
  BY <1>4, <1>5 DEF OrderInv, PerKeyOrder

(* An event emitted, directly or into the buffer, is newer than all before it. *)
LEMMA EmitOrder ==
  ASSUME TypeOK, OrderInv, NEW e \in Event, Emit(e)
  PROVE  OrderInv'
<1>1. /\ e.key \in Keys /\ e.ver \in Nat /\ e.ver = given[e.key] + 1
      /\ given[e.key] \in Nat
      /\ given'[e.key] = e.ver
      /\ \A k \in Keys : k # e.key => given'[k] = given[k]
      /\ handled' = handled /\ interval' = interval
  BY EventAssumption DEF Emit, TypeOK
<1>2. \A k \in Keys : given[k] <= given'[k] /\ given'[k] \in Nat
  BY <1>1 DEF TypeOK
<1>3. \A i \in DOMAIN wire : \A k \in Keys : \A m \in Numbers(wire[i], k) : m \in Nat
  BY EventAssumption DEF Numbers, TypeOK
<1>4. ASSUME Post({e}), events'[e.key] = NoEvent,
             \A k \in Keys : events'[k] = events[k] \/ events'[k] = NoEvent
      PROVE  PerKeyOrder'
  <2>1. SUFFICES ASSUME NEW k \in Keys PROVE KeyOrder(k)'
    BY DEF PerKeyOrder
  <2>2. KeyOrder(k)
    BY DEF OrderInv, PerKeyOrder
  <2>3. \A n \in Numbers({e}, k) : k = e.key /\ n = e.ver
    BY DEF Numbers
  <2>4. handled[k] \in Nat /\ given[k] \in Nat /\ handled[k] <= given[k]
    BY <2>2 DEF KeyOrder, TypeOK
  <2>5. \A n \in Numbers({e}, k) :
          /\ handled[k] < n
          /\ n <= given'[k]
          /\ events'[k] = NoEvent
          /\ \A i \in DOMAIN wire : \A m \in Numbers(wire[i], k) : m < n
    BY <1>1, <1>3, <1>4, <2>2, <2>3, <2>4 DEF KeyOrder
  <2>6. QED
    BY <1>1, <1>2, <1>4, <2>2, <2>5, PostOrder
<1>5. CASE EmitDirect(e)
  <2>1. Buffered = {} /\ events' = events
    BY <1>5 DEF EmitDirect, OrderInv
  <2>2. PerKeyOrder'
    BY <1>1, <1>4, <1>5, <2>1 DEF EmitDirect
  <2>3. QED
    BY <2>1, <2>2 DEF OrderInv
<1>6. CASE EmitDelete(e)
  <2>1. \A k \in Keys : events'[k] = IF k = e.key THEN NoEvent ELSE events[k]
    BY <1>1, <1>6 DEF EmitDelete, TypeOK
  <2>2. PerKeyOrder'
    BY <1>1, <1>4, <1>6, <2>1 DEF EmitDelete
  <2>3. QED
    BY <1>1, <1>6, <2>2 DEF OrderInv, EmitDelete
<1>7. CASE EmitBuffered(e)
  <2>1. /\ \A k \in Keys : events'[k] = IF k = e.key THEN e ELSE events[k]
        /\ wire' = wire
        /\ interval >= Millisecond
    BY <1>1, <1>7 DEF EmitBuffered, TypeOK
  <2>2. ASSUME NEW k \in Keys PROVE KeyOrder(k)'
    <3>1. KeyOrder(k) /\ given[k] \in Nat /\ handled[k] \in Nat
      BY DEF OrderInv, PerKeyOrder, TypeOK
    <3>2. CASE k = e.key
      <4>1. given'[k] = given[k] + 1 /\ events'[k].ver = given[k] + 1
        BY <1>1, <2>1, <3>2
      <4>2. \A i \in DOMAIN wire : \A n \in Numbers(wire[i], k) :
              handled[k] < n /\ n <= given[k] + 1 /\ n < given[k] + 1
        BY <1>3, <3>1 DEF KeyOrder
      <4>3. QED
        BY <1>1, <2>1, <3>1, <4>1, <4>2 DEF KeyOrder
    <3>3. CASE k # e.key
      BY <1>1, <2>1, <3>1, <3>3 DEF KeyOrder
    <3>4. QED
      BY <3>2, <3>3
  <2>3. QED
    BY <1>1, <2>1, <2>2, SizeAssumption DEF OrderInv, PerKeyOrder, TypeOK
<1>8. QED
  BY <1>5, <1>6, <1>7 DEF Emit

(* Handling the first batch leaves only newer numbers behind. *)
LEMMA HandleOrder ==
  ASSUME TypeOK, OrderInv, Handle
  PROVE  OrderInv'
<1>1. /\ DOMAIN wire = 1 .. Len(wire) /\ Len(wire) \in Nat \ {0}
      /\ Head(wire) = wire[1]
      /\ DOMAIN wire' = 1 .. Len(wire) - 1
      /\ \A i \in 1 .. Len(wire) - 1 : wire'[i] = wire[i + 1]
  BY DEF Handle, TypeOK
<1>2. UNCHANGED <<events, interval, given>>
  BY DEF Handle
<1>3. ASSUME NEW k \in Keys PROVE KeyOrder(k)'
  <2>1. KeyOrder(k)
    BY DEF OrderInv, PerKeyOrder
  <2>2. CASE \E e \in Head(wire) : e.key = k
    <3>1. handled'[k] \in Numbers(wire[1], k)
      BY <1>1, <2>2 DEF Handle, Numbers, TypeOK
    <3>2. /\ handled'[k] <= given[k]
          /\ \A j \in DOMAIN wire : 1 < j =>
               \A m \in Numbers(wire[j], k) : handled'[k] < m
          /\ events[k] # NoEvent => handled'[k] < events[k].ver
      BY <1>1, <2>1, <3>1 DEF KeyOrder
    <3>3. \A i \in DOMAIN wire' : i + 1 \in DOMAIN wire /\ 1 < i + 1 /\ wire'[i] = wire[i + 1]
      BY <1>1
    <3>4. QED
      BY <1>1, <1>2, <2>1, <3>2, <3>3 DEF KeyOrder
  <2>3. CASE ~ \E e \in Head(wire) : e.key = k
    <3>1. handled'[k] = handled[k]
      BY <2>3 DEF Handle, TypeOK
    <3>2. \A i \in DOMAIN wire' : i + 1 \in DOMAIN wire /\ wire'[i] = wire[i + 1]
      BY <1>1
    <3>3. QED
      BY <1>1, <1>2, <2>1, <3>1, <3>2 DEF KeyOrder
  <2>4. QED
    BY <2>2, <2>3
<1>4. QED
  BY <1>2, <1>3 DEF OrderInv, PerKeyOrder

(* Every step keeps the order of each key. *)
LEMMA OrderStep == TypeOK /\ OrderInv /\ [Next]_vars => OrderInv'
<1> SUFFICES ASSUME TypeOK, OrderInv, [Next]_vars PROVE OrderInv'
  OBVIOUS
<1>1. CASE \E e \in Event : Emit(e)
  BY <1>1, EmitOrder
<1>2. CASE TimerFires \/ OrphanFires \/ FlushNowCheck \/ FlushNow \/ UNCHANGED vars
  BY <1>2, StillOrder DEF TimerFires, OrphanFires, FlushNowCheck, FlushNow
<1>3. CASE Flush \/ FlushNowFlush
  BY <1>3, FlushOrder DEF Flush, FlushNowFlush
<1>4. CASE Handle
  BY <1>4, HandleOrder
<1>5. CASE Clear
  <2>1. \A k \in Keys : events'[k] = NoEvent
    BY <1>5 DEF Clear
  <2>2. UNCHANGED <<wire, given, handled, interval>>
    BY <1>5 DEF Clear
  <2>3. QED
    BY <2>1, <2>2 DEF OrderInv, PerKeyOrder, KeyOrder
<1>6. ASSUME NEW ms \in FrameRequests, SetFrameInterval(ms) PROVE OrderInv'
  <2>1. Clamp(ms, 1, 100) \in Nat \ {0}
    BY SizeAssumption, ClampType
  <2>2. interval' >= Millisecond
    BY <1>6, <2>1 DEF SetFrameInterval
  <2>3. UNCHANGED <<wire, events, given, handled>> /\ interval' \in Nat
    BY <1>6, <2>1 DEF SetFrameInterval
  <2>4. QED
    BY <2>2, <2>3 DEF OrderInv, PerKeyOrder, KeyOrder
<1>7. CASE \E n \in BatchRequests : SetMaxBatchSize(n)
  BY <1>7, StillOrder DEF SetMaxBatchSize
<1>8. QED
  BY <1>1, <1>2, <1>3, <1>4, <1>5, <1>6, <1>7 DEF Next, Internal

(* The frontend handles the events of an object in the order of the watch   *)
(* stream, whatever the frame timers, DELETED bypasses, Clear and FlushNow  *)
(* do, and a DELETED is never followed by an older event of the object.     *)
THEOREM StreamOrder == Spec => []PerKeyOrder
<1>1. Init => OrderInv
  BY DEF Init, OrderInv, PerKeyOrder, KeyOrder
<1>2. OrderInv => PerKeyOrder
  BY DEF OrderInv
<1>3. QED
  BY <1>1, <1>2, OrderStep, TypeCorrect, PTL DEF Spec

-----------------------------------------------------------------------------
(* Every step of the coalescer is a step of FrameBuffer or changes nothing  *)
(* there.                                                                   *)
LEMMA FlushRefines ==
  ASSUME TypeOK, FlushBody
  PROVE  [Promise!Next]_(Promise!vars)
<1>1. PICK S \in Batches :
        /\ events' = [k \in Keys |-> IF k \in S THEN NoEvent ELSE events[k]]
        /\ Post({events[k] : k \in S})
  BY DEF FlushBody
<1>2. CASE S = {}
  <2>1. events' = events /\ wire' = wire
    BY <1>1, <1>2 DEF Post, TypeOK
  <2>2. QED
    BY <2>1 DEF Promise!vars
<1>3. CASE S # {}
  <2>1. S \in SUBSET Promise!Filled
    BY DEF Batches, Promise!Filled
  <2>2. Promise!Release(S)
    BY <1>1, <1>3 DEF Post, Promise!Release
  <2>3. QED
    BY <2>1, <2>2 DEF Promise!Next
<1>4. QED
  BY <1>2, <1>3

(* Every step is one of FrameBuffer or leaves its variables alone. *)
LEMMA RefineStep == TypeOK /\ OrderInv /\ [Next]_vars => [Promise!Next]_(Promise!vars)
<1> SUFFICES ASSUME TypeOK, OrderInv, [Next]_vars PROVE [Promise!Next]_(Promise!vars)
  OBVIOUS
<1>1. ASSUME NEW e \in Event, Emit(e) PROVE Promise!Next
  <2>1. CASE EmitDirect(e)
    <3>1. events[e.key] = NoEvent /\ events' = events
      BY <2>1, EventAssumption DEF EmitDirect, OrderInv
    <3>2. events' = [events EXCEPT ![e.key] = NoEvent]
      BY <3>1, EventAssumption DEF TypeOK
    <3>3. Promise!Bypass(e)
      BY <2>1, <3>1, <3>2 DEF EmitDirect, Post, Promise!Bypass
    <3>4. QED
      BY <3>3 DEF Promise!Next
  <2>2. CASE EmitDelete(e)
    BY <2>2 DEF EmitDelete, Post, Promise!Bypass, Promise!Next
  <2>3. CASE EmitBuffered(e)
    BY <2>3 DEF EmitBuffered, Promise!Store, Promise!Next
  <2>4. QED
    BY <1>1, <2>1, <2>2, <2>3 DEF Emit
<1>2. CASE TimerFires \/ OrphanFires \/ FlushNowCheck \/ FlushNow \/ UNCHANGED vars
  BY <1>2 DEF TimerFires, OrphanFires, FlushNowCheck, FlushNow, Promise!vars
<1>3. CASE Flush \/ FlushNowFlush
  BY <1>3, FlushRefines DEF Flush, FlushNowFlush
<1>4. CASE Handle
  BY <1>4 DEF Handle, Promise!Consume, Promise!Next
<1>5. CASE Clear
  BY <1>5 DEF Clear, Promise!Discard, Promise!Next
<1>6. CASE (\E ms \in FrameRequests : SetFrameInterval(ms)) \/ (\E n \in BatchRequests : SetMaxBatchSize(n))
  BY <1>6 DEF SetFrameInterval, SetMaxBatchSize, Promise!vars
<1>7. QED
  BY <1>1, <1>2, <1>3, <1>4, <1>5, <1>6 DEF Next, Internal

(* The coalescer keeps the promise the watch pipeline is built on. *)
THEOREM Implementation == Spec => ImplementsFrameBuffer
<1>1. Init => Promise!Init
  BY DEF Init, Promise!Init
<1>2. Init => OrderInv
  BY DEF Init, OrderInv, PerKeyOrder, KeyOrder
<1>3. QED
  BY <1>1, <1>2, RefineStep, OrderStep, TypeCorrect, PTL
  DEF Spec, Promise!Spec, ImplementsFrameBuffer

(* Both promises together, in every order of calls and callbacks. *)
THEOREM BufferAlwaysSound == Spec => []BufferSound
<1>1. PerKeyOrder /\ NoStrandedEvent => BufferSound
  BY DEF BufferSound
<1>2. QED
  BY <1>1, StreamOrder, NoStranded, PTL
=============================================================================
