------------------------------ MODULE ExecAuth ------------------------------
(***************************************************************************)
(* The guard in front of an exec credential plugin (pkg/k8s/execauth.go),  *)
(* shared by all clients with these credentials: requests that come while  *)
(* the plugin runs wait for that run, a request that gives up leaves it    *)
(* running, and after a failure the plugin rests.                          *)
(***************************************************************************)
EXTENDS Integers, Sequences

CONSTANTS
  Callers,  \* requests, each in a goroutine of its own
  Cooldown, \* execAuthFailureCooldown, in ticks
  MaxClock  \* bound on the clock

ASSUME ExecAuthAssumption == Cooldown \in Nat \ {0} /\ MaxClock \in Nat

VARIABLES
  wall,     \* time.Now()
  attempts, \* the runs of the plugin, in their order
  inFlight, \* number of the attempt in flight, or 0
  err,      \* whether g.err is set
  retryAt,
  caller    \* where each request is, the attempt it waits for, when it came

guardVars == <<wall, attempts, inFlight, err, retryAt, caller>>
guard == <<attempts, inFlight, err, retryAt>>

Attempt == [state : {"running", "ok", "failed"}, began : Nat, ended : Nat]
Caller == [at : {"idle", "waiting", "paused", "canceled", "admitted", "denied"},
           attempt : Nat, came : Nat]

GuardTypeOK ==
  /\ wall \in Nat /\ attempts \in Seq(Attempt)
  /\ inFlight \in 0..Len(attempts) /\ err \in BOOLEAN /\ retryAt \in Nat
  /\ caller \in [Callers -> Caller]
  /\ \A c \in Callers :
       /\ caller[c].attempt \in 0..Len(attempts)
       /\ caller[c].at = "waiting" => caller[c].attempt # 0

GuardInit ==
  /\ wall = 0 /\ attempts = <<>> /\ inFlight = 0 /\ err = FALSE /\ retryAt = 0
  /\ caller = [c \in Callers |-> [at |-> "idle", attempt |-> 0, came |-> 0]]

GuardTick ==
  /\ wall < MaxClock /\ wall' = wall + 1
  /\ UNCHANGED <<guard, caller>>

Paused == err /\ wall < retryAt

Return(c, how) ==
  /\ caller' = [caller EXCEPT ![c].at = how]
  /\ UNCHANGED <<wall, guard>>

(* check finds the context done, or the plugin resting. *)
CheckDone(c) == caller[c].at = "idle" /\ Return(c, "canceled")

CheckPaused(c) == caller[c].at = "idle" /\ Paused /\ Return(c, "paused")

Wait(c, attempt) ==
  caller' = [caller EXCEPT ![c] = [at |-> "waiting", attempt |-> attempt, came |-> wall]]

(* Mutant: the pause is forgotten. *)
CheckStartsUnpaused(c) ==
  /\ caller[c].at = "idle" /\ inFlight = 0
  /\ attempts' = Append(attempts, [state |-> "running", began |-> wall, ended |-> 0])
  /\ inFlight' = Len(attempts')
  /\ Wait(c, inFlight')
  /\ UNCHANGED <<wall, err, retryAt>>

(* The plugin is run in a goroutine of its own. *)
CheckStarts(c) ==
  /\ caller[c].at = "idle" /\ ~Paused /\ inFlight = 0
  /\ attempts' = Append(attempts, [state |-> "running", began |-> wall, ended |-> 0])
  /\ inFlight' = Len(attempts')
  /\ Wait(c, inFlight')
  /\ UNCHANGED <<wall, err, retryAt>>

(* Mutant: the attempt is read from the guard after it was cleared. *)
CheckJoinsNobody(c) ==
  /\ caller[c].at = "idle" /\ ~Paused
  /\ Wait(c, inFlight)
  /\ UNCHANGED <<wall, guard>>

CheckJoins(c) ==
  /\ caller[c].at = "idle" /\ ~Paused /\ inFlight # 0
  /\ Wait(c, inFlight)
  /\ UNCHANGED <<wall, guard>>

(* Mutant: who gives up takes the attempt along. *)
LeaveAlone(c) ==
  /\ caller[c].at = "waiting"
  /\ inFlight' = 0
  /\ caller' = [caller EXCEPT ![c].at = "canceled"]
  /\ UNCHANGED <<wall, attempts, err, retryAt>>

(* select: the context is done, canceled or at its deadline, or the attempt is. *)
Leave(c) == caller[c].at = "waiting" /\ Return(c, "canceled")

Answer(c) ==
  /\ caller[c].at = "waiting" /\ attempts[caller[c].attempt].state # "running"
  /\ Return(c, IF attempts[caller[c].attempt].state = "ok" THEN "admitted" ELSE "denied")

Ended(how) ==
  [attempts EXCEPT ![inFlight] = [@ EXCEPT !.state = how, !.ended = wall]]

(* The plugin has ended. *)
End(how) ==
  /\ inFlight # 0 /\ attempts' = Ended(how) /\ inFlight' = 0
  /\ err' = (how = "failed")
  /\ retryAt' = IF how = "failed" THEN wall + Cooldown ELSE retryAt
  /\ UNCHANGED <<wall, caller>>

GuardNext ==
  \/ GuardTick \/ End("ok") \/ End("failed")
  \/ \E c \in Callers :
       \/ CheckDone(c) \/ CheckPaused(c) \/ CheckStarts(c)
       \/ CheckJoins(c) \/ Leave(c) \/ Answer(c)

GuardSpec == GuardInit /\ [][GuardNext]_guardVars

-----------------------------------------------------------------------------
(* One run of the plugin at a time, whoever gives up waiting for it: "A     *)
(* canceled caller must not start a second credential process".             *)
SingleFlight ==
  \A i \in DOMAIN attempts : attempts[i].state = "running" <=> i = inFlight

(* After a failure the plugin is left alone for the cool-down: no request,  *)
(* of whichever client, starts it.                                          *)
RestsAfterFailure ==
  \A i, j \in DOMAIN attempts :
    j = i + 1 /\ attempts[i].state = "failed" => attempts[j].began >= attempts[i].ended + Cooldown

(* A request goes out only on credentials that were checked for it: by a    *)
(* run that ended well, and not before the request came.                    *)
AdmittedFresh ==
  \A c \in Callers : caller[c].at = "admitted" =>
    LET a == attempts[caller[c].attempt] IN a.state = "ok" /\ a.ended >= caller[c].came

(* The guard never turns a request away for a failure that is over: who is  *)
(* denied waited for a run that failed while it waited.                     *)
DeniedFresh ==
  \A c \in Callers : caller[c].at = "denied" =>
    LET a == attempts[caller[c].attempt] IN a.state = "failed" /\ a.ended >= caller[c].came

(* Together: one run of the plugin at a time, rest after a failure, and an  *)
(* answer to each request from a run it waited for.                         *)
ExecAuthSound == SingleFlight /\ RestsAfterFailure /\ AdmittedFresh /\ DeniedFresh
=============================================================================
