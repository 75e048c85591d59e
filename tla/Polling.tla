------------------------------ MODULE Polling ------------------------------
(***************************************************************************)
(* Polling mode: the clock that polls every subscribed view and sleeps     *)
(* until all of them have settled (startCompletionPolling, K8sContext),    *)
(* the polls of the views (useCompletionPolling), and the budget that lets *)
(* only a few requests run at a time (createPollingBudget).  A poll that   *)
(* had to wait takes its slot in a step of its own, after the release that *)
(* woke it.                                                                *)
(***************************************************************************)
EXTENDS Integers, SequencesExt

CONSTANTS
  Polls,  \* polls that may be registered at the same time
  Slots   \* maxConcurrent

ASSUME PollingAssumption == Slots \in Nat \ {0} /\ IsFiniteSet(Polls)

VARIABLES
  racy,      \* polls may ask for a slot before the woken one has taken its own
  clock,     \* "off", "timer": asleep, or "polling": a round is under way
  awaited,   \* polls the round waits for
  at,        \* where each poll is
  canceled,  \* polls that were unregistered while under way
  waiting,   \* the budget's queue
  active     \* the budget's counter

vars == <<racy, clock, awaited, at, canceled, waiting, active>>

In(place) == {p \in Polls : at[p] = place}

TypeOK ==
  /\ racy \in BOOLEAN
  /\ clock \in {"off", "timer", "polling"}
  /\ awaited \subseteq Polls /\ canceled \subseteq Polls
  /\ at \in [Polls -> {"gone", "idle", "waiting", "woken", "running"}]
  /\ waiting \in Seq(Polls) /\ active \in Int

Init ==
  /\ racy \in BOOLEAN
  /\ clock = "off" /\ awaited = {} /\ canceled = {} /\ active = 0 /\ waiting = <<>>
  /\ at = [p \in Polls |-> "gone"]

(* The microtasks of a release run before the next one asks for a slot. *)
Turn == racy \/ In("woken") = {}

-----------------------------------------------------------------------------
(* The budget.                                                              *)

(* Mutant: one request more than allowed. *)
FitsOneMore(n) ==
  IF active > Slots THEN 0 ELSE IF n <= Slots + 1 - active THEN n ELSE Slots + 1 - active

(* How many of n polls find a free slot. *)
Fits(n) == IF active >= Slots THEN 0 ELSE IF n <= Slots - active THEN n ELSE Slots - active

(* acquire, by several polls one after the other: those that find a slot   *)
(* run, the others queue.                                                   *)
Acquire(polls) ==
  \E now \in SUBSET polls :
    /\ Cardinality(now) = Fits(Cardinality(polls))
    /\ \E line \in SetToSeqs(polls \ now) : waiting' = waiting \o line
    /\ active' = active + Cardinality(now)
    /\ at' = [p \in Polls |-> IF p \in now THEN "running" ELSE IF p \in polls THEN "waiting" ELSE at[p]]

(* The continuation of acquire after the wait. *)
Continue(p) ==
  /\ at[p] = "woken"
  /\ at' = [at EXCEPT ![p] = "running"] /\ active' = active + 1
  /\ UNCHANGED <<racy, clock, awaited, canceled, waiting>>

Settled(p) == IF p \in canceled THEN "gone" ELSE "idle"

(* Mutant: a release wakes nobody. *)
SettleSilently(p) ==
  /\ at[p] = "running"
  /\ active' = active - 1
  /\ at' = [at EXCEPT ![p] = Settled(p)] /\ UNCHANGED waiting
  /\ awaited' = awaited \ {p} /\ canceled' = canceled \ {p}
  /\ UNCHANGED <<racy, clock>>

(* A poll ends, with an answer or an error, and its release wakes the next; *)
(* one that was canceled while it waited ends as soon as it has its slot.   *)
Settle(p) ==
  /\ at[p] = "running"
  /\ active' = active - 1
  /\ IF waiting = <<>> THEN at' = [at EXCEPT ![p] = Settled(p)] /\ UNCHANGED waiting
     ELSE /\ at' = [at EXCEPT ![p] = Settled(p), ![Head(waiting)] = "woken"]
          /\ waiting' = Tail(waiting)
  /\ awaited' = awaited \ {p} /\ canceled' = canceled \ {p}
  /\ UNCHANGED <<racy, clock>>

-----------------------------------------------------------------------------
(* The views.                                                               *)

Register(p) ==
  /\ Turn /\ at[p] = "gone"
  /\ at' = [at EXCEPT ![p] = "idle"]
  /\ UNCHANGED <<racy, clock, awaited, canceled, waiting, active>>

(* The cleanup of the effect: nothing starts any more, a poll under way     *)
(* goes on.                                                                 *)
Unregister(p) ==
  /\ Turn /\ at[p] # "gone" /\ p \notin canceled
  /\ IF at[p] = "idle" THEN at' = [at EXCEPT ![p] = "gone"] /\ UNCHANGED canceled
     ELSE canceled' = canceled \cup {p} /\ UNCHANGED at
  /\ UNCHANGED <<racy, clock, awaited, waiting, active>>

(* A refresh by the user, with refreshOnDemand. *)
Refresh(p) ==
  /\ Turn /\ at[p] = "idle" /\ Acquire({p})
  /\ UNCHANGED <<racy, clock, awaited, canceled>>

-----------------------------------------------------------------------------
(* The clock.                                                               *)

(* The clock of the context and mode of this render; it starts asleep.  A   *)
(* round of the one before it goes on, but does not set its timer again.    *)
Start ==
  /\ Turn /\ clock = "off"
  /\ clock' = "timer"
  /\ UNCHANGED <<racy, awaited, at, canceled, waiting, active>>

Stop ==
  /\ Turn /\ clock # "off"
  /\ clock' = "off" /\ awaited' = {}
  /\ UNCHANGED <<racy, at, canceled, waiting, active>>

(* The timer fires: every registered poll is called, and returns at once    *)
(* if it is still under way.                                                *)
Tick ==
  /\ Turn /\ clock = "timer"
  /\ clock' = "polling" /\ awaited' = In("idle") /\ Acquire(In("idle"))
  /\ UNCHANGED <<racy, canceled>>

(* All polls of the round have settled. *)
Rearm ==
  /\ clock = "polling" /\ awaited = {}
  /\ clock' = "timer"
  /\ UNCHANGED <<racy, awaited, at, canceled, waiting, active>>

Next ==
  \/ Start \/ Stop \/ Tick \/ Rearm
  \/ \E p \in Polls : Continue(p) \/ Settle(p) \/ Register(p) \/ Unregister(p) \/ Refresh(p)

Spec == Init /\ [][Next]_vars

(* Requests end; microtasks run. *)
Fairness == WF_vars(Rearm) /\ \A p \in Polls : WF_vars(Settle(p)) /\ WF_vars(Continue(p))

FairSpec == Spec /\ Fairness

-----------------------------------------------------------------------------
(* The counter of the budget is the number of polls that run: no slot is    *)
(* lost or released twice, whatever was canceled in which state.            *)
SlotsExact == active = Cardinality(In("running"))

(* No lost wake-up: while a poll waits, every slot is taken or promised.    *)
NoLostWakeup == waiting # <<>> => active + Cardinality(In("woken")) >= Slots

(* The queue holds the polls that wait, each once: none is forgotten and    *)
(* none runs twice.                                                         *)
QueueExact == ToSet(waiting) = In("waiting") /\ IsInjective(waiting)

(* "caps concurrent operations", unless a poll slips in before a woken one. *)
BudgetKept == ~racy => Cardinality(In("running") \cup In("woken")) <= Slots

(* The four together: however polls are registered, canceled, refreshed and *)
(* woken, no slot is lost and nobody is forgotten.                          *)
BudgetExact == SlotsExact /\ NoLostWakeup /\ QueueExact /\ BudgetKept

(* The clock goes on after every round, and no poll waits for ever.         *)
RoundsEnd ==
  /\ clock = "polling" ~> clock # "polling"
  /\ \A p \in Polls : at[p] = "waiting" ~> at[p] = "running"
=============================================================================
