--------------------------- MODULE WatcherManager ---------------------------
(***************************************************************************)
(* ResourceWatcherManager (app_watchermgr.go): watch loops shared by their *)
(* subscribers through a reference count, stopped by a cleanup timer five  *)
(* seconds after the last one left.  Subscribe and SubscribeCRD, and the   *)
(* two kinds of loop, differ only in how the key is made.  A subscriber is *)
(* one run of the effect of useResourceWatcher: it subscribes, and when it *)
(* is torn down it unsubscribes with the key it was given, or, if the      *)
(* answer is still out, as soon as it has one.  Calls are goroutines of    *)
(* their own, so the backend may serve them in any order.                  *)
(***************************************************************************)
EXTENDS Integers, FiniteSets

CONSTANTS
  Keys,        \* resourceType:namespace
  Clients,     \* runs of the subscribing effect
  Loops,       \* goroutines running a watch loop
  NoLoop,      \* "no watcher in the map"
  Orderly,     \* the calls of torn-down effects come before later subscriptions
  MaxStops,    \* bound: calls of StopAll
  MaxRestarts, \* bound: calls of RestartAll
  MaxStray     \* bound: cleanup callbacks of a key waiting for the mutex

ASSUME ManagerAssumption ==
  /\ IsFiniteSet(Clients)
  /\ NoLoop \notin Loops
  /\ Orderly \in BOOLEAN
  /\ {MaxStops, MaxRestarts, MaxStray} \subseteq Nat

VARIABLES
  watcher,  \* key -> the loop its Cancel belongs to, or NoLoop
  refCount, \* key -> RefCount of the watcher (0 when there is none)
  timer,    \* keys whose CleanupTimer is armed
  stray,    \* key -> cleanup callbacks nobody can stop any more
  loop,     \* loop -> "unused", "running", "cancelled"
  loopKey,  \* loop -> the key it watches
  client,   \* client -> "out", "asking", "abandoned", "in", "leaving"
  wants,    \* client -> key
  joined,   \* history: clients whose Subscribe the present watchers have seen
  stops, restarts

manager == <<watcher, refCount, timer, stray>>
loops == <<loop, loopKey>>
clients == <<client, wants, joined>>
bounds == <<stops, restarts>>
vars == <<manager, loops, clients, bounds>>

TypeOK ==
  /\ watcher \in [Keys -> Loops \cup {NoLoop}]
  /\ refCount \in [Keys -> Int]
  /\ timer \subseteq Keys
  /\ stray \in [Keys -> Nat]
  /\ loop \in [Loops -> {"unused", "running", "cancelled"}]
  /\ loopKey \in [Loops -> Keys]
  /\ client \in [Clients -> {"out", "asking", "abandoned", "in", "leaving"}]
  /\ wants \in [Clients -> Keys]
  /\ joined \subseteq Clients
  /\ \A k \in Keys : watcher[k] = NoLoop => refCount[k] = 0 /\ k \notin timer
  /\ stops \in Nat /\ restarts \in Nat

Init ==
  /\ watcher = [k \in Keys |-> NoLoop]
  /\ refCount = [k \in Keys |-> 0]
  /\ timer = {}
  /\ stray = [k \in Keys |-> 0]
  /\ loop = [l \in Loops |-> "unused"]
  /\ \E k \in Keys : /\ loopKey = [l \in Loops |-> k]
                     /\ wants = [c \in Clients |-> k]
  /\ client = [c \in Clients |-> "out"]
  /\ joined = {}
  /\ stops = 0 /\ restarts = 0

Active(k) == watcher[k] # NoLoop

(* Clients of k that hold a subscription of an earlier set of watchers. *)
Stale(k) == {c \in Clients \ joined : wants[c] = k /\ client[c] \in {"in", "leaving"}}

-----------------------------------------------------------------------------
(* The subscribing effect.                                                 *)

Mount(c, k) ==
  /\ client[c] = "out"
  /\ client' = [client EXCEPT ![c] = "asking"]
  /\ wants' = [wants EXCEPT ![c] = k]
  /\ UNCHANGED <<manager, loops, joined, bounds>>

(* The effect is torn down: with a key it unsubscribes, without one it will *)
(* when the key arrives.                                                   *)
Unmount(c) ==
  /\ client[c] \in {"asking", "in"}
  /\ client' = [client EXCEPT ![c] = IF @ = "in" THEN "leaving" ELSE "abandoned"]
  /\ UNCHANGED <<manager, loops, wants, joined, bounds>>

-----------------------------------------------------------------------------
(* The manager: each operation is one critical section of m.mutex.         *)

StartLoop(l, k) ==
  /\ loop[l] = "unused"
  /\ loopKey' = [loopKey EXCEPT ![l] = k]

(* Mutant: a pending cleanup is not cancelled and the count starts at 0. *)
SubscribeUncounted(c) ==
  LET k == wants[c] IN
  /\ client[c] \in {"asking", "abandoned"}
  /\ Orderly => Stale(k) = {}
  /\ timer' = timer \ {k}
  /\ IF Active(k)
     THEN /\ refCount' = [refCount EXCEPT ![k] = @ + 1]
          /\ UNCHANGED <<watcher, loops>>
     ELSE \E l \in Loops :
          /\ StartLoop(l, k)
          /\ loop' = [loop EXCEPT ![l] = "running"]
          /\ watcher' = [watcher EXCEPT ![k] = l]
          /\ refCount' = [refCount EXCEPT ![k] = 0]
  /\ client' = [client EXCEPT ![c] = IF @ = "asking" THEN "in" ELSE "leaving"]
  /\ joined' = joined \cup {c}
  /\ UNCHANGED <<stray, wants, bounds>>

(* Subscribe reuses the watcher of the key or starts one; the new record   *)
(* has no timer.                                                           *)
Subscribe(c) ==
  LET k == wants[c] IN
  /\ client[c] \in {"asking", "abandoned"}
  /\ Orderly => Stale(k) = {}
  /\ timer' = timer \ {k}
  /\ IF Active(k)
     THEN /\ refCount' = [refCount EXCEPT ![k] = @ + 1]
          /\ UNCHANGED <<watcher, loops>>
     ELSE \E l \in Loops :
          /\ StartLoop(l, k)
          /\ loop' = [loop EXCEPT ![l] = "running"]
          /\ watcher' = [watcher EXCEPT ![k] = l]
          /\ refCount' = [refCount EXCEPT ![k] = 1]
  /\ client' = [client EXCEPT ![c] = IF @ = "asking" THEN "in" ELSE "leaving"]
  /\ joined' = joined \cup {c}
  /\ UNCHANGED <<stray, wants, bounds>>

(* Mutant: the cleanup is scheduled only when the count hits 0 from above  *)
(* and the pending timer is dropped.                                       *)
UnsubscribeNoTimer(c) ==
  LET k == wants[c] IN
  /\ client[c] = "leaving"
  /\ refCount' = [refCount EXCEPT ![k] = IF Active(k) THEN @ - 1 ELSE @]
  /\ UNCHANGED <<timer, stray>>
  /\ client' = [client EXCEPT ![c] = "out"]
  /\ joined' = joined \ {c}
  /\ UNCHANGED <<watcher, loops, wants, bounds>>

(* Unsubscribe looks the watcher up by key: it may be another one than the *)
(* client subscribed to.  At 0 or below a timer is armed, and the one that *)
(* was armed before keeps running.                                         *)
Unsubscribe(c) ==
  LET k == wants[c] IN
  /\ client[c] = "leaving"
  /\ refCount' = [refCount EXCEPT ![k] = IF Active(k) THEN @ - 1 ELSE @]
  /\ IF Active(k) /\ refCount[k] <= 1
     THEN /\ timer' = timer \cup {k}
          /\ stray' = [stray EXCEPT ![k] = IF k \in timer THEN @ + 1 ELSE @]
     ELSE UNCHANGED <<timer, stray>>
  /\ client' = [client EXCEPT ![c] = "out"]
  /\ joined' = joined \ {c}
  /\ UNCHANGED <<watcher, loops, wants, bounds>>

TimerFires(k) ==
  /\ k \in timer
  /\ stray[k] < MaxStray
  /\ timer' = timer \ {k}
  /\ stray' = [stray EXCEPT ![k] = @ + 1]
  /\ UNCHANGED <<watcher, refCount, loops, clients, bounds>>

(* Mutant: cleanup does not look at the count again. *)
CleanupUnchecked(k) ==
  /\ stray[k] > 0
  /\ IF Active(k)
     THEN /\ loop' = [loop EXCEPT ![watcher[k]] = "cancelled"]
          /\ watcher' = [watcher EXCEPT ![k] = NoLoop]
          /\ refCount' = [refCount EXCEPT ![k] = 0]
          /\ timer' = timer \ {k}
          /\ stray' = [stray EXCEPT ![k] = IF k \in timer THEN @ ELSE @ - 1]
     ELSE /\ stray' = [stray EXCEPT ![k] = @ - 1]
          /\ UNCHANGED <<watcher, refCount, timer, loop>>
  /\ UNCHANGED <<loopKey, clients, bounds>>

(* Mutant: the count is compared with < 0. *)
CleanupBelowZero(k) ==
  /\ stray[k] > 0
  /\ IF Active(k) /\ refCount[k] < 0
     THEN /\ loop' = [loop EXCEPT ![watcher[k]] = "cancelled"]
          /\ watcher' = [watcher EXCEPT ![k] = NoLoop]
          /\ refCount' = [refCount EXCEPT ![k] = 0]
          /\ timer' = timer \ {k}
          /\ stray' = [stray EXCEPT ![k] = IF k \in timer THEN @ ELSE @ - 1]
     ELSE /\ stray' = [stray EXCEPT ![k] = @ - 1]
          /\ UNCHANGED <<watcher, refCount, timer, loop>>
  /\ UNCHANGED <<loopKey, clients, bounds>>

(* cleanup, some time after its timer fired.  It may find a newer watcher. *)
(* It forgets the record, whose timer, if one is armed, keeps running.     *)
Cleanup(k) ==
  /\ stray[k] > 0
  /\ IF Active(k) /\ refCount[k] <= 0
     THEN /\ loop' = [loop EXCEPT ![watcher[k]] = "cancelled"]
          /\ watcher' = [watcher EXCEPT ![k] = NoLoop]
          /\ refCount' = [refCount EXCEPT ![k] = 0]
          /\ timer' = timer \ {k}
          /\ stray' = [stray EXCEPT ![k] = IF k \in timer THEN @ ELSE @ - 1]
     ELSE /\ stray' = [stray EXCEPT ![k] = @ - 1]
          /\ UNCHANGED <<watcher, refCount, timer, loop>>
  /\ UNCHANGED <<loopKey, clients, bounds>>

(* Mutant: pending cleanup timers are not stopped with their watchers. *)
StopAllKeepsTimers ==
  /\ stops < MaxStops
  /\ stops' = stops + 1
  /\ loop' = [l \in Loops |-> IF \E k \in Keys : watcher[k] = l THEN "cancelled" ELSE loop[l]]
  /\ watcher' = [k \in Keys |-> NoLoop]
  /\ refCount' = [k \in Keys |-> 0]
  /\ joined' = {}
  /\ UNCHANGED <<timer, stray, loopKey, client, wants, restarts>>

(* StopAll: a context switch, or the end of the streaming mode. *)
StopAll ==
  /\ stops < MaxStops
  /\ stops' = stops + 1
  /\ timer' = {}
  /\ loop' = [l \in Loops |-> IF \E k \in Keys : watcher[k] = l THEN "cancelled" ELSE loop[l]]
  /\ watcher' = [k \in Keys |-> NoLoop]
  /\ refCount' = [k \in Keys |-> 0]
  /\ joined' = {}
  /\ UNCHANGED <<stray, loopKey, client, wants, restarts>>

Restarted == {k \in Keys : Active(k) /\ refCount[k] > 0}

(* Mutant: RestartAll starts the new loops without cancelling the old. *)
RestartAllKeepsOld ==
  /\ restarts < MaxRestarts
  /\ restarts' = restarts + 1
  /\ \E new \in [Restarted -> {l \in Loops : loop[l] = "unused"}] :
       /\ \A j, k \in Restarted : new[j] = new[k] => j = k
       /\ watcher' = [k \in Keys |-> IF k \in Restarted THEN new[k] ELSE watcher[k]]
       /\ loop' = [l \in Loops |-> IF \E k \in Restarted : new[k] = l THEN "running" ELSE loop[l]]
       /\ loopKey' = [l \in Loops |->
            IF \E k \in Restarted : new[k] = l
            THEN CHOOSE k \in Restarted : new[k] = l ELSE loopKey[l]]
  /\ UNCHANGED <<refCount, timer, stray, clients, stops>>

(* RestartAll: the watchers with subscribers get a new loop, all in one    *)
(* critical section; idle ones keep theirs.                                *)
RestartAll ==
  /\ restarts < MaxRestarts
  /\ restarts' = restarts + 1
  /\ \E new \in [Restarted -> {l \in Loops : loop[l] = "unused"}] :
       /\ \A j, k \in Restarted : new[j] = new[k] => j = k
       /\ watcher' = [k \in Keys |-> IF k \in Restarted THEN new[k] ELSE watcher[k]]
       /\ loop' = [l \in Loops |->
            IF \E k \in Restarted : new[k] = l THEN "running"
            ELSE IF \E k \in Restarted : watcher[k] = l THEN "cancelled"
            ELSE loop[l]]
       /\ loopKey' = [l \in Loops |->
            IF \E k \in Restarted : new[k] = l
            THEN CHOOSE k \in Restarted : new[k] = l ELSE loopKey[l]]
  /\ UNCHANGED <<refCount, timer, stray, clients, stops>>

(* A loop notices that its context is cancelled and returns; its name is   *)
(* free for a new goroutine, so Loops bounds the loops alive at a time.    *)
LoopEnds(l) ==
  /\ loop[l] = "cancelled"
  /\ loop' = [loop EXCEPT ![l] = "unused"]
  /\ UNCHANGED <<manager, loopKey, clients, bounds>>

Next ==
  \/ \E c \in Clients :
       \/ \E k \in Keys : Mount(c, k)
       \/ Unmount(c) \/ Subscribe(c) \/ Unsubscribe(c)
  \/ \E k \in Keys : TimerFires(k) \/ Cleanup(k)
  \/ StopAll \/ RestartAll
  \/ \E l \in Loops : LoopEnds(l)

Spec == Init /\ [][Next]_vars

(* Calls that were made are served, timers fire, their callbacks get the   *)
(* mutex and cancelled loops return.                                       *)
Fairness ==
  /\ \A c \in Clients : WF_vars(Unsubscribe(c))
  /\ \A k \in Keys : WF_vars(TimerFires(k)) /\ WF_vars(Cleanup(k))
  /\ \A l \in Loops : WF_vars(LoopEnds(l))

FairSpec == Spec /\ Fairness

-----------------------------------------------------------------------------
Counted(k) == {c \in joined : wants[c] = k}

(* The reference count is the number of clients that subscribed to the     *)
(* watcher and have not unsubscribed, through restarts, late cleanups and  *)
(* effects torn down before their answer came.                             *)
CountExact == \A k \in Keys : Active(k) => refCount[k] = Cardinality(Counted(k))

(* Whoever was given a key and still listens has a running loop: no order  *)
(* of timers, late callbacks and other clients' departures stops it.       *)
SubscribedIsWatched ==
  \A c \in joined : Active(wants[c]) /\ loop[watcher[wants[c]]] = "running"

(* No leaked goroutine: a loop runs if and only if the map refers to it,   *)
(* so there is at most one per key and Cancel can reach every one.         *)
NoLeakedLoop ==
  \A l \in Loops : loop[l] = "running" <=> watcher[loopKey[l]] = l

(* A watcher nobody uses is on its way out: a cleanup will find it. *)
IdleIsScheduled ==
  \A k \in Keys : Active(k) /\ Counted(k) = {} => k \in timer \/ stray[k] > 0

(* The manager's account is exact: a loop runs if and only if somebody      *)
(* needs it, or will be stopped by a cleanup that is scheduled.             *)
WatchesExact == CountExact /\ SubscribedIsWatched /\ NoLeakedLoop /\ IdleIsScheduled

(* A watch stops after its last subscriber has left, unless one returns.   *)
StopsWhenUnused ==
  \A k \in Keys : (Active(k) /\ Counted(k) = {}) ~> (~Active(k) \/ Counted(k) # {})

(* The manager implements SharedWatch: a watch ends only when nobody uses  *)
(* it, whatever the timers do.                                             *)
Promise == INSTANCE SharedWatch WITH
  users <- joined, on <- {k \in Keys : Active(k)}
ImplementsSharedWatch == Promise!Spec
=============================================================================
