----------------------- MODULE WatcherManager_proofs -----------------------
(***************************************************************************)
(* Proofs about WatcherManager for every set of keys, clients and loops.   *)
(* What needs the order of the frontend's calls assumes Orderly.           *)
(***************************************************************************)
EXTENDS WatcherManager, FiniteSetTheorems, TLAPS

USE DEF vars, manager, loops, clients, bounds, Active

-----------------------------------------------------------------------------
(* Type correctness. *)

(* The initial state is well typed. *)
LEMMA InitType == Init => TypeOK
BY ManagerAssumption DEF Init, TypeOK

(* RestartAll keeps the types. *)
LEMMA RestartType == TypeOK /\ RestartAll => TypeOK'
<1> SUFFICES ASSUME TypeOK, RestartAll PROVE TypeOK'
  OBVIOUS
<1>1. PICK new \in [Restarted -> {l \in Loops : loop[l] = "unused"}] :
        /\ watcher' = [k \in Keys |-> IF k \in Restarted THEN new[k] ELSE watcher[k]]
        /\ loop' = [l \in Loops |->
             IF \E k \in Restarted : new[k] = l THEN "running"
             ELSE IF \E k \in Restarted : watcher[k] = l THEN "cancelled"
             ELSE loop[l]]
        /\ loopKey' = [l \in Loops |->
             IF \E k \in Restarted : new[k] = l
             THEN CHOOSE k \in Restarted : new[k] = l ELSE loopKey[l]]
  BY DEF RestartAll
<1>2. Restarted \subseteq Keys /\ \A k \in Restarted : new[k] \in Loops
  BY DEF Restarted
<1>3. watcher' \in [Keys -> Loops \cup {NoLoop}]
  BY <1>1, <1>2 DEF TypeOK
<1>4. loop' \in [Loops -> {"unused", "running", "cancelled"}]
  BY <1>1 DEF TypeOK
<1>5. loopKey' \in [Loops -> Keys]
  BY <1>1, <1>2 DEF TypeOK
<1>6. \A k \in Keys : watcher'[k] = NoLoop => watcher[k] = NoLoop
  BY <1>1, <1>2, ManagerAssumption
<1>7. restarts' \in Nat
  BY DEF RestartAll, TypeOK
<1>8. QED
  BY <1>3, <1>4, <1>5, <1>6, <1>7 DEF RestartAll, TypeOK

(* Every step keeps the types. *)
LEMMA NextType == TypeOK /\ [Next]_vars => TypeOK'
<1> SUFFICES ASSUME TypeOK, [Next]_vars PROVE TypeOK'
  OBVIOUS
<1>1. ASSUME NEW c \in Clients, NEW k \in Keys, Mount(c, k) PROVE TypeOK'
  BY <1>1 DEF Mount, TypeOK
<1>2. ASSUME NEW c \in Clients, Unmount(c) PROVE TypeOK'
  BY <1>2 DEF Unmount, TypeOK
<1>3. ASSUME NEW c \in Clients, Subscribe(c) PROVE TypeOK'
  <2>1. CASE Active(wants[c])
    BY <1>3, <2>1 DEF Subscribe, TypeOK
  <2>2. CASE ~Active(wants[c])
    BY <1>3, <2>2, ManagerAssumption DEF Subscribe, StartLoop, TypeOK
  <2>3. QED
    BY <2>1, <2>2
<1>4. ASSUME NEW c \in Clients, Unsubscribe(c) PROVE TypeOK'
  BY <1>4 DEF Unsubscribe, TypeOK
<1>5. ASSUME NEW k \in Keys, TimerFires(k) PROVE TypeOK'
  BY <1>5 DEF TimerFires, TypeOK
<1>6. ASSUME NEW k \in Keys, Cleanup(k) PROVE TypeOK'
  BY <1>6 DEF Cleanup, TypeOK
<1>7. CASE StopAll
  BY <1>7 DEF StopAll, TypeOK
<1>8. CASE RestartAll
  BY <1>8, RestartType
<1>9. ASSUME NEW l \in Loops, LoopEnds(l) PROVE TypeOK'
  BY <1>9 DEF LoopEnds, TypeOK
<1>10. CASE UNCHANGED vars
  BY <1>10 DEF TypeOK
<1>11. QED
  BY <1>1, <1>2, <1>3, <1>4, <1>5, <1>6, <1>7, <1>8, <1>9, <1>10 DEF Next

(* The maps, counters and client states keep their types, and a key without *)
(* a record has neither a count nor a timer.                                *)
THEOREM TypeCorrect == Spec => []TypeOK
BY InitType, NextType, PTL DEF Spec

-----------------------------------------------------------------------------
(* No loop is leaked: the map refers to every running loop, from its key.  *)

LoopInv ==
  /\ NoLeakedLoop
  /\ \A k \in Keys : Active(k) => loopKey[watcher[k]] = k

(* RestartAll gives every entry a loop of its own. *)
LEMMA RestartLoops == TypeOK /\ LoopInv /\ RestartAll => LoopInv'
<1> SUFFICES ASSUME TypeOK, LoopInv, RestartAll PROVE LoopInv'
  OBVIOUS
<1>1. PICK new \in [Restarted -> {l \in Loops : loop[l] = "unused"}] :
        /\ \A j, k \in Restarted : new[j] = new[k] => j = k
        /\ watcher' = [k \in Keys |-> IF k \in Restarted THEN new[k] ELSE watcher[k]]
        /\ loop' = [l \in Loops |->
             IF \E k \in Restarted : new[k] = l THEN "running"
             ELSE IF \E k \in Restarted : watcher[k] = l THEN "cancelled"
             ELSE loop[l]]
        /\ loopKey' = [l \in Loops |->
             IF \E k \in Restarted : new[k] = l
             THEN CHOOSE k \in Restarted : new[k] = l ELSE loopKey[l]]
  BY DEF RestartAll
<1>2. /\ Restarted \subseteq Keys
      /\ \A k \in Restarted : new[k] \in Loops /\ loop[new[k]] = "unused"
      /\ \A k \in Restarted : watcher[k] # NoLoop
  BY DEF Restarted
(* A loop that is started is referred to from its key and from no other. *)
<1>3. ASSUME NEW k \in Restarted
      PROVE  loopKey'[new[k]] = k /\ watcher'[k] = new[k] /\ loop'[new[k]] = "running"
  <2>1. (CHOOSE j \in Restarted : new[j] = new[k]) = k
    BY <1>1
  <2>2. QED
    BY <1>1, <1>2, <2>1
(* Every other loop is where it was, unless it was replaced. *)
<1>4. ASSUME NEW l \in Loops, ~\E k \in Restarted : new[k] = l
      PROVE  loop'[l] = "running" <=> watcher'[loopKey'[l]] = l
  <2>1. loopKey'[l] = loopKey[l] /\ loopKey[l] \in Keys
    BY <1>1, <1>4 DEF TypeOK
  <2>2. CASE loopKey[l] \in Restarted
    <3>1. watcher'[loopKey'[l]] # l
      BY <1>1, <1>4, <2>1, <2>2
    <3>2. loop[l] = "running" => watcher[loopKey[l]] = l
      BY DEF LoopInv, NoLeakedLoop
    <3>3. loop'[l] # "running"
      BY <1>1, <1>4, <2>2, <3>2
    <3>4. QED
      BY <3>1, <3>3
  <2>3. CASE loopKey[l] \notin Restarted
    <3>1. watcher'[loopKey'[l]] = watcher[loopKey[l]]
      BY <1>1, <2>1, <2>3
    <3>2. ~\E k \in Restarted : watcher[k] = l
      BY <1>2, <2>3 DEF LoopInv
    <3>3. loop'[l] = loop[l]
      BY <1>1, <1>4, <3>2
    <3>4. QED
      BY <3>1, <3>3 DEF LoopInv, NoLeakedLoop
  <2>4. QED
    BY <2>2, <2>3
<1>5. NoLeakedLoop'
  BY <1>3, <1>4 DEF NoLeakedLoop
<1>6. ASSUME NEW k \in Keys, watcher'[k] # NoLoop PROVE loopKey'[watcher'[k]] = k
  <2>1. CASE k \in Restarted
    BY <1>3, <2>1
  <2>2. CASE k \notin Restarted
    <3>1. watcher'[k] = watcher[k] /\ watcher[k] \in Loops
      BY <1>1, <1>6, <2>2 DEF TypeOK
    <3>2. loopKey[watcher[k]] = k /\ loop[watcher[k]] = "running"
      BY <1>6, <3>1 DEF LoopInv, NoLeakedLoop
    <3>3. ~\E j \in Restarted : new[j] = watcher[k]
      BY <1>2, <3>2
    <3>4. QED
      BY <1>1, <3>1, <3>2, <3>3
  <2>3. QED
    BY <2>1, <2>2
<1>7. QED
  BY <1>5, <1>6 DEF LoopInv

(* Every step keeps the map and the loops that run in step. *)
LEMMA LoopStep == TypeOK /\ LoopInv /\ [Next]_vars => LoopInv'
<1> SUFFICES ASSUME TypeOK, LoopInv, [Next]_vars PROVE LoopInv'
  OBVIOUS
<1>1. ASSUME NEW c \in Clients, (\E k \in Keys : Mount(c, k)) \/ Unmount(c) \/ Unsubscribe(c)
      PROVE  LoopInv'
  BY <1>1 DEF Mount, Unmount, Unsubscribe, LoopInv, NoLeakedLoop
<1>2. ASSUME NEW c \in Clients, Subscribe(c) PROVE LoopInv'
  <2>1. CASE Active(wants[c])
    BY <1>2, <2>1 DEF Subscribe, LoopInv, NoLeakedLoop
  <2>2. CASE ~Active(wants[c])
    BY <1>2, <2>2, ManagerAssumption DEF Subscribe, StartLoop, LoopInv, NoLeakedLoop, TypeOK
  <2>3. QED
    BY <2>1, <2>2
<1>3. ASSUME NEW k \in Keys, TimerFires(k) PROVE LoopInv'
  BY <1>3 DEF TimerFires, LoopInv, NoLeakedLoop
<1>4. ASSUME NEW k \in Keys, Cleanup(k) PROVE LoopInv'
  BY <1>4, ManagerAssumption DEF Cleanup, LoopInv, NoLeakedLoop, TypeOK
<1>5. CASE StopAll
  BY <1>5, ManagerAssumption DEF StopAll, LoopInv, NoLeakedLoop, TypeOK
<1>6. CASE RestartAll
  BY <1>6, RestartLoops
<1>7. ASSUME NEW l \in Loops, LoopEnds(l) PROVE LoopInv'
  BY <1>7 DEF LoopEnds, LoopInv, NoLeakedLoop, TypeOK
<1>8. CASE UNCHANGED vars
  BY <1>8 DEF LoopInv, NoLeakedLoop
<1>9. QED
  BY <1>1, <1>2, <1>3, <1>4, <1>5, <1>6, <1>7, <1>8 DEF Next

(* A loop runs if and only if the map refers to it, whatever the order of  *)
(* the calls.                                                              *)
THEOREM NoLeak == Spec => []NoLeakedLoop
<1>1. Init => LoopInv
  BY ManagerAssumption DEF Init, LoopInv, NoLeakedLoop
<1>2. LoopInv => NoLeakedLoop
  BY DEF LoopInv
<1>3. QED
  BY <1>1, <1>2, LoopStep, TypeCorrect, PTL DEF Spec

-----------------------------------------------------------------------------
(* The reference count, when a key without subscriptions of an earlier set *)
(* of watchers is the only one a client can subscribe to.                  *)

CountInv ==
  /\ \A c \in joined : client[c] \in {"in", "leaving"} /\ watcher[wants[c]] # NoLoop
  /\ \A k \in Keys : watcher[k] # NoLoop => Stale(k) = {}
  /\ CountExact

(* Finitely many clients are counted for a key. *)
LEMMA CountedFinite == \A k \in Keys : IsFiniteSet({c \in Clients : c \in joined /\ wants[c] = k})
<1> SUFFICES ASSUME NEW k \in Keys
             PROVE  IsFiniteSet({c \in Clients : c \in joined /\ wants[c] = k})
  OBVIOUS
<1>1. {c \in Clients : c \in joined /\ wants[c] = k} \subseteq Clients
  OBVIOUS
<1>2. QED
  BY <1>1, FS_Subset, ManagerAssumption

(* The same in the words of the invariant. *)
LEMMA CountedIsFinite == TypeOK => \A k \in Keys : IsFiniteSet(Counted(k))
<1> SUFFICES ASSUME TypeOK, NEW k \in Keys PROVE IsFiniteSet(Counted(k))
  OBVIOUS
<1>1. Counted(k) = {c \in Clients : c \in joined /\ wants[c] = k}
  BY DEF Counted, TypeOK
<1>2. QED
  BY <1>1, CountedFinite

(* Subscribe adds the client to the counted ones, and 1 to the count. *)
LEMMA SubscribeCounts ==
  ASSUME Orderly, TypeOK, CountInv, NEW c \in Clients, Subscribe(c)
  PROVE  CountInv'
<1>0. PICK k \in Keys : k = wants[c]
  BY DEF TypeOK
<1>1. c \notin joined /\ Stale(k) = {}
  BY <1>0 DEF Subscribe, CountInv, TypeOK
<1>2. /\ wants' = wants /\ joined' = joined \cup {c}
      /\ \A d \in Clients \ {c} : client'[d] = client[d]
      /\ client'[c] \in {"in", "leaving"}
  BY DEF Subscribe, TypeOK
<1>3. /\ watcher'[k] # NoLoop
      /\ \A j \in Keys \ {k} : watcher'[j] = watcher[j] /\ refCount'[j] = refCount[j]
      /\ refCount'[k] = IF Active(k) THEN refCount[k] + 1 ELSE 1
  <2>1. CASE Active(k)
    BY <1>0, <2>1 DEF Subscribe, TypeOK
  <2>2. CASE ~Active(k)
    BY <1>0, <2>2, ManagerAssumption DEF Subscribe, TypeOK
  <2>3. QED
    BY <2>1, <2>2
<1>4. Counted(k)' = Counted(k) \cup {c} /\ \A j \in Keys \ {k} : Counted(j)' = Counted(j)
  BY <1>0, <1>2 DEF Counted
<1>5. Cardinality(Counted(k)') = Cardinality(Counted(k)) + 1
  <2>1. c \notin Counted(k)
    BY <1>1 DEF Counted
  <2>2. QED
    BY <1>1, <1>4, <2>1, CountedIsFinite, FS_AddElement
<1>6. refCount'[k] = Cardinality(Counted(k)')
  <2>1. CASE Active(k)
    BY <1>3, <1>5, <2>1 DEF CountExact, CountInv
  <2>2. CASE ~Active(k)
    <3>1. Counted(k) = {}
      BY <2>2 DEF CountInv, Counted
    <3>2. Cardinality(Counted(k)') = 1
      BY <1>5, <3>1, FS_EmptySet
    <3>3. QED
      BY <1>3, <2>2, <3>2
  <2>3. QED
    BY <2>1, <2>2
<1>6a. ASSUME NEW j \in Keys, watcher'[j] # NoLoop PROVE refCount'[j] = Cardinality(Counted(j)')
  BY <1>3, <1>4, <1>6, <1>6a DEF CountExact, CountInv
<1>6b. CountExact'
  BY <1>6a DEF CountExact
<1>7. \A d \in joined' : client'[d] \in {"in", "leaving"} /\ watcher'[wants'[d]] # NoLoop
  BY <1>0, <1>2, <1>3 DEF CountInv, TypeOK
<1>8. \A j \in Keys : watcher'[j] # NoLoop => Stale(j)' = {}
  <2>1. \A j \in Keys : Stale(j)' \subseteq Stale(j)
    BY <1>2 DEF Stale
  <2>2. QED
    BY <1>1, <1>3, <2>1 DEF CountInv
<1>9. QED
  BY <1>6b, <1>7, <1>8 DEF CountInv

(* Unsubscribe finds the watcher its client is counted in, or none. *)
LEMMA UnsubscribeCounts ==
  ASSUME Orderly, TypeOK, CountInv, NEW c \in Clients, Unsubscribe(c)
  PROVE  CountInv'
<1>0. PICK k \in Keys : k = wants[c]
  BY DEF TypeOK
<1>1. client[c] = "leaving"
  BY DEF Unsubscribe
<1>2. /\ wants' = wants /\ watcher' = watcher /\ joined' = joined \ {c}
      /\ \A d \in Clients \ {c} : client'[d] = client[d]
      /\ client'[c] = "out"
      /\ \A j \in Keys \ {k} : refCount'[j] = refCount[j]
      /\ Active(k) => refCount'[k] = refCount[k] - 1
  BY <1>0, <1>1 DEF Unsubscribe, TypeOK
<1>3. Active(k) => c \in joined
  BY <1>0, <1>1 DEF CountInv, Stale
<1>4. Counted(k)' = Counted(k) \ {c} /\ \A j \in Keys \ {k} : Counted(j)' = Counted(j)
  BY <1>0, <1>2 DEF Counted
<1>5. Active(k) => Cardinality(Counted(k)') = Cardinality(Counted(k)) - 1
  <2>1. Active(k) => c \in Counted(k)
    BY <1>0, <1>3 DEF Counted
  <2>2. QED
    BY <1>1, <1>4, <2>1, CountedIsFinite, FS_RemoveElement
<1>6. ASSUME NEW j \in Keys, watcher'[j] # NoLoop PROVE refCount'[j] = Cardinality(Counted(j)')
  BY <1>2, <1>4, <1>5, <1>6 DEF CountExact, CountInv
<1>6a. CountExact'
  BY <1>6 DEF CountExact
<1>7. \A j \in Keys : Stale(j)' \subseteq Stale(j)
  BY <1>2 DEF Stale
<1>8. QED
  BY <1>2, <1>6a, <1>7 DEF CountInv, TypeOK

(* Cleanup only removes a watcher nobody is counted in. *)
LEMMA CleanupCounts ==
  ASSUME TypeOK, CountInv, NEW k \in Keys, Cleanup(k)
  PROVE  /\ CountInv'
         /\ \A j \in Keys : watcher[j] # NoLoop /\ watcher'[j] = NoLoop => Counted(j) = {}
<1>1. CASE Active(k) /\ refCount[k] <= 0
  <2>1. /\ watcher' = [watcher EXCEPT ![k] = NoLoop]
        /\ refCount' = [refCount EXCEPT ![k] = 0]
        /\ UNCHANGED <<client, wants, joined>>
    BY <1>1 DEF Cleanup
  <2>2. Counted(k) = {}
    <3>1. Cardinality(Counted(k)) <= 0 /\ IsFiniteSet(Counted(k))
      BY <1>1, CountedIsFinite DEF CountInv, CountExact
    <3>2. Cardinality(Counted(k)) \in Nat
      BY <3>1, FS_CardinalityType
    <3>3. QED
      BY <3>1, <3>2, FS_EmptySet
  <2>3. /\ \A j \in Keys : Counted(j)' = Counted(j) /\ Stale(j)' = Stale(j)
        /\ \A j \in Keys \ {k} : watcher'[j] = watcher[j] /\ refCount'[j] = refCount[j]
        /\ watcher'[k] = NoLoop
    BY <2>1 DEF Counted, Stale, TypeOK
  <2>4. CountExact'
    BY <2>3 DEF CountInv, CountExact
  <2>5. \A c \in joined : wants[c] \in Keys \ {k}
    BY <2>2 DEF Counted, TypeOK
  <2>6. QED
    BY <2>1, <2>2, <2>3, <2>4, <2>5 DEF CountInv
<1>2. CASE ~(Active(k) /\ refCount[k] <= 0)
  BY <1>2 DEF Cleanup, CountInv, CountExact, Counted, Stale
<1>3. QED
  BY <1>1, <1>2

(* RestartAll replaces loops, never records. *)
LEMMA RestartKeeps ==
  ASSUME TypeOK, RestartAll
  PROVE  /\ UNCHANGED <<refCount, client, wants, joined>>
         /\ \A k \in Keys : watcher'[k] # NoLoop <=> watcher[k] # NoLoop
<1>1. PICK new \in [Restarted -> {l \in Loops : loop[l] = "unused"}] :
        watcher' = [k \in Keys |-> IF k \in Restarted THEN new[k] ELSE watcher[k]]
  BY DEF RestartAll
<1>2. \A k \in Restarted : new[k] # NoLoop /\ watcher[k] # NoLoop
  BY ManagerAssumption DEF Restarted
<1>3. QED
  BY <1>1, <1>2 DEF RestartAll

(* Every step counts the clients that it adds or removes. *)
LEMMA CountStep == Orderly /\ TypeOK /\ CountInv /\ [Next]_vars => CountInv'
<1> SUFFICES ASSUME Orderly, TypeOK, CountInv, [Next]_vars PROVE CountInv'
  OBVIOUS
<1>1. ASSUME NEW c \in Clients, NEW k \in Keys, Mount(c, k) PROVE CountInv'
  <2>1. /\ c \notin joined /\ UNCHANGED <<watcher, refCount, joined>>
        /\ client'[c] = "asking"
        /\ \A d \in Clients \ {c} : client'[d] = client[d] /\ wants'[d] = wants[d]
    BY <1>1 DEF Mount, CountInv, TypeOK
  <2>2. \A j \in Keys : Stale(j)' \subseteq Stale(j) /\ Counted(j)' = Counted(j)
    BY <2>1 DEF Stale, Counted, TypeOK
  <2>3. \A d \in joined : d \in Clients \ {c}
    BY <2>1 DEF TypeOK
  <2>4. ASSUME NEW j \in Keys, watcher'[j] # NoLoop PROVE refCount'[j] = Cardinality(Counted(j)')
    BY <2>1, <2>2, <2>4 DEF CountInv, CountExact
  <2>5. CountExact'
    BY <2>4 DEF CountExact
  <2>6. QED
    BY <2>1, <2>2, <2>3, <2>5 DEF CountInv
<1>2. ASSUME NEW c \in Clients, Unmount(c) PROVE CountInv'
  <2>1. /\ UNCHANGED <<watcher, refCount, wants, joined>>
        /\ \A d \in Clients : client'[d] \in {"in", "leaving"} <=> client[d] \in {"in", "leaving"}
    BY <1>2 DEF Unmount, TypeOK
  <2>2. QED
    BY <2>1 DEF CountInv, CountExact, Counted, Stale, TypeOK
<1>3. ASSUME NEW c \in Clients, Subscribe(c) PROVE CountInv'
  BY <1>3, SubscribeCounts
<1>4. ASSUME NEW c \in Clients, Unsubscribe(c) PROVE CountInv'
  BY <1>4, UnsubscribeCounts
<1>5. ASSUME NEW k \in Keys, Cleanup(k) PROVE CountInv'
  BY <1>5, CleanupCounts
<1>6. CASE StopAll
  BY <1>6 DEF StopAll, CountInv, CountExact
<1>7. CASE RestartAll
  BY <1>7, RestartKeeps DEF CountInv, CountExact, Counted, Stale, TypeOK
<1>8. CASE (\E k \in Keys : TimerFires(k)) \/ (\E l \in Loops : LoopEnds(l)) \/ UNCHANGED vars
  BY <1>8 DEF TimerFires, LoopEnds, CountInv, CountExact, Counted, Stale
<1>9. QED
  BY <1>1, <1>2, <1>3, <1>4, <1>5, <1>6, <1>7, <1>8 DEF Next

(* Nobody is counted at first. *)
LEMMA InitCounts == Init => CountInv
BY DEF Init, CountInv, CountExact

(* So the counts are always exact. *)
LEMMA CountAlways == Orderly => (Spec => [](TypeOK /\ LoopInv /\ CountInv))
<1> SUFFICES ASSUME Orderly PROVE Spec => [](TypeOK /\ LoopInv /\ CountInv)
  OBVIOUS
<1>1. Init => LoopInv
  BY ManagerAssumption DEF Init, LoopInv, NoLeakedLoop
<1>2. TypeOK /\ CountInv /\ [Next]_vars => CountInv'
  BY CountStep
<1>3. QED
  BY <1>1, <1>2, InitCounts, LoopStep, TypeCorrect, PTL DEF Spec

(* The reference count of a watcher is the number of its subscribers. *)
THEOREM Counts == Orderly => (Spec => []CountExact)
<1>1. CountInv => CountExact
  BY DEF CountInv
<1>2. QED
  BY <1>1, CountAlways, PTL

(* A subscriber's watch runs, whatever late cleanups and departures occur. *)
THEOREM Watched == Orderly => (Spec => []SubscribedIsWatched)
<1>1. TypeOK /\ LoopInv /\ CountInv => SubscribedIsWatched
  <2> SUFFICES ASSUME TypeOK, LoopInv, CountInv, NEW c \in joined
               PROVE  Active(wants[c]) /\ loop[watcher[wants[c]]] = "running"
    BY DEF SubscribedIsWatched
  <2>1. wants[c] \in Keys /\ watcher[wants[c]] # NoLoop
    BY DEF CountInv, TypeOK
  <2>2. watcher[wants[c]] \in Loops /\ loopKey[watcher[wants[c]]] = wants[c]
    BY <2>1 DEF LoopInv, TypeOK
  <2>3. QED
    BY <2>1, <2>2 DEF LoopInv, NoLeakedLoop
<1>2. QED
  BY <1>1, CountAlways, PTL

-----------------------------------------------------------------------------
(* Idle watchers and the refinement. *)

IdleInv == \A k \in Keys : watcher[k] # NoLoop /\ refCount[k] <= 0 => k \in timer \/ stray[k] > 0

(* A count is a cardinality, so it never falls below zero. *)
LEMMA CountNatural == TypeOK /\ CountInv => \A k \in Keys : watcher[k] # NoLoop => refCount[k] \in Nat
<1> SUFFICES ASSUME TypeOK, CountInv, NEW k \in Keys, watcher[k] # NoLoop PROVE refCount[k] \in Nat
  OBVIOUS
<1>1. Cardinality(Counted(k)) \in Nat
  BY CountedIsFinite, FS_CardinalityType
<1>2. QED
  BY <1>1 DEF CountInv, CountExact

(* Every step leaves an unused watcher with its cleanup scheduled. *)
LEMMA IdleStep == TypeOK /\ CountInv /\ IdleInv /\ [Next]_vars => IdleInv'
<1> SUFFICES ASSUME TypeOK, CountInv, IdleInv, [Next]_vars PROVE IdleInv'
  OBVIOUS
<1>1. ASSUME NEW c \in Clients, (\E k \in Keys : Mount(c, k)) \/ Unmount(c) PROVE IdleInv'
  BY <1>1 DEF Mount, Unmount, IdleInv
<1>2. ASSUME NEW c \in Clients, Subscribe(c) PROVE IdleInv'
  <2>1. CASE Active(wants[c])
    BY <1>2, <2>1, CountNatural DEF Subscribe, IdleInv, TypeOK
  <2>2. CASE ~Active(wants[c])
    BY <1>2, <2>2 DEF Subscribe, IdleInv, TypeOK
  <2>3. QED
    BY <2>1, <2>2
<1>3. ASSUME NEW c \in Clients, Unsubscribe(c) PROVE IdleInv'
  BY <1>3 DEF Unsubscribe, IdleInv, TypeOK
<1>4. ASSUME NEW k \in Keys, TimerFires(k) PROVE IdleInv'
  BY <1>4 DEF TimerFires, IdleInv, TypeOK
<1>5. ASSUME NEW k \in Keys, Cleanup(k) PROVE IdleInv'
  BY <1>5 DEF Cleanup, IdleInv, TypeOK
<1>6. CASE StopAll
  BY <1>6 DEF StopAll, IdleInv
<1>7. CASE RestartAll
  <2>1. UNCHANGED <<refCount, timer, stray>>
    BY <1>7 DEF RestartAll
  <2>2. QED
    BY <1>7, <2>1, RestartKeeps DEF IdleInv
<1>8. ASSUME NEW l \in Loops, LoopEnds(l) PROVE IdleInv'
  BY <1>8 DEF LoopEnds, IdleInv
<1>9. CASE UNCHANGED vars
  BY <1>9 DEF IdleInv
<1>10. QED
  BY <1>1, <1>2, <1>3, <1>4, <1>5, <1>6, <1>7, <1>8, <1>9 DEF Next

(* A watcher without subscribers always has a cleanup ahead of it. *)
THEOREM Idle == Orderly => (Spec => []IdleIsScheduled)
<1>1. Init => IdleInv
  BY DEF Init, IdleInv
<1>2. TypeOK /\ CountInv /\ IdleInv => IdleIsScheduled
  <2> SUFFICES ASSUME TypeOK, CountInv, IdleInv, NEW k \in Keys,
                      watcher[k] # NoLoop, Counted(k) = {}
               PROVE  k \in timer \/ stray[k] > 0
    BY DEF IdleIsScheduled
  <2>1. refCount[k] = 0
    BY FS_EmptySet DEF CountInv, CountExact
  <2>2. QED
    BY <2>1 DEF IdleInv
<1>3. QED
  BY <1>1, <1>2, IdleStep, CountAlways, PTL DEF Spec

(* Every step is one of SharedWatch or leaves its variables alone. *)
LEMMA WatchStep == Orderly /\ TypeOK /\ CountInv /\ [Next]_vars
                   => [Promise!Next]_<<joined, wants, {k \in Keys : Active(k)}>>
<1> DEFINE on == {k \in Keys : Active(k)}
<1> SUFFICES ASSUME Orderly, TypeOK, CountInv, [Next]_vars
             PROVE  Promise!Next \/ UNCHANGED <<joined, wants, on>>
  OBVIOUS
<1>1. ASSUME NEW c \in Clients, NEW k \in Keys, Mount(c, k) PROVE Promise!Choose(c, k)
  BY <1>1 DEF Mount, CountInv, Promise!Choose
<1>2. ASSUME NEW c \in Clients, Unmount(c) PROVE UNCHANGED <<joined, wants, on>>
  BY <1>2 DEF Unmount
<1>3. ASSUME NEW c \in Clients, Subscribe(c) PROVE Promise!Join(c)
  <2>1. CASE Active(wants[c])
    BY <1>3, <2>1 DEF Subscribe, Promise!Join, TypeOK
  <2>2. CASE ~Active(wants[c])
    BY <1>3, <2>2, ManagerAssumption DEF Subscribe, Promise!Join, TypeOK
  <2>3. QED
    BY <2>1, <2>2
<1>4. ASSUME NEW c \in Clients, Unsubscribe(c) PROVE Promise!Leave(c)
  BY <1>4 DEF Unsubscribe, Promise!Leave
<1>5. ASSUME NEW k \in Keys, Cleanup(k)
      PROVE  Promise!End(k) \/ UNCHANGED <<joined, wants, on>>
  <2>1. CASE Active(k) /\ refCount[k] <= 0
    <3>1. watcher' = [watcher EXCEPT ![k] = NoLoop] /\ UNCHANGED <<joined, wants>>
      BY <1>5, <2>1 DEF Cleanup
    <3>2. Counted(k) = {}
      BY <1>5, <2>1, <3>1, CleanupCounts DEF TypeOK
    <3>3. on' = on \ {k}
      BY <3>1 DEF TypeOK
    <3>4. QED
      BY <3>1, <3>2, <3>3 DEF Promise!End, Promise!UsersOf, Counted
  <2>2. CASE ~(Active(k) /\ refCount[k] <= 0)
    BY <1>5, <2>2 DEF Cleanup
  <2>3. QED
    BY <2>1, <2>2
<1>6. CASE StopAll
  <2>1. joined' = {} /\ wants' = wants /\ \A k \in Keys : watcher'[k] = NoLoop
    BY <1>6 DEF StopAll
  <2>2. on' = {}
    BY <2>1
  <2>3. Promise!StopAll
    BY <2>1, <2>2 DEF Promise!StopAll
  <2>4. QED
    BY <2>3 DEF Promise!Next
<1>7. CASE RestartAll
  BY <1>7, RestartKeeps
<1>8. CASE (\E k \in Keys : TimerFires(k)) \/ (\E l \in Loops : LoopEnds(l)) \/ UNCHANGED vars
  BY <1>8 DEF TimerFires, LoopEnds
<1>9. QED
  BY <1>1, <1>2, <1>3, <1>4, <1>5, <1>6, <1>7, <1>8 DEF Next, Promise!Next

(* The manager keeps the promise of SharedWatch: only StopAll ends a watch *)
(* that has users.                                                         *)
THEOREM Shared == Orderly => (Spec => ImplementsSharedWatch)
<1> SUFFICES ASSUME Orderly PROVE Spec => ImplementsSharedWatch
  OBVIOUS
<1>1. Init => Promise!Init
  BY DEF Init, Promise!Init
<1>2. TypeOK /\ CountInv /\ [Next]_vars => [Promise!Next]_<<joined, wants, {k \in Keys : Active(k)}>>
  BY WatchStep
<1>3. QED
  BY <1>1, <1>2, CountAlways, PTL DEF Spec, Promise!Spec, ImplementsSharedWatch

(* The account of the manager is exact: counts, loops and timers together.  *)
THEOREM WatchesAlwaysExact == Orderly => (Spec => []WatchesExact)
<1>1. CountExact /\ SubscribedIsWatched /\ NoLeakedLoop /\ IdleIsScheduled => WatchesExact
  BY DEF WatchesExact
<1>2. QED
  BY <1>1, Counts, Watched, NoLeak, Idle, PTL
=============================================================================
