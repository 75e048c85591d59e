--------------------------- MODULE EventCoalescer ---------------------------
(***************************************************************************)
(* The frame buffer between the Kubernetes watch loops and the frontend    *)
(* (eventcoalescer.go).  Emit stores the newest event of a key and arms a  *)
(* frame timer; the timer's callback posts at most maxBatch events to the  *)
(* frontend and re-arms for the rest; a DELETED event bypasses the buffer; *)
(* Clear throws the buffer away on a context switch; FlushNow drains it at *)
(* shutdown.  Every critical section of c.mu is one action.  A timer whose *)
(* callback already started cannot be stopped: `fired' counts the flush    *)
(* goroutines that wait for the mutex, `orphans' the armed timers that the *)
(* field c.timer no longer references.  The watch loops number the events  *)
(* of a key 1, 2, 3, ... (the order of the watch stream); `given' and      *)
(* `handled' record how far the loops and the frontend have come.          *)
(***************************************************************************)
EXTENDS Integers, Sequences, FiniteSets

CONSTANTS
  Keys,             \* coalescing keys resourceType:namespace:name
  Event,            \* the events the watch loops may hand to Emit
  NoEvent,          \* "no entry in the map"
  InitialIntervals, \* frame intervals the constructor may be given, in us
  InitialBatch,     \* 500 in the constructor
  MinBatch,         \* lower clamp of SetMaxBatchSize (50)
  MaxBatch,         \* upper clamp of SetMaxBatchSize (5000)
  FrameRequests,    \* arguments of SetFrameInterval, in ms
  BatchRequests,    \* arguments of SetMaxBatchSize
  MaxFired,         \* bound: flush goroutines waiting for the mutex
  MaxWire           \* bound: messages the frontend has not yet handled

ASSUME EventAssumption ==
  /\ \A e \in Event : /\ e.key \in Keys
                      /\ e.type \in {"ADDED", "MODIFIED", "DELETED"}
                      /\ e.ver \in Nat \ {0}
  /\ NoEvent \notin Event

ASSUME SizeAssumption ==
  /\ {MinBatch, MaxBatch, InitialBatch, MaxFired, MaxWire} \subseteq Nat \ {0}
  /\ MinBatch <= MaxBatch
  /\ InitialIntervals \subseteq Nat
  /\ FrameRequests \subseteq Int
  /\ BatchRequests \subseteq Int

VARIABLES
  events,     \* c.events: key -> buffered event
  pending,    \* c.pending
  timer,      \* "armed" when c.timer.Stop() would still prevent a callback
  orphans,    \* armed timers overwritten in c.timer
  fired,      \* callbacks of expired timers that have not entered flush yet
  drain,      \* FlushNow: "idle", "check" (before reading len), "flush"
  interval,   \* c.frameInterval in us
  maxBatch,   \* c.maxBatchSize
  wire,       \* messages posted to the frontend, each a set of events
  closing,    \* App.shutdown has begun (the only caller of FlushNow)
  given,      \* history: number of the last event of a key given to Emit
  handled     \* history: number of the last event of a key the frontend took

clock == <<timer, orphans, fired>>
settings == <<interval, maxBatch>>
history == <<given, handled>>
vars == <<events, pending, clock, drain, settings, wire, closing, history>>

Millisecond == 1000

Clamp(n, low, high) == IF n < low THEN low ELSE IF n > high THEN high ELSE n

Buffered == {k \in Keys : events[k] # NoEvent}

Empty == [k \in Keys |-> NoEvent]

(* A callback that will still run flush exists. *)
TimerLive == timer = "armed" \/ orphans > 0 \/ fired > 0

TypeOK ==
  /\ events \in [Keys -> Event \cup {NoEvent}]
  /\ \A k \in Buffered : events[k].key = k /\ events[k].type # "DELETED"
  /\ pending \in BOOLEAN
  /\ timer \in {"none", "armed"}
  /\ orphans \in Nat
  /\ fired \in Nat
  /\ drain \in {"idle", "check", "flush"}
  /\ interval \in Nat
  /\ maxBatch \in Nat \ {0}
  /\ wire \in Seq(SUBSET Event)
  /\ closing \in BOOLEAN
  /\ given \in [Keys -> Nat]
  /\ handled \in [Keys -> Nat]

(* NewEventCoalescer: a zero interval means the default of 16 ms. *)
Init ==
  /\ events = Empty
  /\ pending = FALSE
  /\ timer = "none"
  /\ orphans = 0
  /\ fired = 0
  /\ drain = "idle"
  /\ \E i \in InitialIntervals : interval = IF i = 0 THEN 16 * Millisecond ELSE i
  /\ maxBatch = InitialBatch
  /\ wire = <<>>
  /\ closing = FALSE
  /\ given = [k \in Keys |-> 0]
  /\ handled = [k \in Keys |-> 0]

-----------------------------------------------------------------------------
(* App.emitEvent posts to the frontend's event queue and does not wait. *)
Post(batch) == wire' = IF batch = {} THEN wire ELSE Append(wire, batch)

(* c.timer = time.AfterFunc(frameInterval, flush): the timer the field held *)
(* before, if it is still armed, keeps running without a reference.         *)
Arm ==
  /\ timer' = "armed"
  /\ orphans' = IF timer = "armed" THEN orphans + 1 ELSE orphans

(* c.timer.Stop(): no effect on a callback that already started. *)
StopTimer == timer' = "none"

(* Sub-millisecond interval: coalescing is off, every event goes out alone. *)
EmitDirect(e) ==
  /\ interval < Millisecond
  /\ Post({e})
  /\ UNCHANGED <<events, pending, timer, orphans>>

(* Mutant: the buffered ADDED or MODIFIED of the key survives the DELETED. *)
EmitDeleteKeepsEntry(e) ==
  /\ interval >= Millisecond
  /\ e.type = "DELETED"
  /\ Post({e})
  /\ UNCHANGED <<events, pending, timer, orphans>>

(* Mutant: DELETED is coalesced like any other event. *)
EmitDeleteBuffered(e) ==
  /\ interval >= Millisecond
  /\ e.type = "DELETED"
  /\ events' = [events EXCEPT ![e.key] = e]
  /\ pending' = TRUE
  /\ IF pending THEN UNCHANGED <<timer, orphans>> ELSE Arm
  /\ UNCHANGED wire

(* DELETED: drop what is buffered for the key and post at once, under c.mu. *)
EmitDelete(e) ==
  /\ interval >= Millisecond
  /\ e.type = "DELETED"
  /\ events' = [events EXCEPT ![e.key] = NoEvent]
  /\ Post({e})
  /\ UNCHANGED <<pending, timer, orphans>>

(* ADDED and MODIFIED: latest wins; the first event of a frame arms it. *)
EmitBuffered(e) ==
  /\ interval >= Millisecond
  /\ e.type # "DELETED"
  /\ events' = [events EXCEPT ![e.key] = e]
  /\ pending' = TRUE
  /\ IF pending THEN UNCHANGED <<timer, orphans>> ELSE Arm
  /\ UNCHANGED wire

Emit(e) ==
  /\ Len(wire) < MaxWire
  /\ e.ver = given[e.key] + 1
  /\ given' = [given EXCEPT ![e.key] = e.ver]
  /\ EmitDirect(e) \/ EmitDelete(e) \/ EmitBuffered(e)
  /\ UNCHANGED <<fired, drain, settings, closing, handled>>

(* A frame timer expires; its goroutine now competes for c.mu. *)
TimerFires ==
  /\ fired < MaxFired
  /\ timer = "armed"
  /\ timer' = "none"
  /\ fired' = fired + 1
  /\ UNCHANGED <<events, pending, orphans, drain, settings, wire, closing, history>>

OrphanFires ==
  /\ fired < MaxFired
  /\ orphans > 0
  /\ orphans' = orphans - 1
  /\ fired' = fired + 1
  /\ UNCHANGED <<events, pending, timer, drain, settings, wire, closing, history>>

(* The batches flush may take: map iteration picks any keys, up to the cap. *)
Batches ==
  {S \in SUBSET Buffered :
     IF Cardinality(Buffered) <= maxBatch
     THEN S = Buffered
     ELSE Cardinality(S) = maxBatch}

(* Mutant: the remainder of a capped batch is left without a timer. *)
FlushBodyForgetsRest ==
  \E S \in Batches :
    /\ events' = [k \in Keys |-> IF k \in S THEN NoEvent ELSE events[k]]
    /\ pending' = (S # Buffered)
    /\ Post({events[k] : k \in S})
    /\ UNCHANGED <<timer, orphans>>

(* flush, under c.mu: take a batch, re-arm for a remainder, post the batch. *)
FlushBody ==
  \E S \in Batches :
    /\ events' = [k \in Keys |-> IF k \in S THEN NoEvent ELSE events[k]]
    /\ IF S = Buffered
       THEN pending' = FALSE /\ UNCHANGED <<timer, orphans>>
       ELSE pending' = TRUE /\ Arm
    /\ Post({events[k] : k \in S})

Flush ==
  /\ fired > 0
  /\ Len(wire) < MaxWire
  /\ FlushBody
  /\ fired' = fired - 1
  /\ UNCHANGED <<drain, settings, closing, history>>

(* FlushNow: stop the timer, then flush until the map is seen empty.  The   *)
(* length is read in a critical section of its own.                         *)
FlushNow ==
  /\ drain = "idle"
  /\ ~closing
  /\ closing' = TRUE
  /\ drain' = "check"
  /\ StopTimer
  /\ UNCHANGED <<events, pending, orphans, fired, settings, wire, history>>

FlushNowCheck ==
  /\ drain = "check"
  /\ drain' = IF Buffered = {} THEN "idle" ELSE "flush"
  /\ UNCHANGED <<events, pending, clock, settings, wire, closing, history>>

FlushNowFlush ==
  /\ drain = "flush"
  /\ Len(wire) < MaxWire
  /\ FlushBody
  /\ drain' = "check"
  /\ UNCHANGED <<fired, settings, closing, history>>

(* Mutant: Clear stops the timer but leaves pending set. *)
ClearKeepsPending ==
  /\ StopTimer
  /\ events' = Empty
  /\ UNCHANGED <<pending, orphans, fired, drain, settings, wire, closing, history>>

(* Clear: called before the watchers of the old context are stopped. *)
Clear ==
  /\ StopTimer
  /\ events' = Empty
  /\ pending' = FALSE
  /\ UNCHANGED <<orphans, fired, drain, settings, wire, closing, history>>

(* Mutant: the lower clamp of the frame interval is missing. *)
SetFrameIntervalUnclamped(ms) ==
  /\ interval' = Clamp(ms, 0, 100) * Millisecond
  /\ UNCHANGED <<events, pending, clock, drain, maxBatch, wire, closing, history>>

SetFrameInterval(ms) ==
  /\ interval' = Clamp(ms, 1, 100) * Millisecond
  /\ UNCHANGED <<events, pending, clock, drain, maxBatch, wire, closing, history>>

SetMaxBatchSize(n) ==
  /\ maxBatch' = Clamp(n, MinBatch, MaxBatch)
  /\ UNCHANGED <<events, pending, clock, drain, interval, wire, closing, history>>

(* The frontend's event queue runs the listeners of the oldest message. *)
Handle ==
  /\ wire # <<>>
  /\ wire' = Tail(wire)
  /\ handled' = [k \in Keys |->
       IF \E e \in Head(wire) : e.key = k
       THEN (CHOOSE e \in Head(wire) : e.key = k).ver
       ELSE handled[k]]
  /\ UNCHANGED <<events, pending, clock, drain, settings, closing, given>>

(* What happens without anybody asking: timers, their callbacks, the drain  *)
(* at shutdown, and the frontend's event queue.                             *)
Internal ==
  TimerFires \/ OrphanFires \/ Flush \/ FlushNowCheck \/ FlushNowFlush \/ Handle

Next ==
  \/ \E e \in Event : Emit(e)
  \/ Internal
  \/ FlushNow
  \/ Clear
  \/ \E ms \in FrameRequests : SetFrameInterval(ms)
  \/ \E n \in BatchRequests : SetMaxBatchSize(n)

Spec == Init /\ [][Next]_vars

(* The Go runtime runs expired timers and runnable goroutines, and the      *)
(* frontend's event loop keeps taking messages; nothing makes the cluster   *)
(* change or the user act.                                                  *)
Fairness ==
  /\ WF_vars(TimerFires) /\ WF_vars(OrphanFires) /\ WF_vars(Flush)
  /\ WF_vars(FlushNowCheck) /\ WF_vars(FlushNowFlush)
  /\ WF_vars(Handle)

FairSpec == Spec /\ Fairness

-----------------------------------------------------------------------------
(* Safety: the order the comments of Emit and flush promise.                *)

(* Numbers of the events of key k in a message. *)
Numbers(batch, k) == {e.ver : e \in {f \in batch : f.key = k}}

KeyOrder(k) ==
  /\ handled[k] <= given[k]
  /\ \A i \in DOMAIN wire : \A n \in Numbers(wire[i], k) :
       /\ handled[k] < n
       /\ n <= given[k]
       /\ events[k] # NoEvent => n < events[k].ver
  /\ \A i, j \in DOMAIN wire : i < j =>
       \A n \in Numbers(wire[i], k), m \in Numbers(wire[j], k) : n < m
  /\ events[k] # NoEvent => handled[k] < events[k].ver /\ events[k].ver <= given[k]

(* The frontend never goes back: whatever the interleaving of frame timers, *)
(* DELETED bypasses, Clear and FlushNow, the messages of a key still on the *)
(* wire are newer than what the frontend has handled, in stream order, and  *)
(* a buffered event is newer than all of them.  Emitting inside the mutex   *)
(* and deleting the buffered entry on DELETED are what keep this true.      *)
PerKeyOrder == \A k \in Keys : KeyOrder(k)

(* A buffered event always has a timer or a flush goroutine that will take  *)
(* it: no order of Emit, DELETED, Clear and a flush that lost the race with *)
(* Clear's timer.Stop leaves the buffer full and the timer unarmed.  (While *)
(* the program runs; FlushNow at shutdown is excepted: it leaves pending set.)  *)
NoStrandedEvent == ~closing /\ Buffered # {} => TimerLive

(* Events of a key arrive in the order of the watch, and each of them will. *)
BufferSound == PerKeyOrder /\ NoStrandedEvent

(* Every buffered event leaves the buffer, although each frame takes only   *)
(* maxBatch keys of the map's choosing and a Clear may intervene.           *)
BufferDrains == \A k \in Keys : (events[k] # NoEvent /\ ~closing) ~> (events[k] = NoEvent \/ closing)

(* The promise the rest of the system builds on: every step of the buffer,  *)
(* its timers and its settings is a Store, Bypass, Release, Discard or      *)
(* Consume of FrameBuffer, or changes nothing there.                        *)
Promise == INSTANCE FrameBuffer WITH buffer <- events
ImplementsFrameBuffer == Promise!Spec
=============================================================================
