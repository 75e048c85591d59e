-------------------------- MODULE ConnectionMonitor --------------------------
(***************************************************************************)
(* What the frontend makes of the statuses and errors of its watches       *)
(* (K8sContext.tsx): a watch that connects again after a break makes the   *)
(* views list again, and a watch that keeps failing makes them poll        *)
(* (WatchFailureWindow, streamingCompatibility.ts).  The watch loops are   *)
(* those of ResourceFeed, reduced to what they tell the frontend.          *)
(***************************************************************************)
EXTENDS Integers, Sequences, FiniteSets, Functions

CONSTANTS
  Types, Namespaces, \* a watch is of one type in one namespace
  Layouts,           \* the sets of watches that the open views use
  Window, Threshold, \* WATCH_FAILURE_WINDOW_MS in ticks, WATCH_FAILURE_THRESHOLD
  MaxTime, MaxFaults \* bounds on the clock, and on breaks of watches and choices of the user

MonitorAssumption ==
  /\ {Window, Threshold} \subseteq Nat \ {0} /\ {MaxTime, MaxFaults} \subseteq Nat
  /\ \A l \in Layouts : l \subseteq Types \X Namespaces /\ IsFiniteSet(l)

Watch == Types \X Namespaces

VARIABLES
  used,    \* the watches of the views that are open
  loop,    \* watch -> where its loop is, rv: the resource version it connects from,
           \* quiet: it connects again without having said so
  gap,     \* watch -> it began again from "now" and nothing listed since: after it was
           \* announced (reconnecting), or silently
  wire,    \* statuses and errors on their way
  clock, faults,
  mode,    \* connectionMode
  prev,    \* watcherPrevStatusRef, by type
  timer,   \* reconnectRefreshTimerRef
  failures,\* WatchFailureWindow: the failures it keeps of a watch: their places in history
  openedAt,\* WatchFailureWindow.connectedAt, or -1
  history  \* history: the times of all failures of a watch since the mode was set or it stopped

vars == <<used, loop, gap, wire, clock, faults, mode, prev, timer, failures, openedAt, history>>
window == <<failures, openedAt>>

NoGaps == [w \in Watch |-> "none"]
NoFailures == [w \in Watch |-> {}]
NoHistory == [w \in Watch |-> <<>>]
NeverOpened == [w \in Watch |-> -1]

TypeOK ==
  /\ used \subseteq Watch /\ gap \in [Watch -> {"none", "announced", "silent"}]
  /\ loop \in [Watch -> [at : {"off", "connecting", "open", "waiting"},
                         rv : {"first", "none", "known"}, quiet : BOOLEAN]]
  /\ wire \in Seq([kind : {"connected", "reconnecting", "stopped", "error"}, watch : Watch])
  /\ clock \in 0..MaxTime /\ faults \in 0..MaxFaults
  /\ mode \in {"streaming", "polling"}
  /\ prev \in [Types -> {"none", "connected", "reconnecting", "stopped"}] /\ timer \in BOOLEAN
  /\ openedAt \in [Watch -> -1..MaxTime] /\ history \in [Watch -> Seq(0..MaxTime)]
  /\ failures \in [Watch -> SUBSET Nat]
  /\ \A w \in Watch : failures[w] \subseteq DOMAIN history[w] /\ Cardinality(failures[w]) < Threshold

(* A watch that was never open: the views list when they begin to use it.   *)
Off == [at |-> "off", rv |-> "first", quiet |-> FALSE]
Started == [w \in Watch |-> IF w \in used THEN [Off EXCEPT !.at = "connecting"] ELSE Off]

Init ==
  /\ used \in Layouts
  /\ loop = Started /\ gap = NoGaps /\ wire = <<>> /\ clock = 0 /\ faults = 0
  /\ mode = "streaming" /\ prev = [t \in Types |-> "none"] /\ timer = FALSE
  /\ failures = NoFailures /\ openedAt = NeverOpened /\ history = NoHistory

Message(kind, w) == [kind |-> kind, watch |-> w]

Tick ==
  /\ clock < MaxTime /\ clock' = clock + 1
  /\ UNCHANGED <<used, loop, gap, wire, faults, mode, prev, timer, window, history>>

-----------------------------------------------------------------------------
(* The loops.                                                               *)

(* The stream opens: without a resource version, from now on. *)
Connect(w) ==
  /\ loop[w].at = "connecting"
  /\ loop' = [loop EXCEPT ![w] = [at |-> "open", rv |-> IF @.rv = "first" THEN "none" ELSE @.rv,
                                  quiet |-> FALSE]]
  /\ gap' = IF loop[w].rv # "none" THEN gap ELSE
       [gap EXCEPT ![w] = IF loop[w].quiet /\ @ # "announced" THEN "silent" ELSE "announced"]
  /\ wire' = Append(wire, Message("connected", w))
  /\ UNCHANGED <<used, clock, faults, mode, prev, timer, window, history>>

(* An event or a bookmark: its resource version is kept. *)
Event(w) ==
  /\ loop[w].at = "open" /\ loop[w].rv # "known"
  /\ loop' = [loop EXCEPT ![w].rv = "known"]
  /\ UNCHANGED <<used, gap, wire, clock, faults, mode, prev, timer, window, history>>

(* The stream ends, with an error if that was immediate, or cannot be      *)
(* opened, because its resource version expired or otherwise.              *)
Break(w, failed, expired) ==
  /\ faults < MaxFaults /\ faults' = faults + 1
  /\ (loop[w].at = "open" /\ ~expired) \/ (loop[w].at = "connecting" /\ failed)
  /\ loop' = [loop EXCEPT ![w] = [at |-> "waiting", quiet |-> FALSE,
                                  rv |-> IF expired /\ @.rv = "known" THEN "none" ELSE @.rv]]
  /\ wire' = wire \o (IF failed THEN <<Message("error", w)>> ELSE <<>>)
                  \o <<Message("reconnecting", w)>>
  /\ UNCHANGED <<used, gap, clock, mode, prev, timer, window, history>>

(* An event ERROR: the loop connects again at once and says nothing of it. *)
ErrorEvent(w, expired) ==
  /\ faults < MaxFaults /\ faults' = faults + 1
  /\ loop[w].at = "open"
  /\ loop' = [loop EXCEPT ![w] = [at |-> "connecting", quiet |-> TRUE,
                                  rv |-> IF expired THEN "none" ELSE @.rv]]
  /\ UNCHANGED <<used, gap, wire, clock, mode, prev, timer, window, history>>

Retry(w) ==
  /\ loop[w].at = "waiting"
  /\ loop' = [loop EXCEPT ![w].at = "connecting"]
  /\ UNCHANGED <<used, gap, wire, clock, faults, mode, prev, timer, window, history>>

-----------------------------------------------------------------------------
(* The frontend.                                                            *)

(* setConnectionMode: watches stop, or start again, and the views list.     *)
SetMode(m, stops) ==
  /\ mode' = m /\ failures' = NoFailures /\ openedAt' = NeverOpened /\ history' = NoHistory
  /\ IF m = "streaming" THEN loop' = Started /\ gap' = NoGaps /\ wire' = stops
     ELSE /\ loop' = [w \in Watch |-> Off] /\ gap' = NoGaps
          /\ LET ends == {Message("stopped", w) : w \in {v \in used : loop[v].at # "off"}}
             IN  \E line \in Bijection(1 .. Cardinality(ends), ends) : wire' = stops \o line

ChooseMode ==
  /\ faults < MaxFaults /\ faults' = faults + 1
  /\ SetMode(IF mode = "polling" THEN "streaming" ELSE "polling", wire)
  /\ UNCHANGED <<used, clock, prev, timer>>

Recent(w, kept) == {i \in kept : clock - history[w][i] < Window}

(* A watch that was open for the whole window starts with a clean slate.    *)
Healthy(w) == openedAt[w] # -1 /\ clock - openedAt[w] >= Window
Failed(w) == IF Healthy(w) THEN {} ELSE failures[w]

(* The failure that is being handled, after those it is counted with. *)
WithLast(w) == Recent(w, Failed(w)) \cup {Len(history[w]) + 1}

(* Mutant: the failures of all watches count together. *)
HandleErrorTogether == wire # <<>> /\ LET w == Head(wire).watch IN
  /\ Head(wire).kind = "error"
  /\ IF mode # "streaming" THEN wire' = Tail(wire) /\ UNCHANGED <<loop, gap, mode, window, history>>
     ELSE IF Cardinality(UNION {{v} \X DOMAIN history[v] : v \in Watch}) + 1 >= Threshold THEN SetMode("polling", Tail(wire))
     ELSE /\ wire' = Tail(wire)
          /\ failures' = [failures EXCEPT ![w] = @ \cup {Len(history[w]) + 1}]
          /\ openedAt' = [openedAt EXCEPT ![w] = -1]
          /\ history' = [history EXCEPT ![w] = Append(@, clock)]
          /\ UNCHANGED <<loop, gap, mode>>
  /\ UNCHANGED <<used, clock, faults, prev, timer>>

(* Mutant: one failure more than the threshold is needed. *)
HandleErrorLate == wire # <<>> /\ LET w == Head(wire).watch IN
  /\ Head(wire).kind = "error"
  /\ IF mode # "streaming" THEN wire' = Tail(wire) /\ UNCHANGED <<loop, gap, mode, window, history>>
     ELSE IF Cardinality(WithLast(w)) > Threshold THEN SetMode("polling", Tail(wire))
     ELSE /\ wire' = Tail(wire)
          /\ failures' = [failures EXCEPT ![w] = WithLast(w)]
          /\ openedAt' = [openedAt EXCEPT ![w] = -1]
          /\ history' = [history EXCEPT ![w] = Append(@, clock)]
          /\ UNCHANGED <<loop, gap, mode>>
  /\ UNCHANGED <<used, clock, faults, prev, timer>>

(* handleWatcherError with an error of the transport. *)
HandleError == wire # <<>> /\ LET w == Head(wire).watch IN
  /\ Head(wire).kind = "error"
  /\ IF mode # "streaming" THEN wire' = Tail(wire) /\ UNCHANGED <<loop, gap, mode, window, history>>
     ELSE IF Cardinality(WithLast(w)) >= Threshold THEN SetMode("polling", Tail(wire))
     ELSE /\ wire' = Tail(wire)
          /\ failures' = [failures EXCEPT ![w] = WithLast(w)]
          /\ openedAt' = [openedAt EXCEPT ![w] = -1]
          /\ history' = [history EXCEPT ![w] = Append(@, clock)]
          /\ UNCHANGED <<loop, gap, mode>>
  /\ UNCHANGED <<used, clock, faults, prev, timer>>

(* Mutant: only a watch that was seen to connect counts as connected again. *)
Reconnected(type, status) == prev[type] = "connected" /\ status = "connected"

(* reconnecting -> connected, by type. *)
Reconnects(type, status) == prev[type] = "reconnecting" /\ status = "connected"

(* handleWatcherStatus. *)
HandleStatus == wire # <<>> /\ LET w == Head(wire).watch  status == Head(wire).kind IN
  /\ status # "error" /\ wire' = Tail(wire)
  /\ IF status = "connected" THEN openedAt' = [openedAt EXCEPT ![w] = clock] /\ UNCHANGED failures
     ELSE /\ openedAt' = [openedAt EXCEPT ![w] = -1]
          /\ failures' = [failures EXCEPT ![w] = IF status = "stopped" THEN {} ELSE Failed(w)]
  /\ prev' = [prev EXCEPT ![w[1]] = status]
  /\ timer' = (timer \/ Reconnects(w[1], status))
  /\ history' = IF status = "stopped" THEN [history EXCEPT ![w] = <<>>] ELSE history
  /\ UNCHANGED <<used, loop, gap, clock, faults, mode>>

(* The timer fires: the reconcile token makes every view list again. *)
Reconcile ==
  /\ timer /\ timer' = FALSE /\ gap' = NoGaps
  /\ UNCHANGED <<used, loop, wire, clock, faults, mode, prev, window, history>>

Next ==
  \/ Tick \/ ChooseMode \/ HandleError \/ HandleStatus \/ Reconcile
  \/ \E w \in Watch : \/ Connect(w) \/ Event(w) \/ Retry(w)
                      \/ \E expired \in BOOLEAN : \/ ErrorEvent(w, expired)
                                               \/ \E failed \in BOOLEAN : Break(w, failed, expired)

Spec == Init /\ [][Next]_vars

-----------------------------------------------------------------------------
Alone(w) == \A v \in used : v[1] = w[1] => v = w

(* A watch that began again from "now" makes the views list again, so that  *)
(* nothing deleted in between stays on the screen, if its loop said that it *)
(* reconnects.  Of a loop that an event ERROR makes connect again it does   *)
(* not (a silent gap: the divergence that ResourceFeed shows), and nothing  *)
(* is promised.  The statuses of all watches of a type share one slot, so   *)
(* this is only certain for a type that is watched in one place.            *)
GapsAreListed ==
  wire = <<>> /\ ~timer => \A w \in Watch : gap[w] = "announced" => ~Alone(w)

(* The failures handled for a watch within the window up to time t.         *)
Count(w, t) == Cardinality({i \in DOMAIN history[w] : t - history[w][i] < Window})

(* "Failures are isolated per watch and expire": the views go on streaming  *)
(* as long as no single watch reaches the threshold within the window, and  *)
(* give up at the failure that does.                                        *)
FallsBackNow ==
  HandleError /\ mode = "streaming" =>
    LET w == Head(wire).watch IN
    (mode' = "polling" <=> Count(w, clock) + 1 >= Threshold)
FallsBackInTime == [][FallsBackNow]_vars
=============================================================================
