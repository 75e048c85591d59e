------------------------------ MODULE LogStream ------------------------------
(***************************************************************************)
(* Following the log of a pod: the viewer that starts and stops streams    *)
(* (useLogStream.ts), the goroutine of each stream (app_logs.go) and the   *)
(* coalescer that sends lines in batches (logcoalescer.go).  A line is its *)
(* position in the log, which is also its timestamp.                       *)
(***************************************************************************)
EXTENDS Integers, Sequences

CONSTANTS
  Streams, NoStream,
  Length,   \* stream -> lines of its container's log
  MaxFaults, \* interruptions of connections to the API server
  Prompt,   \* streams whose timer callbacks emit what they took before anything
            \* else happens to the stream, within a frame
  Settled   \* whether the answer to a Start comes before the viewer's next
            \* step and before the events of the stream

ASSUME LogAssumption ==
  /\ NoStream \notin Streams /\ Prompt \subseteq Streams /\ Settled \in BOOLEAN
  /\ Length \in [Streams -> Nat] /\ MaxFaults \in Nat

VARIABLES
  call,     \* stream -> the StartLogStream that creates it
  stopping, \* streams with a StopLogStream on its way
  running,  \* the keys of logStreams
  reader,   \* stream -> its goroutine
  buffer,   \* stream -> its logStreamBuffer
  due,      \* stream -> timer callbacks that wait for the mutex
  taken,    \* stream -> batches that callbacks took and did not emit yet
  events,   \* stream -> its events on the way to the viewer
  emitted,  \* stream -> the lines given to EmitLine (history)
  sent,     \* stream -> the lines of all its events (history)
  want,     \* the stream the running effect of the viewer asked for
  ref,      \* streamIdRef
  logs,     \* the lines on screen
  faults    \* interruptions so far

backend == <<running, reader, buffer, due, taken, events, emitted, sent, faults>>
viewer == <<want, ref, logs>>
vars == <<call, stopping, backend, viewer>>

Lines(s) == 1 .. Length[s]
NoBuffer == [exists |-> FALSE, lines |-> <<>>, pending |-> FALSE, armed |-> FALSE]

(* The lines of a sequence of batches. *)
Flat(batches) ==
  LET f[n \in 0 .. Len(batches)] == IF n = 0 THEN <<>> ELSE f[n - 1] \o batches[n]
  IN  f[Len(batches)]

Batch(lines) == IF lines = <<>> THEN <<>> ELSE <<[kind |-> "lines", lines |-> lines]>>
Ends == {"done", "error"}
End(kind) == <<[kind |-> kind, lines |-> <<>>]>>

(* Lines leave the coalescer, and an event may come after them. *)
Post(s, lines, last) ==
  /\ events' = [events EXCEPT ![s] = @ \o Batch(lines) \o last]
  /\ sent' = [sent EXCEPT ![s] = @ \o lines]

Init ==
  /\ call = [s \in Streams |-> "unused"]
  /\ stopping = {} /\ running = {} /\ faults = 0
  /\ reader = [s \in Streams |-> [at |-> "none", next |-> 1, own |-> <<>>, canceled |-> FALSE]]
  /\ buffer = [s \in Streams |-> NoBuffer]
  /\ due = [s \in Streams |-> 0]
  /\ taken = [s \in Streams |-> <<>>]
  /\ events = [s \in Streams |-> <<>>]
  /\ emitted = [s \in Streams |-> <<>>]
  /\ sent = [s \in Streams |-> <<>>]
  /\ want = NoStream /\ ref = NoStream /\ logs = <<>>

-----------------------------------------------------------------------------
(* The viewer.                                                             *)

AnswerAwaited == Settled /\ want # NoStream /\ call[want] \in {"asked", "answering"}

StopStreaming ==
  /\ ~AnswerAwaited
  /\ stopping' = stopping \cup ({ref} \cap Streams)
  /\ ref' = NoStream

(* Mutant: only the reference is reset. *)
LeaveSilently ==
  /\ want # NoStream /\ ~AnswerAwaited
  /\ ref' = NoStream /\ want' = NoStream
  /\ UNCHANGED <<call, stopping, backend, logs>>

(* The effect is cleaned up: another target, no more following, unmounted.  *)
Leave ==
  /\ want # NoStream
  /\ StopStreaming
  /\ want' = NoStream
  /\ UNCHANGED <<call, backend, logs>>

(* The effect runs after fetchLogs, which left the first h lines on screen; *)
(* more will come.                                                         *)
StartStreaming(s, h) ==
  /\ want = NoStream /\ call[s] = "unused"
  /\ StopStreaming
  /\ want' = s
  /\ logs' = [i \in 1 .. h |-> i]
  /\ call' = [call EXCEPT ![s] = "asked"]
  /\ UNCHANGED backend

(* The answer carries the ID; nobody asks whether it is still wanted. *)
Answer(s) ==
  /\ call[s] = "answering"
  /\ call' = [call EXCEPT ![s] = "answered"]
  /\ ref' = s
  /\ UNCHANGED <<stopping, backend, want, logs>>

(* Mutant: lines that are on screen already are not dropped. *)
HandleUnfiltered(s) ==
  /\ events[s] # <<>> /\ (Settled => call[s] = "answered")
  /\ events' = [events EXCEPT ![s] = Tail(@)]
  /\ LET e == Head(events[s]) IN
     /\ ref' = IF ref = s /\ e.kind \in Ends THEN NoStream ELSE ref
     /\ logs' = IF ref = s THEN logs \o e.lines ELSE logs
  /\ UNCHANGED <<call, stopping, running, reader, buffer, due, taken, emitted, sent, faults, want>>

(* processLine and processBatch: lines that are not newer than the last one *)
(* on screen are dropped.                                                   *)
Shown(lines) ==
  LET New(n) == logs = <<>> \/ n > logs[Len(logs)]
  IN  logs \o Flat([i \in 1 .. Len(lines) |-> IF New(lines[i]) THEN <<lines[i]>> ELSE <<>>])

(* Mutant: the end of a stream leaves the reference. *)
HandleKeepsRef(s) ==
  /\ events[s] # <<>> /\ (Settled => call[s] = "answered")
  /\ events' = [events EXCEPT ![s] = Tail(@)]
  /\ logs' = IF ref = s THEN Shown(Head(events[s]).lines) ELSE logs
  /\ UNCHANGED <<call, stopping, running, reader, buffer, due, taken, emitted, sent, faults, want, ref>>

(* handleLogEvent and handleBatchEvent: an event of another stream is       *)
(* dropped.                                                                 *)
Handle(s) ==
  /\ events[s] # <<>> /\ (Settled => call[s] = "answered")
  /\ events' = [events EXCEPT ![s] = Tail(@)]
  /\ ref' = IF ref = s /\ Head(events[s]).kind \in Ends THEN NoStream ELSE ref
  /\ logs' = IF ref = s THEN Shown(Head(events[s]).lines) ELSE logs
  /\ UNCHANGED <<call, stopping, running, reader, buffer, due, taken, emitted, sent, faults, want>>

-----------------------------------------------------------------------------
(* The calls and the goroutine of a stream.                                *)

(* The first lines are a tail of the log that may overlap what the viewer   *)
(* fetched before.                                                          *)
StartLogStream(s, first) ==
  /\ call[s] = "asked" /\ first <= Len(logs) + 1
  /\ call' = [call EXCEPT ![s] = "answering"]
  /\ running' = running \cup {s}
  /\ reader' = [reader EXCEPT ![s] = [@ EXCEPT !.at = "reading", !.next = first]]
  /\ UNCHANGED <<stopping, buffer, due, taken, events, emitted, sent, faults, viewer>>

(* Mutant: the stream leaves the map and goes on. *)
StopWithoutCancel(s) ==
  /\ s \in stopping
  /\ stopping' = stopping \ {s}
  /\ running' = running \ {s}
  /\ UNCHANGED <<call, reader, buffer, due, taken, events, emitted, sent, faults, viewer>>

StopLogStream(s) ==
  /\ s \in stopping
  /\ stopping' = stopping \ {s}
  /\ running' = running \ {s}
  /\ reader' = [reader EXCEPT ![s] = [@ EXCEPT !.canceled = reader[s].canceled \/ s \in running]]
  /\ UNCHANGED <<call, buffer, due, taken, events, emitted, sent, faults, viewer>>

(* EmitLine appends the line and starts the timer of the frame. *)
EmitLine(s) ==
  /\ reader[s].at = "reading" /\ reader[s].next \in Lines(s)
  /\ LET b == buffer[s] IN
     buffer' = [buffer EXCEPT ![s] =
       [exists |-> TRUE, lines |-> Append(b.lines, reader[s].next),
        pending |-> TRUE, armed |-> b.armed \/ ~b.pending]]
  /\ emitted' = [emitted EXCEPT ![s] = Append(@, reader[s].next)]
  /\ reader' = [reader EXCEPT ![s] = [@ EXCEPT !.next = reader[s].next + 1]]
  /\ UNCHANGED <<call, stopping, running, due, taken, events, sent, faults, viewer>>

(* A transient error: the next connection asks for lines since the second   *)
(* of the last one, so some are sent again.  It is two seconds later; the   *)
(* frame of a prompt stream is shorter.                                     *)
Reconnect(s, first) ==
  /\ reader[s].at = "reading" /\ ~reader[s].canceled
  /\ s \in Prompt => buffer[s].lines = <<>>
  /\ faults < MaxFaults /\ first < reader[s].next
  /\ faults' = faults + 1
  /\ reader' = [reader EXCEPT ![s] = [@ EXCEPT !.next = first]]
  /\ UNCHANGED <<call, stopping, running, buffer, due, taken, events, emitted, sent, viewer>>

(* The stream ends: cancelled, at the end of the log, or with an error. *)
ReadEnds(s) ==
  /\ reader[s].at = "reading"
  /\ \E a \in {"failed", "closing"} :
       /\ a = "failed" => ~reader[s].canceled
       /\ reader' = [reader EXCEPT ![s] = [@ EXCEPT !.at = a]]
  /\ UNCHANGED <<call, stopping, running, buffer, due, taken, events, emitted, sent, faults, viewer>>

-----------------------------------------------------------------------------
(* The coalescer.                                                          *)

TimerFires(s) ==
  /\ buffer[s].armed
  /\ buffer' = [buffer EXCEPT ![s] = [@ EXCEPT !.armed = FALSE]]
  /\ due' = [due EXCEPT ![s] = @ + 1]
  /\ UNCHANGED <<call, stopping, running, reader, taken, events, emitted, sent, faults, viewer>>

(* The lines that a callback of a prompt stream took are out at once; other *)
(* callbacks gave up the mutex before they emit.                            *)
HandOver(s) ==
  IF buffer[s].lines = <<>> THEN UNCHANGED <<taken, events, sent>>
  ELSE IF s \in Prompt
    THEN Post(s, buffer[s].lines, <<>>) /\ taken' = taken
    ELSE taken' = [taken EXCEPT ![s] = Append(@, buffer[s].lines)] /\ UNCHANGED <<events, sent>>

(* Mutant: the callback leaves the pending flag alone. *)
FlushKeepsPending(s) ==
  /\ due[s] > 0
  /\ due' = [due EXCEPT ![s] = @ - 1]
  /\ buffer' = [buffer EXCEPT ![s] = [@ EXCEPT !.lines = <<>>]]
  /\ HandOver(s)
  /\ UNCHANGED <<call, stopping, running, reader, emitted, faults, viewer>>

(* Mutant: the callback copies the lines and leaves them in the buffer. *)
FlushKeepsLines(s) ==
  /\ due[s] > 0
  /\ due' = [due EXCEPT ![s] = @ - 1]
  /\ buffer' = [buffer EXCEPT ![s] = [@ EXCEPT !.pending = FALSE]]
  /\ HandOver(s)
  /\ UNCHANGED <<call, stopping, running, reader, emitted, faults, viewer>>

(* The timer callback takes the lines. *)
FlushStream(s) ==
  /\ due[s] > 0
  /\ due' = [due EXCEPT ![s] = @ - 1]
  /\ buffer' = [buffer EXCEPT ![s] = [@ EXCEPT !.lines = <<>>, !.pending = FALSE]]
  /\ HandOver(s)
  /\ UNCHANGED <<call, stopping, running, reader, emitted, faults, viewer>>

(* Callbacks of several frames emit in any order. *)
EmitBatch(s) ==
  \E i \in 1 .. Len(taken[s]) :
    /\ Post(s, taken[s][i], <<>>)
    /\ taken' = [taken EXCEPT ![s] = SubSeq(@, 1, i - 1) \o SubSeq(@, i + 1, Len(taken[s]))]
    /\ UNCHANGED <<call, stopping, running, reader, buffer, due, emitted, faults, viewer>>

(* EmitError flushes first; the flush is that of the timer. *)
EmitError(s) ==
  /\ reader[s].at = "failed"
  /\ buffer' = [buffer EXCEPT ![s] = [@ EXCEPT !.lines = <<>>, !.pending = FALSE, !.armed = FALSE]]
  /\ reader' = [reader EXCEPT ![s] = [@ EXCEPT !.at = "reporting", !.own = buffer[s].lines]]
  /\ UNCHANGED <<call, stopping, running, due, taken, events, emitted, sent, faults, viewer>>

ReportError(s) ==
  /\ reader[s].at = "reporting"
  /\ Post(s, reader[s].own, End("error"))
  /\ reader' = [reader EXCEPT ![s] = [@ EXCEPT !.at = "closing", !.own = <<>>]]
  /\ UNCHANGED <<call, stopping, running, buffer, due, taken, emitted, faults, viewer>>

(* Mutant: the buffer stays in the map. *)
EmitDoneKeepsBuffer(s) ==
  /\ reader[s].at = "closing"
  /\ running' = running \ {s}
  /\ buffer' = [buffer EXCEPT ![s] = [@ EXCEPT !.lines = <<>>, !.armed = FALSE]]
  /\ reader' = [reader EXCEPT ![s] = [@ EXCEPT !.at = "draining", !.own = buffer[s].lines]]
  /\ UNCHANGED <<call, stopping, due, taken, events, emitted, sent, faults, viewer>>

(* The goroutine leaves logStreams; EmitDone removes the buffer and then    *)
(* emits what was in it.                                                    *)
EmitDone(s) ==
  /\ reader[s].at = "closing"
  /\ running' = running \ {s}
  /\ buffer' = [buffer EXCEPT ![s] = NoBuffer]
  /\ reader' = [reader EXCEPT ![s] = [@ EXCEPT !.at = "draining", !.own = buffer[s].lines]]
  /\ UNCHANGED <<call, stopping, due, taken, events, emitted, sent, faults, viewer>>

(* Mutant: the end is announced before the last lines. *)
ReportDoneFirst(s) ==
  /\ reader[s].at = "draining"
  /\ events' = [events EXCEPT ![s] = @ \o End("done") \o Batch(reader[s].own)]
  /\ sent' = [sent EXCEPT ![s] = @ \o reader[s].own]
  /\ reader' = [reader EXCEPT ![s] = [@ EXCEPT !.at = "over", !.own = <<>>]]
  /\ UNCHANGED <<call, stopping, running, buffer, due, taken, emitted, faults, viewer>>

ReportDone(s) ==
  /\ reader[s].at = "draining"
  /\ Post(s, reader[s].own, End("done"))
  /\ reader' = [reader EXCEPT ![s] = [@ EXCEPT !.at = "over", !.own = <<>>]]
  /\ UNCHANGED <<call, stopping, running, buffer, due, taken, emitted, faults, viewer>>

Next ==
  \/ Leave
  \/ \E s \in Streams :
       \/ \E h \in 0 .. Length[s] - 1 : StartStreaming(s, h)
       \/ Answer(s) \/ Handle(s)
       \/ \E n \in 1 .. Length[s] + 1 : StartLogStream(s, n) \/ Reconnect(s, n)
       \/ StopLogStream(s) \/ EmitLine(s) \/ ReadEnds(s)
       \/ TimerFires(s) \/ FlushStream(s) \/ EmitBatch(s)
       \/ EmitError(s) \/ ReportError(s) \/ EmitDone(s) \/ ReportDone(s)

Spec == Init /\ [][Next]_vars

-----------------------------------------------------------------------------
(* Types.  A stream has one callback at most, and no buffer once it ended:  *)
(* none is left behind in the coalescer's map.                              *)
TypeOK ==
  /\ call \in [Streams -> {"unused", "asked", "answering", "answered"}]
  /\ stopping \subseteq Streams /\ running \subseteq Streams
  /\ \A s \in Streams :
       /\ reader[s].at \in {"none", "reading", "failed", "reporting", "closing", "draining", "over"}
       /\ reader[s].next \in 1 .. Length[s] + 1 /\ reader[s].own \in Seq(Lines(s))
       /\ buffer[s].lines \in Seq(Lines(s))
       /\ due[s] \in {0, 1} /\ taken[s] \in Seq(Seq(Lines(s)))
       /\ buffer[s].armed => buffer[s].pending
       /\ reader[s].at \in {"draining", "over"} => buffer[s] = NoBuffer
  /\ {want, ref} \subseteq Streams \cup {NoStream}
  /\ logs \in Seq(Nat) /\ faults \in 0 .. MaxFaults

(* No line is lost or sent twice on its way through the coalescer, in which *)
(* order callbacks, errors and the end may come.                            *)
NothingLost ==
  \A s \in Streams :
    Len(emitted[s]) = Len(sent[s]) + Len(Flat(taken[s])) + Len(reader[s].own) + Len(buffer[s].lines)

(* Lines of a prompt stream are sent in the order of the log, and nothing   *)
(* but the end follows an error, nothing the end.                           *)
InOrder ==
  \A s \in Prompt :
    /\ emitted[s] = sent[s] \o reader[s].own \o buffer[s].lines
    /\ \A i \in 1 .. Len(events[s]) - 1 : events[s][i].kind \in Ends =>
         i = Len(events[s]) - 1 /\ events[s][i].kind = "error" /\ events[s][i + 1].kind = "done"

(* If answers come first, a viewer of a prompt stream shows the log without *)
(* gaps and repetitions, whatever the tail and reconnections repeat.        *)
ViewExact ==
  Settled /\ want \in Prompt => logs = [i \in 1 .. Len(logs) |-> i]

(* If answers come first, only the stream the viewer asked for is read:     *)
(* every other one has ended or has a Stop on its way.                      *)
OthersStop ==
  Settled => \A s \in Streams :
    reader[s].at = "reading" /\ s # want => s \in stopping \/ reader[s].canceled

(* If answers come first, a viewer that believes it follows a stream will   *)
(* be told of its end.                                                      *)
EndIsNoticed ==
  Settled /\ ref # NoStream /\ reader[ref].at = "over" =>
    \E i \in 1 .. Len(events[ref]) : events[ref][i].kind \in Ends

(* No line waits for a frame that does not come: what is in the buffer has  *)
(* a timer, or a callback of one, that will take it.                        *)
NothingWaits ==
  \A s \in Streams : buffer[s].lines # <<>> => buffer[s].armed \/ due[s] > 0

(* The log arrives exactly: no line lost, repeated or out of order, and its *)
(* end is noticed.                                                          *)
LogExact == NothingLost /\ InOrder /\ ViewExact /\ EndIsNoticed

(* No line stays in a buffer, and no stream that was left goes on.          *)
NothingLeftBehind == NothingWaits /\ OthersStop

(* The viewer's cleanup stops its stream ("Cleanup on unmount").            *)
NoLeakedStream ==
  \A s \in Streams :
    reader[s].at = "reading" /\ call[s] = "answered" /\ s # want =>
      s = ref \/ s \in stopping \/ reader[s].canceled
=============================================================================
