---------------------------- MODULE MergedStream ----------------------------
(***************************************************************************)
(* Following several containers at once: StreamAllContainersLogs and       *)
(* StreamAllPodsLogs of podlogs.go, with a reader per container, the       *)
(* channel and the loop that sorts what comes within a tick; and what the  *)
(* viewer makes of it.  A line is its timestamp, of which no two are equal.*)
(***************************************************************************)
EXTENDS Integers, Sequences, FiniteSets, Functions

CONSTANTS
  StreamLogs, \* source -> the timestamps of its lines: the choices
  ChannelSize

MergeAssumption ==
  /\ ChannelSize \in Nat \ {0}
  /\ \A l \in StreamLogs : \A s \in DOMAIN l :
       l[s] \subseteq Nat \ {0} /\ \A r \in DOMAIN l \ {s} : l[r] \cap l[s] = {}

VARIABLES
  lines,    \* source -> the lines its reader has not read
  reader,   \* source -> "reading", "ended", or "failed": it left an error
  lineChan, buffer,
  loop,     \* "running", or what the loop returned
  canceled, \* ctx
  emitted,  \* the lines given to onLine
  shown     \* the lines the viewer kept of them

mergeVars == <<lines, reader, lineChan, buffer, loop, canceled, emitted, shown>>

Sources == DOMAIN lines
AllOf(l) == UNION {l[s] : s \in DOMAIN l}

TypeOK ==
  /\ \E l \in StreamLogs : DOMAIN l = Sources /\ \A s \in Sources : lines[s] \subseteq l[s]
  /\ reader \in [Sources -> {"reading", "ended", "failed"}]
  /\ {lineChan, buffer, emitted, shown} \subseteq Seq(Nat) /\ Len(lineChan) <= ChannelSize
  /\ loop \in {"running", "done", "failed", "canceled"} /\ canceled \in BOOLEAN

Init ==
  /\ lines \in StreamLogs /\ reader = [s \in Sources |-> "reading"]
  /\ lineChan = <<>> /\ buffer = <<>> /\ loop = "running" /\ canceled = FALSE
  /\ emitted = <<>> /\ shown = <<>>

Oldest(S) == CHOOSE x \in S : \A y \in S : x <= y

(* A reader passes its next line on, unless the channel is full. *)
Read(s) ==
  /\ reader[s] = "reading" /\ lines[s] # {} /\ Len(lineChan) < ChannelSize
  /\ lineChan' = Append(lineChan, Oldest(lines[s]))
  /\ lines' = [lines EXCEPT ![s] = @ \ {Oldest(@)}]
  /\ UNCHANGED <<reader, buffer, loop, canceled, emitted, shown>>

(* Cancelled, it need not wait for room. *)
ReadNoMore(s) ==
  /\ reader[s] = "reading" /\ canceled
  /\ reader' = [reader EXCEPT ![s] = "ended"]
  /\ UNCHANGED <<lines, lineChan, buffer, loop, canceled, emitted, shown>>

(* The container ended, with all its lines read, or the stream failed. *)
ReaderEnds(s) ==
  /\ reader[s] = "reading"
  /\ \/ lines[s] = {} /\ reader' = [reader EXCEPT ![s] = "ended"]
     \/ reader' = [reader EXCEPT ![s] = "failed"]
  /\ UNCHANGED <<lines, lineChan, buffer, loop, canceled, emitted, shown>>

Cancel ==
  /\ ~canceled /\ canceled' = TRUE
  /\ UNCHANGED <<lines, reader, lineChan, buffer, loop, emitted, shown>>

Receive ==
  /\ loop = "running" /\ lineChan # <<>>
  /\ buffer' = Append(buffer, Head(lineChan)) /\ lineChan' = Tail(lineChan)
  /\ UNCHANGED <<lines, reader, loop, canceled, emitted, shown>>

Sorted(S) == [i \in 1 .. Cardinality(S) |-> CHOOSE x \in S : Cardinality({y \in S : y < x}) = i - 1]

(* flushBuffer; the viewer keeps what is newer than its last line.  A tick  *)
(* is longer than a frame: each flush is a batch of its own.               *)
FlushBuffer ==
  /\ emitted' = emitted \o Sorted(Range(buffer))
  /\ shown' = shown \o Sorted({x \in Range(buffer) : shown = <<>> \/ x > shown[Len(shown)]})
  /\ buffer' = <<>>

Tick ==
  /\ loop = "running" /\ FlushBuffer
  /\ UNCHANGED <<lines, reader, lineChan, loop, canceled>>

(* The channel is closed once every reader ended, and has been drained. *)
Drained ==
  /\ loop = "running" /\ lineChan = <<>> /\ \A s \in Sources : reader[s] # "reading"
  /\ FlushBuffer
  /\ loop' = IF \E s \in Sources : reader[s] = "failed" THEN "failed" ELSE "done"
  /\ UNCHANGED <<lines, reader, lineChan, canceled>>

(* The lines that are still in the channel are given up. *)
SeesCancel ==
  /\ loop = "running" /\ canceled
  /\ FlushBuffer /\ loop' = "canceled"
  /\ UNCHANGED <<lines, reader, lineChan, canceled>>

Next ==
  \/ \E s \in Sources : Read(s) \/ ReadNoMore(s) \/ ReaderEnds(s)
  \/ Cancel \/ Receive \/ Tick \/ Drained \/ SeesCancel

Spec == Init /\ [][Next]_mergeVars

-----------------------------------------------------------------------------
(* Every line is unread or in one place, once; a stream that nobody         *)
(* cancelled ends when all readers did, with all they read given out, and   *)
(* does not call a failure an end.                                         *)
NoneLost ==
  /\ LET all == lineChan \o buffer \o emitted
     IN  /\ Len(all) = Cardinality(Range(all)) /\ Range(all) \cap AllOf(lines) = {}
         /\ \E l \in StreamLogs : AllOf(l) = AllOf(lines) \cup Range(all)
  /\ loop \in {"done", "failed"} =>
       /\ lineChan = <<>> /\ buffer = <<>> /\ \A s \in Sources : reader[s] # "reading"
       /\ loop = "done" => canceled \/ AllOf(lines) = {}

(* A reader does not wait for ever: when the channel is full there is a loop *)
(* to receive, or the context ends the reader.                             *)
NoneBlocked == Len(lineChan) = ChannelSize => loop = "running" \/ canceled

(* What the viewer shows is in order, and what it dropped is older than a   *)
(* line it had.                                                            *)
ShownInOrder ==
  /\ \A i \in 1 .. Len(shown) - 1 : shown[i] < shown[i + 1]
  /\ \A x \in Range(emitted) \ Range(shown) : \E y \in Range(shown) : x < y

(* A merged stream gives out what it reads and ends when it should, and the *)
(* viewer shows what it can of it in order.                                *)
MergeSound == NoneLost /\ NoneBlocked /\ ShownInOrder
=============================================================================
