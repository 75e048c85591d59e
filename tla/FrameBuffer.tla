---------------------------- MODULE FrameBuffer ----------------------------
(***************************************************************************)
(* What EventCoalescer promises the rest of the program, without timers,   *)
(* frames, batch sizes or a mutex: one slot per key that holds the newest  *)
(* event, a DELETED that empties the slot and is posted at once, slots     *)
(* posted some at a time, and a Discard that forgets every slot.  The      *)
(* models of the watch pipeline are built on this module.                  *)
(***************************************************************************)
EXTENDS Naturals, Sequences

CONSTANTS Keys, Event, NoEvent

VARIABLES buffer, wire

Filled == {k \in Keys : buffer[k] # NoEvent}

Init ==
  /\ buffer = [k \in Keys |-> NoEvent]
  /\ wire = <<>>

(* ADDED or MODIFIED: the newest event of the key replaces the older one. *)
Store(e) ==
  /\ e.type # "DELETED"
  /\ buffer' = [buffer EXCEPT ![e.key] = e]
  /\ UNCHANGED wire

(* DELETED empties the slot and overtakes everything that is buffered; any  *)
(* other event may be posted at once only past an empty slot.               *)
Bypass(e) ==
  /\ e.type # "DELETED" => buffer[e.key] = NoEvent
  /\ buffer' = [buffer EXCEPT ![e.key] = NoEvent]
  /\ wire' = Append(wire, {e})

(* Some of the slots are posted as one message. *)
Release(S) ==
  /\ S # {}
  /\ buffer' = [k \in Keys |-> IF k \in S THEN NoEvent ELSE buffer[k]]
  /\ wire' = Append(wire, {buffer[k] : k \in S})

Discard ==
  /\ buffer' = [k \in Keys |-> NoEvent]
  /\ UNCHANGED wire

(* The frontend handles the oldest message. *)
Consume ==
  /\ wire # <<>>
  /\ wire' = Tail(wire)
  /\ UNCHANGED buffer

Next ==
  \/ \E e \in Event : Store(e) \/ Bypass(e)
  \/ \E S \in SUBSET Filled : Release(S)
  \/ Discard
  \/ Consume

vars == <<buffer, wire>>

Spec == Init /\ [][Next]_vars

=============================================================================
