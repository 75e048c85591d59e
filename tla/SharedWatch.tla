---------------------------- MODULE SharedWatch ----------------------------
(***************************************************************************)
(* What the watcher manager promises, without counts, timers or loops: a   *)
(* key is watched while it has users; it may go on being watched for a     *)
(* while after the last one left; stopping everything forgets the users.   *)
(***************************************************************************)
CONSTANTS Keys, Clients

VARIABLES
  users,  \* clients that use the watch of a key
  wants,  \* client -> key
  on      \* keys that are watched

UsersOf(k) == {c \in users : wants[c] = k}

Init ==
  /\ users = {}
  /\ on = {}
  /\ wants \in [Clients -> Keys]

Choose(c, k) ==
  /\ c \notin users
  /\ wants' = [wants EXCEPT ![c] = k]
  /\ UNCHANGED <<users, on>>

Join(c) ==
  /\ users' = users \cup {c}
  /\ on' = on \cup {wants[c]}
  /\ UNCHANGED wants

Leave(c) ==
  /\ users' = users \ {c}
  /\ UNCHANGED <<on, wants>>

(* Only a watch without users ends by itself. *)
End(k) ==
  /\ UsersOf(k) = {}
  /\ on' = on \ {k}
  /\ UNCHANGED <<users, wants>>

StopAll ==
  /\ users' = {} /\ on' = {}
  /\ UNCHANGED wants

Next ==
  \/ \E c \in Clients : Join(c) \/ Leave(c) \/ \E k \in Keys : Choose(c, k)
  \/ \E k \in Keys : End(k)
  \/ StopAll

Spec == Init /\ [][Next]_<<users, wants, on>>
=============================================================================
