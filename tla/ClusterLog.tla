---------------------------- MODULE ClusterLog ----------------------------
(***************************************************************************)
(* The Kubernetes API server as the watch loops and list requests see it:  *)
(* one append-only log of the changes of one resource type, whose positions *)
(* are the resource versions.  A list reads the state at the end of the    *)
(* log; a watch with a resource version replays the log from there; a watch *)
(* without one begins with an ADDED per live object and goes on from "now". *)
(* An object (a uid) is created once; TERMINATING is the MODIFIED that sets *)
(* its deletionTimestamp.                                                  *)
(***************************************************************************)
EXTENDS Naturals, Sequences, FiniteSets

CONSTANTS
  Uids,     \* objects
  Names,    \* resourceType:namespace:name, the key of the frame buffer
  Scopes,   \* namespaces the view watches and lists
  NameOf,   \* uid -> name; a recreated object has the name of its predecessor
  ScopeOf   \* uid -> namespace

ASSUME ClusterAssumption ==
  /\ NameOf \in [Uids -> Names]
  /\ ScopeOf \in [Uids -> Scopes]
  /\ \A u, v \in Uids : NameOf[u] = NameOf[v] => ScopeOf[u] = ScopeOf[v]

Change == [type : {"ADDED", "MODIFIED", "TERMINATING", "DELETED"}, uid : Uids]

(* Positions up to n at which u changed, and the last of them (0: none). *)
Changes(log, u, n) == {i \in 1..n : log[i].uid = u}

Version(log, u, n) ==
  LET C == Changes(log, u, n)
  IN IF C = {} THEN 0 ELSE CHOOSE i \in C : \A j \in C : j <= i

Live(log, u, n) ==
  /\ Changes(log, u, n) # {}
  /\ log[Version(log, u, n)].type # "DELETED"

(* What a list of the namespaces in S returns at position n: uid -> version. *)
Listed(log, S, n) ==
  [u \in Uids |-> IF ScopeOf[u] \in S /\ Live(log, u, n) THEN Version(log, u, n) ELSE 0]

(* The changes the API server accepts next. *)
Legal(log, c) ==
  LET n == Len(log)
      last == IF Changes(log, c.uid, n) = {} THEN "none" ELSE log[Version(log, c.uid, n)].type
  IN CASE c.type = "ADDED" ->
            /\ last = "none"
            /\ \A u \in Uids : NameOf[u] = NameOf[c.uid] => ~Live(log, u, n)
       [] c.type \in {"MODIFIED", "TERMINATING"} -> last \in {"ADDED", "MODIFIED"}
       [] c.type = "DELETED" -> last \in {"ADDED", "MODIFIED", "TERMINATING"}

(* Changes in namespace s after position n, which a watch must still send. *)
Ahead(log, s, n) == {i \in (n + 1)..Len(log) : ScopeOf[log[i].uid] = s}

=============================================================================
