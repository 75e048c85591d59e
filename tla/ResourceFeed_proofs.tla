------------------------ MODULE ResourceFeed_proofs ------------------------
(***************************************************************************)
(* Proofs about the rows of a view, for any number of objects, names and   *)
(* namespaces and any length of the cluster's log.  First what the log and *)
(* the replay of the journal compute, by induction; then the types; then   *)
(* the invariant of the traffic between the watch loops and the rows.      *)
(***************************************************************************)
EXTENDS ResourceFeed, WellFoundedInduction, TLAPS

-----------------------------------------------------------------------------
(* Induction over the natural numbers, for sets instead of predicates.     *)

LEMMA LeastNumber ==
  ASSUME NEW T \in SUBSET Nat, T # {}
  PROVE  \E m \in T : \A k \in T : m <= k
<1>1. IsWellFoundedOn(OpToRel(<,Nat), Nat)
  BY NatLessThanWellFounded, Zenon
<1>2. PICK m \in T : \A k \in T : ~(<<k, m>> \in OpToRel(<,Nat))
  BY <1>1, WFMin, Zenon
<1>3. \A k \in T : ~(k < m)
  BY <1>2 DEF OpToRel
<1>4. QED
  BY <1>3

LEMMA SetInduction ==
  ASSUME NEW T \in SUBSET Nat, 0 \in T, \A n \in T : n + 1 \in T
  PROVE  T = Nat
<1>1. SUFFICES ASSUME Nat \ T # {} PROVE FALSE
  OBVIOUS
<1>2. PICK m \in Nat \ T : \A k \in Nat \ T : m <= k
  BY <1>1, LeastNumber
<1>3. m # 0 /\ m - 1 \in Nat
  BY <1>2
<1>4. m - 1 \in T
  BY <1>2, <1>3
<1>5. QED
  BY <1>2, <1>4

-----------------------------------------------------------------------------
(* The replay of the journal.                                              *)

(* The rows after each of the first n batches. *)
Stages(g, map, batches, n) ==
  g = [i \in 0..n |-> IF i = 0 THEN map ELSE Apply(g[i - 1], batches[i])]

LEMMA StagesExist ==
  ASSUME NEW map, NEW batches, NEW n \in Nat
  PROVE  \E g : Stages(g, map, batches, n)
<1> DEFINE T == {k \in Nat : \E g : Stages(g, map, batches, k)}
<1>1. 0 \in T
  <2> DEFINE g == [i \in 0..0 |-> map]
  <2>1. Stages(g, map, batches, 0)
    BY DEF Stages
  <2>2. QED
    BY <2>1
<1>2. ASSUME NEW k \in T PROVE k + 1 \in T
  <2>1. PICK g : Stages(g, map, batches, k)
    OBVIOUS
  <2> DEFINE h == [i \in 0..(k + 1) |-> IF i = k + 1 THEN Apply(g[k], batches[k + 1]) ELSE g[i]]
  <2>2. \A i \in 0..k : h[i] = g[i]
    OBVIOUS
  <2>3. \A i \in 0..k : g[i] = IF i = 0 THEN map ELSE Apply(g[i - 1], batches[i])
    BY <2>1 DEF Stages
  <2>4. ASSUME NEW i \in 0..(k + 1)
        PROVE  h[i] = IF i = 0 THEN map ELSE Apply(h[i - 1], batches[i])
    <3>1. CASE i = k + 1
      <4>1. h[i] = Apply(g[k], batches[i]) /\ i # 0 /\ i - 1 = k /\ h[k] = g[k]
        BY <2>2, <3>1
      <4>2. QED
        BY <4>1
    <3>2. CASE i \in 0..k /\ i # 0
      <4>1. i - 1 \in 0..k
        BY <3>2
      <4>2. QED
        BY <2>2, <2>3, <3>2, <4>1
    <3>3. CASE i = 0
      BY <2>2, <2>3, <3>3
    <3>4. QED
      BY <3>1, <3>2, <3>3
  <2>5. Stages(h, map, batches, k + 1)
    BY <2>4, Zenon DEF Stages
  <2>6. QED
    BY <2>5
<1>3. T = Nat
  BY <1>1, <1>2, SetInduction
<1>4. QED
  BY <1>3

LEMMA StagesAgree ==
  ASSUME NEW map, NEW J \in Seq(SUBSET Event), NEW B \in SUBSET Event, NEW g, NEW h,
         Stages(g, map, J, Len(J)), Stages(h, map, Append(J, B), Len(J) + 1)
  PROVE  g[Len(J)] = h[Len(J)]
<1> DEFINE n == Len(J)
<1> DEFINE c == Append(J, B)
<1> DEFINE T == {i \in Nat : i <= n => g[i] = h[i]}
<1>1. /\ \A i \in 0..n : g[i] = IF i = 0 THEN map ELSE Apply(g[i - 1], J[i])
      /\ \A i \in 0..(n + 1) : h[i] = IF i = 0 THEN map ELSE Apply(h[i - 1], c[i])
  BY DEF Stages
<1>2. n \in Nat /\ \A i \in 1..n : J[i] = c[i]
  OBVIOUS
<1>3. 0 \in T
  BY <1>1, <1>2
<1> HIDE DEF n, c
<1>4. ASSUME NEW i \in T PROVE i + 1 \in T
  <2>1. CASE i + 1 <= n
    <3>1. g[i] = h[i] /\ i + 1 \in 0..n /\ i + 1 \in 0..(n + 1) /\ (i + 1) - 1 = i /\ i + 1 # 0
      BY <1>2, <2>1
    <3>2. J[i + 1] = c[i + 1]
      BY <1>2, <3>1
    <3>3. g[i + 1] = Apply(g[i], J[i + 1]) /\ h[i + 1] = Apply(h[i], c[i + 1])
      BY <1>1, <3>1
    <3>4. QED
      BY <3>1, <3>2, <3>3
  <2>2. QED
    BY <2>1
<1>5. T = Nat
  BY <1>3, <1>4, SetInduction
<1>6. QED
  BY <1>2, <1>5 DEF n

LEMMA Unfold ==
  ASSUME NEW map, NEW batches \in Seq(SUBSET Event)
  PROVE  \E g : Stages(g, map, batches, Len(batches)) /\ ApplyAll(map, batches) = g[Len(batches)]
<1> DEFINE g == CHOOSE g : g = [i \in 0..Len(batches) |->
                                  IF i = 0 THEN map ELSE Apply(g[i - 1], batches[i])]
<1>1. \E f : Stages(f, map, batches, Len(batches))
  BY StagesExist
<1>2. Stages(g, map, batches, Len(batches))
  BY <1>1 DEF Stages
<1>3. ApplyAll(map, batches) = g[Len(batches)]
  BY Zenon DEF ApplyAll
<1>4. QED
  BY <1>2, <1>3

LEMMA ApplyNothing ==
  ASSUME NEW map
  PROVE  ApplyAll(map, <<>>) = map
<1>1. <<>> \in Seq(SUBSET Event) /\ Len(<<>>) = 0
  OBVIOUS
<1>2. PICK g : Stages(g, map, <<>>, Len(<<>>)) /\ ApplyAll(map, <<>>) = g[Len(<<>>)]
  BY <1>1, Unfold
<1>3. QED
  BY <1>1, <1>2 DEF Stages

LEMMA ApplyMore ==
  ASSUME NEW map, NEW J \in Seq(SUBSET Event), NEW B \in SUBSET Event
  PROVE  ApplyAll(map, Append(J, B)) = Apply(ApplyAll(map, J), B)
<1> DEFINE n == Len(J)
<1>1. PICK g : Stages(g, map, J, n) /\ ApplyAll(map, J) = g[n]
  BY Unfold
<1>2. Append(J, B) \in Seq(SUBSET Event) /\ Len(Append(J, B)) = n + 1 /\ n \in Nat /\ n + 1 \in Nat /\ n <= n + 1
  OBVIOUS
<1>3. PICK h : Stages(h, map, Append(J, B), n + 1) /\ ApplyAll(map, Append(J, B)) = h[n + 1]
  BY <1>2, Unfold
<1>4. g[n] = h[n]
  BY <1>1, <1>3, StagesAgree
<1>5. h[n + 1] = Apply(h[n], B)
  <2>1. \A i \in 0..(n + 1) : h[i] = IF i = 0 THEN map ELSE Apply(h[i - 1], Append(J, B)[i])
    BY <1>3 DEF Stages
  <2>2. n + 1 \in 0..(n + 1) /\ n + 1 # 0 /\ (n + 1) - 1 = n /\ Append(J, B)[n + 1] = B
    BY <1>2
  <2>3. QED
    BY <2>1, <2>2
<1>6. QED
  BY <1>1, <1>3, <1>4, <1>5

(* What every batch of a journal keeps, its replay keeps. *)
LEMMA ApplyKeeps ==
  ASSUME NEW P, NEW map \in P, NEW J \in Seq(SUBSET Event),
         \A m \in P : \A i \in DOMAIN J : Apply(m, J[i]) \in P
  PROVE  ApplyAll(map, J) \in P
<1> DEFINE n == Len(J)
<1>1. PICK g : Stages(g, map, J, n) /\ ApplyAll(map, J) = g[n]
  BY Unfold
<1>2. \A i \in 0..n : g[i] = IF i = 0 THEN map ELSE Apply(g[i - 1], J[i])
  BY <1>1 DEF Stages
<1>3. n \in Nat /\ DOMAIN J = 1..n
  OBVIOUS
<1> DEFINE T == {i \in Nat : i <= n => g[i] \in P}
<1> HIDE DEF n
<1>4. 0 \in T
  BY <1>2, <1>3
<1>5. ASSUME NEW i \in T PROVE i + 1 \in T
  <2>1. CASE i + 1 <= n
    <3>1. g[i] \in P /\ i + 1 \in 0..n /\ i + 1 \in DOMAIN J /\ (i + 1) - 1 = i /\ i + 1 # 0
      BY <1>3, <2>1
    <3>2. g[i + 1] = Apply(g[i], J[i + 1])
      BY <1>2, <3>1
    <3>3. QED
      BY <3>1, <3>2
  <2>2. QED
    BY <2>1
<1>6. T = Nat
  BY <1>4, <1>5, SetInduction
<1>7. QED
  BY <1>1, <1>3, <1>6 DEF n

(* An object with no event in the journal keeps its row. *)
Absent(J, u, from) == \A i \in DOMAIN J : i > from => \A e \in J[i] : e.uid # u

(* The last event of an object decides its row, from a row that the events *)
(* before it make. *)
LEMMA ApplyLast ==
  ASSUME NEW P, NEW map \in P, NEW J \in Seq(SUBSET Event), NEW u \in Uids,
         NEW k \in DOMAIN J, NEW e \in J[k], e.uid = u,
         \A f \in J[k] : f.uid = u => f = e,
         \A m \in P : \A i \in DOMAIN J : i < k => Apply(m, J[i]) \in P,
         Absent(J, u, k)
  PROVE  \E m \in P : ApplyAll(map, J)[u] = Reduce(m[u], e)
<1> DEFINE n == Len(J)
<1>1. PICK g : Stages(g, map, J, n) /\ ApplyAll(map, J) = g[n]
  BY Unfold
<1>2. \A i \in 0..n : g[i] = IF i = 0 THEN map ELSE Apply(g[i - 1], J[i])
  BY <1>1 DEF Stages
<1>3. n \in Nat /\ DOMAIN J = 1..n
  OBVIOUS
<1> DEFINE T == {i \in Nat : i < k => g[i] \in P}
<1> HIDE DEF n
<1>4. T = Nat
  <2>1. 0 \in T
    BY <1>2, <1>3
  <2>2. ASSUME NEW i \in T PROVE i + 1 \in T
    <3>1. CASE i + 1 < k
      <4>1. g[i] \in P /\ i + 1 \in 0..n /\ i + 1 \in DOMAIN J /\ (i + 1) - 1 = i /\ i + 1 # 0
        BY <1>3, <3>1
      <4>2. g[i + 1] = Apply(g[i], J[i + 1])
        BY <1>2, <4>1
      <4>3. QED
        BY <3>1, <4>1, <4>2
    <3>2. QED
      BY <3>1
  <2>3. QED
    BY <2>1, <2>2, SetInduction
<1>5. g[k - 1] \in P /\ g[k] = Apply(g[k - 1], J[k])
  <2>1. k \in 0..n /\ k # 0 /\ k - 1 \in Nat /\ k - 1 < k
    BY <1>3
  <2>2. k - 1 \in T
    BY <1>4, <2>1
  <2>3. QED
    BY <1>2, <2>1, <2>2
<1>6. g[k][u] = Reduce(g[k - 1][u], e)
  <2>1. (CHOOSE f \in J[k] : f.uid = u) = e
    OBVIOUS
  <2>2. QED
    BY <1>5, <2>1 DEF Apply
<1> DEFINE R == {i \in Nat : k <= i /\ i <= n => g[i][u] = g[k][u]}
<1>7. R = Nat
  <2>1. 0 \in R
    BY <1>3
  <2>2. ASSUME NEW i \in R PROVE i + 1 \in R
    <3>1. CASE k <= i /\ i + 1 <= n
      <4>1. g[i][u] = g[k][u] /\ i + 1 \in 0..n /\ i + 1 \in DOMAIN J /\ (i + 1) - 1 = i /\ i + 1 # 0
        BY <1>3, <3>1
      <4>2. g[i + 1] = Apply(g[i], J[i + 1])
        BY <1>2, <4>1
      <4>3. \A f \in J[i + 1] : f.uid # u
        BY <1>3, <3>1, <4>1 DEF Absent
      <4>4. g[i + 1][u] = g[i][u]
        BY <4>2, <4>3 DEF Apply
      <4>5. QED
        BY <4>1, <4>4
    <3>2. CASE i + 1 = k
      BY <3>2
    <3>3. QED
      BY <1>3, <3>1, <3>2
  <2>3. QED
    BY <2>1, <2>2, SetInduction
<1>8. n \in R /\ k <= n
  BY <1>3, <1>7
<1>9. g[n][u] = g[k][u]
  BY <1>3, <1>8
<1>10. QED
  BY <1>1, <1>5, <1>6, <1>9 DEF n

-----------------------------------------------------------------------------
(* The log.                                                                *)

LEMMA GreatestNumber ==
  ASSUME NEW n \in Nat, NEW T \in SUBSET (1..n), T # {}
  PROVE  \E m \in T : \A k \in T : k <= m
<1> DEFINE D == {n - k : k \in T}
<1>1. D \in SUBSET Nat /\ D # {}
  <2>1. \A k \in T : n - k \in Nat
    OBVIOUS
  <2>2. PICK k \in T : TRUE
    OBVIOUS
  <2>3. n - k \in D
    OBVIOUS
  <2>4. QED
    BY <2>1, <2>3
<1>2. PICK d \in D : \A c \in D : d <= c
  BY <1>1, LeastNumber
<1>3. PICK m \in T : d = n - m
  BY <1>2
<1>4. \A k \in T : n - m <= n - k
  BY <1>2, <1>3
<1>5. \A k \in T : k <= m
  BY <1>4
<1>6. QED
  BY <1>5

(* The version of an object is the last of its changes. *)
LEMMA VersionIsLast ==
  ASSUME NEW L \in Seq(Change), NEW u \in Uids, NEW n \in 0..Len(L)
  PROVE  /\ Changes(L, u, n) \subseteq 1..n
         /\ Version(L, u, n) \in 0..n
         /\ Changes(L, u, n) = {} => Version(L, u, n) = 0
         /\ Changes(L, u, n) # {} => Version(L, u, n) \in Changes(L, u, n)
         /\ \A i \in Changes(L, u, n) : i <= Version(L, u, n)
<1>1. Changes(L, u, n) \subseteq 1..n
  BY DEF Changes
<1>2. CASE Changes(L, u, n) = {}
  BY <1>2 DEF Version
<1>3. CASE Changes(L, u, n) # {}
  <2>1. \E i \in Changes(L, u, n) : \A j \in Changes(L, u, n) : j <= i
    <3>1. n \in Nat /\ Changes(L, u, n) \in SUBSET (1..n)
      BY <1>1
    <3>2. QED
      BY <1>3, <3>1, GreatestNumber
  <2>2. Version(L, u, n) = CHOOSE i \in Changes(L, u, n) : \A j \in Changes(L, u, n) : j <= i
    BY <1>3 DEF Version
  <2>3. /\ Version(L, u, n) \in Changes(L, u, n)
        /\ \A j \in Changes(L, u, n) : j <= Version(L, u, n)
    BY <2>1, <2>2
  <2>4. QED
    BY <1>1, <1>3, <2>3
<1>4. QED
  BY <1>2, <1>3

(* Nothing of an object happens between two positions: it stays as it is. *)
LEMMA Unchanged ==
  ASSUME NEW L \in Seq(Change), NEW u \in Uids, NEW m \in 0..Len(L), NEW n \in 0..Len(L),
         m <= n, Version(L, u, n) <= m
  PROVE  /\ Changes(L, u, n) = Changes(L, u, m)
         /\ Version(L, u, n) = Version(L, u, m)
         /\ Live(L, u, n) <=> Live(L, u, m)
<1>1. \A i \in Changes(L, u, n) : i <= m
  <2>1. ASSUME NEW i \in Changes(L, u, n) PROVE i <= m
    <3>1. i \in 1..n /\ i <= Version(L, u, n) /\ Version(L, u, n) \in 0..n
      BY VersionIsLast
    <3>2. QED
      BY <3>1
  <2>2. QED
    BY <2>1
<1>2. Changes(L, u, n) = Changes(L, u, m)
  BY <1>1 DEF Changes
<1>3. QED
  BY <1>2 DEF Version, Live

(* A change is appended: nothing that was read before is different. *)
LEMMA AppendKeeps ==
  ASSUME NEW L \in Seq(Change), NEW c \in Change, NEW u \in Uids, NEW n \in 0..Len(L)
  PROVE  /\ Changes(Append(L, c), u, n) = Changes(L, u, n)
         /\ Version(Append(L, c), u, n) = Version(L, u, n)
         /\ Live(Append(L, c), u, n) <=> Live(L, u, n)
<1>1. \A i \in 1..n : Append(L, c)[i] = L[i]
  OBVIOUS
<1>2. Changes(Append(L, c), u, n) = Changes(L, u, n)
  BY <1>1 DEF Changes
<1>3. Version(Append(L, c), u, n) = Version(L, u, n)
  BY <1>2 DEF Version
<1>4. Changes(L, u, n) # {} => Append(L, c)[Version(L, u, n)] = L[Version(L, u, n)]
  BY <1>1, VersionIsLast
<1>5. QED
  BY <1>2, <1>3, <1>4 DEF Live

(* What is new after it. *)
LEMMA AppendAdds ==
  ASSUME NEW L \in Seq(Change), NEW c \in Change, NEW u \in Uids
  PROVE  LET n == Len(L) + 1
             M == Append(L, c) IN
         /\ c.uid = u => /\ Changes(M, u, n) = Changes(L, u, Len(L)) \cup {n}
                         /\ Version(M, u, n) = n
                         /\ Live(M, u, n) <=> c.type # "DELETED"
         /\ c.uid # u => /\ Changes(M, u, n) = Changes(L, u, Len(L))
                         /\ Version(M, u, n) = Version(L, u, Len(L))
                         /\ Live(M, u, n) <=> Live(L, u, Len(L))
<1> DEFINE n == Len(L) + 1
           M == Append(L, c)
<1>1. /\ M \in Seq(Change) /\ Len(M) = n /\ Len(L) \in Nat /\ n \in 0..Len(M) /\ M[n] = c
      /\ \A i \in 1..Len(L) : M[i] = L[i]
  OBVIOUS
<1>2. 1..n = (1..Len(L)) \cup {n} /\ n \notin 1..Len(L)
  BY <1>1
<1> HIDE DEF n, M
<1>3. ASSUME c.uid = u
      PROVE  Changes(M, u, n) = Changes(L, u, Len(L)) \cup {n}
  BY <1>1, <1>2, <1>3 DEF Changes
<1>4. ASSUME c.uid = u
      PROVE  Version(M, u, n) = n
  <2>1. n \in Changes(M, u, n)
    BY <1>3, <1>4
  <2>2. Version(M, u, n) \in 0..n /\ n <= Version(M, u, n) /\ n \in Nat
    BY <1>1, <2>1, VersionIsLast
  <2>3. QED
    BY <2>2
<1>5. ASSUME c.uid = u
      PROVE  Live(M, u, n) <=> c.type # "DELETED"
  BY <1>1, <1>3, <1>4, <1>5 DEF Live
<1>6. ASSUME c.uid # u
      PROVE  /\ Changes(M, u, n) = Changes(L, u, Len(L))
             /\ Version(M, u, n) = Version(L, u, Len(L))
             /\ Live(M, u, n) <=> Live(L, u, Len(L))
  <2>1. Changes(M, u, n) = Changes(L, u, Len(L))
    BY <1>1, <1>2, <1>6 DEF Changes
  <2>2. Version(M, u, n) = Version(L, u, Len(L))
    BY <2>1 DEF Version
  <2>3. Len(L) \in 0..Len(L)
    BY <1>1
  <2>4. Changes(L, u, Len(L)) # {} => Version(L, u, Len(L)) \in 1..Len(L)
    BY <2>3, VersionIsLast
  <2>5. QED
    BY <1>1, <2>1, <2>2, <2>4 DEF Live
<1>7. QED
  BY <1>3, <1>4, <1>5, <1>6 DEF n, M

(* A list shows a live object of its namespaces in its version. *)
LEMMA ListedIs ==
  ASSUME NEW L \in Seq(Change), NEW u \in Uids, NEW S \in SUBSET Scopes
  PROVE  Listed(L, S, Len(L))[u] =
           IF ScopeOf[u] \in S /\ Live(L, u, Len(L)) THEN Version(L, u, Len(L)) ELSE 0
BY DEF Listed

-----------------------------------------------------------------------------
(* Types.                                                                  *)

LoopState ==
  [pc : {"connecting", "open", "waiting"}, rv : 0..MaxChanges,
   pos : 0..MaxChanges, fresh : SUBSET Uids, quiet : BOOLEAN]

Message == (SUBSET Event) \cup {{st} : st \in Status}

(* A watch has read a part of the log, and will still report live objects. *)
LoopsBound ==
  \A s \in Scopes :
    /\ loop[s].rv <= loop[s].pos /\ loop[s].pos <= Len(log)
    /\ \A u \in loop[s].fresh : ScopeOf[u] = s /\ Live(log, u, loop[s].pos)

FetchState ==
  [on : BOOLEAN, read : SUBSET Scopes, items : [Uids -> 0..MaxChanges], readAt : [Scopes -> Nat]]

(* The type invariant, by the parts of the state. *)
BackTyped ==
  /\ log \in Seq(Change) /\ Len(log) <= MaxChanges
  /\ loop \in [Scopes -> LoopState]
  /\ starts \in [Scopes -> Nat] /\ silent \in SUBSET Scopes
  /\ faults \in 0..MaxFaults /\ refreshes \in 0..MaxRefresh

TrafficTyped ==
  /\ buffer \in [Names -> Event \cup {NoEvent}]
  /\ wire \in Seq(Message)
  /\ journal \in Seq(SUBSET Event)

ViewTyped ==
  /\ rows \in [Uids -> 0..MaxChanges] /\ fetch \in FetchState
  /\ loaded \in BOOLEAN /\ failed \in BOOLEAN /\ reconcile \in BOOLEAN
  /\ prevStatus \in {"none", "connected", "reconnecting"}
  /\ synced \in SUBSET Scopes

Typed == BackTyped /\ TrafficTyped /\ ViewTyped /\ LoopsBound

LEMMA TypedIsTyped == Typed => TypeOK
<1> SUFFICES ASSUME Typed PROVE TypeOK
  OBVIOUS
<1>1. {loaded, failed, reconcile} \subseteq BOOLEAN /\ {synced, silent} \subseteq SUBSET Scopes
  BY DEF Typed, BackTyped, ViewTyped
<1>2. QED
  BY <1>1 DEF Typed, BackTyped, TrafficTyped, ViewTyped, TypeOK, LoopState, FetchState, Message

LEMMA Scoping ==
  /\ NameOf \in [Uids -> Names] /\ ScopeOf \in [Uids -> Scopes]
  /\ \A u, v \in Uids : NameOf[u] = NameOf[v] => ScopeOf[u] = ScopeOf[v]
  /\ MaxChanges \in Nat /\ MaxFaults \in Nat /\ MaxRefresh \in Nat
BY ClusterAssumption, FeedAssumption

LEMMA LogFits ==
  ASSUME Typed
  PROVE  /\ log \in Seq(Change) /\ Len(log) \in Nat /\ Len(log) <= MaxChanges
         /\ loop \in [Scopes -> LoopState]
         /\ \A s \in Scopes : /\ loop[s].rv \in Nat /\ loop[s].pos \in 0..Len(log)
                              /\ loop[s].rv <= loop[s].pos
<1>1. log \in Seq(Change) /\ Len(log) \in Nat /\ Len(log) <= MaxChanges
  BY DEF Typed, BackTyped
<1>2. loop \in [Scopes -> LoopState]
  BY DEF Typed, BackTyped
<1>3. \A s \in Scopes : /\ loop[s].rv \in Nat /\ loop[s].pos \in Nat
                        /\ loop[s].rv <= loop[s].pos /\ loop[s].pos <= Len(log)
  BY <1>2, Scoping DEF Typed, LoopsBound, LoopState
<1>4. QED
  BY <1>1, <1>2, <1>3

(* An event of the log at position i, as the loop of its namespace emits it. *)
LEMMA DeliveredTyped ==
  ASSUME Typed, NEW u \in Uids, NEW i \in 1..Len(log),
         NEW type \in {"ADDED", "MODIFIED", "TERMINATING", "DELETED"}
  PROVE  Delivered(u, i, type) \in Event
<1>1. i \in 1..MaxChanges
  BY LogFits, Scoping
<1>2. NameOf[u] \in Names /\ starts[ScopeOf[u]] \in Nat
  BY Scoping DEF Typed, BackTyped
<1>3. (IF type = "TERMINATING" THEN "MODIFIED" ELSE type) \in {"ADDED", "MODIFIED", "DELETED"}
  OBVIOUS
<1>4. (log[i].type = "TERMINATING") \in BOOLEAN
  OBVIOUS
<1>5. QED
  BY <1>1, <1>2, <1>3, <1>4 DEF Delivered, Event

(* What becomes of the loop of s; the other loops stay as they are. *)
LoopOf(s, pc, rv, pos, fresh, quiet) ==
  /\ loop' \in [Scopes -> LoopState]
  /\ \A t \in Scopes : t # s => loop'[t] = loop[t]
  /\ loop'[s].pc = pc /\ loop'[s].rv = rv /\ loop'[s].pos = pos
  /\ loop'[s].fresh = fresh /\ loop'[s].quiet = quiet

LEMMA SetLoop ==
  ASSUME Typed, NEW s \in Scopes, NEW l \in LoopState, loop' = [loop EXCEPT ![s] = l]
  PROVE  LoopOf(s, l.pc, l.rv, l.pos, l.fresh, l.quiet)
BY LogFits DEF LoopOf

LEMMA ConnectLoop ==
  ASSUME Typed, NEW s \in Scopes, Connect(s)
  PROVE  IF loop[s].rv = 0
         THEN LoopOf(s, "open", 0, Len(log),
                     {u \in Uids : ScopeOf[u] = s /\ Live(log, u, Len(log))}, FALSE)
         ELSE LoopOf(s, "open", loop[s].rv, loop[s].rv, {}, FALSE)
<1>1. loop[s] \in LoopState /\ Len(log) \in 0..MaxChanges /\ 0 \in 0..MaxChanges
  BY LogFits, Scoping
<1>2. CASE loop[s].rv = 0
  <2> DEFINE l == [pc |-> "open", rv |-> 0, pos |-> Len(log), quiet |-> FALSE,
                   fresh |-> {u \in Uids : ScopeOf[u] = s /\ Live(log, u, Len(log))}]
  <2>1. l \in LoopState
    BY <1>1 DEF LoopState
  <2>2. loop' = [loop EXCEPT ![s] = l]
    BY <1>2 DEF Connect
  <2>3. QED
    BY <1>2, <2>1, <2>2, SetLoop
<1>3. CASE loop[s].rv # 0
  <2> DEFINE l == [loop[s] EXCEPT !.pc = "open", !.pos = loop[s].rv, !.fresh = {}, !.quiet = FALSE]
  <2>1. l \in LoopState /\ l.pc = "open" /\ l.rv = loop[s].rv /\ l.pos = loop[s].rv
        /\ l.fresh = {} /\ l.quiet = FALSE
    BY <1>1 DEF LoopState
  <2>2. loop' = [loop EXCEPT ![s] = l]
    BY <1>3, LogFits DEF Connect, LoopState
  <2>3. QED
    BY <1>3, <2>1, <2>2, SetLoop
<1>4. QED
  BY <1>2, <1>3

LEMMA StartFailsLoop ==
  ASSUME Typed, NEW s \in Scopes, NEW f, StartFails(s, f)
  PROVE  LoopOf(s, "waiting", IF f = "expired" THEN 0 ELSE loop[s].rv, loop[s].pos,
                loop[s].fresh, loop[s].quiet)
<1> DEFINE l == [loop[s] EXCEPT !.pc = "waiting", !.rv = IF f = "expired" THEN 0 ELSE @]
<1>1. loop[s] \in LoopState /\ 0 \in 0..MaxChanges
  BY LogFits, Scoping
<1>2. /\ l \in LoopState /\ l.pc = "waiting" /\ l.rv = IF f = "expired" THEN 0 ELSE loop[s].rv
      /\ l.pos = loop[s].pos /\ l.fresh = loop[s].fresh /\ l.quiet = loop[s].quiet
  BY <1>1 DEF LoopState
<1>3. loop' = [loop EXCEPT ![s] = l]
  BY LogFits DEF StartFails, LoopState
<1>4. QED
  BY <1>2, <1>3, SetLoop

LEMMA CloseLoop ==
  ASSUME Typed, NEW s \in Scopes, StreamCloses(s)
  PROVE  LoopOf(s, "waiting", loop[s].rv, loop[s].pos, loop[s].fresh, loop[s].quiet)
<1> DEFINE l == [loop[s] EXCEPT !.pc = "waiting"]
<1>1. loop[s] \in LoopState
  BY LogFits
<1>2. /\ l \in LoopState /\ l.pc = "waiting" /\ l.rv = loop[s].rv
      /\ l.pos = loop[s].pos /\ l.fresh = loop[s].fresh /\ l.quiet = loop[s].quiet
  BY <1>1 DEF LoopState
<1>3. loop' = [loop EXCEPT ![s] = l]
  BY LogFits DEF StreamCloses, LoopState
<1>4. QED
  BY <1>2, <1>3, SetLoop

LEMMA ErrorLoop ==
  ASSUME Typed, NEW s \in Scopes, NEW f, StreamError(s, f)
  PROVE  LoopOf(s, "connecting", IF f = "gone" THEN 0 ELSE loop[s].rv, loop[s].pos,
                loop[s].fresh, TRUE)
<1> DEFINE l == [loop[s] EXCEPT !.pc = "connecting", !.quiet = TRUE, !.rv = IF f = "gone" THEN 0 ELSE @]
<1>1. loop[s] \in LoopState /\ 0 \in 0..MaxChanges
  BY LogFits, Scoping
<1>2. /\ l \in LoopState /\ l.pc = "connecting" /\ l.rv = IF f = "gone" THEN 0 ELSE loop[s].rv
      /\ l.pos = loop[s].pos /\ l.fresh = loop[s].fresh /\ l.quiet = TRUE
  BY <1>1 DEF LoopState
<1>3. loop' = [loop EXCEPT ![s] = l]
  BY LogFits DEF StreamError, LoopState
<1>4. QED
  BY <1>2, <1>3, SetLoop

LEMMA BackoffLoop ==
  ASSUME Typed, NEW s \in Scopes, BackoffEnds(s)
  PROVE  LoopOf(s, "connecting", loop[s].rv, loop[s].pos, loop[s].fresh, FALSE)
<1> DEFINE l == [loop[s] EXCEPT !.pc = "connecting", !.quiet = FALSE]
<1>1. loop[s] \in LoopState
  BY LogFits
<1>2. /\ l \in LoopState /\ l.pc = "connecting" /\ l.rv = loop[s].rv
      /\ l.pos = loop[s].pos /\ l.fresh = loop[s].fresh /\ l.quiet = FALSE
  BY <1>1 DEF LoopState
<1>3. loop' = [loop EXCEPT ![s] = l]
  BY LogFits DEF BackoffEnds, LoopState
<1>4. QED
  BY <1>2, <1>3, SetLoop

LEMMA BookmarkLoop ==
  ASSUME Typed, NEW s \in Scopes, Bookmark(s)
  PROVE  LoopOf(s, "open", Len(log), Len(log), {}, loop[s].quiet)
<1> DEFINE l == [loop[s] EXCEPT !.rv = Len(log), !.pos = Len(log)]
<1>1. loop[s] \in LoopState /\ Len(log) \in 0..MaxChanges /\ loop[s].pc = "open" /\ loop[s].fresh = {}
  BY LogFits, Scoping DEF Bookmark
<1>2. /\ l \in LoopState /\ l.pc = "open" /\ l.rv = Len(log)
      /\ l.pos = Len(log) /\ l.fresh = {} /\ l.quiet = loop[s].quiet
  BY <1>1 DEF LoopState
<1>3. loop' = [loop EXCEPT ![s] = l]
  BY LogFits DEF Bookmark, LoopState
<1>4. QED
  BY <1>2, <1>3, SetLoop

(* The next change of a namespace, and what the loop makes of it. *)
NextChange(s, i) ==
  /\ i \in 1..Len(log) /\ loop[s].pos < i
  /\ log[i] \in Change /\ ScopeOf[log[i].uid] = s
  /\ \A j \in 1..Len(log) : loop[s].pos < j /\ ScopeOf[log[j].uid] = s => i <= j

LEMMA DeliverLoop ==
  ASSUME Typed, NEW s \in Scopes, Deliver(s)
  PROVE  \E i \in 1..Len(log) :
           /\ loop[s].pc = "open" /\ loop[s].fresh = {}
           /\ NextChange(s, i)
           /\ Emit(Delivered(log[i].uid, i, log[i].type))
           /\ LoopOf(s, "open", i, i, {}, loop[s].quiet)
<1>1. /\ loop[s] \in LoopState /\ loop[s].pc = "open" /\ loop[s].fresh = {}
      /\ loop[s].pos \in 0..Len(log) /\ Len(log) \in Nat /\ Len(log) <= MaxChanges
      /\ log \in Seq(Change)
  BY LogFits DEF Deliver
<1>2. PICK i \in Ahead(log, s, loop[s].pos) :
         /\ \A j \in Ahead(log, s, loop[s].pos) : i <= j
         /\ Emit(Delivered(log[i].uid, i, log[i].type))
         /\ loop' = [loop EXCEPT ![s].rv = i, ![s].pos = i]
  BY DEF Deliver
<1>3. NextChange(s, i)
  BY <1>1, <1>2 DEF NextChange, Ahead
<1> DEFINE l == [loop[s] EXCEPT !.rv = i, !.pos = i]
<1>4. i \in 0..MaxChanges /\ i \in 1..Len(log)
  BY <1>1, <1>3, Scoping DEF NextChange
<1>5. /\ l \in LoopState /\ l.pc = "open" /\ l.rv = i
      /\ l.pos = i /\ l.fresh = {} /\ l.quiet = loop[s].quiet
  BY <1>1, <1>4 DEF LoopState
<1>6. loop' = [loop EXCEPT ![s] = l]
  BY <1>2, LogFits DEF LoopState
<1>7. LoopOf(s, "open", i, i, {}, loop[s].quiet)
  BY <1>5, <1>6, SetLoop
<1>8. QED
  BY <1>1, <1>2, <1>3, <1>4, <1>7

LEMMA DeliverFreshLoop ==
  ASSUME Typed, NEW s \in Scopes, NEW u \in Uids, DeliverFresh(s, u)
  PROVE  LET i == Version(log, u, loop[s].pos) IN
           /\ loop[s].pc = "open" /\ u \in loop[s].fresh /\ ScopeOf[u] = s
           /\ Live(log, u, loop[s].pos) /\ i \in Changes(log, u, loop[s].pos)
           /\ i \in 1..Len(log) /\ i <= loop[s].pos
           /\ Emit(Delivered(u, i, "ADDED"))
           /\ LoopOf(s, "open", i, loop[s].pos, loop[s].fresh \ {u}, loop[s].quiet)
<1> DEFINE i == Version(log, u, loop[s].pos)
<1>1. /\ loop[s] \in LoopState /\ loop[s].pc = "open" /\ u \in loop[s].fresh
      /\ loop[s].pos \in 0..Len(log) /\ Len(log) \in Nat /\ Len(log) <= MaxChanges
      /\ log \in Seq(Change)
  BY LogFits DEF DeliverFresh
<1>2. ScopeOf[u] = s /\ Live(log, u, loop[s].pos)
  BY <1>1 DEF Typed, LoopsBound
<1>3. /\ i \in Changes(log, u, loop[s].pos) /\ Changes(log, u, loop[s].pos) \subseteq 1..loop[s].pos
  BY <1>1, <1>2, VersionIsLast DEF Live
<1>4. i \in 0..MaxChanges /\ i \in 1..Len(log) /\ i <= loop[s].pos
  BY <1>1, <1>3, Scoping
<1>5. Emit(Delivered(u, i, "ADDED")) /\ loop' = [loop EXCEPT ![s].rv = i, ![s].fresh = @ \ {u}]
  BY DEF DeliverFresh
<1> HIDE DEF i
<1> DEFINE l == [loop[s] EXCEPT !.rv = i, !.fresh = @ \ {u}]
<1>6. /\ l \in LoopState /\ l.pc = "open" /\ l.rv = i
      /\ l.pos = loop[s].pos /\ l.fresh = loop[s].fresh \ {u} /\ l.quiet = loop[s].quiet
  BY <1>1, <1>4 DEF LoopState
<1>7. loop' = [loop EXCEPT ![s] = l]
  BY <1>5, LogFits DEF LoopState
<1>8. LoopOf(s, "open", i, loop[s].pos, loop[s].fresh \ {u}, loop[s].quiet)
  BY <1>6, <1>7, SetLoop
<1>9. QED
  BY <1>1, <1>2, <1>3, <1>4, <1>5, <1>8 DEF i

(* The two ways to hand an event to the frame buffer. *)
LEMMA EmitTyped ==
  ASSUME Typed, NEW e \in Event, Emit(e)
  PROVE  /\ buffer' \in [Names -> Event \cup {NoEvent}] /\ wire' \in Seq(Message)
         /\ \A k \in Names : k # e.key => buffer'[k] = buffer[k]
         /\ IF e.type = "DELETED" THEN buffer'[e.key] = NoEvent /\ wire' = Append(wire, {e})
                                  ELSE buffer'[e.key] = e /\ wire' = wire
<1>1. /\ buffer \in [Names -> Event \cup {NoEvent}] /\ wire \in Seq(Message) /\ e.key \in Names
  BY DEF Typed, TrafficTyped, Event
<1>2. CASE e.type = "DELETED"
  <2>1. buffer' = [buffer EXCEPT ![e.key] = NoEvent] /\ wire' = Append(wire, {e})
    BY <1>2 DEF Emit, Buffer!Bypass
  <2>2. {e} \in Message
    BY DEF Message
  <2>3. QED
    BY <1>1, <1>2, <2>1, <2>2
<1>3. CASE e.type # "DELETED"
  <2>1. buffer' = [buffer EXCEPT ![e.key] = e] /\ wire' = wire
    BY <1>3 DEF Emit, Buffer!Store
  <2>2. QED
    BY <1>1, <1>3, <2>1
<1>4. QED
  BY <1>2, <1>3

LEMMA PostTyped ==
  ASSUME Typed, NEW s \in Scopes, NEW status \in {"connected", "reconnecting"}, PostStatus(s, status)
  PROVE  wire' \in Seq(Message)
<1>1. [type |-> status, scope |-> s] \in Status
  BY DEF Status
<1>2. {[type |-> status, scope |-> s]} \in Message
  BY <1>1 DEF Message
<1>3. wire \in Seq(Message)
  BY DEF Typed, TrafficTyped
<1>4. QED
  BY <1>2, <1>3 DEF PostStatus

LEMMA ApplyTyped ==
  ASSUME NEW map \in [Uids -> 0..MaxChanges], NEW B \in SUBSET Event
  PROVE  Apply(map, B) \in [Uids -> 0..MaxChanges]
<1>1. ASSUME NEW u \in Uids, NEW e \in Event PROVE Reduce(map[u], e) \in 0..MaxChanges
  <2>1. /\ map[u] \in 0..MaxChanges /\ e.ver \in 0..MaxChanges /\ 0 \in 0..MaxChanges
        /\ e.type \in {"ADDED", "MODIFIED", "DELETED"}
    BY Scoping DEF Event
  <2>2. QED
    BY <2>1 DEF Reduce
<1>2. ASSUME NEW u \in Uids, \E e \in B : e.uid = u
      PROVE  Reduce(map[u], CHOOSE e \in B : e.uid = u) \in 0..MaxChanges
  <2>1. (CHOOSE e \in B : e.uid = u) \in B
    BY <1>2
  <2>2. QED
    BY <1>1, <2>1
<1>3. QED
  BY <1>2 DEF Apply

LEMMA ApplyAllTyped ==
  ASSUME NEW map \in [Uids -> 0..MaxChanges], NEW J \in Seq(SUBSET Event)
  PROVE  ApplyAll(map, J) \in [Uids -> 0..MaxChanges]
<1> DEFINE P == [Uids -> 0..MaxChanges]
<1>1. \A m \in P : \A i \in DOMAIN J : Apply(m, J[i]) \in P
  <2>1. \A i \in DOMAIN J : J[i] \in SUBSET Event
    OBVIOUS
  <2>2. QED
    BY <2>1, ApplyTyped
<1> HIDE DEF P
<1>2. map \in P
  BY DEF P
<1>3. ApplyAll(map, J) \in P
  BY <1>1, <1>2, ApplyKeeps
<1>4. QED
  BY <1>3 DEF P

LEMMA LoopsStay == ASSUME Typed, UNCHANGED <<log, loop>> PROVE LoopsBound'
BY DEF Typed, LoopsBound

LEMMA InitTyped == Init => Typed
<1> SUFFICES ASSUME Init PROVE Typed
  OBVIOUS
<1>1. 0 \in 0..MaxChanges /\ 0 \in 0..MaxFaults /\ 0 \in 0..MaxRefresh
  BY Scoping
<1>2. log \in Seq(Change) /\ Len(log) = 0
  BY DEF Init
<1>3. loop \in [Scopes -> LoopState]
  BY <1>1 DEF Init, LoopState
<1>4. BackTyped
  <2>1. starts \in [Scopes -> Nat] /\ silent = {} /\ faults = 0 /\ refreshes = 0
    BY DEF Init
  <2>2. QED
    BY <1>1, <1>2, <1>3, <2>1, Scoping DEF BackTyped
<1>5. TrafficTyped
  BY DEF Init, TrafficTyped
<1>6. ViewTyped
  <2>1. rows \in [Uids -> 0..MaxChanges]
    BY <1>1 DEF Init, NoRows
  <2>2. fetch \in FetchState
    BY <1>1 DEF Init, NewFetch, NoRows, FetchState
  <2>3. /\ loaded = FALSE /\ failed = FALSE /\ reconcile = FALSE
        /\ prevStatus = "none" /\ synced = {}
    BY DEF Init
  <2>4. QED
    BY <2>1, <2>2, <2>3 DEF ViewTyped
<1>7. LoopsBound
  BY <1>2 DEF Init, LoopsBound
<1>8. QED
  BY <1>4, <1>5, <1>6, <1>7 DEF Typed

LEMMA FaultTyped ==
  ASSUME Typed, NEW f, Fault(f)
  PROVE  faults' \in 0..MaxFaults
<1>1. faults \in 0..MaxFaults /\ faults < MaxFaults /\ faults' = faults + 1 /\ MaxFaults \in Nat
  BY Scoping DEF Fault, Typed, BackTyped
<1>2. QED
  BY <1>1

LEMMA ClusterTyped == ASSUME Typed, NEW c \in Change, ClusterChanges(c) PROVE Typed'
<1>1. /\ log' = Append(log, c) /\ Len(log) < MaxChanges
      /\ UNCHANGED <<loop, buffer, starts, silent, wire, rows, fetch, journal, loaded, failed,
                     synced, prevStatus, reconcile, faults, refreshes>>
  BY DEF ClusterChanges, backend, view, trigger, budget
<1>2. log \in Seq(Change) /\ MaxChanges \in Nat /\ loop \in [Scopes -> LoopState]
  BY LogFits, Scoping
<1>3. log' \in Seq(Change) /\ Len(log') = Len(log) + 1 /\ Len(log') <= MaxChanges
  BY <1>1, <1>2
<1>4. BackTyped'
  BY <1>1, <1>3 DEF Typed, BackTyped
<1>5. TrafficTyped' /\ ViewTyped'
  BY <1>1 DEF Typed, TrafficTyped, ViewTyped
<1>6. LoopsBound'
  <2> SUFFICES ASSUME NEW s \in Scopes
               PROVE  /\ loop[s].rv <= loop[s].pos /\ loop[s].pos <= Len(log')
                      /\ \A u \in loop[s].fresh : ScopeOf[u] = s /\ Live(log', u, loop[s].pos)
    BY <1>1 DEF LoopsBound
  <2>1. /\ loop[s].pos \in 0..Len(log) /\ loop[s].rv \in Nat /\ loop[s].rv <= loop[s].pos
        /\ Len(log) \in Nat /\ loop[s].fresh \in SUBSET Uids
    BY <1>2, LogFits DEF LoopState
  <2>2. ASSUME NEW u \in loop[s].fresh PROVE ScopeOf[u] = s /\ Live(log', u, loop[s].pos)
    <3>1. ScopeOf[u] = s /\ Live(log, u, loop[s].pos) /\ u \in Uids
      BY <2>1 DEF Typed, LoopsBound
    <3>2. QED
      BY <1>1, <1>2, <2>1, <3>1, AppendKeeps
  <2>3. QED
    BY <1>3, <2>1, <2>2
<1>7. QED
  BY <1>4, <1>5, <1>6 DEF Typed

LEMMA ConnectTyped == ASSUME Typed, NEW s \in Scopes, Connect(s) PROVE Typed'
<1>1. /\ UNCHANGED <<log, buffer, rows, fetch, journal, loaded, failed, prevStatus, reconcile,
                     faults, refreshes>>
      /\ PostStatus(s, "connected")
      /\ starts' = [starts EXCEPT ![s] = @ + 1] \/ starts' = starts
      /\ silent' \in {silent \cup {s}, silent \ {s}, silent}
      /\ synced' \in {synced \ {s}, synced}
  BY DEF Connect, cluster, trigger, budget
<1>2. loop' \in [Scopes -> LoopState] /\ LoopsBound'
  <2>1. Len(log) \in Nat /\ 0 <= Len(log) /\ loop[s].rv <= Len(log) /\ loop[s].rv <= loop[s].rv
    BY LogFits
  <2>2. CASE loop[s].rv = 0
    <3> DEFINE fresh == {u \in Uids : ScopeOf[u] = s /\ Live(log, u, Len(log))}
    <3>1. LoopOf(s, "open", 0, Len(log), fresh, FALSE)
      BY <2>2, ConnectLoop
    <3>2. \A u \in fresh : ScopeOf[u] = s /\ Live(log, u, Len(log))
      OBVIOUS
    <3> HIDE DEF fresh
    <3>3. LoopsBound'
      BY <1>1, <2>1, <3>1, <3>2 DEF Typed, LoopsBound, LoopOf
    <3>4. QED
      BY <3>1, <3>3 DEF LoopOf
  <2>3. CASE loop[s].rv # 0
    <3>1. LoopOf(s, "open", loop[s].rv, loop[s].rv, {}, FALSE)
      BY <2>3, ConnectLoop
    <3>2. LoopsBound'
      BY <1>1, <2>1, <3>1 DEF Typed, LoopsBound, LoopOf
    <3>3. QED
      BY <3>1, <3>2 DEF LoopOf
  <2>4. QED
    BY <2>2, <2>3
<1>3. starts' \in [Scopes -> Nat] /\ silent' \in SUBSET Scopes
  BY <1>1 DEF Typed, BackTyped
<1>4. BackTyped'
  BY <1>1, <1>2, <1>3 DEF Typed, BackTyped
<1>5. TrafficTyped'
  BY <1>1, PostTyped DEF Typed, TrafficTyped
<1>6. synced' \in SUBSET Scopes
  BY <1>1 DEF Typed, ViewTyped
<1>7. ViewTyped'
  BY <1>1, <1>6 DEF Typed, ViewTyped
<1>8. QED
  BY <1>2, <1>4, <1>5, <1>7 DEF Typed

(* The loop of s moves; what is buffered and on the way may change. *)
LEMMA LoopTyped ==
  ASSUME Typed, NEW s \in Scopes,
         loop' \in [Scopes -> LoopState], \A t \in Scopes : t # s => loop'[t] = loop[t],
         loop'[s].rv <= loop'[s].pos, loop'[s].pos <= Len(log),
         \A u \in loop'[s].fresh : ScopeOf[u] = s /\ Live(log, u, loop'[s].pos),
         UNCHANGED <<log, starts, silent, refreshes, rows, fetch, journal, loaded, failed, synced,
                     prevStatus, reconcile>>,
         faults' \in 0..MaxFaults,
         buffer' \in [Names -> Event \cup {NoEvent}], wire' \in Seq(Message)
  PROVE  Typed'
<1>1. BackTyped'
  BY DEF Typed, BackTyped
<1>2. TrafficTyped' /\ ViewTyped'
  BY DEF Typed, TrafficTyped, ViewTyped
<1>3. LoopsBound'
  BY DEF Typed, LoopsBound
<1>4. QED
  BY <1>1, <1>2, <1>3 DEF Typed

LEMMA LoopFacts ==
  ASSUME Typed, NEW s \in Scopes
  PROVE  /\ loop[s].rv <= loop[s].pos /\ loop[s].pos <= Len(log) /\ 0 <= loop[s].pos
         /\ \A u \in loop[s].fresh : ScopeOf[u] = s /\ Live(log, u, loop[s].pos)
         /\ faults \in 0..MaxFaults
         /\ buffer \in [Names -> Event \cup {NoEvent}] /\ wire \in Seq(Message)
BY LogFits DEF Typed, LoopsBound, BackTyped, TrafficTyped

LEMMA StartFailsTyped == ASSUME Typed, NEW s \in Scopes, NEW f, StartFails(s, f) PROVE Typed'
<1>1. /\ UNCHANGED <<log, buffer, starts, silent, refreshes, rows, fetch, journal, loaded, failed,
                     synced, prevStatus, reconcile>>
      /\ PostStatus(s, "reconnecting") /\ Fault(f)
  BY DEF StartFails, cluster, view, trigger
<1>2. wire' \in Seq(Message) /\ faults' \in 0..MaxFaults
  BY <1>1, PostTyped, FaultTyped
<1>3. QED
  BY <1>1, <1>2, StartFailsLoop, LoopFacts, LoopTyped DEF LoopOf

LEMMA CloseTyped == ASSUME Typed, NEW s \in Scopes, StreamCloses(s) PROVE Typed'
<1>1. /\ UNCHANGED <<log, buffer, starts, silent, refreshes, rows, fetch, journal, loaded, failed,
                     synced, prevStatus, reconcile>>
      /\ PostStatus(s, "reconnecting") /\ Fault("close")
  BY DEF StreamCloses, cluster, view, trigger
<1>2. wire' \in Seq(Message) /\ faults' \in 0..MaxFaults
  BY <1>1, PostTyped, FaultTyped
<1>3. QED
  BY <1>1, <1>2, CloseLoop, LoopFacts, LoopTyped DEF LoopOf

LEMMA ErrorTyped == ASSUME Typed, NEW s \in Scopes, NEW f, StreamError(s, f) PROVE Typed'
<1>1. /\ UNCHANGED <<log, buffer, wire, starts, silent, refreshes, rows, fetch, journal, loaded,
                     failed, synced, prevStatus, reconcile>>
      /\ Fault(f)
  BY DEF StreamError, cluster, view, trigger
<1>2. faults' \in 0..MaxFaults
  BY <1>1, FaultTyped
<1>3. QED
  BY <1>1, <1>2, ErrorLoop, LoopFacts, LoopTyped DEF LoopOf

LEMMA BackoffTyped == ASSUME Typed, NEW s \in Scopes, BackoffEnds(s) PROVE Typed'
<1>1. UNCHANGED <<log, buffer, wire, starts, silent, faults, refreshes, rows, fetch, journal,
                  loaded, failed, synced, prevStatus, reconcile>>
  BY DEF BackoffEnds, cluster, view, trigger, budget
<1>2. /\ loop' \in [Scopes -> LoopState] /\ \A t \in Scopes : t # s => loop'[t] = loop[t]
      /\ loop'[s].rv = loop[s].rv /\ loop'[s].pos = loop[s].pos /\ loop'[s].fresh = loop[s].fresh
  BY BackoffLoop DEF LoopOf
<1>3. /\ loop'[s].rv <= loop'[s].pos /\ loop'[s].pos <= Len(log)
      /\ \A u \in loop'[s].fresh : ScopeOf[u] = s /\ Live(log, u, loop'[s].pos)
  BY <1>2, LoopFacts
<1>4. /\ faults' \in 0..MaxFaults /\ buffer' \in [Names -> Event \cup {NoEvent}]
      /\ wire' \in Seq(Message)
  BY <1>1, LoopFacts
<1>5. QED
  BY <1>1, <1>2, <1>3, <1>4, LoopTyped

LEMMA BookmarkTyped == ASSUME Typed, NEW s \in Scopes, Bookmark(s) PROVE Typed'
<1>1. UNCHANGED <<log, buffer, wire, starts, silent, faults, refreshes, rows, fetch, journal,
                  loaded, failed, synced, prevStatus, reconcile>>
  BY DEF Bookmark, cluster, view, trigger, budget
<1>2. Len(log) <= Len(log)
  BY LogFits
<1>3. QED
  BY <1>1, <1>2, BookmarkLoop, LoopFacts, LoopTyped DEF LoopOf

LEMMA DeliverTyped == ASSUME Typed, NEW s \in Scopes, Deliver(s) PROVE Typed'
<1>1. UNCHANGED <<log, starts, silent, faults, refreshes, rows, fetch, journal,
                  loaded, failed, synced, prevStatus, reconcile>>
  BY DEF Deliver, cluster, view, trigger, budget
<1>2. PICK i \in 1..Len(log) :
         /\ NextChange(s, i)
         /\ Emit(Delivered(log[i].uid, i, log[i].type))
         /\ LoopOf(s, "open", i, i, {}, loop[s].quiet)
  BY DeliverLoop
<1>3. Delivered(log[i].uid, i, log[i].type) \in Event
  BY <1>2, DeliveredTyped DEF NextChange, Change
<1>4. /\ buffer' \in [Names -> Event \cup {NoEvent}] /\ wire' \in Seq(Message)
      /\ i <= i /\ i <= Len(log)
  BY <1>2, <1>3, EmitTyped, LogFits
<1>5. QED
  BY <1>1, <1>2, <1>4, LoopFacts, LoopTyped DEF LoopOf

LEMMA DeliverFreshTyped ==
  ASSUME Typed, NEW s \in Scopes, NEW u \in Uids, DeliverFresh(s, u)
  PROVE  Typed'
<1>1. UNCHANGED <<log, starts, silent, faults, refreshes, rows, fetch, journal,
                  loaded, failed, synced, prevStatus, reconcile>>
  BY DEF DeliverFresh, cluster, view, trigger, budget
<1> DEFINE i == Version(log, u, loop[s].pos)
<1>2. /\ i \in 1..Len(log) /\ i <= loop[s].pos
      /\ Emit(Delivered(u, i, "ADDED"))
      /\ LoopOf(s, "open", i, loop[s].pos, loop[s].fresh \ {u}, loop[s].quiet)
  BY DeliverFreshLoop
<1> HIDE DEF i
<1>3. Delivered(u, i, "ADDED") \in Event
  BY <1>2, DeliveredTyped
<1>4. /\ buffer' \in [Names -> Event \cup {NoEvent}] /\ wire' \in Seq(Message)
  BY <1>2, <1>3, EmitTyped
<1>5. QED
  BY <1>1, <1>2, <1>4, LoopFacts, LoopTyped DEF LoopOf

(* The loops and the cluster stay; the parts of the view are typed.         *)
LEMMA FrontTyped ==
  ASSUME Typed, UNCHANGED <<log, loop, starts, silent>>,
         faults' \in 0..MaxFaults, refreshes' \in 0..MaxRefresh, TrafficTyped', ViewTyped'
  PROVE  Typed'
<1>1. BackTyped'
  BY DEF Typed, BackTyped
<1>2. QED
  BY <1>1, LoopsStay DEF Typed

LEMMA FrameTyped == ASSUME Typed, Frame PROVE Typed'
<1>1. UNCHANGED <<log, loop, starts, silent, faults, refreshes, rows, fetch, journal,
                  loaded, failed, synced, prevStatus, reconcile>>
  BY DEF Frame, cluster, view, trigger, budget
<1>2. PICK S \in SUBSET Buffer!Filled : Buffer!Release(S)
  BY DEF Frame
<1>3. \A k \in S : k \in Names /\ buffer[k] \in Event
  BY DEF Buffer!Filled, Typed, TrafficTyped
<1>4. {buffer[k] : k \in S} \in Message
  BY <1>3 DEF Message
<1>5. /\ buffer' = [k \in Names |-> IF k \in S THEN NoEvent ELSE buffer[k]]
      /\ wire' = Append(wire, {buffer[k] : k \in S})
  BY <1>2 DEF Buffer!Release
<1>6. buffer' \in [Names -> Event \cup {NoEvent}]
  BY <1>5 DEF Typed, TrafficTyped
<1>7. wire' \in Seq(Message)
  BY <1>4, <1>5 DEF Typed, TrafficTyped
<1>8. TrafficTyped'
  BY <1>1, <1>6, <1>7 DEF Typed, TrafficTyped
<1>9. ViewTyped'
  BY <1>1 DEF Typed, ViewTyped
<1>10. faults' \in 0..MaxFaults /\ refreshes' \in 0..MaxRefresh
  BY <1>1 DEF Typed, BackTyped
<1>11. QED
  BY <1>1, <1>8, <1>9, <1>10, FrontTyped

LEMMA BudgetTyped ==
  ASSUME Typed, UNCHANGED budget
  PROVE  faults' \in 0..MaxFaults /\ refreshes' \in 0..MaxRefresh
BY DEF Typed, BackTyped, budget

LEMMA TailTyped == ASSUME Typed, wire # <<>> PROVE Tail(wire) \in Seq(Message)
BY DEF Typed, TrafficTyped

LEMMA BatchTyped == ASSUME Typed, HandleBatch PROVE Typed'
<1>1. /\ UNCHANGED <<log, loop, starts, silent, buffer, fetch, loaded, failed, synced, prevStatus,
                     reconcile>>
      /\ UNCHANGED budget
      /\ wire # <<>> /\ Head(wire) \in SUBSET Event /\ wire' = Tail(wire)
      /\ rows' = Apply(rows, Head(wire))
      /\ journal' = IF fetch.on THEN Append(journal, Head(wire)) ELSE journal
  BY DEF HandleBatch, cluster, backend, trigger
<1>2. rows' \in [Uids -> 0..MaxChanges]
  BY <1>1, ApplyTyped DEF Typed, ViewTyped
<1>3. journal' \in Seq(SUBSET Event)
  BY <1>1 DEF Typed, TrafficTyped
<1>4. TrafficTyped'
  BY <1>1, <1>3, TailTyped DEF Typed, TrafficTyped
<1>5. ViewTyped'
  BY <1>1, <1>2 DEF Typed, ViewTyped
<1>6. QED
  BY <1>1, <1>4, <1>5, BudgetTyped, FrontTyped

LEMMA StatusTyped == ASSUME Typed, HandleStatus PROVE Typed'
<1>1. /\ UNCHANGED <<log, loop, starts, silent, buffer, rows, fetch, journal, loaded, failed, synced>>
      /\ UNCHANGED budget
      /\ wire # <<>> /\ wire' = Tail(wire)
  BY DEF HandleStatus, cluster, backend, view
<1>2. PICK st \in Status :
         /\ prevStatus' = st.type
         /\ reconcile' = (reconcile \/ (prevStatus = "reconnecting" /\ st.type = "connected"))
  BY DEF HandleStatus
<1>3. prevStatus' \in {"none", "connected", "reconnecting"}
  BY <1>2 DEF Status
<1>4. reconcile' \in BOOLEAN
  BY <1>2
<1>5. TrafficTyped'
  BY <1>1, TailTyped DEF Typed, TrafficTyped
<1>6. ViewTyped'
  BY <1>1, <1>3, <1>4 DEF Typed, ViewTyped
<1>7. QED
  BY <1>1, <1>5, <1>6, BudgetTyped, FrontTyped

LEMMA NewFetchTyped == NewFetch \in FetchState /\ NoFetch \in FetchState
<1>1. NoRows \in [Uids -> 0..MaxChanges]
  BY Scoping DEF NoRows
<1>2. NewFetch \in FetchState
  BY <1>1 DEF NewFetch, FetchState
<1>3. QED
  BY <1>2 DEF NoFetch, FetchState

LEMMA NothingTyped == <<>> \in Seq(SUBSET Event)
OBVIOUS

LEMMA StartFetchTyped ==
  ASSUME Typed, StartFetch, UNCHANGED <<buffer, wire, prevStatus>>, reconcile' \in BOOLEAN
  PROVE  TrafficTyped' /\ ViewTyped'
<1>1. /\ fetch' = NewFetch /\ journal' = <<>> /\ failed' = FALSE
      /\ UNCHANGED <<rows, loaded, synced>>
  BY DEF StartFetch
<1>2. TrafficTyped'
  BY <1>1, NothingTyped DEF Typed, TrafficTyped
<1>3. fetch' \in FetchState /\ failed' \in BOOLEAN
  BY <1>1, NewFetchTyped
<1>4. ViewTyped'
  BY <1>1, <1>3 DEF Typed, ViewTyped
<1>5. QED
  BY <1>2, <1>4

LEMMA ReconcileTyped == ASSUME Typed, ReconcileFires PROVE Typed'
<1>1. /\ UNCHANGED <<log, loop, starts, silent, buffer, wire, prevStatus>> /\ UNCHANGED budget
      /\ StartFetch /\ reconcile' \in BOOLEAN
  BY DEF ReconcileFires, cluster, backend
<1>2. QED
  BY <1>1, StartFetchTyped, BudgetTyped, FrontTyped

LEMMA RefreshTyped == ASSUME Typed, Refresh PROVE Typed'
<1>1. /\ UNCHANGED <<log, loop, starts, silent, buffer, wire, prevStatus, reconcile, faults>>
      /\ refreshes < MaxRefresh /\ refreshes' = refreshes + 1
      /\ StartFetch
  BY DEF Refresh, cluster, backend, trigger
<1>2. refreshes \in 0..MaxRefresh /\ faults \in 0..MaxFaults /\ reconcile \in BOOLEAN /\ MaxRefresh \in Nat
  BY Scoping DEF Typed, BackTyped, ViewTyped
<1>3. refreshes' \in 0..MaxRefresh
  BY <1>1, <1>2
<1>4. QED
  BY <1>1, <1>2, <1>3, StartFetchTyped, FrontTyped

(* What a list of a namespace reads. *)
ReadItems(s) ==
  [u \in Uids |-> IF ScopeOf[u] = s
                  THEN IF Live(log, u, Len(log)) THEN Version(log, u, Len(log)) ELSE 0
                  ELSE fetch.items[u]]

LEMMA ListReadIs ==
  ASSUME Typed, NEW s \in Scopes, ListRead(s)
  PROVE  /\ fetch' \in FetchState /\ fetch.on /\ fetch'.on /\ fetch'.read = fetch.read \cup {s}
         /\ s \notin fetch.read
         /\ fetch'.items = ReadItems(s) /\ fetch'.readAt = [fetch.readAt EXCEPT ![s] = starts[s]]
<1> DEFINE items == [u \in Uids |-> IF ScopeOf[u] = s THEN Listed(log, {s}, Len(log))[u]
                                    ELSE fetch.items[u]]
<1>1. fetch \in FetchState /\ starts \in [Scopes -> Nat]
  BY DEF Typed, BackTyped, ViewTyped
<1>2. items = ReadItems(s)
  BY DEF Listed, ReadItems
<1>3. items \in [Uids -> 0..MaxChanges]
  <2>1. \A u \in Uids : Version(log, u, Len(log)) \in 0..MaxChanges
    BY LogFits, VersionIsLast, Scoping
  <2>2. \A u \in Uids : fetch.items[u] \in 0..MaxChanges /\ 0 \in 0..MaxChanges
    BY <1>1, Scoping DEF FetchState
  <2>3. QED
    BY <1>2, <2>1, <2>2 DEF ReadItems
<1>4. /\ fetch.on /\ s \notin fetch.read
      /\ fetch' = [fetch EXCEPT !.read = @ \cup {s}, !.items = items, !.readAt[s] = starts[s]]
  BY DEF ListRead
<1> HIDE DEF items
<1> DEFINE readAt == [fetch.readAt EXCEPT ![s] = starts[s]]
           read == fetch.read \cup {s}
<1>5. readAt \in [Scopes -> Nat] /\ read \in SUBSET Scopes
  BY <1>1 DEF FetchState
<1>6. fetch' = [fetch EXCEPT !.read = read, !.items = items, !.readAt = readAt]
  BY <1>1, <1>4 DEF FetchState
<1> HIDE DEF readAt, read
<1>7. /\ fetch' \in FetchState /\ fetch'.on = fetch.on /\ fetch'.read = read
      /\ fetch'.items = items /\ fetch'.readAt = readAt
  BY <1>1, <1>3, <1>5, <1>6 DEF FetchState
<1>8. QED
  BY <1>2, <1>4, <1>7 DEF readAt, read

LEMMA ListReadTyped == ASSUME Typed, NEW s \in Scopes, ListRead(s) PROVE Typed'
<1>1. /\ UNCHANGED <<log, loop, starts, silent, buffer, wire, rows, journal, loaded, failed, synced,
                     prevStatus, reconcile>>
      /\ UNCHANGED budget
  BY DEF ListRead, cluster, backend, trigger
<1>2. TrafficTyped' /\ ViewTyped'
  BY <1>1, ListReadIs DEF Typed, TrafficTyped, ViewTyped
<1>3. QED
  BY <1>1, <1>2, BudgetTyped, FrontTyped

(* The items shown before the list is complete. *)
Shown(S) == [u \in Uids |-> IF u \in S THEN fetch.items[u] ELSE 0]

LEMMA ShownTyped == ASSUME Typed, NEW S PROVE Shown(S) \in [Uids -> 0..MaxChanges]
BY Scoping DEF Typed, ViewTyped, FetchState, Shown

LEMMA PageTyped == ASSUME Typed, NEW S \in SUBSET Uids, PageArrives(S) PROVE Typed'
<1>1. /\ UNCHANGED <<log, loop, starts, silent, buffer, wire, fetch, journal, loaded, failed, synced,
                     prevStatus, reconcile>>
      /\ UNCHANGED budget
      /\ rows' = ApplyAll(Shown(S), journal)
  BY DEF PageArrives, cluster, backend, trigger, Shown
<1>2. rows' \in [Uids -> 0..MaxChanges]
  BY <1>1, ShownTyped, ApplyAllTyped DEF Typed, TrafficTyped
<1>3. TrafficTyped' /\ ViewTyped'
  BY <1>1, <1>2 DEF Typed, TrafficTyped, ViewTyped
<1>4. QED
  BY <1>1, <1>3, BudgetTyped, FrontTyped

LEMMA ListDoneTyped == ASSUME Typed, ListDone PROVE Typed'
<1>1. /\ UNCHANGED <<log, loop, starts, silent, buffer, wire, failed, prevStatus, reconcile>>
      /\ UNCHANGED budget
      /\ rows' = ApplyAll(fetch.items, journal) /\ loaded' = TRUE /\ fetch' = NoFetch
      /\ journal' = <<>> /\ synced' \in SUBSET Scopes
  BY DEF ListDone, cluster, backend, trigger
<1>2. rows' \in [Uids -> 0..MaxChanges]
  BY <1>1, ApplyAllTyped DEF Typed, TrafficTyped, ViewTyped, FetchState
<1>3. TrafficTyped'
  BY <1>1, NothingTyped DEF Typed, TrafficTyped
<1>4. fetch' \in FetchState /\ loaded' \in BOOLEAN
  BY <1>1, NewFetchTyped
<1>5. ViewTyped'
  BY <1>1, <1>2, <1>4 DEF Typed, ViewTyped
<1>6. QED
  BY <1>1, <1>3, <1>5, BudgetTyped, FrontTyped

LEMMA ListFailsTyped == ASSUME Typed, ListFails PROVE Typed'
<1>1. /\ UNCHANGED <<log, loop, starts, silent, buffer, wire, rows, loaded, synced, prevStatus,
                     reconcile, refreshes>>
      /\ failed' = TRUE /\ fetch' = NoFetch /\ journal' = <<>> /\ Fault("list")
  BY DEF ListFails, cluster, backend, trigger
<1>2. TrafficTyped'
  BY <1>1, NothingTyped DEF Typed, TrafficTyped
<1>3. fetch' \in FetchState /\ failed' \in BOOLEAN
  BY <1>1, NewFetchTyped
<1>4. ViewTyped'
  BY <1>1, <1>3 DEF Typed, ViewTyped
<1>5. faults' \in 0..MaxFaults /\ refreshes' \in 0..MaxRefresh
  BY <1>1, FaultTyped DEF Typed, BackTyped
<1>6. QED
  BY <1>1, <1>2, <1>4, <1>5, FrontTyped

LEMMA StutterTyped == ASSUME Typed, UNCHANGED vars PROVE Typed'
<1>1. UNCHANGED <<log, loop, starts, silent, buffer, wire, rows, fetch, journal, loaded, failed,
                  synced, prevStatus, reconcile>> /\ UNCHANGED budget
  BY DEF vars, cluster, backend, view, trigger
<1>2. TrafficTyped' /\ ViewTyped'
  BY <1>1 DEF Typed, TrafficTyped, ViewTyped
<1>3. QED
  BY <1>1, <1>2, BudgetTyped, FrontTyped

LEMMA NextTyped == Typed /\ [Next]_vars => Typed'
<1> SUFFICES ASSUME Typed, [Next]_vars PROVE Typed'
  OBVIOUS
<1>1. CASE \E c \in Change : ClusterChanges(c)
  BY <1>1, ClusterTyped
<1>2. ASSUME NEW s \in Scopes,
             Connect(s) \/ Deliver(s) \/ Bookmark(s) \/ StreamCloses(s) \/ BackoffEnds(s)
      PROVE  Typed'
  BY <1>2, ConnectTyped, DeliverTyped, BookmarkTyped, CloseTyped, BackoffTyped
<1>3. ASSUME NEW s \in Scopes,
             \/ \E u \in Uids : DeliverFresh(s, u)
             \/ \E f \in Faults : StartFails(s, f) \/ StreamError(s, f)
             \/ ListRead(s)
      PROVE  Typed'
  BY <1>3, DeliverFreshTyped, StartFailsTyped, ErrorTyped, ListReadTyped
<1>4. CASE Frame \/ HandleBatch \/ HandleStatus \/ ReconcileFires \/ Refresh
  BY <1>4, FrameTyped, BatchTyped, StatusTyped, ReconcileTyped, RefreshTyped
<1>5. CASE (\E S \in SUBSET Uids : PageArrives(S)) \/ ListDone \/ ListFails
  BY <1>5, PageTyped, ListDoneTyped, ListFailsTyped
<1>6. CASE UNCHANGED vars
  BY <1>6, StutterTyped
<1>7. QED
  BY <1>1, <1>2, <1>3, <1>4, <1>5, <1>6 DEF Next

(* Every reachable state is well typed: rows, items and events carry        *)
(* positions of the log, a loop remembers a version it has read.            *)
THEOREM TypeCorrect == Spec => []TypeOK
<1>1. QED
  BY InitTyped, NextTyped, TypedIsTyped, PTL DEF Spec

-----------------------------------------------------------------------------
(* The traffic of an object: its events in the journal, on the wire and in *)
(* the frame buffer, of the current start of its watch (number n).         *)
Gen(u) == starts[ScopeOf[u]]
Is(e, u, n) == e \in Event /\ e.uid = u /\ e.start = n
Has(B, u, n) == \E e \in B : Is(e, u, n)
Slot(u) == buffer[NameOf[u]]

Latest(u) == Version(log, u, Len(log))
Place(s) == IF loop[s].pc = "open" THEN loop[s].pos ELSE loop[s].rv

(* The loop has emitted the latest change of u, or will not before a restart. *)
Caught(u) == Latest(u) <= Place(ScopeOf[u])

(* The ADDED of an object that is older than the watch: it makes a row, but *)
(* never replaces one.                                                      *)
FirstSight(e) == e.type = "ADDED" /\ log[e.ver].type # "ADDED"

(* What has been read of u arrives in the end: the last event is the latest. *)
Order(u) ==
  Caught(u) =>
    /\ Is(Slot(u), u, Gen(u)) => Slot(u).ver = Latest(u)
    /\ ~Is(Slot(u), u, Gen(u)) =>
         \A i \in DOMAIN wire :
           (\A j \in DOMAIN wire : j > i => ~Has(wire[j], u, Gen(u))) =>
             \A e \in wire[i] : Is(e, u, Gen(u)) => e.ver = Latest(u)
    /\ ~Is(Slot(u), u, Gen(u)) /\ (\A j \in DOMAIN wire : ~Has(wire[j], u, Gen(u))) =>
         \A i \in DOMAIN journal :
           (\A j \in DOMAIN journal : j > i => ~Has(journal[j], u, Gen(u))) =>
             \A e \in journal[i] : Is(e, u, Gen(u)) => e.ver = Latest(u)

(* A first sight comes first. *)
First(u) ==
  /\ \A i, j \in DOMAIN journal : i < j /\ Has(journal[i], u, Gen(u)) =>
       \A e \in journal[j] : Is(e, u, Gen(u)) => ~FirstSight(e)
  /\ \A j \in DOMAIN wire :
       \/ \E i \in DOMAIN wire : i < j /\ Has(wire[i], u, Gen(u))
       \/ \E i \in DOMAIN journal : Has(journal[i], u, Gen(u))
       => \A e \in wire[j] : Is(e, u, Gen(u)) => ~FirstSight(e)
  /\ \/ \E i \in DOMAIN wire : Has(wire[i], u, Gen(u))
     \/ \E i \in DOMAIN journal : Has(journal[i], u, Gen(u))
     => (Is(Slot(u), u, Gen(u)) => ~FirstSight(Slot(u)))

(* While a watch reports the objects it found, only those travel. *)
Found(u, e) ==
  LET l == loop[ScopeOf[u]] IN
  /\ u \notin l.fresh
  /\ e.type = "ADDED" /\ e.ver = Version(log, u, l.pos) /\ Live(log, u, l.pos)

Unseen(u) ==
  loop[ScopeOf[u]].pc = "open" /\ loop[ScopeOf[u]].fresh # {} =>
    /\ Is(Slot(u), u, Gen(u)) => Found(u, Slot(u))
    /\ \A i \in DOMAIN wire : \A e \in wire[i] : Is(e, u, Gen(u)) => Found(u, e)
    /\ \A i \in DOMAIN journal : \A e \in journal[i] : Is(e, u, Gen(u)) => Found(u, e)

Traffic(u) == Order(u) /\ First(u) /\ Unseen(u)

(* Only first sights are still to come, if anything: the row is decided.   *)
Settled(u) ==
  /\ Caught(u)
  /\ Is(Slot(u), u, Gen(u)) => FirstSight(Slot(u))
  /\ \A i \in DOMAIN wire : \A e \in wire[i] : Is(e, u, Gen(u)) => FirstSight(e)

(* What an event says of the log is true, and stays so. *)
TrueTo(L, e) ==
  /\ e.key = NameOf[e.uid] /\ e.ver \in Changes(L, e.uid, Len(L))
  /\ e.type = "DELETED" <=> L[e.ver].type = "DELETED"
  /\ e.terminating <=> L[e.ver].type = "TERMINATING"
  /\ e.type = "MODIFIED" => L[e.ver].type # "ADDED"

KnownTo(L, st, e) == TrueTo(L, e) /\ e.start <= st[ScopeOf[e.uid]]
Known(e) == KnownTo(log, starts, e)

BatchKnownTo(L, st, B) ==
  /\ \A e \in B : e \in Event => KnownTo(L, st, e)
  /\ \A e, f \in B : e \in Event /\ f \in Event /\ e.uid = f.uid => e = f
BatchKnown(B) == BatchKnownTo(log, starts, B)

TrafficKnown ==
  /\ \A k \in Names : buffer[k] \in Event =>
       Known(buffer[k]) /\ buffer[k].key = k /\ buffer[k].type # "DELETED"
  /\ \A i \in DOMAIN wire : BatchKnown(wire[i])
  /\ \A i \in DOMAIN journal : BatchKnown(journal[i])

LogGrows == log' = log \/ \E c \in Change : log' = Append(log, c)

LEMMA Grows ==
  ASSUME Typed, LogGrows
  PROVE  /\ log \in Seq(Change) /\ log' \in Seq(Change) /\ Len(log) <= Len(log') /\ Len(log) \in Nat
         /\ Len(log') \in Nat
         /\ \A i \in 1..Len(log) : log'[i] = log[i]
         /\ \A u \in Uids : \A n \in 0..Len(log) : /\ Changes(log', u, n) = Changes(log, u, n)
                                                   /\ Version(log', u, n) = Version(log, u, n)
                                                   /\ Live(log', u, n) <=> Live(log, u, n)
<1>1. log \in Seq(Change) /\ Len(log) \in Nat
  BY LogFits
<1>2. CASE log' = log
  BY <1>1, <1>2
<1>3. CASE \E c \in Change : log' = Append(log, c)
  <2>1. PICK c \in Change : log' = Append(log, c)
    BY <1>3
  <2>2. /\ log' \in Seq(Change) /\ Len(log') = Len(log) + 1
        /\ \A i \in 1..Len(log) : log'[i] = log[i]
    BY <1>1, <2>1
  <2>3. QED
    BY <1>1, <2>1, <2>2, AppendKeeps
<1>4. QED
  BY <1>2, <1>3 DEF LogGrows

(* Current events of u on the wire and in the journal: the same ones in the *)
(* same order, d places further on; or the journal was forgotten.           *)
WireSame(u, n, d) ==
  /\ \A i \in DOMAIN wire' : Has(wire'[i], u, n) => i + d \in DOMAIN wire /\ wire'[i] = wire[i + d]
  /\ \A i \in DOMAIN wire : Has(wire[i], u, n) => i - d \in DOMAIN wire' /\ wire'[i - d] = wire[i]

JournalSame(u, n) ==
  \/ journal' = <<>>
  \/ /\ \A i \in DOMAIN journal' : Has(journal'[i], u, n) => i \in DOMAIN journal /\ journal'[i] = journal[i]
     /\ \A i \in DOMAIN journal : Has(journal[i], u, n) => i \in DOMAIN journal' /\ journal'[i] = journal[i]

(* A slot that takes the event of another object no longer mattered.        *)
SlotSame(u, n) ==
  /\ Is(Slot(u)', u, n) => Slot(u)' = Slot(u)
  /\ Caught(u)' /\ Is(Slot(u), u, n) => Slot(u)' = Slot(u)

(* The loop of s has not come further than what it had read of u, and has  *)
(* found nothing new.                                                      *)
LoopCalm(u) ==
  LET s == ScopeOf[u] IN
  /\ Caught(u)' => Caught(u) /\ Latest(u)' = Latest(u)
  /\ loop'[s].pc = "open" /\ loop'[s].fresh # {} =>
       /\ loop[s].pc = "open" /\ loop[s].fresh # {} /\ loop'[s].fresh \subseteq loop[s].fresh
       /\ loop'[s].pos = loop[s].pos

Calm(u, n, d) ==
  /\ LogGrows /\ Gen(u) = n /\ Gen(u)' = n
  /\ SlotSame(u, n) /\ WireSame(u, n, d) /\ JournalSame(u, n) /\ LoopCalm(u)

LEMMA HasIt == \A B, u, n : \A e \in B : Is(e, u, n) => Has(B, u, n)
BY DEF Has

LEMMA CalmOrder ==
  ASSUME Typed, Typed', NEW u \in Uids, NEW n, NEW d \in {0, 1}, Calm(u, n, d), Order(u)
  PROVE  Order(u)'
<1> SUFFICES ASSUME Caught(u)'
             PROVE  /\ Is(Slot(u)', u, n) => Slot(u)'.ver = Latest(u)'
                    /\ ~Is(Slot(u)', u, n) =>
                         \A i \in DOMAIN wire' :
                           (\A j \in DOMAIN wire' : j > i => ~Has(wire'[j], u, n)) =>
                             \A e \in wire'[i] : Is(e, u, n) => e.ver = Latest(u)'
                    /\ ~Is(Slot(u)', u, n) /\ (\A j \in DOMAIN wire' : ~Has(wire'[j], u, n)) =>
                         \A i \in DOMAIN journal' :
                           (\A j \in DOMAIN journal' : j > i => ~Has(journal'[j], u, n)) =>
                             \A e \in journal'[i] : Is(e, u, n) => e.ver = Latest(u)'
  BY DEF Order, Calm
<1>1. /\ Caught(u) /\ Latest(u)' = Latest(u) /\ Gen(u) = n
      /\ SlotSame(u, n) /\ WireSame(u, n, d) /\ JournalSame(u, n)
  BY DEF Calm, LoopCalm
<1>2. /\ DOMAIN wire = 1..Len(wire) /\ DOMAIN wire' = 1..Len(wire') /\ Len(wire) \in Nat /\ Len(wire') \in Nat
      /\ DOMAIN journal = 1..Len(journal) /\ DOMAIN journal' = 1..Len(journal')
      /\ Len(journal) \in Nat /\ Len(journal') \in Nat
  BY DEF Typed, TrafficTyped
<1>3. ~Is(Slot(u)', u, n) => ~Is(Slot(u), u, n)
  BY <1>1 DEF SlotSame
<1>4. Is(Slot(u)', u, n) => Slot(u)'.ver = Latest(u)'
  BY <1>1 DEF SlotSame, Order
<1>5. ASSUME ~Is(Slot(u)', u, n), NEW i \in DOMAIN wire',
             \A j \in DOMAIN wire' : j > i => ~Has(wire'[j], u, n),
             NEW e \in wire'[i], Is(e, u, n)
      PROVE  e.ver = Latest(u)'
  <2>1. i + d \in DOMAIN wire /\ wire'[i] = wire[i + d]
    BY <1>1, <1>5, HasIt DEF WireSame
  <2>2. ASSUME NEW j \in DOMAIN wire, j > i + d PROVE ~Has(wire[j], u, n)
    <3>1. SUFFICES ASSUME Has(wire[j], u, n) PROVE FALSE
      OBVIOUS
    <3>2. j - d \in DOMAIN wire' /\ wire'[j - d] = wire[j]
      BY <1>1, <3>1 DEF WireSame
    <3>3. j - d > i
      BY <1>2, <2>2
    <3>4. QED
      BY <1>5, <3>1, <3>2, <3>3
  <2>3. QED
    BY <1>1, <1>3, <1>5, <2>1, <2>2 DEF Order
<1>6. ASSUME ~Is(Slot(u)', u, n), \A j \in DOMAIN wire' : ~Has(wire'[j], u, n),
             NEW i \in DOMAIN journal',
             \A j \in DOMAIN journal' : j > i => ~Has(journal'[j], u, n),
             NEW e \in journal'[i], Is(e, u, n)
      PROVE  e.ver = Latest(u)'
  <2>1. \A j \in DOMAIN wire : ~Has(wire[j], u, n)
    BY <1>1, <1>6 DEF WireSame
  <2>2. journal' # <<>>
    BY <1>2, <1>6
  <2>3. i \in DOMAIN journal /\ journal'[i] = journal[i]
    BY <1>1, <1>6, <2>2, HasIt DEF JournalSame
  <2>4. \A j \in DOMAIN journal : j > i => ~Has(journal[j], u, n)
    BY <1>1, <1>6, <2>2 DEF JournalSame
  <2>5. QED
    BY <1>1, <1>3, <1>6, <2>1, <2>3, <2>4 DEF Order
<1>7. QED
  BY <1>4, <1>5, <1>6

LEMMA VerInLog ==
  ASSUME Typed, TrafficKnown, NEW u \in Uids, NEW n
  PROVE  /\ Is(Slot(u), u, n) => Slot(u).ver \in 1..Len(log)
         /\ \A i \in DOMAIN wire : \A e \in wire[i] : Is(e, u, n) => e.ver \in 1..Len(log)
         /\ \A i \in DOMAIN journal : \A e \in journal[i] : Is(e, u, n) => e.ver \in 1..Len(log)
<1>1. log \in Seq(Change) /\ Len(log) \in 0..Len(log)
  BY LogFits
<1>2. ASSUME NEW e, e \in Event, e.uid = u, Known(e) PROVE e.ver \in 1..Len(log)
  BY <1>1, <1>2, VersionIsLast DEF Known, KnownTo, TrueTo
<1>3. Is(Slot(u), u, n) => Slot(u).ver \in 1..Len(log)
  BY <1>2, Scoping DEF TrafficKnown, Is, Slot
<1>4. ASSUME NEW i \in DOMAIN wire, NEW e \in wire[i], Is(e, u, n) PROVE e.ver \in 1..Len(log)
  BY <1>2, <1>4 DEF TrafficKnown, BatchKnown, BatchKnownTo, Known, Is
<1>5. ASSUME NEW i \in DOMAIN journal, NEW e \in journal[i], Is(e, u, n) PROVE e.ver \in 1..Len(log)
  BY <1>2, <1>5 DEF TrafficKnown, BatchKnown, BatchKnownTo, Known, Is
<1>6. QED
  BY <1>3, <1>4, <1>5

LEMMA SightSame ==
  ASSUME Typed, LogGrows, NEW e, e.ver \in 1..Len(log)
  PROVE  FirstSight(e)' <=> FirstSight(e)
BY Grows DEF FirstSight

LEMMA CalmFirst ==
  ASSUME Typed, Typed', TrafficKnown, NEW u \in Uids, NEW n, NEW d \in {0, 1}, Calm(u, n, d), First(u)
  PROVE  First(u)'
<1>1. /\ LogGrows /\ Gen(u) = n /\ Gen(u)' = n
      /\ SlotSame(u, n) /\ WireSame(u, n, d) /\ JournalSame(u, n)
  BY DEF Calm
<1>2. /\ DOMAIN wire = 1..Len(wire) /\ DOMAIN wire' = 1..Len(wire') /\ Len(wire) \in Nat /\ Len(wire') \in Nat
      /\ DOMAIN journal = 1..Len(journal) /\ DOMAIN journal' = 1..Len(journal')
      /\ Len(journal) \in Nat /\ Len(journal') \in Nat
  BY DEF Typed, TrafficTyped
<1>3. (\E i \in DOMAIN journal' : Has(journal'[i], u, n)) => \E i \in DOMAIN journal : Has(journal[i], u, n)
  BY <1>1, <1>2 DEF JournalSame
<1>4. (\E i \in DOMAIN wire' : Has(wire'[i], u, n)) => \E i \in DOMAIN wire : Has(wire[i], u, n)
  BY <1>1 DEF WireSame
<1>5. ASSUME NEW i \in DOMAIN journal', NEW j \in DOMAIN journal', i < j, Has(journal'[i], u, n),
             NEW e \in journal'[j], Is(e, u, n)
      PROVE  ~FirstSight(e)'
  <2>1. Has(journal'[j], u, n) /\ journal' # <<>>
    BY <1>2, <1>5, HasIt
  <2>2. /\ i \in DOMAIN journal /\ journal'[i] = journal[i]
        /\ j \in DOMAIN journal /\ journal'[j] = journal[j]
    BY <1>1, <1>5, <2>1 DEF JournalSame
  <2>3. ~FirstSight(e)
    BY <1>1, <1>5, <2>2 DEF First
  <2>4. e.ver \in 1..Len(log)
    BY <1>5, <2>2, VerInLog
  <2>5. QED
    BY <1>1, <2>3, <2>4, SightSame
<1>6. ASSUME NEW j \in DOMAIN wire',
             \/ \E i \in DOMAIN wire' : i < j /\ Has(wire'[i], u, n)
             \/ \E i \in DOMAIN journal' : Has(journal'[i], u, n),
             NEW e \in wire'[j], Is(e, u, n)
      PROVE  ~FirstSight(e)'
  <2>1. j + d \in DOMAIN wire /\ wire'[j] = wire[j + d]
    BY <1>1, <1>6, HasIt DEF WireSame
  <2>2. \/ \E i \in DOMAIN wire : i < j + d /\ Has(wire[i], u, n)
        \/ \E i \in DOMAIN journal : Has(journal[i], u, n)
    <3>1. ASSUME NEW i \in DOMAIN wire', i < j, Has(wire'[i], u, n)
          PROVE  \E k \in DOMAIN wire : k < j + d /\ Has(wire[k], u, n)
      <4>1. i + d \in DOMAIN wire /\ wire'[i] = wire[i + d]
        BY <1>1, <3>1 DEF WireSame
      <4>2. i + d < j + d
        BY <1>2, <3>1
      <4>3. QED
        BY <3>1, <4>1, <4>2
    <3>2. QED
      BY <1>3, <1>6, <3>1
  <2>3. ~FirstSight(e)
    BY <1>1, <1>6, <2>1, <2>2 DEF First
  <2>4. e.ver \in 1..Len(log)
    BY <1>6, <2>1, VerInLog
  <2>5. QED
    BY <1>1, <2>3, <2>4, SightSame
<1>7. ASSUME \/ \E i \in DOMAIN wire' : Has(wire'[i], u, n)
             \/ \E i \in DOMAIN journal' : Has(journal'[i], u, n),
             Is(Slot(u)', u, n)
      PROVE  ~FirstSight(Slot(u))'
  <2>1. Slot(u)' = Slot(u)
    BY <1>1, <1>7 DEF SlotSame
  <2>2. ~FirstSight(Slot(u)) /\ Slot(u).ver \in 1..Len(log)
    BY <1>1, <1>3, <1>4, <1>7, <2>1, VerInLog DEF First
  <2>3. QED
    BY <1>1, <2>1, <2>2, Grows DEF FirstSight
<1>8. QED
  BY <1>1, <1>5, <1>6, <1>7 DEF First

LEMMA CalmUnseen ==
  ASSUME Typed, Typed', NEW u \in Uids, NEW n, NEW d \in {0, 1}, Calm(u, n, d), Unseen(u)
  PROVE  Unseen(u)'
<1> DEFINE s == ScopeOf[u]
<1>1. /\ LogGrows /\ Gen(u) = n /\ Gen(u)' = n
      /\ SlotSame(u, n) /\ WireSame(u, n, d) /\ JournalSame(u, n)
  BY DEF Calm
<1>2. SUFFICES ASSUME loop'[s].pc = "open" /\ loop'[s].fresh # {}
               PROVE  /\ Is(Slot(u)', u, n) => Found(u, Slot(u))'
                      /\ \A i \in DOMAIN wire' : \A e \in wire'[i] : Is(e, u, n) => Found(u, e)'
                      /\ \A i \in DOMAIN journal' : \A e \in journal'[i] : Is(e, u, n) => Found(u, e)'
  BY <1>1 DEF Unseen
<1>3. /\ loop[s].pc = "open" /\ loop[s].fresh # {} /\ loop'[s].fresh \subseteq loop[s].fresh
      /\ loop'[s].pos = loop[s].pos
  BY <1>2 DEF Calm, LoopCalm
<1>4. s \in Scopes /\ loop[s].pos \in 0..Len(log)
  BY Scoping, LogFits
<1>5. ASSUME NEW e, Found(u, e) PROVE Found(u, e)'
  BY <1>1, <1>3, <1>4, <1>5, Grows DEF Found
<1>6. Is(Slot(u)', u, n) => Found(u, Slot(u))'
  BY <1>1, <1>3, <1>4, Grows DEF SlotSame, Unseen, Found
<1>7. ASSUME NEW i \in DOMAIN wire', NEW e \in wire'[i], Is(e, u, n) PROVE Found(u, e)'
  BY <1>1, <1>3, <1>5, <1>7, HasIt DEF WireSame, Unseen
<1>8. ASSUME NEW i \in DOMAIN journal', NEW e \in journal'[i], Is(e, u, n) PROVE Found(u, e)'
  <2>1. journal' # <<>>
    BY <1>8
  <2>2. QED
    BY <1>1, <1>3, <1>5, <1>8, <2>1, HasIt DEF JournalSame, Unseen
<1>9. QED
  BY <1>6, <1>7, <1>8

LEMMA CalmSettled ==
  ASSUME Typed, Typed', TrafficKnown, NEW u \in Uids, NEW n, NEW d \in {0, 1}, Calm(u, n, d), Settled(u)'
  PROVE  Settled(u)
<1>1. /\ LogGrows /\ Gen(u) = n /\ Gen(u)' = n
      /\ SlotSame(u, n) /\ WireSame(u, n, d)
  BY DEF Calm
<1>2. Caught(u)
  BY DEF Calm, LoopCalm, Settled
<1>3. Is(Slot(u), u, n) => FirstSight(Slot(u))
  <2> SUFFICES ASSUME Is(Slot(u), u, n) PROVE FirstSight(Slot(u))
    OBVIOUS
  <2>1. Slot(u)' = Slot(u) /\ Slot(u).ver \in 1..Len(log)
    BY <1>1, VerInLog DEF SlotSame, Settled
  <2>2. FirstSight(Slot(u))'
    BY <1>1, <2>1 DEF Settled
  <2>3. QED
    BY <1>1, <2>1, <2>2, Grows DEF FirstSight
<1>4. ASSUME NEW i \in DOMAIN wire, NEW e \in wire[i], Is(e, u, n) PROVE FirstSight(e)
  <2>1. i - d \in DOMAIN wire' /\ wire'[i - d] = wire[i] /\ e.ver \in 1..Len(log)
    BY <1>1, <1>4, HasIt, VerInLog DEF WireSame
  <2>2. FirstSight(e)'
    BY <1>1, <1>4, <2>1 DEF Settled
  <2>3. QED
    BY <1>1, <2>1, <2>2, SightSame
<1>5. QED
  BY <1>1, <1>2, <1>3, <1>4 DEF Settled

LEMMA StatusIsNoEvent == ASSUME NEW st \in Status PROVE st \notin Event
<1>1. DOMAIN st = {"type", "scope"}
  BY DEF Status
<1>2. \A e \in Event : "ver" \in DOMAIN e
  BY DEF Event
<1>3. QED
  BY <1>1, <1>2

LEMMA NoStatusHas == ASSUME NEW st \in Status, NEW u, NEW n PROVE ~Has({st}, u, n)
BY StatusIsNoEvent DEF Has, Is

(* The ways in which the wire and the journal change. *)
LEMMA WireKept ==
  ASSUME Typed, NEW u \in Uids, NEW n, wire' = wire
  PROVE  WireSame(u, n, 0)
<1>1. DOMAIN wire = 1..Len(wire) /\ Len(wire) \in Nat
  BY DEF Typed, TrafficTyped
<1>2. \A i \in DOMAIN wire : i + 0 = i /\ i - 0 = i
  BY <1>1
<1>3. QED
  BY <1>2 DEF WireSame

LEMMA WireGrows ==
  ASSUME Typed, NEW u \in Uids, NEW n, NEW B \in Message, wire' = Append(wire, B), ~Has(B, u, n)
  PROVE  WireSame(u, n, 0)
<1>1. /\ wire \in Seq(Message) /\ DOMAIN wire = 1..Len(wire) /\ Len(wire) \in Nat
      /\ DOMAIN wire' = 1..(Len(wire) + 1) /\ wire'[Len(wire) + 1] = B
      /\ \A i \in 1..Len(wire) : wire'[i] = wire[i]
  BY DEF Typed, TrafficTyped
<1>2. \A i \in 1..(Len(wire) + 1) : i + 0 = i /\ i - 0 = i /\ (i \in 1..Len(wire) \/ i = Len(wire) + 1)
  BY <1>1
<1>3. ASSUME NEW i \in DOMAIN wire', Has(wire'[i], u, n)
      PROVE  i + 0 \in DOMAIN wire /\ wire'[i] = wire[i + 0]
  BY <1>1, <1>2, <1>3
<1>4. ASSUME NEW i \in DOMAIN wire
      PROVE  i - 0 \in DOMAIN wire' /\ wire'[i - 0] = wire[i]
  BY <1>1, <1>2
<1>5. QED
  BY <1>3, <1>4 DEF WireSame

LEMMA WireShrinks ==
  ASSUME Typed, NEW u \in Uids, NEW n, wire # <<>>, wire' = Tail(wire), ~Has(Head(wire), u, n)
  PROVE  WireSame(u, n, 1)
<1>1. /\ wire \in Seq(Message) /\ DOMAIN wire = 1..Len(wire) /\ Len(wire) \in Nat /\ Len(wire) # 0
      /\ Head(wire) = wire[1]
      /\ DOMAIN wire' = 1..(Len(wire) - 1)
      /\ \A i \in 1..(Len(wire) - 1) : wire'[i] = wire[i + 1]
  BY DEF Typed, TrafficTyped
<1>2. ASSUME NEW i \in DOMAIN wire'
      PROVE  i + 1 \in DOMAIN wire /\ wire'[i] = wire[i + 1]
  BY <1>1
<1>3. ASSUME NEW i \in DOMAIN wire, Has(wire[i], u, n)
      PROVE  i - 1 \in DOMAIN wire' /\ wire'[i - 1] = wire[i]
  <2>1. i # 1
    BY <1>1, <1>3
  <2>2. i - 1 \in 1..(Len(wire) - 1) /\ (i - 1) + 1 = i
    BY <1>1, <2>1
  <2>3. QED
    BY <1>1, <2>2
<1>4. QED
  BY <1>2, <1>3 DEF WireSame

LEMMA JournalGrows ==
  ASSUME Typed, NEW u \in Uids, NEW n, NEW B \in SUBSET Event, journal' = Append(journal, B), ~Has(B, u, n)
  PROVE  JournalSame(u, n)
<1>1. /\ journal \in Seq(SUBSET Event) /\ DOMAIN journal = 1..Len(journal) /\ Len(journal) \in Nat
      /\ DOMAIN journal' = 1..(Len(journal) + 1) /\ journal'[Len(journal) + 1] = B
      /\ \A i \in 1..Len(journal) : journal'[i] = journal[i]
  BY DEF Typed, TrafficTyped
<1>2. \A i \in 1..(Len(journal) + 1) : i \in 1..Len(journal) \/ i = Len(journal) + 1
  BY <1>1
<1>3. QED
  BY <1>1, <1>2 DEF JournalSame

(* Nothing travels of an object but in one of the ways above; a step of the *)
(* frontend or of the cluster is calm, a loop that moves on is for others.  *)
LEMMA LoopUntouched ==
  ASSUME Typed, NEW u \in Uids, UNCHANGED log, loop'[ScopeOf[u]] = loop[ScopeOf[u]]
  PROVE  LoopCalm(u)
BY DEF LoopCalm, Caught, Latest, Place

(* The loop of s has stopped, or resumes where it was. *)
LEMMA LoopSteps ==
  ASSUME Typed, NEW s \in Scopes, UNCHANGED log, loop' \in [Scopes -> LoopState],
         \A t \in Scopes : t # s => loop'[t] = loop[t],
         Place(s)' \in Nat, Place(s)' <= Place(s),
         loop'[s].pc # "open" \/ loop'[s].fresh = {},
         NEW u \in Uids
  PROVE  LoopCalm(u)
<1>1. ScopeOf[u] \in Scopes /\ Latest(u) \in Nat /\ Place(s) \in Nat
  BY LogFits, Scoping, VersionIsLast DEF Latest, Place
<1>2. CASE ScopeOf[u] # s
  BY <1>1, <1>2, LoopUntouched
<1>3. CASE ScopeOf[u] = s
  <2>1. Latest(u)' = Latest(u)
    BY DEF Latest
  <2>2. Caught(u)' => Caught(u)
    BY <1>1, <1>3, <2>1 DEF Caught
  <2>3. QED
    BY <1>3, <2>1, <2>2 DEF LoopCalm
<1>4. QED
  BY <1>2, <1>3

LEMMA ClusterCalm ==
  ASSUME Typed, NEW c \in Change, ClusterChanges(c), NEW u \in Uids
  PROVE  Calm(u, Gen(u), 0)
<1>1. /\ log' = Append(log, c) /\ UNCHANGED <<loop, starts, buffer, wire, journal>>
  BY DEF ClusterChanges, backend, view
<1>2. LogGrows
  BY <1>1 DEF LogGrows
<1>3. LoopCalm(u)
  <2>1. /\ log \in Seq(Change) /\ Len(log) \in Nat /\ ScopeOf[u] \in Scopes
        /\ Place(ScopeOf[u]) \in 0..Len(log)
    BY LogFits, Scoping DEF Place
  <2>2. /\ c.uid = u => Latest(u)' = Len(log) + 1
        /\ c.uid # u => Latest(u)' = Latest(u)
    <3>1. Len(log') = Len(log) + 1
      BY <1>1, <2>1
    <3>2. QED
      BY <1>1, <2>1, <3>1, AppendAdds DEF Latest
  <2>3. Place(ScopeOf[u])' = Place(ScopeOf[u])
    BY <1>1 DEF Place
  <2>4. Caught(u)' => c.uid # u
    BY <2>1, <2>2, <2>3 DEF Caught
  <2>5. Caught(u)' => Caught(u) /\ Latest(u)' = Latest(u)
    BY <2>2, <2>3, <2>4 DEF Caught
  <2>6. QED
    BY <1>1, <2>5 DEF LoopCalm
<1>4. WireSame(u, Gen(u), 0)
  BY <1>1, WireKept
<1>5. QED
  BY <1>1, <1>2, <1>3, <1>4 DEF Calm, Gen, SlotSame, Slot, JournalSame

(* A step of the loops that posts at most a status.                        *)
LEMMA LoopCalmly ==
  ASSUME Typed, NEW u \in Uids, UNCHANGED <<log, starts, buffer, journal>>, LoopCalm(u),
         wire' = wire \/ \E st \in Status : wire' = Append(wire, {st})
  PROVE  Calm(u, Gen(u), 0)
<1>1. WireSame(u, Gen(u), 0)
  <2>1. CASE wire' = wire
    BY <2>1, WireKept
  <2>2. ASSUME NEW st \in Status, wire' = Append(wire, {st}) PROVE WireSame(u, Gen(u), 0)
    <3>1. {st} \in Message /\ ~Has({st}, u, Gen(u))
      BY NoStatusHas DEF Message
    <3>2. QED
      BY <2>2, <3>1, WireGrows
  <2>3. QED
    BY <2>1, <2>2
<1>2. QED
  BY <1>1 DEF Calm, Gen, LogGrows, SlotSame, Slot, JournalSame

LEMMA PostIs ==
  ASSUME NEW s \in Scopes, NEW status \in {"connected", "reconnecting"}, PostStatus(s, status)
  PROVE  \E st \in Status : wire' = Append(wire, {st})
<1>1. [type |-> status, scope |-> s] \in Status
  BY DEF Status
<1>2. QED
  BY <1>1 DEF PostStatus

LEMMA ResumeCalm ==
  ASSUME Typed, NEW s \in Scopes, Connect(s), loop[s].rv # 0, NEW u \in Uids
  PROVE  Calm(u, Gen(u), 0)
<1>1. UNCHANGED <<log, starts, buffer, journal>> /\ PostStatus(s, "connected") /\ loop[s].pc = "connecting"
  BY DEF Connect, cluster
<1>2. LoopOf(s, "open", loop[s].rv, loop[s].rv, {}, FALSE) /\ loop[s].rv \in Nat
  BY ConnectLoop, LogFits
<1>3. Place(s)' = loop[s].rv /\ Place(s) = loop[s].rv
  BY <1>1, <1>2 DEF Place, LoopOf
<1>4. LoopCalm(u)
  BY <1>1, <1>2, <1>3, LoopSteps DEF LoopOf
<1>5. QED
  BY <1>1, <1>4, PostIs, LoopCalmly

LEMMA OtherStartCalm ==
  ASSUME Typed, NEW s \in Scopes, Connect(s), NEW u \in Uids, ScopeOf[u] # s
  PROVE  Calm(u, Gen(u), 0)
<1>1. /\ UNCHANGED <<log, buffer, journal>> /\ PostStatus(s, "connected")
      /\ starts' = [starts EXCEPT ![s] = @ + 1] \/ starts' = starts
  BY DEF Connect, cluster
<1>2. ScopeOf[u] \in Scopes /\ loop'[ScopeOf[u]] = loop[ScopeOf[u]]
  <2>1. ScopeOf[u] \in Scopes
    BY Scoping
  <2>2. \A t \in Scopes : t # s => loop'[t] = loop[t]
    <3>1. CASE loop[s].rv = 0
      BY <3>1, ConnectLoop DEF LoopOf
    <3>2. CASE loop[s].rv # 0
      BY <3>2, ConnectLoop DEF LoopOf
    <3>3. QED
      BY <3>1, <3>2
  <2>3. QED
    BY <2>1, <2>2
<1>3. LoopCalm(u)
  BY <1>1, <1>2, LoopUntouched
<1>4. Gen(u)' = Gen(u)
  BY <1>1, <1>2 DEF Gen, Typed, BackTyped
<1>5. WireSame(u, Gen(u), 0)
  <2>1. PICK st \in Status : wire' = Append(wire, {st})
    BY <1>1, PostIs
  <2>2. {st} \in Message /\ ~Has({st}, u, Gen(u))
    BY NoStatusHas DEF Message
  <2>3. QED
    BY <2>1, <2>2, WireGrows
<1>6. QED
  BY <1>1, <1>3, <1>4, <1>5 DEF Calm, LogGrows, SlotSame, Slot, JournalSame

LEMMA StopCalm ==
  ASSUME Typed, NEW s \in Scopes, NEW f,
         StartFails(s, f) \/ StreamCloses(s) \/ StreamError(s, f) \/ BackoffEnds(s),
         NEW u \in Uids
  PROVE  Calm(u, Gen(u), 0)
<1>1. /\ UNCHANGED <<log, starts, buffer, journal>>
      /\ wire' = wire \/ \E st \in Status : wire' = Append(wire, {st})
  BY PostIs DEF StartFails, StreamCloses, StreamError, BackoffEnds, cluster, view
<1>2. LoopCalm(u)
  <2>1. loop[s].rv \in Nat /\ loop[s].pos \in Nat /\ loop[s].rv <= loop[s].pos /\ 0 \in Nat
        /\ 0 <= loop[s].rv /\ loop[s].rv <= loop[s].rv
    BY LogFits
  <2>2. CASE StartFails(s, f)
    <3>1. loop[s].pc = "connecting"
      BY <2>2 DEF StartFails
    <3>2. QED
      BY <1>1, <2>1, <2>2, <3>1, StartFailsLoop, LoopSteps DEF LoopOf, Place
  <2>3. CASE StreamCloses(s)
    <3>1. loop[s].pc = "open"
      BY <2>3 DEF StreamCloses
    <3>2. QED
      BY <1>1, <2>1, <2>3, <3>1, CloseLoop, LoopSteps DEF LoopOf, Place
  <2>4. CASE StreamError(s, f)
    <3>1. loop[s].pc = "open" /\ 0 <= loop[s].pos
      BY <2>1, <2>4 DEF StreamError
    <3>2. QED
      BY <1>1, <2>1, <2>4, <3>1, ErrorLoop, LoopSteps DEF LoopOf, Place
  <2>5. CASE BackoffEnds(s)
    <3>1. loop[s].pc = "waiting"
      BY <2>5 DEF BackoffEnds
    <3>2. QED
      BY <1>1, <2>1, <2>5, <3>1, BackoffLoop, LoopSteps DEF LoopOf, Place
  <2>6. QED
    BY <2>2, <2>3, <2>4, <2>5
<1>3. QED
  BY <1>1, <1>2, LoopCalmly

LEMMA BookmarkCalm ==
  ASSUME Typed, NEW s \in Scopes, Bookmark(s), NEW u \in Uids
  PROVE  Calm(u, Gen(u), 0)
<1>1. /\ UNCHANGED <<log, starts, buffer, journal, wire>>
      /\ loop[s].pc = "open" /\ Ahead(log, s, loop[s].pos) = {}
  BY DEF Bookmark, cluster, view
<1>2. LoopOf(s, "open", Len(log), Len(log), {}, loop[s].quiet)
  BY BookmarkLoop
<1>3. LoopCalm(u)
  <2>1. CASE ScopeOf[u] # s
    BY <1>1, <1>2, <2>1, Scoping, LoopUntouched DEF LoopOf
  <2>2. CASE ScopeOf[u] = s
    <3>1. log \in Seq(Change) /\ Len(log) \in 0..Len(log) /\ loop[s].pos \in 0..Len(log)
      BY LogFits
    <3>2. Latest(u) \in 0..Len(log) /\ (Latest(u) # 0 => Latest(u) \in Changes(log, u, Len(log)))
      BY <3>1, VersionIsLast DEF Latest
    <3>3. ~(loop[s].pos < Latest(u))
      BY <1>1, <2>2, <3>1, <3>2 DEF Ahead, Changes
    <3>4. Caught(u)
      BY <1>1, <2>2, <3>1, <3>2, <3>3 DEF Caught, Place
    <3>5. Latest(u)' = Latest(u)
      BY <1>1 DEF Latest
    <3>6. QED
      BY <1>2, <2>2, <3>4, <3>5 DEF LoopCalm, LoopOf
  <2>3. QED
    BY <2>1, <2>2
<1>4. QED
  BY <1>1, <1>3, LoopCalmly

(* Steps of the frontend that leave the wire alone.                        *)
LEMMA ViewCalm ==
  ASSUME Typed, NEW u \in Uids, UNCHANGED <<log, starts, buffer, loop, wire>>,
         journal' = journal \/ journal' = <<>>
  PROVE  Calm(u, Gen(u), 0)
<1>1. LoopCalm(u)
  BY LoopUntouched
<1>2. WireSame(u, Gen(u), 0)
  BY WireKept
<1>3. QED
  BY <1>1, <1>2 DEF Calm, Gen, LogGrows, SlotSame, Slot, JournalSame

LEMMA StatusCalm ==
  ASSUME Typed, HandleStatus, NEW u \in Uids
  PROVE  Calm(u, Gen(u), 1)
<1>1. UNCHANGED <<log, starts, buffer, loop, journal>>
  BY DEF HandleStatus, cluster, backend, view
<1>2. WireSame(u, Gen(u), 1)
  <2>1. PICK st \in Status : wire # <<>> /\ Head(wire) = {st} /\ wire' = Tail(wire)
    BY DEF HandleStatus
  <2>2. QED
    BY <2>1, NoStatusHas, WireShrinks
<1>3. LoopCalm(u)
  BY <1>1, LoopUntouched
<1>4. QED
  BY <1>1, <1>2, <1>3 DEF Calm, Gen, LogGrows, SlotSame, Slot, JournalSame

LEMMA OtherBatchCalm ==
  ASSUME Typed, HandleBatch, NEW u \in Uids, ~Has(Head(wire), u, Gen(u))
  PROVE  Calm(u, Gen(u), 1)
<1>1. /\ UNCHANGED <<log, starts, buffer, loop>>
      /\ wire # <<>> /\ Head(wire) \in SUBSET Event /\ wire' = Tail(wire)
      /\ journal' = Append(journal, Head(wire)) \/ journal' = journal
  BY DEF HandleBatch, cluster, backend
<1>2. WireSame(u, Gen(u), 1)
  BY <1>1, WireShrinks
<1>3. LoopCalm(u)
  BY <1>1, LoopUntouched
<1>4. JournalSame(u, Gen(u))
  BY <1>1, JournalGrows DEF JournalSame
<1>5. QED
  BY <1>1, <1>2, <1>3, <1>4 DEF Calm, Gen, LogGrows, SlotSame, Slot

-----------------------------------------------------------------------------
(* What the API server guarantees of the log: an object is added once, it   *)
(* changes only while it lives, and a name has one live object.             *)
OncePerObject ==
  \A i \in 1..Len(log) :
    /\ log[i].type = "ADDED" => Changes(log, log[i].uid, i - 1) = {}
    /\ log[i].type # "ADDED" => Live(log, log[i].uid, i - 1)

OnePerName ==
  \A n \in 0..Len(log) : \A u, w \in Uids :
    u # w /\ NameOf[u] = NameOf[w] => ~(Live(log, u, n) /\ Live(log, w, n))

LogLegal == OncePerObject /\ OnePerName

LEMMA LegalInit == Init => LogLegal
<1> SUFFICES ASSUME Init PROVE LogLegal
  OBVIOUS
<1>1. Len(log) = 0 /\ 1..0 = {}
  BY DEF Init
<1>2. \A u : \A n \in 0..0 : Changes(log, u, n) = {}
  BY <1>1 DEF Changes
<1>3. QED
  BY <1>1, <1>2 DEF LogLegal, OncePerObject, OnePerName, Live

LEMMA LegalGrows ==
  ASSUME Typed, NEW c \in Change, ClusterChanges(c), LogLegal
  PROVE  LogLegal'
<1> DEFINE n == Len(log)
<1>1. /\ log' = Append(log, c) /\ Legal(log, c) /\ LogGrows
      /\ log \in Seq(Change) /\ n \in Nat /\ n \in 0..n /\ c.uid \in Uids
      /\ c.type \in {"ADDED", "MODIFIED", "TERMINATING", "DELETED"}
  BY LogFits DEF ClusterChanges, LogGrows, Change
<1>2. Len(log') = n + 1 /\ log'[n + 1] = c /\ \A i \in 1..n : log'[i] = log[i]
  BY <1>1
<1> HIDE DEF n
<1>3. \A u \in Uids : \A m \in 0..n : /\ Changes(log', u, m) = Changes(log, u, m)
                                      /\ Live(log', u, m) <=> Live(log, u, m)
  BY <1>1, Grows DEF n
<1>4. \A u \in Uids : /\ u # c.uid => (Live(log', u, n + 1) <=> Live(log, u, n))
                      /\ u = c.uid => (Live(log', u, n + 1) <=> c.type # "DELETED")
  BY <1>1, AppendAdds DEF n
<1> DEFINE last == IF Changes(log, c.uid, n) = {} THEN "none" ELSE log[Version(log, c.uid, n)].type
<1>5. Changes(log, c.uid, n) # {} =>
        log[Version(log, c.uid, n)].type \in {"ADDED", "MODIFIED", "TERMINATING", "DELETED"}
  <2>1. Changes(log, c.uid, n) # {} => Version(log, c.uid, n) \in 1..n
    BY <1>1, VersionIsLast DEF n
  <2>2. \A i \in 1..n : log[i] \in Change
    BY <1>1 DEF n
  <2>3. QED
    BY <2>1, <2>2 DEF Change
<1>6. c.type = "ADDED" => /\ Changes(log, c.uid, n) = {}
                          /\ \A u \in Uids : NameOf[u] = NameOf[c.uid] => ~Live(log, u, n)
  BY <1>1, <1>5 DEF Legal, n
<1>7. c.type # "ADDED" => Live(log, c.uid, n)
  <2>1. c.type # "ADDED" => last \in {"ADDED", "MODIFIED", "TERMINATING"}
    BY <1>1 DEF Legal, n
  <2>2. QED
    BY <2>1 DEF Live
<1>8. OncePerObject'
  <2> SUFFICES ASSUME NEW i \in 1..(n + 1)
               PROVE  /\ log'[i].type = "ADDED" => Changes(log', log'[i].uid, i - 1) = {}
                      /\ log'[i].type # "ADDED" => Live(log', log'[i].uid, i - 1)
    BY <1>2 DEF OncePerObject
  <2>1. CASE i = n + 1
    <3>1. log'[i] = c /\ i - 1 = n
      BY <1>1, <1>2, <2>1 DEF n
    <3>2. n \in 0..n
      BY <1>1 DEF n
    <3>3. QED
      BY <1>1, <1>3, <1>6, <1>7, <3>1, <3>2
  <2>2. CASE i \in 1..n
    <3>1. log'[i] = log[i] /\ i - 1 \in 0..n /\ log[i].uid \in Uids
      <4>1. \A j \in 1..n : log[j] \in Change
        BY <1>1 DEF n
      <4>2. log[i].uid \in Uids
        BY <2>2, <4>1 DEF Change
      <4>3. QED
        BY <1>1, <1>2, <2>2, <4>2
    <3>2. QED
      BY <1>3, <2>2, <3>1 DEF LogLegal, OncePerObject, n
  <2>3. QED
    <3>1. i = n + 1 \/ i \in 1..n
      BY <1>1
    <3>2. QED
      BY <2>1, <2>2, <3>1
<1>9. OnePerName'
  <2> SUFFICES ASSUME NEW m \in 0..(n + 1), NEW u \in Uids, NEW w \in Uids,
                      u # w, NameOf[u] = NameOf[w], Live(log', u, m), Live(log', w, m)
               PROVE  FALSE
    BY <1>2 DEF OnePerName
  <2>1. CASE m \in 0..n
    BY <1>3, <2>1 DEF LogLegal, OnePerName, n
  <2>2. CASE m = n + 1
    <3>1. Live(log, u, n) /\ Live(log, w, n) => FALSE
      BY <1>1 DEF LogLegal, OnePerName, n
    <3>2. CASE c.type = "ADDED"
      BY <1>4, <1>6, <2>2, <3>1, <3>2
    <3>3. CASE c.type # "ADDED"
      BY <1>4, <1>7, <2>2, <3>1, <3>3
    <3>4. QED
      BY <3>2, <3>3
  <2>3. QED
    BY <1>1, <2>1, <2>2 DEF n
<1>10. QED
  BY <1>8, <1>9 DEF LogLegal

LEMMA LegalStays == LogLegal /\ UNCHANGED log => LogLegal'
BY DEF LogLegal, OncePerObject, OnePerName

(* Who changes lives, before or after.                                     *)
LEMMA ChangerLives ==
  ASSUME Typed, LogLegal, NEW i \in 1..Len(log), NEW w \in Uids, log[i].uid = w
  PROVE  Live(log, w, i - 1) \/ Live(log, w, i)
<1>1. log \in Seq(Change) /\ Len(log) \in Nat /\ i \in 0..Len(log) /\ i \in 1..i
  BY LogFits
<1>2. CASE log[i].type # "ADDED"
  BY <1>2 DEF LogLegal, OncePerObject
<1>3. CASE log[i].type = "ADDED"
  <2>1. i \in Changes(log, w, i)
    BY <1>1 DEF Changes
  <2>2. i <= Version(log, w, i) /\ Version(log, w, i) \in 0..i
    BY <1>1, <2>1, VersionIsLast
  <2>3. Version(log, w, i) = i
    BY <1>1, <2>2
  <2>4. QED
    BY <1>3, <2>1, <2>3 DEF Live
<1>4. QED
  BY <1>2, <1>3

(* An object that has a buffered event of its last change lives on.        *)
LEMMA LastLives ==
  ASSUME Typed, NEW u \in Uids, Latest(u) # 0, log[Latest(u)].type # "DELETED",
         NEW n \in 0..Len(log), Latest(u) <= n
  PROVE  Live(log, u, n)
<1>1. log \in Seq(Change) /\ Len(log) \in Nat /\ Len(log) \in 0..Len(log) /\ n <= Len(log)
  BY LogFits
<1>2. /\ Latest(u) \in Changes(log, u, Len(log))
  BY <1>1, VersionIsLast DEF Latest
<1>3. Live(log, u, Len(log))
  BY <1>2 DEF Live, Latest
<1>4. QED
  BY <1>1, <1>3, Unchanged DEF Latest

(* The slot of a name does not hold an event of one object that matters    *)
(* when another object of the same name has changed.                       *)
LEMMA SlotOfOther ==
  ASSUME Typed, LogLegal, TrafficKnown, NEW s \in Scopes, loop[s].pc = "open",
         NEW i \in 1..Len(log), NextChange(s, i),
         NEW u \in Uids, u # log[i].uid, NameOf[u] = NameOf[log[i].uid], ScopeOf[u] = s,
         Order(u), Latest(u) <= i
  PROVE  ~Is(Slot(u), u, Gen(u))
<1> SUFFICES ASSUME Is(Slot(u), u, Gen(u)) PROVE FALSE
  OBVIOUS
<1> DEFINE w == log[i].uid
<1>1. log \in Seq(Change) /\ Len(log) \in Nat /\ Len(log) \in 0..Len(log) /\ w \in Uids
      /\ loop[s].pos \in 0..Len(log)
  BY LogFits DEF NextChange, Change
<1>2. /\ Latest(u) \in 0..Len(log) /\ (Latest(u) # 0 => Latest(u) \in Changes(log, u, Len(log)))
  BY <1>1, VersionIsLast DEF Latest
<1>3. Latest(u) # i
  BY <1>2 DEF Changes
<1>4. Latest(u) <= loop[s].pos
  <2> SUFFICES ASSUME loop[s].pos < Latest(u) PROVE FALSE
    BY <1>1, <1>2
  <2>1. Latest(u) \in 1..Len(log) /\ log[Latest(u)].uid = u
    BY <1>1, <1>2 DEF Changes
  <2>2. i <= Latest(u)
    BY <2>1 DEF NextChange
  <2>3. QED
    BY <1>1, <1>2, <1>3, <2>2
<1>5. Caught(u)
  BY <1>4 DEF Caught, Place
<1>6. Slot(u).ver = Latest(u)
  BY <1>5 DEF Order
<1>7. Known(Slot(u)) /\ Slot(u).type # "DELETED" /\ Slot(u) \in Event /\ Slot(u).uid = u
  BY Scoping DEF TrafficKnown, Is, Slot
<1>8. Latest(u) # 0 /\ log[Latest(u)].type # "DELETED"
  <2>1. Slot(u).ver \in 1..Len(log)
    BY VerInLog
  <2>2. QED
    BY <1>6, <1>7, <2>1 DEF Known, KnownTo, TrueTo
<1>9. Live(log, u, i - 1) /\ Live(log, u, i)
  <2>1. i \in 0..Len(log) /\ i - 1 \in 0..Len(log) /\ Latest(u) <= i - 1
    BY <1>1, <1>2, <1>3
  <2>2. QED
    BY <1>8, <2>1, LastLives
<1>10. Live(log, w, i - 1) \/ Live(log, w, i)
  BY <1>1, ChangerLives
<1>11. i \in 0..Len(log) /\ i - 1 \in 0..Len(log)
  BY <1>1
<1>12. QED
  BY <1>1, <1>9, <1>10, <1>11 DEF LogLegal, OnePerName

(* An event of an object is handed on: the others do not notice.           *)
LEMMA EmitOther ==
  ASSUME Typed, NEW w \in Uids, NEW u \in Uids, u # w,
         NEW e \in Event, e.uid = w, e.key = NameOf[w], Emit(e),
         Caught(u)' /\ NameOf[u] = NameOf[w] => ~Is(Slot(u), u, Gen(u))
  PROVE  SlotSame(u, Gen(u)) /\ WireSame(u, Gen(u), 0)
<1>1. /\ \A k \in Names : k # e.key => buffer'[k] = buffer[k]
      /\ IF e.type = "DELETED" THEN buffer'[e.key] = NoEvent /\ wire' = Append(wire, {e})
                               ELSE buffer'[e.key] = e /\ wire' = wire
  BY EmitTyped
<1>2. NameOf[u] \in Names
  BY Scoping
<1>3. SlotSame(u, Gen(u))
  <2>1. CASE NameOf[u] # NameOf[w]
    BY <1>1, <1>2, <2>1 DEF SlotSame, Slot
  <2>2. CASE NameOf[u] = NameOf[w]
    <3>1. Slot(u)' = e \/ Slot(u)' = NoEvent
      BY <1>1, <2>2 DEF Slot
    <3>2. ~Is(Slot(u)', u, Gen(u))
      BY <3>1, SlotAssumption DEF Is
    <3>3. QED
      BY <2>2, <3>2 DEF SlotSame
  <2>3. QED
    BY <2>1, <2>2
<1>4. WireSame(u, Gen(u), 0)
  <2>1. CASE e.type = "DELETED"
    <3>1. {e} \in Message /\ ~Has({e}, u, Gen(u))
      BY DEF Message, Has, Is
    <3>2. QED
      BY <1>1, <2>1, <3>1, WireGrows
  <2>2. CASE e.type # "DELETED"
    BY <1>1, <2>2, WireKept
  <2>3. QED
    BY <2>1, <2>2
<1>5. QED
  BY <1>3, <1>4

LEMMA DeliverCalm ==
  ASSUME Typed, LogLegal, TrafficKnown, NEW s \in Scopes, Deliver(s),
         NEW i \in 1..Len(log), NextChange(s, i), Emit(Delivered(log[i].uid, i, log[i].type)),
         LoopOf(s, "open", i, i, {}, loop[s].quiet), loop[s].pc = "open",
         NEW u \in Uids, u # log[i].uid, Order(u)
  PROVE  Calm(u, Gen(u), 0)
<1> DEFINE w == log[i].uid
           e == Delivered(w, i, log[i].type)
<1>1. UNCHANGED <<log, starts, journal>>
  BY DEF Deliver, cluster, view
<1>2. /\ log \in Seq(Change) /\ Len(log) \in Nat /\ Len(log) \in 0..Len(log) /\ w \in Uids
      /\ loop[s].pos \in 0..Len(log) /\ ScopeOf[w] = s
      /\ log[i].type \in {"ADDED", "MODIFIED", "TERMINATING", "DELETED"}
  BY LogFits DEF NextChange, Change
<1>3. e \in Event /\ e.uid = w /\ e.key = NameOf[w]
  BY <1>2, DeliveredTyped DEF Delivered
<1>4. Latest(u) \in 0..Len(log) /\ (Latest(u) # 0 => Latest(u) \in Changes(log, u, Len(log)))
  BY <1>2, VersionIsLast DEF Latest
<1>5. Latest(u)' = Latest(u)
  BY <1>1 DEF Latest
<1>6. Caught(u)' /\ ScopeOf[u] = s => Latest(u) <= i
  BY <1>5 DEF Caught, Place, LoopOf
<1>7. Caught(u)' /\ NameOf[u] = NameOf[w] => ~Is(Slot(u), u, Gen(u))
  <2>1. NameOf[u] = NameOf[w] => ScopeOf[u] = s
    BY <1>2, Scoping
  <2>2. QED
    BY <1>6, <2>1, SlotOfOther
<1>8. SlotSame(u, Gen(u)) /\ WireSame(u, Gen(u), 0)
  BY <1>2, <1>3, <1>7, EmitOther
<1>9. LoopCalm(u)
  <2>1. CASE ScopeOf[u] # s
    BY <1>1, <2>1, Scoping, LoopUntouched DEF LoopOf
  <2>2. CASE ScopeOf[u] = s
    <3>1. ASSUME Latest(u) <= i PROVE Latest(u) <= loop[s].pos
      <4> SUFFICES ASSUME loop[s].pos < Latest(u) PROVE FALSE
        BY <1>2, <1>4
      <4>1. Latest(u) \in 1..Len(log) /\ log[Latest(u)].uid = u
        BY <1>2, <1>4 DEF Changes
      <4>2. i <= Latest(u) /\ Latest(u) # i
        BY <2>2, <4>1 DEF NextChange
      <4>3. QED
        BY <1>2, <1>4, <3>1, <4>2
    <3>2. Caught(u)' => Caught(u)
      BY <1>6, <2>2, <3>1 DEF Caught, Place
    <3>3. QED
      BY <1>5, <2>2, <3>2 DEF LoopCalm, LoopOf
  <2>3. QED
    BY <2>1, <2>2
<1>10. QED
  BY <1>1, <1>8, <1>9 DEF Calm, LogGrows, Gen, JournalSame

LEMMA DeliverFreshCalm ==
  ASSUME Typed, LogLegal, NEW s \in Scopes, NEW w \in Uids, DeliverFresh(s, w),
         NEW u \in Uids, u # w, Unseen(u)
  PROVE  Calm(u, Gen(u), 0)
<1> DEFINE i == Version(log, w, loop[s].pos)
           e == Delivered(w, i, "ADDED")
<1>1. UNCHANGED <<log, starts, journal>>
  BY DEF DeliverFresh, cluster, view
<1>2. /\ loop[s].pc = "open" /\ w \in loop[s].fresh /\ ScopeOf[w] = s
      /\ Live(log, w, loop[s].pos) /\ i \in 1..Len(log) /\ i <= loop[s].pos
      /\ Emit(e)
      /\ LoopOf(s, "open", i, loop[s].pos, loop[s].fresh \ {w}, loop[s].quiet)
      /\ loop[s].pos \in 0..Len(log)
  BY DeliverFreshLoop, LogFits
<1>3. e \in Event /\ e.uid = w /\ e.key = NameOf[w]
  BY <1>2, DeliveredTyped DEF Delivered
<1>4. Caught(u)' /\ NameOf[u] = NameOf[w] => ~Is(Slot(u), u, Gen(u))
  <2> SUFFICES ASSUME NameOf[u] = NameOf[w], Is(Slot(u), u, Gen(u)) PROVE FALSE
    OBVIOUS
  <2>1. ScopeOf[u] = s
    BY <1>2, Scoping
  <2>2. Live(log, u, loop[s].pos)
    BY <1>2, <2>1 DEF Unseen, Found
  <2>3. QED
    BY <1>2, <2>2 DEF LogLegal, OnePerName
<1> HIDE DEF i, e
<1>5. SlotSame(u, Gen(u)) /\ WireSame(u, Gen(u), 0)
  BY <1>3, <1>2, <1>4, EmitOther
<1>6. LoopCalm(u)
  <2>1. CASE ScopeOf[u] # s
    BY <1>1, <1>2, <2>1, Scoping, LoopUntouched DEF LoopOf
  <2>2. CASE ScopeOf[u] = s
    BY <1>1, <1>2, <2>2 DEF LoopCalm, LoopOf, Caught, Latest, Place
  <2>3. QED
    BY <2>1, <2>2
<1>7. QED
  BY <1>1, <1>5, <1>6 DEF Calm, LogGrows, Gen, JournalSame

(* A frame takes the events of others.                                     *)
LEMMA FrameCalm ==
  ASSUME Typed, TrafficKnown, Frame, NEW S \in SUBSET Buffer!Filled, Buffer!Release(S),
         NEW u \in Uids, ~(NameOf[u] \in S /\ Is(Slot(u), u, Gen(u)))
  PROVE  Calm(u, Gen(u), 0)
<1> DEFINE B == {buffer[k] : k \in S}
<1>1. /\ UNCHANGED <<log, starts, loop, journal>>
      /\ buffer' = [k \in Names |-> IF k \in S THEN NoEvent ELSE buffer[k]]
      /\ wire' = Append(wire, B)
  BY DEF Frame, cluster, view, Buffer!Release
<1>2. \A k \in S : k \in Names /\ buffer[k] \in Event
  BY DEF Buffer!Filled, Typed, TrafficTyped
<1>3. B \in Message
  BY <1>2 DEF Message
<1>4. ~Has(B, u, Gen(u))
  <2> SUFFICES ASSUME NEW k \in S, Is(buffer[k], u, Gen(u)) PROVE FALSE
    BY DEF Has
  <2>1. buffer[k].key = k /\ buffer[k].key = NameOf[u]
    BY <1>2 DEF TrafficKnown, Known, KnownTo, TrueTo, Is
  <2>2. QED
    BY <2>1 DEF Slot
<1> HIDE DEF B
<1>5. WireSame(u, Gen(u), 0)
  BY <1>1, <1>3, <1>4, WireGrows
<1>6. SlotSame(u, Gen(u))
  <2>1. NameOf[u] \in Names
    BY Scoping
  <2>2. CASE NameOf[u] \notin S
    BY <1>1, <2>1, <2>2 DEF SlotSame, Slot
  <2>3. CASE NameOf[u] \in S
    <3>1. Slot(u)' = NoEvent
      BY <1>1, <2>1, <2>3 DEF Slot
    <3>2. QED
      BY <2>3, <3>1, SlotAssumption DEF SlotSame, Is
  <2>4. QED
    BY <2>2, <2>3
<1>7. LoopCalm(u)
  BY <1>1, LoopUntouched
<1>8. QED
  BY <1>1, <1>5, <1>6, <1>7 DEF Calm, LogGrows, Gen, JournalSame

-----------------------------------------------------------------------------
(* A step keeps the order of an object's traffic and decides no row.       *)
Passes(u) ==
  /\ LogGrows /\ Gen(u)' = Gen(u)
  /\ Traffic(u)'
  /\ Settled(u)' => Settled(u) /\ Latest(u)' = Latest(u)

LEMMA CalmPasses ==
  ASSUME Typed, Typed', TrafficKnown, NEW u \in Uids, NEW d \in {0, 1}, Calm(u, Gen(u), d), Traffic(u)
  PROVE  Passes(u)
<1>1. Order(u)' /\ First(u)' /\ Unseen(u)'
  BY CalmOrder, CalmFirst, CalmUnseen DEF Traffic
<1>2. Settled(u)' => Settled(u)
  BY CalmSettled
<1>3. Settled(u)' => Latest(u)' = Latest(u)
  BY DEF Calm, LoopCalm, Settled
<1>4. QED
  BY <1>1, <1>2, <1>3 DEF Passes, Traffic, Calm

(* The wire after a message was posted.                                    *)
LEMMA Posted ==
  ASSUME Typed, NEW B, wire' = Append(wire, B)
  PROVE  /\ DOMAIN wire = 1..Len(wire) /\ Len(wire) \in Nat
         /\ DOMAIN wire' = 1..(Len(wire) + 1) /\ wire'[Len(wire) + 1] = B
         /\ \A i \in 1..Len(wire) : wire'[i] = wire[i]
         /\ \A i \in DOMAIN wire' : i \in DOMAIN wire \/ i = Len(wire) + 1
<1>1. /\ wire \in Seq(Message)
  BY DEF Typed, TrafficTyped
<1>2. /\ DOMAIN wire = 1..Len(wire) /\ Len(wire) \in Nat
      /\ DOMAIN wire' = 1..(Len(wire) + 1) /\ wire'[Len(wire) + 1] = B
      /\ \A i \in 1..Len(wire) : wire'[i] = wire[i]
  BY <1>1
<1>3. \A i \in 1..(Len(wire) + 1) : i \in 1..Len(wire) \/ i = Len(wire) + 1
  BY <1>2
<1>4. QED
  BY <1>2, <1>3

(* The watch hands on a change of w itself.                                *)
LEMMA DeliverPasses ==
  ASSUME Typed, Typed', TrafficKnown, NEW s \in Scopes, Deliver(s),
         NEW i \in 1..Len(log), NextChange(s, i), Emit(Delivered(log[i].uid, i, log[i].type)),
         LoopOf(s, "open", i, i, {}, loop[s].quiet),
         NEW w \in Uids, w = log[i].uid, Traffic(w)
  PROVE  Passes(w)
<1>a. PICK e : e = Delivered(w, i, log[i].type)
  OBVIOUS
<1>b. PICK n : n = Gen(w)
  OBVIOUS
<1>1. UNCHANGED <<log, starts, journal>>
  BY DEF Deliver, cluster, view
<1>2. /\ log \in Seq(Change) /\ Len(log) \in Nat /\ Len(log) \in 0..Len(log) /\ ScopeOf[w] = s
      /\ log[i].type \in {"ADDED", "MODIFIED", "TERMINATING", "DELETED"}
      /\ NameOf[w] \in Names
  BY LogFits, Scoping DEF NextChange, Change
<1>3. /\ e \in Event /\ e.uid = w /\ e.key = NameOf[w] /\ e.ver = i /\ e.start = n
      /\ e.type = "ADDED" <=> log[i].type = "ADDED"
      /\ e.type = "DELETED" <=> log[i].type = "DELETED"
  <2>1. e \in Event /\ e.start = n
    BY <1>a, <1>b, <1>2, DeliveredTyped DEF Delivered, Gen
  <2>2. QED
    BY <1>a, <1>2, <2>1 DEF Delivered
<1>4. /\ IF e.type = "DELETED" THEN Slot(w)' = NoEvent /\ wire' = Append(wire, {e})
                               ELSE Slot(w)' = e /\ wire' = wire
  BY <1>a, <1>2, <1>3, EmitTyped DEF Slot
<1>5. Is(e, w, n) /\ ~FirstSight(e) /\ ~FirstSight(e)' /\ ~Is(NoEvent, w, n)
  <2>1. ~FirstSight(e)
    BY <1>3 DEF FirstSight
  <2>2. ~FirstSight(e)'
    BY <1>1, <1>3 DEF FirstSight
  <2>3. QED
    BY <1>3, <2>1, <2>2, SlotAssumption DEF Is
<1>6. Gen(w)' = n /\ LogGrows /\ Latest(w)' = Latest(w)
  BY <1>1, <1>b DEF Gen, LogGrows, Latest
<1>7. Caught(w)' => Latest(w)' = i
  <2>1. i \in Changes(log, w, Len(log)) /\ Latest(w) \in 0..Len(log) /\ i <= Latest(w)
    BY <1>2, VersionIsLast DEF Changes, Latest
  <2>2. Caught(w)' => Latest(w) <= i
    BY <1>2, <1>6 DEF Caught, Place, LoopOf
  <2>3. QED
    BY <1>2, <1>6, <2>1, <2>2
<1>8. CASE e.type = "DELETED"
  <2>1. /\ ~Is(Slot(w)', w, n)
        /\ DOMAIN wire = 1..Len(wire) /\ Len(wire) \in Nat
        /\ DOMAIN wire' = 1..(Len(wire) + 1) /\ wire'[Len(wire) + 1] = {e}
        /\ \A j \in 1..Len(wire) : wire'[j] = wire[j]
        /\ \A j \in DOMAIN wire' : j \in DOMAIN wire \/ j = Len(wire) + 1
    BY <1>4, <1>5, <1>8, Posted
  <2> DEFINE m == Len(wire) + 1
  <2>2. m \in DOMAIN wire' /\ Has(wire'[m], w, n) /\ \A j \in DOMAIN wire : j < m
    BY <1>5, <2>1, HasIt
  <2> HIDE DEF m
  <2>3. Order(w)'
    <3>1. ASSUME Caught(w)', NEW j \in DOMAIN wire', \A k \in DOMAIN wire' : k > j => ~Has(wire'[k], w, n),
                 NEW f \in wire'[j], Is(f, w, n)
          PROVE  f.ver = Latest(w)'
      <4>1. j = m
        BY <2>1, <2>2, <3>1 DEF m
      <4>2. f = e
        BY <2>1, <3>1, <4>1 DEF m
      <4>3. QED
        BY <1>3, <1>7, <3>1, <4>2
    <3>2. QED
      BY <1>6, <2>1, <2>2, <3>1 DEF Order
  <2>4. First(w)'
    <3>1. ASSUME NEW j \in DOMAIN wire',
                 \/ \E k \in DOMAIN wire' : k < j /\ Has(wire'[k], w, n)
                 \/ \E k \in DOMAIN journal' : Has(journal'[k], w, n),
                 NEW f \in wire'[j], Is(f, w, n)
          PROVE  ~FirstSight(f)'
      <4>1. CASE j = m
        BY <1>5, <2>1, <3>1, <4>1 DEF m
      <4>2. CASE j \in DOMAIN wire
        <5>1. \A k \in DOMAIN wire' : k < j => k \in DOMAIN wire /\ wire'[k] = wire[k]
          BY <2>1, <4>2 DEF m
        <5>2. wire'[j] = wire[j]
          BY <2>1, <4>2
        <5>3. ~FirstSight(f)
          BY <1>1, <1>b, <3>1, <4>2, <5>1, <5>2 DEF Traffic, First
        <5>4. QED
          BY <1>1, <5>3 DEF FirstSight
      <4>3. QED
        BY <2>1, <4>1, <4>2 DEF m
    <3>2. ASSUME NEW j \in DOMAIN journal', NEW k \in DOMAIN journal', j < k, Has(journal'[j], w, n),
                 NEW f \in journal'[k], Is(f, w, n)
          PROVE  ~FirstSight(f)'
      BY <1>1, <1>b, <3>2 DEF Traffic, First, FirstSight
    <3>3. QED
      BY <1>6, <2>1, <3>1, <3>2 DEF First
  <2>5. ~Settled(w)'
    BY <1>3, <1>5, <1>6, <2>1, <2>2 DEF Settled, m
  <2>6. Unseen(w)'
    BY <1>2 DEF Unseen, LoopOf
  <2>7. QED
    BY <1>b, <1>6, <2>3, <2>4, <2>5, <2>6 DEF Passes, Traffic
<1>9. CASE e.type # "DELETED"
  <2>1. Slot(w)' = e /\ wire' = wire
    BY <1>4, <1>9
  <2>2. Order(w)'
    BY <1>3, <1>5, <1>6, <1>7, <2>1 DEF Order
  <2>3. First(w)'
    <3>1. ~FirstSight(Slot(w))'
      BY <1>5, <2>1 DEF FirstSight
    <3>2. QED
      BY <1>1, <1>b, <1>6, <2>1, <3>1 DEF Traffic, First, FirstSight
  <2>4. ~Settled(w)'
    <3>1. ~FirstSight(Slot(w))'
      BY <1>5, <2>1 DEF FirstSight
    <3>2. QED
      BY <1>5, <1>6, <2>1, <3>1 DEF Settled
  <2>5. Unseen(w)'
    BY <1>2 DEF Unseen, LoopOf
  <2>6. QED
    BY <1>b, <1>6, <2>2, <2>3, <2>4, <2>5 DEF Passes, Traffic
<1>10. QED
  BY <1>8, <1>9

(* The watch reports an object that it found.                              *)
LEMMA DeliverFreshPasses ==
  ASSUME Typed, Typed', TrafficKnown, NEW s \in Scopes, NEW w \in Uids, DeliverFresh(s, w), Traffic(w)
  PROVE  Passes(w)
<1>a. PICK i : i = Version(log, w, loop[s].pos)
  OBVIOUS
<1>b. PICK e : e = Delivered(w, i, "ADDED")
  OBVIOUS
<1>c. PICK n : n = Gen(w)
  OBVIOUS
<1>1. UNCHANGED <<log, starts, journal>>
  BY DEF DeliverFresh, cluster, view
<1>2. /\ loop[s].pc = "open" /\ w \in loop[s].fresh /\ ScopeOf[w] = s
      /\ Live(log, w, loop[s].pos) /\ i \in 1..Len(log) /\ i <= loop[s].pos
      /\ Emit(e)
      /\ LoopOf(s, "open", i, loop[s].pos, loop[s].fresh \ {w}, loop[s].quiet)
      /\ loop[s].pos \in 0..Len(log)
  BY <1>a, <1>b, DeliverFreshLoop, LogFits
<1>3. e \in Event /\ e.uid = w /\ e.key = NameOf[w] /\ e.type = "ADDED" /\ e.ver = i /\ e.start = n
  <2>1. e \in Event /\ e.start = n
    BY <1>b, <1>c, <1>2, DeliveredTyped DEF Delivered, Gen
  <2>2. QED
    BY <1>b, <2>1 DEF Delivered
<1>4. Slot(w)' = e /\ wire' = wire
  BY <1>2, <1>3, EmitTyped DEF Slot
<1>5. /\ ~Is(Slot(w), w, n)
      /\ \A j \in DOMAIN wire : ~Has(wire[j], w, n)
      /\ \A j \in DOMAIN journal : ~Has(journal[j], w, n)
  BY <1>c, <1>2 DEF Traffic, Unseen, Found, Has
<1>6. Gen(w)' = n /\ LogGrows /\ Latest(w)' = Latest(w) /\ Is(e, w, n)
  BY <1>1, <1>3, <1>c DEF Gen, LogGrows, Latest, Is
<1>7. Place(s)' = loop[s].pos /\ Place(s) = loop[s].pos
  BY <1>2 DEF Place, LoopOf
<1>8. Order(w)'
  <2>1. ASSUME Caught(w)' PROVE Latest(w) = i
    <3>1. log \in Seq(Change) /\ Len(log) \in Nat /\ Len(log) \in 0..Len(log) /\ loop[s].pos <= Len(log)
      BY <1>2, LogFits
    <3>2. Version(log, w, Len(log)) <= loop[s].pos
      BY <1>2, <1>6, <1>7, <2>1 DEF Caught, Latest
    <3>3. QED
      BY <1>a, <1>2, <3>1, <3>2, Unchanged DEF Latest
  <2>2. QED
    BY <1>3, <1>4, <1>6, <2>1 DEF Order
<1>9. First(w)'
  BY <1>1, <1>4, <1>5, <1>6 DEF First
<1>10. Unseen(w)'
  <2>1. Found(w, e)'
    BY <1>a, <1>1, <1>2, <1>3 DEF Found, LoopOf
  <2>2. /\ \A j \in DOMAIN wire' : \A f \in wire'[j] : ~Is(f, w, n)
        /\ \A j \in DOMAIN journal' : \A f \in journal'[j] : ~Is(f, w, n)
    BY <1>1, <1>4, <1>5 DEF Has
  <2>3. Found(w, Slot(w))'
    BY <1>a, <1>1, <1>2, <1>3, <1>4 DEF Found, LoopOf
  <2>4. QED
    BY <1>6, <2>2, <2>3 DEF Unseen
<1>11. Settled(w)' => Settled(w)
  <2>1. Caught(w)' => Caught(w)
    BY <1>2, <1>6, <1>7 DEF Caught
  <2>2. QED
    BY <1>c, <1>5, <2>1 DEF Settled, Has
<1>12. QED
  BY <1>c, <1>6, <1>8, <1>9, <1>10, <1>11 DEF Passes, Traffic

(* A frame takes the event of u along.                                     *)
LEMMA FramePasses ==
  ASSUME Typed, Typed', TrafficKnown, Frame, NEW S \in SUBSET Buffer!Filled, Buffer!Release(S),
         NEW u \in Uids, NameOf[u] \in S, Is(Slot(u), u, Gen(u)), Traffic(u)
  PROVE  Passes(u)
<1>a. PICK e : e = Slot(u)
  OBVIOUS
<1>b. PICK n : n = Gen(u)
  OBVIOUS
<1>c. PICK B : B = {buffer[k] : k \in S}
  OBVIOUS
<1>1. /\ UNCHANGED <<log, starts, loop, journal>>
      /\ buffer' = [k \in Names |-> IF k \in S THEN NoEvent ELSE buffer[k]]
      /\ wire' = Append(wire, B)
  BY <1>c DEF Frame, cluster, view, Buffer!Release
<1>2. /\ DOMAIN wire = 1..Len(wire) /\ Len(wire) \in Nat
      /\ DOMAIN wire' = 1..(Len(wire) + 1) /\ wire'[Len(wire) + 1] = B
      /\ \A j \in 1..Len(wire) : wire'[j] = wire[j]
      /\ \A j \in DOMAIN wire' : j \in DOMAIN wire \/ j = Len(wire) + 1
  BY <1>1, Posted
<1>3. Slot(u)' = NoEvent /\ ~Is(Slot(u)', u, n)
  <2>1. NameOf[u] \in Names
    BY Scoping
  <2>2. Slot(u)' = NoEvent
    BY <1>1, <2>1 DEF Slot
  <2>3. QED
    BY <2>2, SlotAssumption DEF Is
<1>4. Is(e, u, n) /\ e \in B
  BY <1>a, <1>b, <1>c DEF Slot
<1>5. \A f \in B : Is(f, u, n) => f = e
  <2>1. ASSUME NEW k \in S, Is(buffer[k], u, n) PROVE buffer[k] = e
    <3>1. k \in Names /\ buffer[k] \in Event
      BY DEF Buffer!Filled, Typed, TrafficTyped
    <3>2. buffer[k].key = k /\ buffer[k].key = NameOf[u]
      BY <2>1, <3>1 DEF TrafficKnown, Known, KnownTo, TrueTo, Is
    <3>3. QED
      BY <1>a, <3>2 DEF Slot
  <2>2. QED
    BY <1>c, <2>1
<1>6. Gen(u)' = n /\ LogGrows /\ Latest(u)' = Latest(u) /\ (Caught(u)' <=> Caught(u))
  BY <1>1, <1>b DEF Gen, LogGrows, Latest, Caught, Place
<1> DEFINE m == Len(wire) + 1
<1>7. m \in DOMAIN wire' /\ Has(wire'[m], u, n) /\ \A j \in DOMAIN wire : j < m
  BY <1>2, <1>4, HasIt
<1>8. Order(u)'
  <2>1. ASSUME Caught(u)', NEW j \in DOMAIN wire', \A k \in DOMAIN wire' : k > j => ~Has(wire'[k], u, n),
               NEW f \in wire'[j], Is(f, u, n)
        PROVE  f.ver = Latest(u)'
    <3>1. j = m
      BY <1>2, <1>7, <2>1
    <3>2. f = e
      BY <1>2, <1>5, <2>1, <3>1
    <3>3. QED
      BY <1>a, <1>b, <1>6, <2>1, <3>2 DEF Traffic, Order
  <2>2. QED
    BY <1>3, <1>6, <1>7, <2>1 DEF Order
<1>9. First(u)'
  <2>1. ASSUME NEW j \in DOMAIN wire',
               \/ \E k \in DOMAIN wire' : k < j /\ Has(wire'[k], u, n)
               \/ \E k \in DOMAIN journal' : Has(journal'[k], u, n),
               NEW f \in wire'[j], Is(f, u, n)
        PROVE  ~FirstSight(f)'
    <3>1. \A k \in DOMAIN wire' : k < j => k \in DOMAIN wire /\ wire'[k] = wire[k]
      BY <1>2
    <3>2. CASE j = m
      <4>1. f = e
        BY <1>2, <1>5, <2>1, <3>2
      <4>2. ~FirstSight(e)
        BY <1>a, <1>b, <1>1, <2>1, <3>1 DEF Traffic, First
      <4>3. QED
        BY <1>1, <4>1, <4>2 DEF FirstSight
    <3>3. CASE j \in DOMAIN wire
      <4>1. wire'[j] = wire[j]
        BY <1>2, <3>3
      <4>2. ~FirstSight(f)
        BY <1>b, <1>1, <2>1, <3>1, <3>3, <4>1 DEF Traffic, First
      <4>3. QED
        BY <1>1, <4>2 DEF FirstSight
    <3>4. QED
      BY <1>2, <3>2, <3>3
  <2>2. ASSUME NEW j \in DOMAIN journal', NEW k \in DOMAIN journal', j < k, Has(journal'[j], u, n),
               NEW f \in journal'[k], Is(f, u, n)
        PROVE  ~FirstSight(f)'
    BY <1>1, <1>b, <2>2 DEF Traffic, First, FirstSight
  <2>3. QED
    BY <1>3, <1>6, <2>1, <2>2 DEF First
<1>10. Unseen(u)'
  <2> SUFFICES ASSUME loop[ScopeOf[u]].pc = "open", loop[ScopeOf[u]].fresh # {}
               PROVE  /\ \A j \in DOMAIN wire' : \A f \in wire'[j] : Is(f, u, n) => Found(u, f)'
                      /\ \A j \in DOMAIN journal' : \A f \in journal'[j] : Is(f, u, n) => Found(u, f)'
    BY <1>1, <1>3, <1>6 DEF Unseen
  <2>1. \A f : Found(u, f) => Found(u, f)'
    BY <1>1 DEF Found
  <2>2. ASSUME NEW j \in DOMAIN wire', NEW f \in wire'[j], Is(f, u, n) PROVE Found(u, f)
    <3>1. CASE j = m
      <4>1. f = e
        BY <1>2, <1>5, <2>2, <3>1
      <4>2. QED
        BY <1>a, <4>1 DEF Traffic, Unseen
    <3>2. CASE j \in DOMAIN wire
      BY <1>b, <1>2, <2>2, <3>2 DEF Traffic, Unseen
    <3>3. QED
      BY <1>2, <3>1, <3>2
  <2>3. \A j \in DOMAIN journal' : \A f \in journal'[j] : Is(f, u, n) => Found(u, f)
    BY <1>b, <1>1 DEF Traffic, Unseen
  <2>4. QED
    BY <2>1, <2>2, <2>3
<1>11. Settled(u)' => Settled(u)
  <2> SUFFICES ASSUME Settled(u)' PROVE Settled(u)
    OBVIOUS
  <2>1. \A j \in DOMAIN wire' : \A f \in wire'[j] : Is(f, u, n) => FirstSight(f)'
    BY <1>6 DEF Settled
  <2>2. \A f : FirstSight(f)' => FirstSight(f)
    BY <1>1 DEF FirstSight
  <2>3. FirstSight(e)
    BY <1>2, <1>4, <1>7, <2>1, <2>2
  <2>4. ASSUME NEW j \in DOMAIN wire, NEW f \in wire[j], Is(f, u, n) PROVE FirstSight(f)
    <3>1. j \in DOMAIN wire' /\ wire'[j] = wire[j]
      BY <1>2
    <3>2. QED
      BY <2>1, <2>2, <2>4, <3>1
  <2>5. Caught(u)
    BY <1>6 DEF Settled
  <2>6. QED
    BY <1>a, <1>b, <2>3, <2>4, <2>5 DEF Settled
<1>12. QED
  BY <1>b, <1>6, <1>8, <1>9, <1>10, <1>11 DEF Passes, Traffic

(* The frontend handles a batch with an event of u: it moves to the end of *)
(* the journal, when there is one.                                         *)
LEMMA Handled ==
  ASSUME Typed, HandleBatch, ~fetch.on => journal = <<>>
  PROVE  /\ UNCHANGED <<log, starts, loop, buffer, fetch>>
         /\ 1 \in DOMAIN wire /\ Head(wire) = wire[1] /\ wire[1] \in SUBSET Event
         /\ DOMAIN wire = 1..Len(wire) /\ Len(wire) \in Nat
         /\ \A i \in DOMAIN wire' : i + 1 \in DOMAIN wire /\ wire'[i] = wire[i + 1] /\ 1 < i + 1
         /\ \A i \in DOMAIN wire : i = 1 \/ (i - 1 \in DOMAIN wire' /\ wire'[i - 1] = wire[i])
         /\ \A i, j \in DOMAIN wire' : i < j <=> i + 1 < j + 1
         /\ \/ journal' = <<>>
            \/ /\ DOMAIN journal = 1..Len(journal) /\ Len(journal) \in Nat
               /\ DOMAIN journal' = 1..(Len(journal) + 1) /\ journal'[Len(journal) + 1] = wire[1]
               /\ \A i \in 1..Len(journal) : journal'[i] = journal[i]
               /\ \A i \in DOMAIN journal' : i \in DOMAIN journal \/ i = Len(journal) + 1
               /\ journal' = Append(journal, wire[1]) /\ fetch.on
<1>1. /\ UNCHANGED <<log, starts, loop, buffer, fetch>>
      /\ wire # <<>> /\ Head(wire) \in SUBSET Event /\ wire' = Tail(wire)
      /\ journal' = IF fetch.on THEN Append(journal, Head(wire)) ELSE journal
  BY DEF HandleBatch, cluster, backend
<1>2. wire \in Seq(Message) /\ journal \in Seq(SUBSET Event)
  BY DEF Typed, TrafficTyped
<1>3. /\ DOMAIN wire = 1..Len(wire) /\ Len(wire) \in Nat /\ Len(wire) # 0 /\ Head(wire) = wire[1]
      /\ DOMAIN wire' = 1..(Len(wire) - 1)
      /\ \A i \in 1..(Len(wire) - 1) : wire'[i] = wire[i + 1]
  BY <1>1, <1>2
<1>4. \A i \in DOMAIN wire' : i + 1 \in DOMAIN wire /\ wire'[i] = wire[i + 1] /\ 1 < i + 1
  BY <1>3
<1>5. ASSUME NEW i \in DOMAIN wire, i # 1
      PROVE  i - 1 \in DOMAIN wire' /\ wire'[i - 1] = wire[i]
  <2>1. i - 1 \in 1..(Len(wire) - 1) /\ (i - 1) + 1 = i
    BY <1>3, <1>5
  <2>2. QED
    BY <1>3, <2>1
<1>6. \A i, j \in DOMAIN wire' : i < j <=> i + 1 < j + 1
  BY <1>3
<1>7. CASE ~fetch.on
  BY <1>1, <1>3, <1>4, <1>5, <1>6, <1>7
<1>8. CASE fetch.on
  <2>1. journal' = Append(journal, wire[1]) /\ wire[1] \in SUBSET Event
    BY <1>1, <1>3, <1>8
  <2>2. /\ DOMAIN journal = 1..Len(journal) /\ Len(journal) \in Nat
        /\ DOMAIN journal' = 1..(Len(journal) + 1) /\ journal'[Len(journal) + 1] = wire[1]
        /\ \A i \in 1..Len(journal) : journal'[i] = journal[i]
    BY <1>2, <2>1
  <2>3. \A i \in 1..(Len(journal) + 1) : i \in 1..Len(journal) \/ i = Len(journal) + 1
    BY <2>2
  <2>4. QED
    BY <1>1, <1>3, <1>4, <1>5, <1>6, <1>8, <2>1, <2>2, <2>3
<1>9. QED
  BY <1>7, <1>8

LEMMA BatchTraffic ==
  ASSUME Typed, Typed', TrafficKnown, HandleBatch, ~fetch.on => journal = <<>>,
         NEW u \in Uids, Has(Head(wire), u, Gen(u)), Traffic(u)
  PROVE  Traffic(u)'
<1>a. PICK n : n = Gen(u)
  OBVIOUS
<1>b. PICK m : m = Len(journal) + 1
  OBVIOUS
<1>c. PICK B : B = wire[1]
  OBVIOUS
<1>1. /\ UNCHANGED <<log, starts, loop, buffer, fetch>>
      /\ 1 \in DOMAIN wire /\ Head(wire) = wire[1]
      /\ DOMAIN wire = 1..Len(wire) /\ Len(wire) \in Nat
      /\ \A i \in DOMAIN wire' : i + 1 \in DOMAIN wire /\ wire'[i] = wire[i + 1] /\ 1 < i + 1
      /\ \A i \in DOMAIN wire : i = 1 \/ (i - 1 \in DOMAIN wire' /\ wire'[i - 1] = wire[i])
      /\ \A i, j \in DOMAIN wire' : i < j <=> i + 1 < j + 1
  BY Handled
<1>2. \/ journal' = <<>>
      \/ /\ m \in DOMAIN journal' /\ journal'[m] = B
         /\ \A i \in DOMAIN journal : i \in DOMAIN journal' /\ journal'[i] = journal[i] /\ i < m
         /\ \A i \in DOMAIN journal' : i \in DOMAIN journal \/ i = m
         /\ \A i \in DOMAIN journal' : \A j \in DOMAIN journal : i < j => i \in DOMAIN journal
         /\ ~(m < m)
  <2>1. \/ journal' = <<>>
        \/ /\ DOMAIN journal = 1..Len(journal) /\ Len(journal) \in Nat
           /\ DOMAIN journal' = 1..(Len(journal) + 1) /\ journal'[Len(journal) + 1] = wire[1]
           /\ \A i \in 1..Len(journal) : journal'[i] = journal[i]
           /\ \A i \in DOMAIN journal' : i \in DOMAIN journal \/ i = Len(journal) + 1
    BY Handled
  <2>2. QED
    BY <1>b, <1>c, <2>1
<1>3. Has(B, u, n) /\ Has(wire[1], u, n)
  BY <1>a, <1>c, <1>1
<1>4. /\ Gen(u)' = n /\ Latest(u)' = Latest(u) /\ (Caught(u)' <=> Caught(u)) /\ Slot(u)' = Slot(u)
      /\ \A f : FirstSight(f)' <=> FirstSight(f)
      /\ \A f : Found(u, f) => Found(u, f)'
  BY <1>1, <1>a DEF Gen, Latest, Caught, Place, Slot, FirstSight, Found
<1>5. Order(u)'
  <2>1. ASSUME Caught(u)', ~Is(Slot(u), u, n), NEW i \in DOMAIN wire',
               \A j \in DOMAIN wire' : j > i => ~Has(wire'[j], u, n),
               NEW f \in wire'[i], Is(f, u, n)
        PROVE  f.ver = Latest(u)'
    <3>0. DOMAIN wire' = 1..Len(wire')
      BY DEF Typed, TrafficTyped
    <3>1. i + 1 \in DOMAIN wire /\ wire'[i] = wire[i + 1] /\ i \in Nat
      BY <1>1, <2>1, <3>0
    <3>2. ASSUME NEW j \in DOMAIN wire, j > i + 1 PROVE ~Has(wire[j], u, n)
      <4>1. j # 1 /\ j - 1 > i
        BY <1>1, <3>1, <3>2
      <4>2. QED
        BY <1>1, <2>1, <4>1
    <3>3. QED
      BY <1>a, <1>4, <2>1, <3>1, <3>2 DEF Traffic, Order
  <2>2. ASSUME Caught(u)', ~Is(Slot(u), u, n), \A j \in DOMAIN wire' : ~Has(wire'[j], u, n),
               NEW i \in DOMAIN journal', \A j \in DOMAIN journal' : j > i => ~Has(journal'[j], u, n),
               NEW f \in journal'[i], Is(f, u, n)
        PROVE  f.ver = Latest(u)'
    <3>1. i = m /\ journal'[i] = B
      BY <1>2, <1>3, <2>2
    <3>2. \A j \in DOMAIN wire : j > 1 => ~Has(wire[j], u, n)
      BY <1>1, <2>2
    <3>3. QED
      BY <1>a, <1>c, <1>1, <1>4, <2>2, <3>1, <3>2 DEF Traffic, Order
  <2>3. Caught(u)' => (Is(Slot(u), u, n) => Slot(u).ver = Latest(u)')
    BY <1>a, <1>4 DEF Traffic, Order
  <2>4. QED
    BY <1>4, <2>1, <2>2, <2>3 DEF Order
<1>6. First(u)'
  <2>1. ASSUME NEW i \in DOMAIN journal', NEW j \in DOMAIN journal', i < j, Has(journal'[i], u, n),
               NEW f \in journal'[j], Is(f, u, n)
        PROVE  ~FirstSight(f)
    <3>1. CASE j = m
      <4>1. f \in wire[1] /\ i \in DOMAIN journal /\ Has(journal[i], u, n)
        BY <1>c, <1>2, <2>1, <3>1
      <4>2. QED
        BY <1>a, <1>1, <2>1, <4>1 DEF Traffic, First
    <3>2. CASE j \in DOMAIN journal
      <4>1. f \in journal[j] /\ i \in DOMAIN journal /\ Has(journal[i], u, n)
        BY <1>2, <2>1, <3>2
      <4>2. QED
        BY <1>a, <2>1, <3>2, <4>1 DEF Traffic, First
    <3>3. QED
      BY <1>2, <2>1, <3>1, <3>2
  <2>2. ASSUME NEW j \in DOMAIN wire', NEW f \in wire'[j], Is(f, u, n) PROVE ~FirstSight(f)
    <3>1. j + 1 \in DOMAIN wire /\ f \in wire[j + 1] /\ 1 < j + 1
      BY <1>1, <2>2
    <3>2. QED
      BY <1>a, <1>1, <1>3, <2>2, <3>1 DEF Traffic, First
  <2>3. Is(Slot(u), u, n) => ~FirstSight(Slot(u))
    BY <1>a, <1>1, <1>3 DEF Traffic, First
  <2>4. Is(Slot(u), u, n) => ~FirstSight(Slot(u))'
    BY <1>1, <2>3 DEF FirstSight, Slot
  <2>5. QED
    BY <1>4, <2>1, <2>2, <2>4 DEF First
<1>7. Unseen(u)'
  <2> SUFFICES ASSUME loop[ScopeOf[u]].pc = "open", loop[ScopeOf[u]].fresh # {}
               PROVE  /\ Is(Slot(u), u, n) => Found(u, Slot(u))'
                      /\ \A j \in DOMAIN wire' : \A f \in wire'[j] : Is(f, u, n) => Found(u, f)'
                      /\ \A j \in DOMAIN journal' : \A f \in journal'[j] : Is(f, u, n) => Found(u, f)'
    BY <1>1, <1>4 DEF Unseen
  <2>1. /\ Is(Slot(u), u, n) => Found(u, Slot(u))
        /\ \A j \in DOMAIN wire : \A f \in wire[j] : Is(f, u, n) => Found(u, f)
        /\ \A j \in DOMAIN journal : \A f \in journal[j] : Is(f, u, n) => Found(u, f)
    BY <1>a DEF Traffic, Unseen
  <2>2. Is(Slot(u), u, n) => Found(u, Slot(u))'
    BY <1>1, <2>1 DEF Found, Slot
  <2>3. ASSUME NEW j \in DOMAIN wire', NEW f \in wire'[j], Is(f, u, n) PROVE Found(u, f)'
    BY <1>1, <1>4, <2>1, <2>3
  <2>4. ASSUME NEW j \in DOMAIN journal', NEW f \in journal'[j], Is(f, u, n) PROVE Found(u, f)'
    <3>1. f \in wire[1] \/ \E i \in DOMAIN journal : f \in journal[i]
      BY <1>c, <1>2, <2>4
    <3>2. QED
      BY <1>1, <1>4, <2>1, <2>4, <3>1
  <2>5. QED
    BY <2>2, <2>3, <2>4
<1>8. QED
  BY <1>5, <1>6, <1>7 DEF Traffic

(* A watch starts from "now": nothing of the new start travels.            *)
LEMMA StartTraffic ==
  ASSUME Typed, Typed', TrafficKnown, NEW s \in Scopes, Connect(s), loop[s].rv = 0,
         NEW u \in Uids, ScopeOf[u] = s
  PROVE  Traffic(u)'
<1>a. PICK n : n = Gen(u)'
  OBVIOUS
<1>1. /\ UNCHANGED <<log, buffer, journal>> /\ starts' = [starts EXCEPT ![s] = @ + 1]
      /\ PostStatus(s, "connected")
  BY DEF Connect, cluster
<1>2. starts[s] \in Nat /\ n = starts[s] + 1
  BY <1>a, <1>1 DEF Gen, Typed, BackTyped
<1>3. \A e : e \in Event /\ e.uid = u /\ Known(e) => ~Is(e, u, n)
  <2> SUFFICES ASSUME NEW e, e \in Event, e.uid = u, Known(e), e.start = n PROVE FALSE
    BY DEF Is
  <2>1. e.start <= starts[s]
    BY DEF Known, KnownTo
  <2>2. QED
    BY <1>2, <2>1
<1>4. ~Is(Slot(u), u, n)
  BY <1>3, Scoping DEF TrafficKnown, Slot, Is
<1>5. \A i \in DOMAIN journal : \A e \in journal[i] : ~Is(e, u, n)
  BY <1>3 DEF TrafficKnown, BatchKnown, BatchKnownTo, Known, Is
<1>6. \A i \in DOMAIN wire : \A e \in wire[i] : ~Is(e, u, n)
  BY <1>3 DEF TrafficKnown, BatchKnown, BatchKnownTo, Known, Is
<1>7. \A i \in DOMAIN wire' : \A e \in wire'[i] : ~Is(e, u, n)
  <2>1. PICK st \in Status : wire' = Append(wire, {st})
    BY <1>1, PostIs
  <2>2. \A i \in DOMAIN wire' : (i \in DOMAIN wire /\ wire'[i] = wire[i]) \/ wire'[i] = {st}
    BY <2>1, Posted
  <2>3. ~Is(st, u, n)
    BY StatusIsNoEvent DEF Is
  <2>4. QED
    BY <1>6, <2>2, <2>3
<1>8. ~Is(Slot(u)', u, n)
  BY <1>1, <1>4 DEF Slot
<1>9. Order(u)'
  BY <1>a, <1>1, <1>5, <1>7, <1>8 DEF Order
<1>10. First(u)'
  BY <1>a, <1>1, <1>5, <1>7, <1>8 DEF First
<1>11. Unseen(u)'
  BY <1>a, <1>1, <1>5, <1>7, <1>8 DEF Unseen
<1>12. QED
  BY <1>9, <1>10, <1>11 DEF Traffic

-----------------------------------------------------------------------------
(* What travels stays true.                                                *)
StartsGrow == \A s \in Scopes : starts[s] <= starts'[s]

LEMMA KnownStays ==
  ASSUME Typed, Typed', LogGrows, StartsGrow, NEW e, e \in Event, Known(e)
  PROVE  KnownTo(log', starts', e)
<1>1. e.uid \in Uids /\ ScopeOf[e.uid] \in Scopes /\ e.start \in Nat
  BY Scoping DEF Event
<1>2. e.start <= starts'[ScopeOf[e.uid]]
  <2>1. /\ starts[ScopeOf[e.uid]] \in Nat /\ starts'[ScopeOf[e.uid]] \in Nat
        /\ e.start <= starts[ScopeOf[e.uid]] /\ starts[ScopeOf[e.uid]] <= starts'[ScopeOf[e.uid]]
    BY <1>1 DEF Typed, BackTyped, StartsGrow, Known, KnownTo
  <2>2. QED
    BY <1>1, <2>1
<1>3. log \in Seq(Change) /\ Len(log) \in Nat /\ Len(log) \in 0..Len(log)
  BY LogFits
<1>4. e.ver \in 1..Len(log) /\ e.ver \in Changes(log, e.uid, Len(log))
  BY <1>1, <1>3, VersionIsLast DEF Known, KnownTo, TrueTo
<1>5. log'[e.ver] = log[e.ver] /\ e.ver \in Changes(log', e.uid, Len(log'))
  <2>1. log'[e.ver] = log[e.ver] /\ Len(log) <= Len(log') /\ Len(log') \in Nat
    BY <1>4, Grows
  <2>2. e.ver \in 1..Len(log') /\ log[e.ver].uid = e.uid
    BY <1>3, <1>4, <2>1 DEF Changes
  <2>3. QED
    BY <2>1, <2>2 DEF Changes
<1>6. QED
  BY <1>2, <1>5 DEF Known, KnownTo, TrueTo

(* Buffered and posted events stay what they are, or are new and true.     *)
LEMMA TrafficStays ==
  ASSUME Typed, Typed', TrafficKnown, LogGrows, StartsGrow,
         \A k \in Names : buffer'[k] \in Event =>
           \/ buffer'[k] = buffer[k]
           \/ KnownTo(log', starts', buffer'[k]) /\ buffer'[k].key = k /\ buffer'[k].type # "DELETED",
         \A i \in DOMAIN wire' : (\E j \in DOMAIN wire : wire'[i] = wire[j]) \/ BatchKnownTo(log', starts', wire'[i]),
         \A i \in DOMAIN journal' : \/ \E j \in DOMAIN journal : journal'[i] = journal[j]
                                    \/ \E j \in DOMAIN wire : journal'[i] = wire[j]
  PROVE  TrafficKnown'
<1>1. ASSUME NEW k \in Names, buffer'[k] \in Event
      PROVE  KnownTo(log', starts', buffer'[k]) /\ buffer'[k].key = k /\ buffer'[k].type # "DELETED"
  <2>1. CASE buffer'[k] = buffer[k]
    <3>1. buffer[k] \in Event /\ Known(buffer[k]) /\ buffer[k].key = k /\ buffer[k].type # "DELETED"
      BY <1>1, <2>1 DEF TrafficKnown
    <3>2. KnownTo(log', starts', buffer[k])
      BY <3>1, KnownStays
    <3>3. QED
      BY <2>1, <3>1, <3>2
  <2>2. QED
    BY <1>1, <2>1
<1>2. \A B : BatchKnown(B) => BatchKnownTo(log', starts', B)
  BY KnownStays DEF BatchKnown, BatchKnownTo, Known
<1>3. \A i \in DOMAIN wire' : BatchKnownTo(log', starts', wire'[i])
  BY <1>2 DEF TrafficKnown
<1>4. \A i \in DOMAIN journal' : BatchKnownTo(log', starts', journal'[i])
  BY <1>2 DEF TrafficKnown
<1>5. QED
  BY <1>1, <1>3, <1>4 DEF TrafficKnown, Known, BatchKnown

LEMMA StartsKept == ASSUME Typed, UNCHANGED starts PROVE StartsGrow
BY DEF Typed, BackTyped, StartsGrow

(* Steps that leave the traffic alone, or post a status.                   *)
LEMMA KnownCalmly ==
  ASSUME Typed, Typed', TrafficKnown, LogGrows, StartsGrow, UNCHANGED buffer,
         wire' = wire \/ \E st \in Status : wire' = Append(wire, {st}),
         journal' = journal \/ journal' = <<>>
  PROVE  TrafficKnown'
<1>1. \A i \in DOMAIN wire' : (\E j \in DOMAIN wire : wire'[i] = wire[j]) \/ BatchKnownTo(log', starts', wire'[i])
  <2>1. CASE wire' = wire
    BY <2>1
  <2>2. ASSUME NEW st \in Status, wire' = Append(wire, {st}), NEW i \in DOMAIN wire'
        PROVE  (\E j \in DOMAIN wire : wire'[i] = wire[j]) \/ BatchKnownTo(log', starts', wire'[i])
    <3>1. (i \in DOMAIN wire /\ wire'[i] = wire[i]) \/ wire'[i] = {st}
      BY <2>2, Posted
    <3>2. BatchKnownTo(log', starts', {st})
      BY StatusIsNoEvent DEF BatchKnown, BatchKnownTo
    <3>3. QED
      BY <3>1, <3>2
  <2>3. QED
    BY <2>1, <2>2
<1>2. \A i \in DOMAIN journal' : \E j \in DOMAIN journal : journal'[i] = journal[j]
  <2>1. DOMAIN <<>> = {}
    OBVIOUS
  <2>2. QED
    BY <2>1
<1>3. QED
  BY <1>1, <1>2, TrafficStays

(* An event is handed on.                                                  *)
LEMMA EmitKnown ==
  ASSUME Typed, Typed', TrafficKnown, UNCHANGED <<log, starts, journal>>,
         NEW e \in Event, Emit(e), Known(e)
  PROVE  TrafficKnown'
<1>1. LogGrows /\ StartsGrow
  BY StartsKept DEF LogGrows
<1>2. KnownTo(log', starts', e) /\ e.key \in Names
  BY <1>1, KnownStays DEF Event
<1>3. /\ \A k \in Names : k # e.key => buffer'[k] = buffer[k]
      /\ IF e.type = "DELETED" THEN buffer'[e.key] = NoEvent /\ wire' = Append(wire, {e})
                               ELSE buffer'[e.key] = e /\ wire' = wire
  BY EmitTyped
<1>4. \A k \in Names : buffer'[k] \in Event =>
         \/ buffer'[k] = buffer[k]
         \/ KnownTo(log', starts', buffer'[k]) /\ buffer'[k].key = k /\ buffer'[k].type # "DELETED"
  <2>1. CASE e.type = "DELETED"
    BY <1>3, <2>1, SlotAssumption
  <2>2. CASE e.type # "DELETED"
    <3>1. ASSUME NEW k \in Names, buffer'[k] # buffer[k]
          PROVE  buffer'[k] = e /\ e.key = k
      BY <1>3, <2>2, <3>1
    <3>2. QED
      BY <1>2, <2>2, <3>1
  <2>3. QED
    BY <2>1, <2>2
<1>5. BatchKnownTo(log', starts', {e})
  BY <1>2 DEF BatchKnown, BatchKnownTo
<1>6. \A i \in DOMAIN wire' : (\E j \in DOMAIN wire : wire'[i] = wire[j]) \/ BatchKnownTo(log', starts', wire'[i])
  <2>1. CASE wire' = wire
    BY <2>1
  <2>2. CASE wire' = Append(wire, {e})
    <3>1. \A i \in DOMAIN wire' : (i \in DOMAIN wire /\ wire'[i] = wire[i]) \/ wire'[i] = {e}
      BY <2>2, Posted
    <3>2. QED
      BY <1>5, <3>1
  <2>3. QED
    BY <1>3, <2>1, <2>2
<1>7. QED
  BY <1>1, <1>4, <1>6, TrafficStays

LEMMA DeliverKnown ==
  ASSUME Typed, Typed', TrafficKnown, NEW s \in Scopes, Deliver(s)
  PROVE  TrafficKnown'
<1>1. PICK i \in 1..Len(log) : NextChange(s, i) /\ Emit(Delivered(log[i].uid, i, log[i].type))
  BY DeliverLoop
<1>a. PICK e : e = Delivered(log[i].uid, i, log[i].type)
  OBVIOUS
<1>2. /\ log[i].uid \in Uids /\ log[i].type \in {"ADDED", "MODIFIED", "TERMINATING", "DELETED"}
      /\ ScopeOf[log[i].uid] \in Scopes
  BY <1>1, Scoping DEF NextChange, Change
<1>3. e \in Event
  BY <1>a, <1>2, DeliveredTyped
<1>4. /\ e.key = NameOf[e.uid] /\ e.uid = log[i].uid /\ e.ver = i /\ e.start = starts[ScopeOf[e.uid]]
      /\ e.terminating <=> (log[i].type = "TERMINATING")
      /\ e.type = IF log[i].type = "TERMINATING" THEN "MODIFIED" ELSE log[i].type
  BY <1>a DEF Delivered
<1>5. i \in Changes(log, e.uid, Len(log)) /\ starts[ScopeOf[e.uid]] \in Nat
  BY <1>2, <1>4 DEF Changes, Typed, BackTyped
<1>6. Known(e)
  BY <1>2, <1>4, <1>5 DEF Known, KnownTo, TrueTo
<1>7. UNCHANGED <<log, starts, journal>>
  BY DEF Deliver, cluster, view
<1>8. QED
  BY <1>a, <1>1, <1>3, <1>6, <1>7, EmitKnown

LEMMA DeliverFreshKnown ==
  ASSUME Typed, Typed', TrafficKnown, NEW s \in Scopes, NEW u \in Uids, DeliverFresh(s, u)
  PROVE  TrafficKnown'
<1>a. PICK i : i = Version(log, u, loop[s].pos)
  OBVIOUS
<1>b. PICK e : e = Delivered(u, i, "ADDED")
  OBVIOUS
<1>1. /\ Live(log, u, loop[s].pos) /\ i \in Changes(log, u, loop[s].pos)
      /\ i \in 1..Len(log) /\ Emit(e)
  BY <1>a, <1>b, DeliverFreshLoop
<1>2. e \in Event
  BY <1>b, <1>1, DeliveredTyped
<1>3. /\ e.key = NameOf[e.uid] /\ e.uid = u /\ e.ver = i /\ e.start = starts[ScopeOf[e.uid]]
      /\ e.terminating <=> log[i].type = "TERMINATING"
      /\ e.type = "ADDED"
  BY <1>b DEF Delivered
<1>4. i \in Changes(log, e.uid, Len(log)) /\ starts[ScopeOf[e.uid]] \in Nat
      /\ log[i].type # "DELETED"
  BY <1>a, <1>1, <1>3, Scoping DEF Changes, Typed, BackTyped, Live
<1>5. Known(e)
  BY <1>3, <1>4 DEF Known, KnownTo, TrueTo
<1>6. UNCHANGED <<log, starts, journal>>
  BY DEF DeliverFresh, cluster, view
<1>7. QED
  BY <1>1, <1>2, <1>5, <1>6, EmitKnown

LEMMA FrameKnown ==
  ASSUME Typed, Typed', TrafficKnown, Frame
  PROVE  TrafficKnown'
<1>1. PICK S \in SUBSET Buffer!Filled : Buffer!Release(S)
  BY DEF Frame
<1>a. PICK B : B = {buffer[k] : k \in S}
  OBVIOUS
<1>2. /\ UNCHANGED <<log, starts, journal>>
      /\ buffer' = [k \in Names |-> IF k \in S THEN NoEvent ELSE buffer[k]]
      /\ wire' = Append(wire, B)
  BY <1>a, <1>1 DEF Frame, cluster, view, Buffer!Release
<1>3. LogGrows /\ StartsGrow
  BY <1>2, StartsKept DEF LogGrows
<1>4. \A k \in S : k \in Names /\ buffer[k] \in Event
  BY DEF Buffer!Filled, Typed, TrafficTyped
<1>5. BatchKnownTo(log', starts', B)
  <2>1. ASSUME NEW k \in S PROVE Known(buffer[k]) /\ buffer[k].key = k /\ buffer[k].key = NameOf[buffer[k].uid]
    BY <1>4 DEF TrafficKnown, Known, KnownTo, TrueTo
  <2>2. \A f \in B : f \in Event => KnownTo(log', starts', f)
    BY <1>a, <1>3, <1>4, <2>1, KnownStays
  <2>3. \A f, g \in B : f.uid = g.uid => f = g
    BY <1>a, <2>1
  <2>4. QED
    BY <2>2, <2>3 DEF BatchKnown, BatchKnownTo
<1>6. \A i \in DOMAIN wire' : (i \in DOMAIN wire /\ wire'[i] = wire[i]) \/ wire'[i] = B
  BY <1>2, Posted
<1>7. \A i \in DOMAIN wire' : (\E j \in DOMAIN wire : wire'[i] = wire[j]) \/ BatchKnownTo(log', starts', wire'[i])
  BY <1>5, <1>6
<1>8. \A k \in Names : buffer'[k] \in Event => buffer'[k] = buffer[k]
  BY <1>2, SlotAssumption
<1>9. QED
  BY <1>2, <1>3, <1>7, <1>8, TrafficStays

LEMMA HandledKnown ==
  ASSUME Typed, Typed', TrafficKnown, HandleBatch, ~fetch.on => journal = <<>>
  PROVE  TrafficKnown'
<1>1. UNCHANGED <<log, starts, buffer>> /\ LogGrows /\ StartsGrow
  BY StartsKept DEF HandleBatch, cluster, backend, LogGrows
<1>2. \A i \in DOMAIN wire' : i + 1 \in DOMAIN wire /\ wire'[i] = wire[i + 1]
  BY Handled
<1>3. \A i \in DOMAIN journal' : \/ \E j \in DOMAIN journal : journal'[i] = journal[j]
                                 \/ \E j \in DOMAIN wire : journal'[i] = wire[j]
  <2>1. DOMAIN <<>> = {}
    OBVIOUS
  <2>2. QED
    BY <2>1, Handled
<1>4. QED
  BY <1>1, <1>2, <1>3, TrafficStays

LEMMA StatusKnown ==
  ASSUME Typed, Typed', TrafficKnown, HandleStatus
  PROVE  TrafficKnown'
<1>1. UNCHANGED <<log, starts, buffer, journal>> /\ LogGrows /\ StartsGrow /\ wire' = Tail(wire) /\ wire # <<>>
  BY StartsKept DEF HandleStatus, cluster, backend, view, LogGrows
<1>2. \A i \in DOMAIN wire' : i + 1 \in DOMAIN wire /\ wire'[i] = wire[i + 1]
  BY <1>1 DEF Typed, TrafficTyped
<1>3. QED
  BY <1>1, <1>2, TrafficStays

LEMMA ConnectKnown ==
  ASSUME Typed, Typed', TrafficKnown, NEW s \in Scopes, Connect(s)
  PROVE  TrafficKnown'
<1>1. /\ UNCHANGED <<log, buffer, journal>> /\ LogGrows /\ PostStatus(s, "connected")
      /\ starts' = [starts EXCEPT ![s] = @ + 1] \/ starts' = starts
  BY DEF Connect, cluster, LogGrows
<1>2. StartsGrow
  <2>1. starts \in [Scopes -> Nat]
    BY DEF Typed, BackTyped
  <2>2. ASSUME NEW t \in Scopes PROVE starts[t] <= starts'[t]
    BY <1>1, <2>1
  <2>3. QED
    BY <2>2 DEF StartsGrow
<1>3. QED
  BY <1>1, <1>2, PostIs, KnownCalmly

-----------------------------------------------------------------------------
(* What a row may show of an object: its version in the log L, or nothing  *)
(* while it is being deleted; and what it can only be at all.              *)
NowIn(L, u) == IF Live(L, u, Len(L)) THEN Version(L, u, Len(L)) ELSE 0
ShowsIn(L, u, r) ==
  \/ r = NowIn(L, u)
  \/ r = 0 /\ NowIn(L, u) # 0 /\ L[NowIn(L, u)].type = "TERMINATING"
RealIn(L, u, r) == r = 0 \/ r \in Changes(L, u, Len(L))

LEMMA FreshIs == ASSUME NEW u \in Uids PROVE Fresh(u) <=> ShowsIn(log, u, rows[u])
<1>1. Now(u) = NowIn(log, u)
  BY Scoping DEF Now, NowIn, Listed
<1>2. QED
  BY <1>1 DEF Fresh, Terminating, ShowsIn

LEMMA ShowsKept ==
  ASSUME Typed, LogGrows, NEW u \in Uids, Latest(u)' = Latest(u), NEW r
  PROVE  ShowsIn(log', u, r) <=> ShowsIn(log, u, r)
<1>1. /\ log \in Seq(Change) /\ log' \in Seq(Change) /\ Len(log) \in 0..Len(log)
      /\ Len(log) \in 0..Len(log') /\ Len(log') \in 0..Len(log') /\ Len(log) <= Len(log')
      /\ \A i \in 1..Len(log) : log'[i] = log[i]
      /\ Live(log', u, Len(log)) <=> Live(log, u, Len(log))
  BY Grows
<1>2. Version(log', u, Len(log')) = Version(log, u, Len(log))
  BY DEF Latest
<1>3. Version(log, u, Len(log)) \in 0..Len(log)
  BY <1>1, VersionIsLast
<1>4. Live(log', u, Len(log')) <=> Live(log, u, Len(log))
  <2>1. Version(log', u, Len(log')) <= Len(log)
    BY <1>1, <1>2, <1>3
  <2>2. QED
    BY <1>1, <2>1, Unchanged
<1>5. NowIn(log', u) = NowIn(log, u) /\ (NowIn(log, u) # 0 => NowIn(log, u) \in 1..Len(log))
  BY <1>1, <1>2, <1>3, <1>4 DEF NowIn
<1>6. QED
  BY <1>1, <1>5 DEF ShowsIn

LEMMA RealKept ==
  ASSUME Typed, LogGrows, NEW u \in Uids, NEW r, RealIn(log, u, r)
  PROVE  RealIn(log', u, r)
<1>1. /\ Len(log) \in Nat /\ Len(log') \in Nat /\ Len(log) <= Len(log')
      /\ \A i \in 1..Len(log) : log'[i] = log[i]
  BY Grows
<1>2. Changes(log, u, Len(log)) \subseteq Changes(log', u, Len(log'))
  BY <1>1 DEF Changes
<1>3. QED
  BY <1>2 DEF RealIn

(* What a batch makes of the row of u.                                     *)
LEMMA ApplyOne ==
  ASSUME NEW map, NEW B, NEW u \in Uids, NEW e \in B, e.uid = u, \A f \in B : f.uid = u => f = e
  PROVE  Apply(map, B)[u] = Reduce(map[u], e)
<1>1. (CHOOSE f \in B : f.uid = u) = e
  OBVIOUS
<1>2. QED
  BY <1>1 DEF Apply

LEMMA ApplyOther ==
  ASSUME NEW map, NEW B, NEW u \in Uids, \A f \in B : f.uid # u
  PROVE  Apply(map, B)[u] = map[u]
BY DEF Apply

LEMMA ReduceReal ==
  ASSUME NEW e \in Event, Known(e), NEW r, RealIn(log, e.uid, r)
  PROVE  RealIn(log, e.uid, Reduce(r, e))
<1>1. e.ver \in Changes(log, e.uid, Len(log)) /\ e.type \in {"ADDED", "MODIFIED", "DELETED"}
  BY DEF Known, KnownTo, TrueTo, Event
<1>2. Reduce(r, e) \in {0, r, e.ver}
  BY <1>1 DEF Reduce
<1>3. QED
  BY <1>1, <1>2 DEF RealIn

LEMMA ApplyReal ==
  ASSUME NEW map, NEW B \in SUBSET Event, BatchKnown(B), NEW u \in Uids, RealIn(log, u, map[u])
  PROVE  RealIn(log, u, Apply(map, B)[u])
<1>1. CASE \E e \in B : e.uid = u
  <2>1. PICK e \in B : e.uid = u
    BY <1>1
  <2>2. /\ \A f \in B : f.uid = u => f = e
        /\ Known(e) /\ e \in Event
    BY <2>1 DEF BatchKnown, BatchKnownTo, Known
  <2>3. RealIn(log, u, Reduce(map[u], e))
    BY <2>1, <2>2, ReduceReal
  <2>4. QED
    BY <2>1, <2>2, <2>3, ApplyOne
<1>2. CASE ~\E e \in B : e.uid = u
  BY <1>2, ApplyOther
<1>3. QED
  BY <1>1, <1>2

LEMMA ReplayReal ==
  ASSUME Typed, TrafficKnown, NEW map \in [Uids -> 0..MaxChanges], NEW u \in Uids, RealIn(log, u, map[u])
  PROVE  RealIn(log, u, ApplyAll(map, journal)[u])
<1> DEFINE P == {m \in [Uids -> 0..MaxChanges] : RealIn(log, u, m[u])}
<1>1. journal \in Seq(SUBSET Event) /\ \A i \in DOMAIN journal : BatchKnown(journal[i]) /\ journal[i] \in SUBSET Event
  BY DEF Typed, TrafficTyped, TrafficKnown
<1>2. \A m \in P : \A i \in DOMAIN journal : Apply(m, journal[i]) \in P
  BY <1>1, ApplyTyped, ApplyReal
<1>3. map \in P
  OBVIOUS
<1> HIDE DEF P
<1>4. ApplyAll(map, journal) \in P
  BY <1>1, <1>2, <1>3, ApplyKeeps
<1>5. QED
  BY <1>4 DEF P

(* The latest event makes the row right; a first sight needs it right      *)
(* before, as it never replaces a row.                                     *)
LEMMA LatestShows ==
  ASSUME Typed, OncePerObject, NEW e \in Event, NEW u \in Uids, e.uid = u, Known(e), e.ver = Latest(u),
         NEW r, RealIn(log, u, r), FirstSight(e) => ShowsIn(log, u, r)
  PROVE  ShowsIn(log, u, Reduce(r, e))
<1>1. log \in Seq(Change) /\ Len(log) \in Nat /\ Len(log) \in 0..Len(log)
  BY LogFits
<1>2. /\ e.ver \in Changes(log, u, Len(log)) /\ e.ver \in 1..Len(log) /\ log[e.ver].uid = u
      /\ log[e.ver].type \in {"ADDED", "MODIFIED", "TERMINATING", "DELETED"}
      /\ e.ver # 0
  <2>1. e.ver \in Changes(log, u, Len(log))
    BY DEF Known, KnownTo, TrueTo
  <2>2. e.ver \in 1..Len(log) /\ log[e.ver].uid = u
    BY <2>1 DEF Changes
  <2>3. log[e.ver] \in Change
    BY <1>1, <2>2
  <2>4. QED
    BY <1>1, <2>1, <2>2, <2>3 DEF Change
<1>3. /\ e.type = "DELETED" <=> log[e.ver].type = "DELETED"
      /\ e.terminating <=> log[e.ver].type = "TERMINATING"
      /\ e.type = "MODIFIED" => log[e.ver].type # "ADDED"
      /\ e.type \in {"ADDED", "MODIFIED", "DELETED"}
  BY DEF Known, KnownTo, TrueTo, Event
<1>4. Live(log, u, Len(log)) <=> log[e.ver].type # "DELETED"
  BY <1>2 DEF Live, Latest
<1>5. NowIn(log, u) = IF log[e.ver].type # "DELETED" THEN e.ver ELSE 0
  BY <1>4 DEF NowIn, Latest
<1>6. CASE e.type = "DELETED"
  BY <1>3, <1>5, <1>6 DEF Reduce, ShowsIn
<1>7. CASE e.type = "MODIFIED"
  <2>1. NowIn(log, u) = e.ver
    BY <1>3, <1>5, <1>7
  <2>2. CASE r = 0 /\ e.terminating
    BY <1>2, <1>3, <1>7, <2>1, <2>2 DEF Reduce, ShowsIn
  <2>3. CASE ~(r = 0 /\ e.terminating)
    BY <1>7, <2>1, <2>3 DEF Reduce, ShowsIn
  <2>4. QED
    BY <2>2, <2>3
<1>8. CASE e.type = "ADDED"
  <2>1. NowIn(log, u) = e.ver
    BY <1>3, <1>5, <1>8
  <2>2. Reduce(r, e) = IF r = 0 THEN e.ver ELSE r
    BY <1>8 DEF Reduce
  <2>3. CASE r = 0
    BY <2>1, <2>2, <2>3 DEF ShowsIn
  <2>4. CASE r # 0 /\ FirstSight(e)
    BY <2>2, <2>4
  <2>5. CASE r # 0 /\ ~FirstSight(e)
    <3>1. log[e.ver].type = "ADDED"
      BY <1>8, <2>5 DEF FirstSight
    <3>2. Changes(log, u, e.ver - 1) = {}
      BY <1>2, <3>1 DEF OncePerObject
    <3>3. r \in Changes(log, u, Len(log)) /\ r <= e.ver /\ r \in 1..Len(log)
      BY <1>1, <2>5, VersionIsLast DEF RealIn, Latest
    <3>4. r = e.ver
      <4>1. SUFFICES ASSUME r < e.ver PROVE FALSE
        BY <1>2, <3>3
      <4>2. r \in 1..(e.ver - 1) /\ log[r].uid = u
        BY <1>2, <3>3, <4>1 DEF Changes
      <4>3. QED
        BY <3>2, <4>2 DEF Changes
    <3>5. QED
      BY <2>1, <2>2, <3>3, <3>4 DEF ShowsIn
  <2>6. QED
    BY <2>3, <2>4, <2>5
<1>9. QED
  BY <1>3, <1>6, <1>7, <1>8

-----------------------------------------------------------------------------
(* The rows.  No event of an earlier start of the watch is on its way to   *)
(* the rows of a listed namespace; when the row of an object is decided it *)
(* is right, and so is what the list would show of it if it ended now.     *)
Own(B, u, n) == \A e \in B : e \in Event /\ e.uid = u => e.start = n
JournalOwn(u) == \A i \in DOMAIN journal : Own(journal[i], u, Gen(u))

RowsReal(u) == RealIn(log, u, rows[u]) /\ RealIn(log, u, fetch.items[u])
RowsFresh(u) == ScopeOf[u] \in synced /\ Settled(u) => ShowsIn(log, u, rows[u])
NoneOlder(u) ==
  ScopeOf[u] \in synced =>
    /\ Slot(u) \in Event /\ Slot(u).uid = u => Slot(u).start = Gen(u)
    /\ \A i \in DOMAIN wire : Own(wire[i], u, Gen(u))
ListFresh(u) ==
  /\ fetch.on /\ ScopeOf[u] \in fetch.read /\ fetch.readAt[ScopeOf[u]] = Gen(u)
  /\ JournalOwn(u) /\ Settled(u)
  => ShowsIn(log, u, ApplyAll(fetch.items, journal)[u])

Values(u) == RowsReal(u) /\ RowsFresh(u) /\ NoneOlder(u) /\ ListFresh(u)

Bookkeeping ==
  /\ ~fetch.on => journal = <<>>
  /\ synced # {} => loaded
  /\ \A s \in Scopes : fetch.readAt[s] <= starts[s]

(* The frontend handles a batch: a right row stays right, and the last     *)
(* event of an object makes it right.                                      *)
LEMMA BatchShows ==
  ASSUME Typed, Typed', TrafficKnown, OncePerObject, HandleBatch, ~fetch.on => journal = <<>>,
         NEW u \in Uids, Traffic(u), Settled(u)', Own(Head(wire), u, Gen(u)),
         NEW map, RealIn(log, u, map[u]), Settled(u) => ShowsIn(log, u, map[u])
  PROVE  ShowsIn(log, u, Apply(map, Head(wire))[u])
<1>a. PICK n : n = Gen(u)
  OBVIOUS
<1>1. /\ UNCHANGED <<log, starts, loop, buffer, fetch>>
      /\ 1 \in DOMAIN wire /\ Head(wire) = wire[1] /\ wire[1] \in SUBSET Event
      /\ DOMAIN wire = 1..Len(wire) /\ Len(wire) \in Nat
      /\ \A i \in DOMAIN wire : i = 1 \/ (i - 1 \in DOMAIN wire' /\ wire'[i - 1] = wire[i])
  BY Handled
<1>2. Gen(u)' = n /\ (Caught(u)' => Caught(u)) /\ (\A f : FirstSight(f)' <=> FirstSight(f))
  BY <1>a, <1>1 DEF Gen, Caught, Latest, Place, FirstSight
<1>3. /\ Caught(u)
      /\ Is(Slot(u), u, n) => FirstSight(Slot(u))
      /\ \A i \in DOMAIN wire : i # 1 => \A e \in wire[i] : Is(e, u, n) => FirstSight(e)
  <2>1. Is(Slot(u), u, n) => FirstSight(Slot(u))
    <3>1. Is(Slot(u)', u, n) => FirstSight(Slot(u))'
      BY <1>2 DEF Settled
    <3>2. QED
      BY <1>1, <3>1 DEF Slot, FirstSight
  <2>2. \A i \in DOMAIN wire' : \A e \in wire'[i] : Is(e, u, n) => FirstSight(e)
    BY <1>2 DEF Settled
  <2>3. QED
    BY <1>1, <1>2, <2>1, <2>2 DEF Settled
<1>4. CASE ~\E e \in wire[1] : e.uid = u
  <2>1. Apply(map, wire[1])[u] = map[u]
    BY <1>4, ApplyOther
  <2>2. \A e \in wire[1] : ~Is(e, u, n)
    BY <1>4 DEF Is
  <2>3. Settled(u)
    BY <1>a, <1>3, <2>2 DEF Settled
  <2>4. QED
    BY <1>1, <2>1, <2>3
<1>5. CASE \E e \in wire[1] : e.uid = u
  <2>1. PICK e \in wire[1] : e.uid = u
    BY <1>5
  <2>2. Is(e, u, n) /\ Has(wire[1], u, n) /\ e \in Event
    BY <1>a, <1>1, <2>1 DEF Own, Is, Has
  <2>3. Known(e) /\ \A f \in wire[1] : f.uid = u => f = e
    BY <1>1, <2>1, <2>2 DEF TrafficKnown, BatchKnown, BatchKnownTo, Known
  <2>4. ~Is(Slot(u), u, n)
    BY <1>a, <1>1, <1>3, <2>2 DEF Traffic, First
  <2>5. \A i \in DOMAIN wire : i > 1 => ~Has(wire[i], u, n)
    <3> SUFFICES ASSUME NEW i \in DOMAIN wire, i > 1, NEW f \in wire[i], Is(f, u, n) PROVE FALSE
      BY DEF Has
    <3>1. 1 < i /\ i # 1
      BY <1>1
    <3>2. ~FirstSight(f)
      BY <1>a, <1>1, <2>2, <3>1 DEF Traffic, First
    <3>3. QED
      BY <1>3, <3>1, <3>2
  <2>6. e.ver = Latest(u)
    BY <1>a, <1>1, <1>3, <2>2, <2>4, <2>5 DEF Traffic, Order
  <2>7. FirstSight(e) => Settled(u)
    <3>1. \A i \in DOMAIN wire : i = 1 \/ i > 1
      BY <1>1
    <3>2. \A i \in DOMAIN wire : \A f \in wire[i] : Is(f, u, n) => i = 1 /\ f = e
      BY <2>3, <2>5, <3>1, HasIt DEF Is
    <3>3. QED
      BY <1>a, <1>3, <2>4, <3>2 DEF Settled
  <2>8. ShowsIn(log, u, Reduce(map[u], e))
    BY <2>1, <2>2, <2>3, <2>6, <2>7, LatestShows
  <2>9. QED
    BY <1>1, <2>1, <2>3, <2>8, ApplyOne
<1>6. QED
  BY <1>4, <1>5

(* A replay of u depends on the row of u alone.                            *)
LEMMA ReplayLocal ==
  ASSUME NEW J \in Seq(SUBSET Event), NEW u \in Uids, NEW map1, NEW map2, map1[u] = map2[u]
  PROVE  ApplyAll(map1, J)[u] = ApplyAll(map2, J)[u]
<1> DEFINE n == Len(J)
<1>1. PICK g : Stages(g, map1, J, n) /\ ApplyAll(map1, J) = g[n]
  BY Unfold
<1>2. PICK h : Stages(h, map2, J, n) /\ ApplyAll(map2, J) = h[n]
  BY Unfold
<1>3. /\ \A i \in 0..n : g[i] = IF i = 0 THEN map1 ELSE Apply(g[i - 1], J[i])
      /\ \A i \in 0..n : h[i] = IF i = 0 THEN map2 ELSE Apply(h[i - 1], J[i])
  BY <1>1, <1>2 DEF Stages
<1>4. n \in Nat
  OBVIOUS
<1> DEFINE T == {i \in Nat : i <= n => g[i][u] = h[i][u]}
<1> HIDE DEF n
<1>5. 0 \in T
  BY <1>3, <1>4
<1>6. ASSUME NEW i \in T PROVE i + 1 \in T
  <2>1. CASE i + 1 <= n
    <3>1. g[i][u] = h[i][u] /\ i + 1 \in 0..n /\ (i + 1) - 1 = i /\ i + 1 # 0
      BY <1>4, <2>1
    <3>2. g[i + 1] = Apply(g[i], J[i + 1]) /\ h[i + 1] = Apply(h[i], J[i + 1])
      BY <1>3, <3>1
    <3>3. g[i + 1][u] = h[i + 1][u]
      BY <3>1, <3>2 DEF Apply
    <3>4. QED
      BY <3>3
  <2>2. QED
    BY <2>1
<1>7. T = Nat
  BY <1>5, <1>6, SetInduction
<1>8. QED
  BY <1>1, <1>2, <1>4, <1>7 DEF n

(* The last batch of the journal with an event of u.                       *)
LEMMA LastInJournal ==
  ASSUME Typed, NEW u, NEW n, \E i \in DOMAIN journal : Has(journal[i], u, n)
  PROVE  \E k \in DOMAIN journal : Has(journal[k], u, n) /\ \A j \in DOMAIN journal : j > k => ~Has(journal[j], u, n)
<1> DEFINE T == {i \in 1..Len(journal) : Has(journal[i], u, n)}
<1>1. DOMAIN journal = 1..Len(journal) /\ Len(journal) \in Nat
  BY DEF Typed, TrafficTyped
<1>2. T \in SUBSET (1..Len(journal)) /\ T # {}
  BY <1>1
<1>3. PICK m \in T : \A k \in T : k <= m
  BY <1>1, <1>2, GreatestNumber
<1>4. ASSUME NEW j \in DOMAIN journal, j > m PROVE ~Has(journal[j], u, n)
  BY <1>1, <1>3, <1>4
<1>5. QED
  BY <1>1, <1>3, <1>4

(* The list of the namespace of u has just been read: whatever the journal *)
(* holds of u, replaying it over the list gives the right row.             *)
LEMMA ReplayShows ==
  ASSUME Typed, TrafficKnown, OncePerObject, NEW u \in Uids, Traffic(u), Settled(u), JournalOwn(u),
         NEW map \in [Uids -> 0..MaxChanges], map[u] = NowIn(log, u)
  PROVE  ShowsIn(log, u, ApplyAll(map, journal)[u])
<1>a. PICK n : n = Gen(u)
  OBVIOUS
<1>1. /\ journal \in Seq(SUBSET Event) /\ DOMAIN journal = 1..Len(journal) /\ Len(journal) \in Nat
      /\ \A i \in DOMAIN journal : BatchKnown(journal[i]) /\ journal[i] \in SUBSET Event
  BY DEF Typed, TrafficTyped, TrafficKnown
<1>2. \A i \in DOMAIN journal : \A e \in journal[i] : e.uid = u => Is(e, u, n)
  BY <1>a, <1>1 DEF JournalOwn, Own, Is
<1> DEFINE Q == {m \in [Uids -> 0..MaxChanges] : m[u] = NowIn(log, u)}
<1>3. \A m \in Q : ShowsIn(log, u, m[u])
  BY DEF ShowsIn
<1>4. map \in Q
  OBVIOUS
<1>5. \A m \in Q : \A i \in DOMAIN journal : ~Has(journal[i], u, n) => Apply(m, journal[i]) \in Q
  <2> SUFFICES ASSUME NEW m \in Q, NEW i \in DOMAIN journal, ~Has(journal[i], u, n)
               PROVE  Apply(m, journal[i]) \in Q
    OBVIOUS
  <2>1. \A e \in journal[i] : e.uid # u
    BY <1>2 DEF Has
  <2>2. Apply(m, journal[i])[u] = m[u]
    BY <2>1, ApplyOther
  <2>3. Apply(m, journal[i]) \in [Uids -> 0..MaxChanges]
    BY <1>1, ApplyTyped
  <2>4. QED
    BY <2>2, <2>3
<1>6. CASE ~\E i \in DOMAIN journal : Has(journal[i], u, n)
  <2>1. \A m \in Q : \A i \in DOMAIN journal : Apply(m, journal[i]) \in Q
    BY <1>5, <1>6
  <2> HIDE DEF Q
  <2>2. ApplyAll(map, journal) \in Q
    BY <1>1, <1>4, <2>1, ApplyKeeps
  <2>3. QED
    BY <1>3, <2>2
<1>7. CASE \E i \in DOMAIN journal : Has(journal[i], u, n)
  <2>1. PICK k \in DOMAIN journal : /\ Has(journal[k], u, n)
                                    /\ \A j \in DOMAIN journal : j > k => ~Has(journal[j], u, n)
    BY <1>7, LastInJournal
  <2>2. PICK e \in journal[k] : Is(e, u, n)
    BY <2>1 DEF Has
  <2>3. /\ e \in Event /\ e.uid = u /\ Known(e)
        /\ \A f \in journal[k] : f.uid = u => f = e
    BY <1>1, <2>2 DEF BatchKnown, BatchKnownTo, Known, Is
  <2>4. ~Is(Slot(u), u, n) /\ \A i \in DOMAIN wire : ~Has(wire[i], u, n)
    <3>1. Is(Slot(u), u, n) => ~FirstSight(Slot(u)) /\ FirstSight(Slot(u))
      BY <1>a, <2>1 DEF Traffic, First, Settled
    <3>2. \A i \in DOMAIN wire : \A f \in wire[i] : Is(f, u, n) => ~FirstSight(f) /\ FirstSight(f)
      BY <1>a, <2>1 DEF Traffic, First, Settled
    <3>3. QED
      BY <3>1, <3>2 DEF Has
  <2>5. e.ver = Latest(u)
    BY <1>a, <2>1, <2>2, <2>4 DEF Traffic, Order, Settled
  <2>6. Absent(journal, u, k)
    BY <1>2, <2>1, HasIt DEF Absent
  <2>7. CASE FirstSight(e)
    <3>1. \A i \in DOMAIN journal : i < k => ~Has(journal[i], u, n)
      BY <1>a, <2>1, <2>2, <2>7 DEF Traffic, First
    <3>2. \A m \in Q : \A i \in DOMAIN journal : i < k => Apply(m, journal[i]) \in Q
      BY <1>5, <3>1
    <3> HIDE DEF Q
    <3>3. PICK m \in Q : ApplyAll(map, journal)[u] = Reduce(m[u], e)
      BY <1>1, <1>4, <2>3, <2>6, <3>2, ApplyLast
    <3>4. ShowsIn(log, u, m[u])
      BY <1>3
    <3>5. RealIn(log, u, m[u])
      BY <2>3, <2>5 DEF Q, RealIn, NowIn, Latest, Known, KnownTo, TrueTo
    <3>6. ShowsIn(log, u, Reduce(m[u], e))
      BY <2>3, <2>5, <3>4, <3>5, LatestShows
    <3>7. QED
      BY <3>3, <3>6
  <2>8. CASE ~FirstSight(e)
    <3> DEFINE P == {m \in [Uids -> 0..MaxChanges] : RealIn(log, u, m[u])}
    <3>1. \A m \in P : \A i \in DOMAIN journal : i < k => Apply(m, journal[i]) \in P
      BY <1>1, ApplyTyped, ApplyReal
    <3>2. map \in P
      BY <2>3, <2>5 DEF RealIn, NowIn, Latest, Known, KnownTo, TrueTo
    <3>3. \A m \in P : RealIn(log, u, m[u])
      OBVIOUS
    <3> HIDE DEF P, Q
    <3>4. PICK m \in P : ApplyAll(map, journal)[u] = Reduce(m[u], e)
      BY <1>1, <2>3, <2>6, <3>1, <3>2, ApplyLast
    <3>5. ShowsIn(log, u, Reduce(m[u], e))
      BY <2>3, <2>5, <2>8, <3>3, LatestShows
    <3>6. QED
      BY <3>4, <3>5
  <2>9. QED
    BY <2>7, <2>8
<1>8. QED
  BY <1>6, <1>7

-----------------------------------------------------------------------------
(* The invariant, and the steps that leave the view alone.                 *)
FeedInv ==
  /\ Typed /\ LogLegal /\ TrafficKnown /\ Bookkeeping
  /\ \A u \in Uids : Traffic(u) /\ Values(u)

LEMMA PassValues ==
  ASSUME Typed, NEW u \in Uids, Passes(u), UNCHANGED <<rows, fetch, journal>>,
         synced' \subseteq synced, NoneOlder(u)', Values(u)
  PROVE  Values(u)'
<1>a. PICK n : n = Gen(u)
  OBVIOUS
<1>1. Gen(u)' = n /\ LogGrows /\ (Settled(u)' => Settled(u) /\ Latest(u)' = Latest(u))
  BY <1>a DEF Passes
<1>2. RowsReal(u)'
  <2>1. RealIn(log', u, rows[u]) /\ RealIn(log', u, fetch.items[u])
    BY <1>1, RealKept DEF Values, RowsReal
  <2>2. QED
    BY <2>1 DEF RowsReal
<1>3. RowsFresh(u)'
  <2> SUFFICES ASSUME ScopeOf[u] \in synced', Settled(u)' PROVE ShowsIn(log', u, rows[u])
    BY DEF RowsFresh
  <2>1. ShowsIn(log, u, rows[u])
    BY <1>1 DEF Values, RowsFresh
  <2>2. QED
    BY <1>1, <2>1, ShowsKept
<1>4. ListFresh(u)'
  <2> SUFFICES ASSUME fetch.on, ScopeOf[u] \in fetch.read, fetch.readAt[ScopeOf[u]] = n,
                      JournalOwn(u)', Settled(u)'
               PROVE  ShowsIn(log', u, ApplyAll(fetch.items, journal)[u])
    BY <1>1 DEF ListFresh
  <2>1. JournalOwn(u)
    BY <1>a, <1>1 DEF JournalOwn
  <2>2. ShowsIn(log, u, ApplyAll(fetch.items, journal)[u])
    BY <1>a, <1>1, <2>1 DEF Values, ListFresh
  <2>3. QED
    BY <1>1, <2>2, ShowsKept
<1>5. QED
  BY <1>2, <1>3, <1>4 DEF Values

(* The watch of u has started again: no list has followed it yet.          *)
LEMMA StartValues ==
  ASSUME Typed, Bookkeeping, NEW u \in Uids, UNCHANGED <<log, rows, fetch, journal>>,
         ScopeOf[u] \notin synced', Gen(u) < Gen(u)', Gen(u) \in Nat, Gen(u)' \in Nat, Values(u)
  PROVE  Values(u)'
<1>1. RowsReal(u)'
  BY DEF Values, RowsReal
<1>2. RowsFresh(u)' /\ NoneOlder(u)'
  BY DEF RowsFresh, NoneOlder
<1>3. fetch.readAt[ScopeOf[u]] # Gen(u)'
  <2>1. fetch.readAt[ScopeOf[u]] <= Gen(u) /\ fetch.readAt[ScopeOf[u]] \in Nat
    BY Scoping DEF Bookkeeping, Gen, Typed, ViewTyped, FetchState
  <2>2. QED
    BY <2>1
<1>4. ListFresh(u)'
  BY <1>3 DEF ListFresh
<1>5. QED
  BY <1>1, <1>2, <1>4 DEF Values

LEMMA UnviewedInv ==
  ASSUME FeedInv, Typed', LogLegal', TrafficKnown', UNCHANGED <<rows, fetch, journal, loaded>>,
         StartsGrow, synced' \subseteq synced,
         \A u \in Uids :
           \/ Passes(u) /\ NoneOlder(u)'
           \/ Traffic(u)' /\ log' = log /\ ScopeOf[u] \notin synced' /\ Gen(u) < Gen(u)'
  PROVE  FeedInv'
<1>1. Bookkeeping'
  <2>1. ASSUME NEW s \in Scopes PROVE fetch.readAt[s] <= starts'[s]
    <3>1. /\ fetch.readAt[s] \in Nat /\ starts[s] \in Nat /\ starts'[s] \in Nat
          /\ fetch.readAt[s] <= starts[s] /\ starts[s] <= starts'[s]
      BY DEF FeedInv, Bookkeeping, StartsGrow, Typed, BackTyped, ViewTyped, FetchState
    <3>2. QED
      BY <3>1
  <2>2. QED
    BY <2>1 DEF FeedInv, Bookkeeping
<1>2. ASSUME NEW u \in Uids PROVE Traffic(u)' /\ Values(u)'
  <2>1. CASE Passes(u) /\ NoneOlder(u)'
    BY <2>1, PassValues DEF FeedInv, Passes
  <2>2. CASE Traffic(u)' /\ log' = log /\ ScopeOf[u] \notin synced' /\ Gen(u) < Gen(u)'
    <3>1. Gen(u) \in Nat /\ Gen(u)' \in Nat
      BY Scoping DEF FeedInv, Typed, BackTyped, Gen
    <3>2. QED
      BY <2>2, <3>1, StartValues DEF FeedInv
  <2>3. QED
    BY <2>1, <2>2
<1>3. QED
  BY <1>1, <1>2 DEF FeedInv

(* No older event joins the traffic.                                       *)
LEMMA OlderStays ==
  ASSUME NEW u \in Uids, Gen(u)' = Gen(u), NoneOlder(u), ScopeOf[u] \in synced' => ScopeOf[u] \in synced,
         Slot(u)' \in Event /\ Slot(u)'.uid = u => Slot(u)' = Slot(u) \/ Slot(u)'.start = Gen(u),
         ScopeOf[u] \in synced' =>
           \A i \in DOMAIN wire' : (\E j \in DOMAIN wire : wire'[i] = wire[j]) \/ Own(wire'[i], u, Gen(u))
  PROVE  NoneOlder(u)'
<1> SUFFICES ASSUME ScopeOf[u] \in synced'
             PROVE  /\ Slot(u)' \in Event /\ Slot(u)'.uid = u => Slot(u)'.start = Gen(u)
                    /\ \A i \in DOMAIN wire' : Own(wire'[i], u, Gen(u))
  BY DEF NoneOlder
<1>1. QED
  BY DEF NoneOlder

LEMMA OlderCalmly ==
  ASSUME Typed, NEW u \in Uids, Gen(u)' = Gen(u), NoneOlder(u), synced' \subseteq synced, UNCHANGED buffer,
         wire' = wire \/ \E st \in Status : wire' = Append(wire, {st})
  PROVE  NoneOlder(u)'
<1>1. \A i \in DOMAIN wire' : (\E j \in DOMAIN wire : wire'[i] = wire[j]) \/ Own(wire'[i], u, Gen(u))
  <2>1. CASE wire' = wire
    BY <2>1
  <2>2. ASSUME NEW st \in Status, wire' = Append(wire, {st}), NEW i \in DOMAIN wire'
        PROVE  (\E j \in DOMAIN wire : wire'[i] = wire[j]) \/ Own(wire'[i], u, Gen(u))
    <3>1. (i \in DOMAIN wire /\ wire'[i] = wire[i]) \/ wire'[i] = {st}
      BY <2>2, Posted
    <3>2. Own({st}, u, Gen(u))
      BY StatusIsNoEvent DEF Own
    <3>3. QED
      BY <3>1, <3>2
  <2>3. QED
    BY <2>1, <2>2
<1>2. Slot(u)' = Slot(u)
  BY DEF Slot
<1>3. QED
  BY <1>1, <1>2, OlderStays

(* A calm step of the cluster or of a loop that posts at most a status.    *)
LEMMA CalmInv ==
  ASSUME FeedInv, Typed', LogLegal', LogGrows, UNCHANGED <<starts, buffer, rows, fetch, journal, loaded, synced>>,
         wire' = wire \/ \E st \in Status : wire' = Append(wire, {st}),
         \A u \in Uids : Calm(u, Gen(u), 0)
  PROVE  FeedInv'
<1>1. Typed /\ TrafficKnown /\ StartsGrow
  BY StartsKept DEF FeedInv
<1>2. TrafficKnown'
  BY <1>1, KnownCalmly
<1>3. ASSUME NEW u \in Uids PROVE Passes(u) /\ NoneOlder(u)'
  <2>1. Passes(u)
    BY <1>1, CalmPasses DEF FeedInv
  <2>2. NoneOlder(u)'
    BY <1>1, <2>1, OlderCalmly DEF FeedInv, Passes, Values
  <2>3. QED
    BY <2>1, <2>2
<1>4. QED
  BY <1>1, <1>2, <1>3, UnviewedInv

LEMMA ClusterInv == ASSUME FeedInv, NEW c \in Change, ClusterChanges(c) PROVE FeedInv'
<1>1. Typed' /\ LogLegal' /\ LogGrows
  BY ClusterTyped, LegalGrows DEF FeedInv, ClusterChanges, LogGrows
<1>2. UNCHANGED <<starts, buffer, wire, rows, fetch, journal, loaded, synced>>
  BY DEF ClusterChanges, backend, view
<1>3. \A u \in Uids : Calm(u, Gen(u), 0)
  BY ClusterCalm DEF FeedInv
<1>4. QED
  BY <1>1, <1>2, <1>3, CalmInv

LEMMA StopInv ==
  ASSUME FeedInv, NEW s \in Scopes, NEW f,
         StartFails(s, f) \/ StreamCloses(s) \/ StreamError(s, f) \/ BackoffEnds(s)
  PROVE  FeedInv'
<1>1. Typed /\ LogLegal
  BY DEF FeedInv
<1>2. Typed'
  BY <1>1, StartFailsTyped, CloseTyped, ErrorTyped, BackoffTyped
<1>3. /\ UNCHANGED <<log, starts, buffer, rows, fetch, journal, loaded, synced>>
      /\ wire' = wire \/ \E st \in Status : wire' = Append(wire, {st})
  BY PostIs DEF StartFails, StreamCloses, StreamError, BackoffEnds, cluster, view
<1>4. \A u \in Uids : Calm(u, Gen(u), 0)
  BY <1>1, StopCalm
<1>5. LogLegal' /\ LogGrows
  BY <1>1, <1>3, LegalStays DEF LogGrows
<1>6. QED
  BY <1>2, <1>3, <1>4, <1>5, CalmInv

LEMMA BookmarkInv == ASSUME FeedInv, NEW s \in Scopes, Bookmark(s) PROVE FeedInv'
<1>1. Typed /\ LogLegal
  BY DEF FeedInv
<1>2. UNCHANGED <<log, starts, buffer, wire, rows, fetch, journal, loaded, synced>>
  BY DEF Bookmark, cluster, view
<1>3. Typed' /\ LogLegal' /\ LogGrows
  BY <1>1, <1>2, BookmarkTyped, LegalStays DEF LogGrows
<1>4. \A u \in Uids : Calm(u, Gen(u), 0)
  BY <1>1, BookmarkCalm
<1>5. QED
  BY <1>2, <1>3, <1>4, CalmInv

LEMMA ConnectInv == ASSUME FeedInv, NEW s \in Scopes, Connect(s) PROVE FeedInv'
<1>1. Typed /\ LogLegal /\ TrafficKnown
  BY DEF FeedInv
<1>2. /\ UNCHANGED <<log, buffer, rows, fetch, journal, loaded>> /\ PostStatus(s, "connected")
      /\ loop[s].rv = 0 => starts' = [starts EXCEPT ![s] = @ + 1] /\ synced' = synced \ {s}
      /\ loop[s].rv # 0 => starts' = starts /\ synced' = synced
  BY DEF Connect, cluster
<1>3. Typed' /\ LogLegal' /\ LogGrows /\ TrafficKnown'
  <2>1. Typed'
    BY <1>1, ConnectTyped
  <2>2. QED
    BY <1>1, <1>2, <2>1, LegalStays, ConnectKnown DEF LogGrows
<1>4. \E st \in Status : wire' = Append(wire, {st})
  BY <1>2, PostIs
<1>5. CASE loop[s].rv # 0
  <2>1. \A u \in Uids : Calm(u, Gen(u), 0)
    BY <1>1, <1>5, ResumeCalm
  <2>2. UNCHANGED <<starts, buffer, rows, fetch, journal, loaded, synced>>
    BY <1>2, <1>5
  <2>3. QED
    BY <1>3, <1>4, <2>1, <2>2, CalmInv
<1>6. CASE loop[s].rv = 0
  <2>1. starts \in [Scopes -> Nat] /\ synced' \subseteq synced /\ s \notin synced'
    BY <1>1, <1>2, <1>6 DEF Typed, BackTyped
  <2>2. StartsGrow
    <3>1. \A t \in Scopes : starts[t] <= starts'[t]
      BY <1>2, <1>6, <2>1
    <3>2. QED
      BY <3>1 DEF StartsGrow
  <2>3. ASSUME NEW u \in Uids
        PROVE  \/ Passes(u) /\ NoneOlder(u)'
               \/ Traffic(u)' /\ log' = log /\ ScopeOf[u] \notin synced' /\ Gen(u) < Gen(u)'
    <3>1. CASE ScopeOf[u] = s
      <4>1. Traffic(u)'
        BY <1>1, <1>3, <1>6, <3>1, StartTraffic
      <4>2. Gen(u) < Gen(u)'
        BY <1>2, <1>6, <2>1, <3>1 DEF Gen
      <4>3. QED
        BY <1>2, <2>1, <3>1, <4>1, <4>2
    <3>2. CASE ScopeOf[u] # s
      <4>1. Calm(u, Gen(u), 0)
        BY <1>1, <3>2, OtherStartCalm
      <4>2. Passes(u)
        BY <1>1, <1>3, <4>1, CalmPasses DEF FeedInv
      <4>3. NoneOlder(u)'
        BY <1>1, <1>2, <1>4, <2>1, <4>2, OlderCalmly DEF FeedInv, Passes, Values
      <4>4. QED
        BY <4>2, <4>3
    <3>3. QED
      BY <3>1, <3>2
  <2>4. QED
    BY <1>2, <1>3, <2>1, <2>2, <2>3, UnviewedInv
<1>7. QED
  BY <1>5, <1>6

(* An event of the current start is handed on.                             *)
LEMMA EmitOwn ==
  ASSUME Typed, NEW e \in Event, Emit(e), e.start = starts[ScopeOf[e.uid]], NEW u \in Uids,
         Gen(u)' = Gen(u), NoneOlder(u), UNCHANGED synced
  PROVE  NoneOlder(u)'
<1>1. /\ \A k \in Names : k # e.key => buffer'[k] = buffer[k]
      /\ IF e.type = "DELETED" THEN buffer'[e.key] = NoEvent /\ wire' = Append(wire, {e})
                               ELSE buffer'[e.key] = e /\ wire' = wire
  BY EmitTyped
<1>2. NameOf[u] \in Names /\ e.key \in Names
  BY Scoping DEF Event
<1>3. Slot(u)' \in Event /\ Slot(u)'.uid = u => Slot(u)' = Slot(u) \/ Slot(u)'.start = Gen(u)
  <2>1. Slot(u)' = Slot(u) \/ Slot(u)' = e \/ Slot(u)' = NoEvent
    BY <1>1, <1>2 DEF Slot
  <2>2. QED
    BY <2>1, SlotAssumption DEF Gen
<1>4. Own({e}, u, Gen(u))
  BY DEF Own, Gen
<1>5. \A i \in DOMAIN wire' : (\E j \in DOMAIN wire : wire'[i] = wire[j]) \/ Own(wire'[i], u, Gen(u))
  <2>1. CASE wire' = wire
    BY <2>1
  <2>2. CASE wire' = Append(wire, {e})
    <3>1. \A i \in DOMAIN wire' : (i \in DOMAIN wire /\ wire'[i] = wire[i]) \/ wire'[i] = {e}
      BY <2>2, Posted
    <3>2. QED
      BY <1>4, <3>1
  <2>3. QED
    BY <1>1, <2>1, <2>2
<1>6. QED
  BY <1>3, <1>5, OlderStays

LEMMA DeliverInv == ASSUME FeedInv, NEW s \in Scopes, Deliver(s) PROVE FeedInv'
<1>1. Typed /\ LogLegal /\ TrafficKnown
  BY DEF FeedInv
<1>2. UNCHANGED <<log, starts, rows, fetch, journal, loaded, synced>>
  BY DEF Deliver, cluster, view
<1>3. Typed' /\ LogLegal' /\ TrafficKnown' /\ StartsGrow
  <2>1. Typed'
    BY <1>1, DeliverTyped
  <2>2. QED
    BY <1>1, <1>2, <2>1, LegalStays, DeliverKnown, StartsKept
<1>4. PICK i \in 1..Len(log) :
         /\ loop[s].pc = "open" /\ NextChange(s, i)
         /\ Emit(Delivered(log[i].uid, i, log[i].type))
         /\ LoopOf(s, "open", i, i, {}, loop[s].quiet)
  BY <1>1, DeliverLoop
<1>5. ASSUME NEW u \in Uids PROVE Passes(u)
  <2>1. Traffic(u)
    BY DEF FeedInv
  <2>2. CASE u = log[i].uid
    BY <1>1, <1>3, <1>4, <2>1, <2>2, DeliverPasses
  <2>3. CASE u # log[i].uid
    <3>1. Order(u)
      BY <2>1 DEF Traffic
    <3>2. Calm(u, Gen(u), 0)
      BY <1>1, <1>4, <2>3, <3>1, DeliverCalm
    <3>3. QED
      BY <1>1, <1>3, <2>1, <3>2, CalmPasses
  <2>4. QED
    BY <2>2, <2>3
<1>6. ASSUME NEW u \in Uids PROVE NoneOlder(u)'
  <2>1. PICK e : e = Delivered(log[i].uid, i, log[i].type)
    OBVIOUS
  <2>2. log[i].uid \in Uids /\ log[i].type \in {"ADDED", "MODIFIED", "TERMINATING", "DELETED"}
    BY <1>4 DEF NextChange, Change
  <2>3. e \in Event
    BY <1>1, <2>1, <2>2, DeliveredTyped
  <2>4. e.start = starts[ScopeOf[e.uid]]
    BY <2>1 DEF Delivered
  <2>5. Gen(u)' = Gen(u) /\ NoneOlder(u)
    BY <1>2 DEF Gen, FeedInv, Values
  <2>6. QED
    BY <1>1, <1>2, <1>4, <2>1, <2>3, <2>4, <2>5, EmitOwn
<1>7. synced' \subseteq synced
  BY <1>2
<1>8. QED
  BY <1>2, <1>3, <1>5, <1>6, <1>7, UnviewedInv

LEMMA DeliverFreshInv ==
  ASSUME FeedInv, NEW s \in Scopes, NEW w \in Uids, DeliverFresh(s, w)
  PROVE  FeedInv'
<1>1. Typed /\ LogLegal /\ TrafficKnown
  BY DEF FeedInv
<1>2. UNCHANGED <<log, starts, rows, fetch, journal, loaded, synced>>
  BY DEF DeliverFresh, cluster, view
<1>3. Typed' /\ LogLegal' /\ TrafficKnown' /\ StartsGrow
  <2>1. Typed'
    BY <1>1, DeliverFreshTyped
  <2>2. QED
    BY <1>1, <1>2, <2>1, LegalStays, DeliverFreshKnown, StartsKept
<1>4. ASSUME NEW u \in Uids PROVE Passes(u)
  <2>1. Traffic(u)
    BY DEF FeedInv
  <2>2. CASE u = w
    BY <1>1, <1>3, <2>1, <2>2, DeliverFreshPasses
  <2>3. CASE u # w
    <3>1. Unseen(u)
      BY <2>1 DEF Traffic
    <3>2. Calm(u, Gen(u), 0)
      BY <1>1, <2>3, <3>1, DeliverFreshCalm
    <3>3. QED
      BY <1>1, <1>3, <2>1, <3>2, CalmPasses
  <2>4. QED
    BY <2>2, <2>3
<1>5. ASSUME NEW u \in Uids PROVE NoneOlder(u)'
  <2>0. PICK i : i = Version(log, w, loop[s].pos)
    OBVIOUS
  <2>1. PICK e : e = Delivered(w, i, "ADDED")
    OBVIOUS
  <2>2. i \in 1..Len(log) /\ Emit(e)
    BY <1>1, <2>0, <2>1, DeliverFreshLoop
  <2>3. e \in Event
    BY <1>1, <2>1, <2>2, DeliveredTyped
  <2>4. e.start = starts[ScopeOf[e.uid]]
    BY <2>1 DEF Delivered
  <2>5. Gen(u)' = Gen(u) /\ NoneOlder(u)
    BY <1>2 DEF Gen, FeedInv, Values
  <2>6. QED
    BY <1>1, <1>2, <2>2, <2>3, <2>4, <2>5, EmitOwn
<1>6. synced' \subseteq synced
  BY <1>2
<1>7. QED
  BY <1>2, <1>3, <1>4, <1>5, <1>6, UnviewedInv

LEMMA FrameInv == ASSUME FeedInv, Frame PROVE FeedInv'
<1>1. Typed /\ LogLegal /\ TrafficKnown
  BY DEF FeedInv
<1>2. UNCHANGED <<log, starts, rows, fetch, journal, loaded, synced>>
  BY DEF Frame, cluster, view
<1>3. Typed' /\ LogLegal' /\ TrafficKnown' /\ StartsGrow
  <2>1. Typed'
    BY <1>1, FrameTyped
  <2>2. QED
    BY <1>1, <1>2, <2>1, LegalStays, FrameKnown, StartsKept
<1>4. PICK S \in SUBSET Buffer!Filled : Buffer!Release(S)
  BY DEF Frame
<1>5. ASSUME NEW u \in Uids PROVE Passes(u)
  <2>1. Traffic(u)
    BY DEF FeedInv
  <2>2. CASE NameOf[u] \in S /\ Is(Slot(u), u, Gen(u))
    BY <1>1, <1>3, <1>4, <2>1, <2>2, FramePasses
  <2>3. CASE ~(NameOf[u] \in S /\ Is(Slot(u), u, Gen(u)))
    <3>1. Calm(u, Gen(u), 0)
      BY <1>1, <1>4, <2>3, FrameCalm
    <3>2. QED
      BY <1>1, <1>3, <2>1, <3>1, CalmPasses
  <2>4. QED
    BY <2>2, <2>3
<1>6. ASSUME NEW u \in Uids PROVE NoneOlder(u)'
  <2>1. PICK B : B = {buffer[k] : k \in S}
    OBVIOUS
  <2>2. /\ buffer' = [k \in Names |-> IF k \in S THEN NoEvent ELSE buffer[k]]
        /\ wire' = Append(wire, B)
    BY <1>4, <2>1 DEF Buffer!Release
  <2>3. Gen(u)' = Gen(u) /\ NoneOlder(u) /\ NameOf[u] \in Names
    BY <1>2, Scoping DEF Gen, FeedInv, Values
  <2>4. Slot(u)' \in Event /\ Slot(u)'.uid = u => Slot(u)' = Slot(u) \/ Slot(u)'.start = Gen(u)
    BY <2>2, <2>3, SlotAssumption DEF Slot
  <2>5. ScopeOf[u] \in synced => Own(B, u, Gen(u))
    <3> SUFFICES ASSUME ScopeOf[u] \in synced, NEW k \in S, buffer[k].uid = u
                 PROVE  buffer[k].start = Gen(u)
      BY <2>1 DEF Own
    <3>1. k \in Names /\ buffer[k] \in Event
      BY <1>1 DEF Buffer!Filled, Typed, TrafficTyped
    <3>2. buffer[k].key = k /\ buffer[k].key = NameOf[u]
      BY <1>1, <3>1 DEF TrafficKnown, Known, KnownTo, TrueTo
    <3>3. QED
      BY <2>3, <3>1, <3>2 DEF NoneOlder, Slot
  <2>6. \A i \in DOMAIN wire' : (i \in DOMAIN wire /\ wire'[i] = wire[i]) \/ wire'[i] = B
    BY <1>1, <2>2, Posted
  <2>7. ScopeOf[u] \in synced' =>
          \A i \in DOMAIN wire' : (\E j \in DOMAIN wire : wire'[i] = wire[j]) \/ Own(wire'[i], u, Gen(u))
    BY <1>2, <2>5, <2>6
  <2>8. QED
    BY <1>2, <2>3, <2>4, <2>7, OlderStays
<1>7. synced' \subseteq synced
  BY <1>2
<1>8. QED
  BY <1>2, <1>3, <1>5, <1>6, <1>7, UnviewedInv

LEMMA StatusInv == ASSUME FeedInv, HandleStatus PROVE FeedInv'
<1>1. Typed /\ LogLegal /\ TrafficKnown
  BY DEF FeedInv
<1>2. UNCHANGED <<log, starts, buffer, rows, fetch, journal, loaded, synced>> /\ wire' = Tail(wire) /\ wire # <<>>
  BY DEF HandleStatus, cluster, backend, view
<1>3. Typed' /\ LogLegal' /\ TrafficKnown' /\ StartsGrow
  <2>1. Typed'
    BY <1>1, StatusTyped
  <2>2. QED
    BY <1>1, <1>2, <2>1, LegalStays, StatusKnown, StartsKept
<1>4. ASSUME NEW u \in Uids PROVE Passes(u) /\ NoneOlder(u)'
  <2>1. Traffic(u) /\ NoneOlder(u) /\ Gen(u)' = Gen(u) /\ Slot(u)' = Slot(u)
    BY <1>2 DEF FeedInv, Values, Gen, Slot
  <2>2. Passes(u)
    BY <1>1, <1>3, <2>1, StatusCalm, CalmPasses
  <2>3. \A i \in DOMAIN wire' : i + 1 \in DOMAIN wire /\ wire'[i] = wire[i + 1]
    BY <1>1, <1>2 DEF Typed, TrafficTyped
  <2>4. NoneOlder(u)'
    BY <1>2, <2>1, <2>3, OlderStays
  <2>5. QED
    BY <2>2, <2>4
<1>5. synced' \subseteq synced
  BY <1>2
<1>6. QED
  BY <1>2, <1>3, <1>4, <1>5, UnviewedInv

LEMMA StutterInv == ASSUME FeedInv, UNCHANGED vars PROVE FeedInv'
<1>1. UNCHANGED <<log, loop, starts, buffer, wire, rows, fetch, journal, loaded, synced>>
  BY DEF vars, cluster, backend, view
<1>2. Typed' /\ LogLegal' /\ LogGrows
  BY <1>1, StutterTyped, LegalStays DEF FeedInv, LogGrows
<1>3. \A u \in Uids : Calm(u, Gen(u), 0)
  BY <1>1, ViewCalm DEF FeedInv
<1>4. QED
  BY <1>1, <1>2, <1>3, CalmInv

(* The frontend handles a batch.                                           *)
LEMMA BatchInv == ASSUME FeedInv, HandleBatch PROVE FeedInv'
<1>1. Typed /\ LogLegal /\ TrafficKnown /\ Bookkeeping /\ (~fetch.on => journal = <<>>)
  BY DEF FeedInv, Bookkeeping
<1>2. /\ UNCHANGED <<log, starts, loop, buffer, fetch, loaded, synced>>
      /\ rows' = Apply(rows, Head(wire))
      /\ journal' = IF fetch.on THEN Append(journal, Head(wire)) ELSE journal
  BY DEF HandleBatch, cluster, backend
<1>3. Typed' /\ LogLegal' /\ TrafficKnown'
  BY <1>1, <1>2, BatchTyped, LegalStays, HandledKnown
<1>4. Bookkeeping'
  BY <1>1, <1>2 DEF Bookkeeping
<1>5. PICK B \in SUBSET Event : B = Head(wire) /\ B = wire[1] /\ 1 \in DOMAIN wire
  BY <1>1, Handled
<1>6. BatchKnown(B)
  BY <1>1, <1>5 DEF TrafficKnown
<1>7. journal \in Seq(SUBSET Event) /\ (fetch.on => journal' = Append(journal, B))
  BY <1>1, <1>2, <1>5 DEF Typed, TrafficTyped
<1>8. ASSUME NEW u \in Uids PROVE Traffic(u)' /\ Values(u)'
  <2>1. Traffic(u) /\ Values(u) /\ Gen(u)' = Gen(u) /\ Slot(u)' = Slot(u)
    BY <1>2 DEF FeedInv, Gen, Slot
  <2>2. Traffic(u)'
    <3>1. CASE Has(Head(wire), u, Gen(u))
      BY <1>1, <1>3, <2>1, <3>1, BatchTraffic
    <3>2. CASE ~Has(Head(wire), u, Gen(u))
      BY <1>1, <1>3, <2>1, <3>2, OtherBatchCalm, CalmPasses DEF Passes
    <3>3. QED
      BY <3>1, <3>2
  <2>3. RowsReal(u)'
    <3>1. RealIn(log, u, rows[u]) /\ RealIn(log, u, fetch.items[u])
      BY <2>1 DEF Values, RowsReal
    <3>2. RealIn(log, u, Apply(rows, B)[u])
      BY <1>6, <3>1, ApplyReal
    <3>3. QED
      BY <1>2, <1>5, <3>1, <3>2 DEF RowsReal
  <2>4. NoneOlder(u)'
    <3>1. \A i \in DOMAIN wire' : i + 1 \in DOMAIN wire /\ wire'[i] = wire[i + 1]
      BY <1>1, Handled
    <3>2. QED
      BY <1>2, <2>1, <3>1, OlderStays DEF Values
  <2>5. RowsFresh(u)'
    <3> SUFFICES ASSUME ScopeOf[u] \in synced, Settled(u)' PROVE ShowsIn(log, u, rows'[u])
      BY <1>2 DEF RowsFresh
    <3>1. Own(Head(wire), u, Gen(u))
      BY <1>5, <2>1 DEF Values, NoneOlder
    <3>2. RealIn(log, u, rows[u]) /\ (Settled(u) => ShowsIn(log, u, rows[u]))
      BY <2>1 DEF Values, RowsReal, RowsFresh
    <3>3. ShowsIn(log, u, Apply(rows, Head(wire))[u])
      BY <1>1, <1>3, <2>1, <3>1, <3>2, BatchShows DEF LogLegal
    <3>4. QED
      BY <1>2, <3>3
  <2>6. ListFresh(u)'
    <3> SUFFICES ASSUME fetch.on, ScopeOf[u] \in fetch.read, fetch.readAt[ScopeOf[u]] = Gen(u),
                        JournalOwn(u)', Settled(u)'
                 PROVE  ShowsIn(log, u, ApplyAll(fetch.items, journal')[u])
      BY <1>2, <2>1 DEF ListFresh
    <3>a. PICK n : n = Gen(u)
      OBVIOUS
    <3>1. JournalOwn(u) /\ Own(Head(wire), u, Gen(u))
      <4>1. \A i \in DOMAIN journal' : Own(journal'[i], u, n)
        BY <2>1, <3>a DEF JournalOwn
      <4>2. /\ \A i \in DOMAIN journal : i \in DOMAIN journal' /\ journal'[i] = journal[i]
            /\ Len(journal) + 1 \in DOMAIN journal' /\ journal'[Len(journal) + 1] = B
        BY <1>7
      <4>3. QED
        BY <1>5, <3>a, <4>1, <4>2 DEF JournalOwn
    <3>2. PICK map : map = ApplyAll(fetch.items, journal)
      OBVIOUS
    <3>3. RealIn(log, u, map[u])
      BY <1>1, <2>1, <3>2, ReplayReal DEF Values, RowsReal, Typed, ViewTyped, FetchState
    <3>4. Settled(u) => ShowsIn(log, u, map[u])
      BY <2>1, <3>1, <3>2 DEF Values, ListFresh
    <3>5. ShowsIn(log, u, Apply(map, Head(wire))[u])
      BY <1>1, <1>3, <2>1, <3>1, <3>3, <3>4, BatchShows DEF LogLegal
    <3>6. ApplyAll(fetch.items, journal') = Apply(map, B)
      BY <1>7, <3>2, ApplyMore
    <3>7. QED
      BY <1>5, <3>5, <3>6
  <2>7. QED
    BY <2>2, <2>3, <2>4, <2>5, <2>6 DEF Values
<1>9. QED
  BY <1>3, <1>4, <1>8 DEF FeedInv

(* Steps of the view: the traffic stays, the journal at most is forgotten. *)
LEMMA ViewPasses ==
  ASSUME FeedInv, Typed', UNCHANGED <<log, starts, buffer, loop, wire>>,
         journal' = journal \/ journal' = <<>>
  PROVE  /\ LogLegal' /\ TrafficKnown'
         /\ \A u \in Uids : Traffic(u)' /\ Gen(u)' = Gen(u) /\ (Settled(u)' => Settled(u))
<1>1. Typed /\ LogLegal /\ TrafficKnown /\ LogGrows /\ StartsGrow
  BY StartsKept DEF FeedInv, LogGrows
<1>2. LogLegal' /\ TrafficKnown'
  BY <1>1, LegalStays, KnownCalmly
<1>3. ASSUME NEW u \in Uids PROVE Passes(u)
  <2>1. Calm(u, Gen(u), 0)
    BY <1>1, ViewCalm
  <2>2. QED
    BY <1>1, <2>1, CalmPasses DEF FeedInv
<1>4. QED
  BY <1>2, <1>3 DEF Passes

(* A request is dropped, or replaced by a new one.                         *)
LEMMA DroppedInv ==
  ASSUME FeedInv, Typed', UNCHANGED <<log, starts, buffer, loop, wire, rows, loaded, synced>>,
         journal' = <<>>, fetch' = NewFetch \/ fetch' = NoFetch
  PROVE  FeedInv'
<1>1. /\ LogLegal' /\ TrafficKnown'
      /\ \A u \in Uids : Traffic(u)' /\ Gen(u)' = Gen(u) /\ (Settled(u)' => Settled(u))
  BY ViewPasses
<1>2. /\ fetch'.items = NoRows /\ fetch'.read = {} /\ fetch'.readAt = [s \in Scopes |-> 0]
  <2>1. NewFetch.items = NoRows /\ NewFetch.read = {} /\ NewFetch.readAt = [s \in Scopes |-> 0]
    BY DEF NewFetch
  <2>2. NoFetch.items = NoRows /\ NoFetch.read = {} /\ NoFetch.readAt = [s \in Scopes |-> 0]
    BY DEF NoFetch, NewFetch
  <2>3. QED
    BY <2>1, <2>2
<1>3. Bookkeeping'
  <2>1. \A s \in Scopes : starts[s] \in Nat /\ fetch'.readAt[s] = 0
    BY <1>2 DEF FeedInv, Typed, BackTyped
  <2>2. \A s \in Scopes : fetch'.readAt[s] <= starts'[s]
    BY <2>1
  <2>3. QED
    BY <2>2 DEF FeedInv, Bookkeeping
<1>4. ASSUME NEW u \in Uids PROVE Values(u)'
  <2>1. Values(u) /\ Slot(u)' = Slot(u) /\ Gen(u)' = Gen(u)
    BY <1>1 DEF FeedInv, Slot
  <2>2. RowsReal(u)'
    BY <1>2, <2>1 DEF Values, RowsReal, RealIn, NoRows
  <2>3. RowsFresh(u)'
    BY <1>1, <2>1 DEF Values, RowsFresh
  <2>4. NoneOlder(u)'
    BY <2>1 DEF Values, NoneOlder
  <2>5. ListFresh(u)'
    BY <1>2 DEF ListFresh
  <2>6. QED
    BY <2>2, <2>3, <2>4, <2>5 DEF Values
<1>5. QED
  BY <1>1, <1>3, <1>4 DEF FeedInv

LEMMA StartFetchInv == ASSUME FeedInv, ReconcileFires \/ Refresh \/ ListFails PROVE FeedInv'
<1>1. Typed'
  BY ReconcileTyped, RefreshTyped, ListFailsTyped DEF FeedInv
<1>2. /\ UNCHANGED <<log, starts, buffer, loop, wire, rows, loaded, synced>>
      /\ journal' = <<>> /\ (fetch' = NewFetch \/ fetch' = NoFetch)
  BY DEF ReconcileFires, Refresh, ListFails, StartFetch, cluster, backend
<1>3. QED
  BY <1>1, <1>2, DroppedInv

(* The API server answers the list of a namespace.                         *)
LEMMA ListReadInv == ASSUME FeedInv, NEW s \in Scopes, ListRead(s) PROVE FeedInv'
<1>1. Typed /\ TrafficKnown /\ OncePerObject /\ Typed'
  BY ListReadTyped DEF FeedInv, LogLegal
<1>2. /\ UNCHANGED <<log, starts, buffer, loop, wire, rows, journal, loaded, synced>>
      /\ fetch.on /\ fetch'.on /\ fetch'.read = fetch.read \cup {s}
      /\ fetch'.items = ReadItems(s) /\ fetch'.readAt = [fetch.readAt EXCEPT ![s] = starts[s]]
  BY <1>1, ListReadIs DEF ListRead, cluster, backend
<1>3. /\ LogLegal' /\ TrafficKnown'
      /\ \A u \in Uids : Traffic(u)' /\ Gen(u)' = Gen(u) /\ (Settled(u)' => Settled(u))
  BY <1>1, <1>2, ViewPasses
<1>4. /\ fetch.readAt \in [Scopes -> Nat] /\ starts \in [Scopes -> Nat]
      /\ fetch.items \in [Uids -> 0..MaxChanges] /\ fetch'.items \in [Uids -> 0..MaxChanges]
      /\ journal \in Seq(SUBSET Event)
  BY <1>1 DEF Typed, BackTyped, TrafficTyped, ViewTyped, FetchState
<1>5. Bookkeeping'
  <2>1. ASSUME NEW t \in Scopes PROVE fetch'.readAt[t] <= starts'[t]
    <3>1. fetch.readAt[t] <= starts[t]
      BY DEF FeedInv, Bookkeeping
    <3>2. QED
      BY <1>2, <1>4, <3>1
  <2>2. QED
    BY <1>2, <2>1 DEF FeedInv, Bookkeeping
<1>6. ASSUME NEW u \in Uids PROVE Values(u)'
  <2>1. Values(u) /\ Slot(u)' = Slot(u) /\ Gen(u)' = Gen(u) /\ Traffic(u)
    BY <1>2, <1>3 DEF FeedInv, Slot
  <2>2. RealIn(log, u, NowIn(log, u))
    <3>1. log \in Seq(Change) /\ Len(log) \in 0..Len(log)
      BY <1>1, LogFits
    <3>2. QED
      BY <3>1, VersionIsLast DEF RealIn, NowIn
  <2>3. fetch'.items[u] = IF ScopeOf[u] = s THEN NowIn(log, u) ELSE fetch.items[u]
    BY <1>2 DEF ReadItems, NowIn
  <2>4. RowsReal(u)'
    BY <1>2, <2>1, <2>2, <2>3 DEF Values, RowsReal
  <2>5. RowsFresh(u)' /\ NoneOlder(u)'
    BY <1>2, <1>3, <2>1 DEF Values, RowsFresh, NoneOlder
  <2>6. ListFresh(u)'
    <3> SUFFICES ASSUME ScopeOf[u] \in fetch'.read, fetch'.readAt[ScopeOf[u]] = Gen(u),
                        JournalOwn(u)', Settled(u)'
                 PROVE  ShowsIn(log, u, ApplyAll(fetch'.items, journal)[u])
      BY <1>2, <2>1 DEF ListFresh
    <3>1. JournalOwn(u) /\ Settled(u)
      BY <1>2, <1>3, <2>1 DEF JournalOwn
    <3>2. PICK items \in [Uids -> 0..MaxChanges] : items = fetch'.items
      BY <1>4
    <3>3. CASE ScopeOf[u] = s
      BY <1>1, <2>1, <2>3, <3>1, <3>2, <3>3, ReplayShows
    <3>4. CASE ScopeOf[u] # s
      <4>1. fetch.readAt[ScopeOf[u]] = Gen(u) /\ ScopeOf[u] \in fetch.read
        BY <1>2, <1>4, <3>4, Scoping
      <4>2. ShowsIn(log, u, ApplyAll(fetch.items, journal)[u])
        BY <1>2, <2>1, <3>1, <4>1 DEF Values, ListFresh
      <4>3. ApplyAll(fetch.items, journal)[u] = ApplyAll(items, journal)[u]
        BY <1>4, <2>3, <3>2, <3>4, ReplayLocal
      <4>4. QED
        BY <3>2, <4>2, <4>3
    <3>5. QED
      BY <3>3, <3>4
  <2>7. QED
    BY <2>4, <2>5, <2>6 DEF Values
<1>7. QED
  BY <1>1, <1>3, <1>5, <1>6 DEF FeedInv

(* A page of the first load.                                               *)
LEMMA PageInv == ASSUME FeedInv, NEW S \in SUBSET Uids, PageArrives(S) PROVE FeedInv'
<1>1. Typed /\ TrafficKnown /\ Typed'
  BY PageTyped DEF FeedInv
<1>2. /\ UNCHANGED <<log, starts, buffer, loop, wire, fetch, journal, loaded, synced>> /\ ~loaded
      /\ rows' = ApplyAll(Shown(S), journal)
  BY DEF PageArrives, cluster, backend, Shown
<1>3. /\ LogLegal' /\ TrafficKnown'
      /\ \A u \in Uids : Traffic(u)' /\ Gen(u)' = Gen(u) /\ (Settled(u)' => Settled(u))
  BY <1>1, <1>2, ViewPasses
<1>4. Bookkeeping' /\ synced = {}
  BY <1>2 DEF FeedInv, Bookkeeping
<1>5. ASSUME NEW u \in Uids PROVE Values(u)'
  <2>1. Values(u) /\ Slot(u)' = Slot(u) /\ Gen(u)' = Gen(u)
    BY <1>2, <1>3 DEF FeedInv, Slot
  <2>2. RealIn(log, u, Shown(S)[u]) /\ Shown(S) \in [Uids -> 0..MaxChanges]
    BY <1>1, <2>1, ShownTyped DEF Values, RowsReal, RealIn, Shown
  <2>3. RealIn(log, u, ApplyAll(Shown(S), journal)[u])
    BY <1>1, <2>2, ReplayReal
  <2>4. RowsReal(u)'
    BY <1>2, <2>1, <2>3 DEF Values, RowsReal
  <2>5. RowsFresh(u)' /\ NoneOlder(u)'
    BY <1>2, <1>4 DEF RowsFresh, NoneOlder
  <2>6. ListFresh(u)'
    <3>1. JournalOwn(u)' => JournalOwn(u)
      BY <1>2, <2>1 DEF JournalOwn
    <3>2. QED
      BY <1>2, <1>3, <2>1, <3>1 DEF Values, ListFresh
  <2>7. QED
    BY <2>4, <2>5, <2>6 DEF Values
<1>6. QED
  BY <1>1, <1>3, <1>4, <1>5 DEF FeedInv

(* What is in flight of the namespace of u.                                *)
LEMMA InFlightIs ==
  ASSUME Typed, TrafficKnown, NEW u \in Uids, ~OlderInFlight(ScopeOf[u])
  PROVE  /\ Slot(u) \in Event /\ Slot(u).uid = u => Slot(u).start = Gen(u)
         /\ \A i \in DOMAIN wire : Own(wire[i], u, Gen(u))
         /\ JournalOwn(u)
<1>1. ASSUME NEW e \in Event, e.uid = u, Known(e), e \in InFlight PROVE e.start = Gen(u)
  <2>1. e.start \in Nat /\ Gen(u) \in Nat /\ e.start <= Gen(u)
    BY <1>1, Scoping DEF Known, KnownTo, Gen, Event, Typed, BackTyped
  <2>2. ~(e.start < Gen(u))
    BY <1>1 DEF OlderInFlight, Gen
  <2>3. QED
    BY <2>1, <2>2
<1>2. ASSUME Slot(u) \in Event, Slot(u).uid = u PROVE Slot(u).start = Gen(u)
  <2>1. NameOf[u] \in Names /\ Slot(u) # NoEvent
    BY <1>2, Scoping, SlotAssumption
  <2>2. Known(Slot(u))
    BY <1>2, <2>1 DEF TrafficKnown, Slot
  <2>3. Slot(u) \in InFlight
    BY <2>1 DEF InFlight, Buffer!Filled, Slot
  <2>4. QED
    BY <1>1, <1>2, <2>2, <2>3
<1>3. ASSUME NEW i \in DOMAIN wire, NEW e \in wire[i], e \in Event, e.uid = u PROVE e.start = Gen(u)
  <2>1. Known(e)
    BY <1>3 DEF TrafficKnown, BatchKnown, BatchKnownTo, Known
  <2>2. e \in InFlight
    <3>1. e \in wire[i] \cap Event
      BY <1>3
    <3>2. wire[i] \cap Event \in {wire[j] \cap Event : j \in DOMAIN wire}
      OBVIOUS
    <3>3. QED
      BY <3>1, <3>2, Zenon DEF InFlight
  <2>3. QED
    BY <1>1, <1>3, <2>1, <2>2
<1>4. ASSUME NEW i \in DOMAIN journal, NEW e \in journal[i], e \in Event, e.uid = u PROVE e.start = Gen(u)
  <2>1. Known(e)
    BY <1>4 DEF TrafficKnown, BatchKnown, BatchKnownTo, Known
  <2>2. e \in InFlight
    BY <1>4 DEF InFlight
  <2>3. QED
    BY <1>1, <1>4, <2>1, <2>2
<1>5. QED
  BY <1>2, <1>3, <1>4 DEF Own, JournalOwn

(* The list replaces the rows and the journal is replayed over it.         *)
LEMMA ListDoneInv == ASSUME FeedInv, ListDone PROVE FeedInv'
<1>1. Typed /\ TrafficKnown /\ Typed'
  BY ListDoneTyped DEF FeedInv
<1>2. /\ UNCHANGED <<log, starts, buffer, loop, wire>>
      /\ fetch.on /\ fetch.read = Scopes
      /\ rows' = ApplyAll(fetch.items, journal) /\ loaded' = TRUE /\ fetch' = NoFetch /\ journal' = <<>>
      /\ \A s \in synced' : s \in Scopes /\ fetch.readAt[s] = starts[s] /\ ~OlderInFlight(s)
  BY DEF ListDone, cluster, backend
<1>3. /\ LogLegal' /\ TrafficKnown'
      /\ \A u \in Uids : Traffic(u)' /\ Gen(u)' = Gen(u) /\ (Settled(u)' => Settled(u))
  BY <1>1, <1>2, ViewPasses
<1>4. fetch'.items = NoRows /\ fetch'.read = {} /\ fetch'.readAt = [s \in Scopes |-> 0]
  BY <1>2 DEF NoFetch, NewFetch
<1>5. Bookkeeping'
  <2>1. \A s \in Scopes : starts[s] \in Nat /\ fetch'.readAt[s] = 0
    BY <1>1, <1>4 DEF Typed, BackTyped
  <2>2. \A s \in Scopes : fetch'.readAt[s] <= starts'[s]
    BY <1>2, <2>1
  <2>3. QED
    BY <1>2, <2>2 DEF Bookkeeping
<1>6. ASSUME NEW u \in Uids PROVE Values(u)'
  <2>1. Values(u) /\ Slot(u)' = Slot(u) /\ Gen(u)' = Gen(u) /\ ScopeOf[u] \in Scopes
    BY <1>2, <1>3, Scoping DEF FeedInv, Slot
  <2>2. RealIn(log, u, ApplyAll(fetch.items, journal)[u])
    BY <1>1, <2>1, ReplayReal DEF Values, RowsReal, Typed, ViewTyped, FetchState
  <2>3. RowsReal(u)'
    BY <1>2, <1>4, <2>2 DEF RowsReal, RealIn, NoRows
  <2>4. RowsFresh(u)' /\ NoneOlder(u)'
    <3>1. CASE ScopeOf[u] \notin synced'
      BY <3>1 DEF RowsFresh, NoneOlder
    <3>2. CASE ScopeOf[u] \in synced'
      <4>1. fetch.readAt[ScopeOf[u]] = Gen(u) /\ ~OlderInFlight(ScopeOf[u])
        BY <1>2, <3>2 DEF Gen
      <4>2. /\ Slot(u) \in Event /\ Slot(u).uid = u => Slot(u).start = Gen(u)
            /\ \A i \in DOMAIN wire : Own(wire[i], u, Gen(u))
            /\ JournalOwn(u)
        BY <1>1, <4>1, InFlightIs
      <4>3. NoneOlder(u)'
        BY <1>2, <2>1, <4>2 DEF NoneOlder
      <4>4. Settled(u)' => ShowsIn(log, u, ApplyAll(fetch.items, journal)[u])
        BY <1>2, <1>3, <2>1, <4>1, <4>2 DEF Values, ListFresh
      <4>5. QED
        BY <1>2, <4>3, <4>4 DEF RowsFresh
    <3>3. QED
      BY <3>1, <3>2
  <2>5. ListFresh(u)'
    BY <1>4 DEF ListFresh
  <2>6. QED
    BY <2>3, <2>4, <2>5 DEF Values
<1>7. QED
  BY <1>1, <1>3, <1>5, <1>6 DEF FeedInv

LEMMA InitInv == Init => FeedInv
<1> SUFFICES ASSUME Init PROVE FeedInv
  OBVIOUS
<1>1. /\ log = <<>> /\ buffer = [k \in Names |-> NoEvent] /\ wire = <<>> /\ journal = <<>>
      /\ rows = NoRows /\ fetch = NewFetch /\ synced = {} /\ starts = [s \in Scopes |-> 0]
      /\ loop = [s \in Scopes |-> [pc |-> "connecting", rv |-> 0, pos |-> 0, fresh |-> {}, quiet |-> FALSE]]
  BY DEF Init
<1>2. Typed /\ LogLegal
  BY InitTyped, LegalInit
<1>3. DOMAIN wire = {} /\ DOMAIN journal = {} /\ \A k \in Names : buffer[k] \notin Event
  BY <1>1, SlotAssumption
<1>4. TrafficKnown
  BY <1>3 DEF TrafficKnown
<1>5. fetch.items = NoRows /\ fetch.read = {} /\ fetch.readAt = [s \in Scopes |-> 0]
  BY <1>1 DEF NewFetch
<1>6. Bookkeeping
  BY <1>1, <1>5 DEF Bookkeeping
<1>7. ASSUME NEW u \in Uids PROVE Traffic(u) /\ Values(u)
  <2>1. Slot(u) \notin Event /\ \A n : ~Is(Slot(u), u, n)
    BY <1>3, Scoping DEF Slot, Is
  <2>2. Order(u) /\ First(u) /\ Unseen(u)
    BY <1>3, <2>1 DEF Order, First, Unseen
  <2>3. RowsReal(u)
    BY <1>1, <1>5 DEF RowsReal, RealIn, NoRows
  <2>4. RowsFresh(u) /\ NoneOlder(u) /\ ListFresh(u)
    BY <1>1, <1>5 DEF RowsFresh, NoneOlder, ListFresh
  <2>5. QED
    BY <2>2, <2>3, <2>4 DEF Traffic, Values
<1>8. QED
  BY <1>2, <1>4, <1>6, <1>7 DEF FeedInv

LEMMA NextInv == FeedInv /\ [Next]_vars => FeedInv'
<1> SUFFICES ASSUME FeedInv, [Next]_vars PROVE FeedInv'
  OBVIOUS
<1>1. CASE \E c \in Change : ClusterChanges(c)
  BY <1>1, ClusterInv
<1>2. ASSUME NEW s \in Scopes,
             Connect(s) \/ Deliver(s) \/ Bookmark(s) \/ StreamCloses(s) \/ BackoffEnds(s)
      PROVE  FeedInv'
  BY <1>2, ConnectInv, DeliverInv, BookmarkInv, StopInv
<1>3. ASSUME NEW s \in Scopes, NEW u \in Uids, DeliverFresh(s, u) PROVE FeedInv'
  BY <1>3, DeliverFreshInv
<1>4. ASSUME NEW s \in Scopes, NEW f \in Faults, StartFails(s, f) \/ StreamError(s, f) PROVE FeedInv'
  BY <1>4, StopInv
<1>5. ASSUME NEW s \in Scopes, ListRead(s) PROVE FeedInv'
  BY <1>5, ListReadInv
<1>6. CASE Frame
  BY <1>6, FrameInv
<1>7. CASE HandleBatch
  BY <1>7, BatchInv
<1>8. CASE HandleStatus
  BY <1>8, StatusInv
<1>9. CASE ReconcileFires \/ Refresh \/ ListFails
  BY <1>9, StartFetchInv
<1>10. CASE \E S \in SUBSET Uids : PageArrives(S)
  BY <1>10, PageInv
<1>11. CASE ListDone
  BY <1>11, ListDoneInv
<1>12. CASE UNCHANGED vars
  BY <1>12, StutterInv
<1>13. QED
  BY <1>1, <1>2, <1>3, <1>4, <1>5, <1>6, <1>7, <1>8, <1>9, <1>10, <1>11, <1>12 DEF Next

(* Nothing is on its way any more: every row is decided.                   *)
LEMMA QuiescentSettles ==
  ASSUME Typed, Quiescent, NEW u \in Uids
  PROVE  Settled(u)
<1> DEFINE s == ScopeOf[u]
<1>1. s \in Scopes /\ NameOf[u] \in Names
  BY Scoping
<1>2. loop[s].pc = "open" /\ Ahead(log, s, loop[s].pos) = {} /\ wire = <<>> /\ Buffer!Filled = {}
  BY <1>1 DEF Quiescent
<1>3. ~Is(Slot(u), u, Gen(u)) /\ DOMAIN wire = {}
  BY <1>1, <1>2, SlotAssumption DEF Buffer!Filled, Slot, Is
<1>4. log \in Seq(Change) /\ Len(log) \in 0..Len(log) /\ Len(log) \in Nat /\ loop[s].pos \in 0..Len(log)
  BY <1>1, LogFits
<1>5. Latest(u) <= loop[s].pos
  <2>1. Latest(u) \in 0..Len(log) /\ (Latest(u) # 0 => Latest(u) \in Changes(log, u, Len(log)))
    BY <1>4, VersionIsLast DEF Latest
  <2>2. SUFFICES ASSUME loop[s].pos < Latest(u) PROVE FALSE
    BY <1>4, <2>1
  <2>3. Latest(u) \in 1..Len(log) /\ log[Latest(u)].uid = u
    BY <1>4, <2>1, <2>2 DEF Changes
  <2>4. Latest(u) \in Ahead(log, s, loop[s].pos)
    BY <1>4, <2>1, <2>2, <2>3 DEF Ahead
  <2>5. QED
    BY <1>2, <2>4
<1>6. Caught(u)
  BY <1>2, <1>5 DEF Caught, Place
<1>7. QED
  BY <1>3, <1>6 DEF Settled

(* List and watch add up: once everything has been handled, the rows of a  *)
(* namespace that was listed after its current watch had begun, with       *)
(* nothing older on its way, are the objects of the cluster, whatever was  *)
(* coalesced, repeated by a resumed stream, cancelled or handled before    *)
(* the list was shown.  For every cluster, log and schedule.               *)
THEOREM SyncedAlwaysConverges == Spec => []SyncedConverges
<1>1. FeedInv => SyncedConverges
  <2> SUFFICES ASSUME FeedInv, Quiescent, NEW u \in Uids, ScopeOf[u] \in synced PROVE Fresh(u)
    BY DEF SyncedConverges
  <2>1. Settled(u)
    BY QuiescentSettles DEF FeedInv
  <2>2. ShowsIn(log, u, rows[u])
    BY <2>1 DEF FeedInv, Values, RowsFresh
  <2>3. QED
    BY <2>2, FreshIs
<1>2. QED
  BY <1>1, InitInv, NextInv, PTL DEF Spec

-----------------------------------------------------------------------------
(* Announced restarts.  The frontend keeps one status per resource type, so *)
(* what follows is about a view of one namespace (or of all with one watch).*)
IsStatus(m, t) == \E st \in Status : m = {st} /\ st.type = t

(* The status that precedes place i of the wire, the last one handled if    *)
(* none is on the wire before i.                                            *)
Before(i, t) ==
  \/ \E j \in DOMAIN wire :
       j < i /\ IsStatus(wire[j], t) /\ \A k \in DOMAIN wire : j < k /\ k < i => wire[k] \in SUBSET Event
  \/ prevStatus = t /\ \A k \in DOMAIN wire : k < i => wire[k] \in SUBSET Event

(* The batch has an event of the namespace of an earlier start than number n. *)
Stale(B, s, n) == \E e \in B : e \in Event /\ ScopeOf[e.uid] = s /\ e.start < n
SlotsOwn(s) == \A k \in Names : ~Stale({buffer[k]}, s, starts[s])
WireOwn(s, i) == \A j \in DOMAIN wire : j >= i => ~Stale(wire[j], s, starts[s])

(* The restart is still to be told: reconnecting, then connected, and no    *)
(* older event after that.                                                  *)
Said(s) ==
  \E i \in DOMAIN wire : IsStatus(wire[i], "connected") /\ Before(i, "reconnecting") /\ WireOwn(s, i)

(* A list is running that was or will be read after the restart, or is over. *)
Listing(s) ==
  /\ WireOwn(s, 1) /\ \A i \in DOMAIN journal : ~Stale(journal[i], s, starts[s])
  /\ IF fetch.on THEN s \in fetch.read => fetch.readAt[s] = starts[s] ELSE failed \/ s \in synced

Pending(s) ==
  starts[s] > 1 /\ s \notin silent =>
    SlotsOwn(s) /\ (Said(s) \/ (reconcile /\ WireOwn(s, 1)) \/ Listing(s))

(* A loop that will connect aloud has said that it is reconnecting.         *)
LoopSays(s) ==
  /\ loop[s].pc = "waiting" => Before(Len(wire) + 1, "reconnecting")
  /\ loop[s].pc = "connecting" /\ ~loop[s].quiet /\ starts[s] > 0 =>
       Before(Len(wire) + 1, "reconnecting") /\ Buffer!Filled = {}

LEMMA StatusIsNoBatch == ASSUME NEW st \in Status PROVE {st} \notin SUBSET Event
BY StatusIsNoEvent

LEMMA StatusNotStale == ASSUME NEW st \in Status, NEW s, NEW n PROVE ~Stale({st}, s, n)
BY StatusIsNoEvent DEF Stale

(* A message is posted: what was said before stays said. *)
LEMMA BeforeStays ==
  ASSUME Typed, NEW m, wire' = Append(wire, m), UNCHANGED prevStatus, NEW t,
         NEW i \in 1..(Len(wire) + 1), Before(i, t)
  PROVE  Before(i, t)'
<1>1. /\ DOMAIN wire = 1..Len(wire) /\ Len(wire) \in Nat /\ DOMAIN wire' = 1..(Len(wire) + 1)
      /\ \A j \in 1..Len(wire) : wire'[j] = wire[j]
  BY Posted
<1>2. \A k \in DOMAIN wire' : k < i => k \in DOMAIN wire /\ wire'[k] = wire[k]
  BY <1>1
<1>3. \A k \in DOMAIN wire : k \in DOMAIN wire' /\ wire'[k] = wire[k]
  BY <1>1
<1>4. CASE prevStatus = t /\ \A k \in DOMAIN wire : k < i => wire[k] \in SUBSET Event
  BY <1>2, <1>4 DEF Before
<1>5. CASE \E j \in DOMAIN wire :
             j < i /\ IsStatus(wire[j], t) /\ \A k \in DOMAIN wire : j < k /\ k < i => wire[k] \in SUBSET Event
  BY <1>2, <1>3, <1>5 DEF Before
<1>6. QED
  BY <1>4, <1>5 DEF Before

(* A batch changes nothing in what was said last; a status is said last.    *)
LEMMA BeforeBatch ==
  ASSUME Typed, NEW B \in SUBSET Event, wire' = Append(wire, B), UNCHANGED prevStatus, NEW t,
         Before(Len(wire) + 1, t)
  PROVE  Before(Len(wire) + 1, t)'
<1>1. /\ DOMAIN wire = 1..Len(wire) /\ Len(wire) \in Nat /\ DOMAIN wire' = 1..(Len(wire) + 1)
      /\ \A j \in 1..Len(wire) : wire'[j] = wire[j]
      /\ wire'[Len(wire) + 1] = B
  BY Posted
<1>2. Len(wire') = Len(wire) + 1
  BY DEF Typed, TrafficTyped
<1>3. \A k \in DOMAIN wire' : (k \in DOMAIN wire /\ wire'[k] = wire[k] /\ k < Len(wire) + 1) \/ wire'[k] \in SUBSET Event
  <2>1. ASSUME NEW k \in DOMAIN wire' PROVE k \in 1..Len(wire) \/ k = Len(wire) + 1
    BY <1>1
  <2>2. ASSUME NEW k \in 1..Len(wire) PROVE wire'[k] = wire[k] /\ k < Len(wire) + 1
    BY <1>1
  <2>3. QED
    BY <1>1, <2>1, <2>2
<1>4. \A k \in DOMAIN wire : k \in DOMAIN wire' /\ wire'[k] = wire[k] /\ k < Len(wire') + 1
  BY <1>1, <1>2
<1>5. CASE prevStatus = t /\ \A k \in DOMAIN wire : k < Len(wire) + 1 => wire[k] \in SUBSET Event
  BY <1>3, <1>5 DEF Before
<1>6. ASSUME NEW j \in DOMAIN wire, j < Len(wire) + 1, IsStatus(wire[j], t),
             \A k \in DOMAIN wire : j < k /\ k < Len(wire) + 1 => wire[k] \in SUBSET Event
      PROVE  Before(Len(wire) + 1, t)'
  BY <1>3, <1>4, <1>6 DEF Before
<1>7. QED
  BY <1>5, <1>6 DEF Before

LEMMA BeforeStatus ==
  ASSUME Typed, NEW st \in Status, wire' = Append(wire, {st}), NEW t, st.type = t
  PROVE  Before(Len(wire) + 1, t)'
<1>1. /\ Len(wire) \in Nat /\ DOMAIN wire' = 1..(Len(wire) + 1) /\ wire'[Len(wire) + 1] = {st}
  BY Posted
<1>2. Len(wire') = Len(wire) + 1
  BY DEF Typed, TrafficTyped
<1>3. Len(wire) + 1 \in DOMAIN wire' /\ Len(wire) + 1 < Len(wire') + 1
  BY <1>1, <1>2
<1>4. IsStatus(wire'[Len(wire) + 1], t)
  BY <1>1 DEF IsStatus
<1>5. \A k \in DOMAIN wire' : ~(Len(wire) + 1 < k)
  BY <1>1
<1>6. QED
  BY <1>3, <1>4, <1>5 DEF Before

(* A step that posts at most one message, with nothing older in it. *)
LEMMA PendingPosts ==
  ASSUME Typed, NEW s \in Scopes, Pending(s),
         UNCHANGED <<starts, silent, prevStatus, reconcile, fetch, journal, failed, synced>>,
         SlotsOwn(s) => /\ SlotsOwn(s)'
                        /\ wire' = wire \/ \E m : wire' = Append(wire, m) /\ ~Stale(m, s, starts[s])
  PROVE  Pending(s)'
<1> SUFFICES ASSUME starts[s] > 1, s \notin silent
             PROVE  SlotsOwn(s)' /\ (Said(s)' \/ (reconcile /\ WireOwn(s, 1)') \/ Listing(s)')
  BY DEF Pending
<1>1. SlotsOwn(s) /\ SlotsOwn(s)' /\ (Said(s) \/ (reconcile /\ WireOwn(s, 1)) \/ Listing(s))
  BY DEF Pending
<1>2. CASE wire' = wire
  <2>1. (Said(s) <=> Said(s)') /\ (WireOwn(s, 1) <=> WireOwn(s, 1)')
    BY <1>2 DEF Said, Before, WireOwn
  <2>2. Listing(s) => Listing(s)'
    BY <2>1 DEF Listing
  <2>3. QED
    BY <1>1, <2>1, <2>2
<1>3. ASSUME NEW m, wire' = Append(wire, m), ~Stale(m, s, starts[s])
      PROVE  Said(s)' \/ (reconcile /\ WireOwn(s, 1)') \/ Listing(s)'
  <2>1. /\ DOMAIN wire = 1..Len(wire) /\ Len(wire) \in Nat /\ DOMAIN wire' = 1..(Len(wire) + 1)
        /\ \A j \in 1..Len(wire) : wire'[j] = wire[j]
        /\ \A j \in DOMAIN wire' : (j \in DOMAIN wire /\ wire'[j] = wire[j]) \/ wire'[j] = m
    BY <1>3, Posted
  <2>2. ASSUME NEW i, WireOwn(s, i) PROVE WireOwn(s, i)'
    BY <1>3, <2>1, <2>2 DEF WireOwn
  <2>3. ASSUME Said(s) PROVE Said(s)'
    <3>1. PICK i \in DOMAIN wire : IsStatus(wire[i], "connected") /\ Before(i, "reconnecting") /\ WireOwn(s, i)
      BY <2>3 DEF Said
    <3>2. i \in 1..(Len(wire) + 1) /\ i \in DOMAIN wire' /\ wire'[i] = wire[i]
      BY <2>1
    <3>3. Before(i, "reconnecting")' /\ WireOwn(s, i)'
      BY <1>3, <2>2, <3>1, <3>2, BeforeStays
    <3>4. QED
      BY <3>1, <3>2, <3>3 DEF Said
  <2>4. WireOwn(s, 1) => WireOwn(s, 1)'
    BY <2>2
  <2>5. Listing(s) => Listing(s)'
    BY <2>4 DEF Listing
  <2>6. QED
    BY <1>1, <2>3, <2>4, <2>5
<1>4. QED
  BY <1>1, <1>2, <1>3

Announced(s) == Pending(s) /\ LoopSays(s)

LEMMA LoopSaysSame ==
  ASSUME NEW s \in Scopes, LoopSays(s), UNCHANGED <<loop, starts, buffer, wire, prevStatus>>
  PROVE  LoopSays(s)'
BY DEF LoopSays, Before, Buffer!Filled

LEMMA ClusterAnnounced ==
  ASSUME Typed, NEW s \in Scopes, Announced(s), NEW c \in Change, ClusterChanges(c)
  PROVE  Announced(s)'
<1>1. UNCHANGED <<loop, starts, silent, buffer, wire, prevStatus, reconcile, fetch, journal, failed, synced>>
  BY DEF ClusterChanges, backend, view, trigger
<1>2. SlotsOwn(s) => SlotsOwn(s)'
  BY <1>1 DEF SlotsOwn
<1>3. QED
  BY <1>1, <1>2, PendingPosts, LoopSaysSame DEF Announced

(* The loop says that it is reconnecting, and waits. *)
LEMMA StopAnnounced ==
  ASSUME Typed, NEW s \in Scopes, Announced(s), NEW f, StartFails(s, f) \/ StreamCloses(s)
  PROVE  Announced(s)'
<1>1. /\ UNCHANGED <<starts, silent, buffer, prevStatus, reconcile, fetch, journal, failed, synced>>
      /\ PostStatus(s, "reconnecting")
  BY DEF StartFails, StreamCloses, view, trigger
<1>2. PICK st \in Status : wire' = Append(wire, {st}) /\ st.type = "reconnecting"
  <2>1. [type |-> "reconnecting", scope |-> s] \in Status
    BY DEF Status
  <2>2. QED
    BY <1>1, <2>1 DEF PostStatus
<1>3. Pending(s)'
  <2>1. SlotsOwn(s) => SlotsOwn(s)'
    BY <1>1 DEF SlotsOwn
  <2>2. ~Stale({st}, s, starts[s])
    BY StatusNotStale
  <2>3. QED
    BY <1>1, <1>2, <2>1, <2>2, PendingPosts DEF Announced
<1>4. loop'[s].pc = "waiting"
  BY StartFailsLoop, CloseLoop DEF LoopOf
<1>5. PICK t : t = "reconnecting"
  OBVIOUS
<1>6. LoopSays(s)'
  <2>1. Before(Len(wire) + 1, t)'
    BY <1>2, <1>5, BeforeStatus
  <2>2. QED
    BY <1>4, <1>5, <2>1 DEF LoopSays
<1>7. QED
  BY <1>3, <1>6 DEF Announced

(* The loop moves and nothing is posted. *)
LEMMA QuietLoopAnnounced ==
  ASSUME Typed, NEW s \in Scopes, Announced(s), NEW f, StreamError(s, f) \/ BackoffEnds(s) \/ Bookmark(s)
  PROVE  Announced(s)'
<1>1. UNCHANGED <<starts, silent, buffer, wire, prevStatus, reconcile, fetch, journal, failed, synced>>
  BY DEF StreamError, BackoffEnds, Bookmark, view, trigger
<1>2. Pending(s)'
  <2>1. SlotsOwn(s) => SlotsOwn(s)'
    BY <1>1 DEF SlotsOwn
  <2>2. QED
    BY <1>1, <2>1, PendingPosts DEF Announced
<1>3. LoopSays(s)'
  <2>1. CASE StreamError(s, f)
    <3>1. loop'[s].pc = "connecting" /\ loop'[s].quiet = TRUE
      BY <2>1, ErrorLoop DEF LoopOf
    <3>2. QED
      BY <3>1 DEF LoopSays
  <2>2. CASE Bookmark(s)
    <3>1. loop'[s].pc = "open"
      BY <2>2, BookmarkLoop DEF LoopOf
    <3>2. QED
      BY <3>1 DEF LoopSays
  <2>3. CASE BackoffEnds(s)
    <3>1. loop'[s].pc = "connecting" /\ loop[s].pc = "waiting" /\ Buffer!Filled = {}
      BY <2>3, BackoffLoop DEF LoopOf, BackoffEnds
    <3>2. Before(Len(wire) + 1, "reconnecting")
      BY <3>1 DEF Announced, LoopSays
    <3>3. Before(Len(wire) + 1, "reconnecting")' /\ Buffer!Filled' = {}
      BY <1>1, <3>1, <3>2 DEF Before, Buffer!Filled
    <3>4. QED
      BY <3>1, <3>3 DEF LoopSays
  <2>4. QED
    BY <2>1, <2>2, <2>3
<1>4. QED
  BY <1>2, <1>3 DEF Announced

(* The loop reads an event. *)
LEMMA EmitAnnounced ==
  ASSUME Typed, NEW s \in Scopes, Announced(s), NEW e \in Event, Emit(e), e.start = starts[ScopeOf[e.uid]],
         UNCHANGED <<starts, silent, prevStatus, reconcile, fetch, journal, failed, synced>>,
         loop'[s].pc = "open"
  PROVE  Announced(s)'
<1>1. /\ \A k \in Names : k # e.key => buffer'[k] = buffer[k]
      /\ IF e.type = "DELETED" THEN buffer'[e.key] = NoEvent /\ wire' = Append(wire, {e})
                               ELSE buffer'[e.key] = e /\ wire' = wire
  BY EmitTyped
<1>2. ~Stale({e}, s, starts[s])
  <2>1. starts[ScopeOf[e.uid]] \in Nat
    BY Scoping DEF Event, Typed, BackTyped
  <2>2. QED
    BY <2>1 DEF Stale
<1>3. SlotsOwn(s) => SlotsOwn(s)'
  <2>1. \A k \in Names : buffer'[k] = buffer[k] \/ buffer'[k] = e \/ buffer'[k] = NoEvent
    BY <1>1
  <2>2. ~Stale({NoEvent}, s, starts[s])
    BY SlotAssumption DEF Stale
  <2>3. QED
    BY <1>2, <2>1, <2>2 DEF SlotsOwn
<1>4. Pending(s)'
  BY <1>1, <1>2, <1>3, PendingPosts DEF Announced
<1>5. LoopSays(s)'
  BY DEF LoopSays
<1>6. QED
  BY <1>4, <1>5 DEF Announced

LEMMA DeliverAnnounced ==
  ASSUME Typed, NEW s \in Scopes, Announced(s), Deliver(s)
  PROVE  Announced(s)'
<1>1. UNCHANGED <<starts, silent, prevStatus, reconcile, fetch, journal, failed, synced>>
  BY DEF Deliver, view, trigger
<1>2. PICK i \in 1..Len(log) :
         /\ NextChange(s, i) /\ Emit(Delivered(log[i].uid, i, log[i].type))
         /\ LoopOf(s, "open", i, i, {}, loop[s].quiet)
  BY DeliverLoop
<1>3. PICK e : e = Delivered(log[i].uid, i, log[i].type)
  OBVIOUS
<1>4. log[i].uid \in Uids /\ log[i].type \in {"ADDED", "MODIFIED", "TERMINATING", "DELETED"}
  BY <1>2 DEF NextChange, Change
<1>5. e \in Event /\ e.start = starts[ScopeOf[e.uid]]
  BY <1>3, <1>4, DeliveredTyped DEF Delivered
<1>6. loop'[s].pc = "open"
  BY <1>2 DEF LoopOf
<1>7. QED
  BY <1>1, <1>2, <1>3, <1>5, <1>6, EmitAnnounced

LEMMA DeliverFreshAnnounced ==
  ASSUME Typed, NEW s \in Scopes, Announced(s), NEW w \in Uids, DeliverFresh(s, w)
  PROVE  Announced(s)'
<1>1. UNCHANGED <<starts, silent, prevStatus, reconcile, fetch, journal, failed, synced>>
  BY DEF DeliverFresh, view, trigger
<1>2. PICK i : i = Version(log, w, loop[s].pos)
  OBVIOUS
<1>3. PICK e : e = Delivered(w, i, "ADDED")
  OBVIOUS
<1>4. i \in 1..Len(log) /\ Emit(e) /\ loop'[s].pc = "open"
  BY <1>2, <1>3, DeliverFreshLoop DEF LoopOf
<1>5. e \in Event /\ e.start = starts[ScopeOf[e.uid]]
  BY <1>3, <1>4, DeliveredTyped DEF Delivered
<1>6. QED
  BY <1>1, <1>4, <1>5, EmitAnnounced

(* The watch starts again: aloud, and the frontend will be told. *)
LEMMA ConnectAnnounced ==
  ASSUME Typed, NEW s \in Scopes, Announced(s), Connect(s)
  PROVE  Announced(s)'
<1>1. /\ UNCHANGED <<buffer, prevStatus, reconcile, fetch, journal, failed>>
      /\ PostStatus(s, "connected")
      /\ IF loop[s].rv = 0
         THEN /\ starts' = [starts EXCEPT ![s] = @ + 1]
              /\ silent' = IF loop[s].quiet THEN silent \cup {s} ELSE silent \ {s}
         ELSE UNCHANGED <<starts, silent, synced>>
      /\ loop[s].pc = "connecting"
  BY DEF Connect, trigger
<1>2. PICK st \in Status : wire' = Append(wire, {st}) /\ st.type = "connected"
  <2>1. [type |-> "connected", scope |-> s] \in Status
    BY DEF Status
  <2>2. QED
    BY <1>1, <2>1 DEF PostStatus
<1>3. LoopSays(s)'
  <2>1. loop'[s].pc = "open"
    BY ConnectLoop DEF LoopOf
  <2>2. QED
    BY <2>1 DEF LoopSays
<1>4. CASE loop[s].rv # 0
  <2>1. SlotsOwn(s) => SlotsOwn(s)'
    BY <1>1, <1>4 DEF SlotsOwn
  <2>2. ~Stale({st}, s, starts[s])
    BY StatusNotStale
  <2>3. Pending(s)'
    BY <1>1, <1>2, <1>4, <2>1, <2>2, PendingPosts DEF Announced
  <2>4. QED
    BY <1>3, <2>3 DEF Announced
<1>5. CASE loop[s].rv = 0 /\ loop[s].quiet
  <2>1. s \in silent'
    BY <1>1, <1>5
  <2>2. QED
    BY <1>3, <2>1 DEF Announced, Pending
<1>6. CASE loop[s].rv = 0 /\ ~loop[s].quiet
  <2> SUFFICES ASSUME starts'[s] > 1 PROVE SlotsOwn(s)' /\ Said(s)'
    BY <1>3 DEF Announced, Pending
  <2>1. starts[s] > 0
    <3>1. starts \in [Scopes -> Nat]
      BY DEF Typed, BackTyped
    <3>2. starts'[s] = starts[s] + 1 /\ starts[s] \in Nat
      BY <1>1, <1>6, <3>1
    <3>3. QED
      BY <3>2
  <2>2. Before(Len(wire) + 1, "reconnecting") /\ Buffer!Filled = {}
    BY <1>1, <1>6, <2>1 DEF Announced, LoopSays
  <2>3. SlotsOwn(s)'
    <3>1. \A k \in Names : buffer'[k] \notin Event
      BY <1>1, <2>2, SlotAssumption DEF Buffer!Filled
    <3>2. QED
      BY <3>1 DEF SlotsOwn, Stale
  <2>4. PICK i : i = Len(wire) + 1
    OBVIOUS
  <2>5. i \in 1..(Len(wire) + 1) /\ i \in DOMAIN wire' /\ wire'[i] = {st} /\ \A j \in DOMAIN wire' : j >= i => j = i
    BY <1>2, <2>4, Posted
  <2>6. Before(i, "reconnecting")'
    BY <1>1, <1>2, <2>2, <2>4, <2>5, BeforeStays
  <2>7. WireOwn(s, i)'
    BY <2>5, StatusNotStale DEF WireOwn
  <2>8. IsStatus(wire'[i], "connected")
    BY <1>2, <2>5 DEF IsStatus
  <2>9. QED
    BY <2>3, <2>5, <2>6, <2>7, <2>8 DEF Said
<1>7. QED
  BY <1>4, <1>5, <1>6

LEMMA FrameAnnounced ==
  ASSUME Typed, NEW s \in Scopes, Announced(s), Frame
  PROVE  Announced(s)'
<1>1. UNCHANGED <<loop, starts, silent, prevStatus, reconcile, fetch, journal, failed, synced>>
  BY DEF Frame, view, trigger
<1>2. PICK S \in SUBSET Buffer!Filled : Buffer!Release(S)
  BY DEF Frame
<1>3. PICK B : B = {buffer[k] : k \in S}
  OBVIOUS
<1>4. /\ buffer' = [k \in Names |-> IF k \in S THEN NoEvent ELSE buffer[k]]
      /\ wire' = Append(wire, B) /\ Buffer!Filled # {}
  BY <1>2, <1>3 DEF Buffer!Release
<1>5. \A k \in S : k \in Names /\ buffer[k] \in Event
  BY DEF Buffer!Filled, Typed, TrafficTyped
<1>6. SlotsOwn(s) => SlotsOwn(s)' /\ ~Stale(B, s, starts[s])
  <2> SUFFICES ASSUME SlotsOwn(s) PROVE SlotsOwn(s)' /\ ~Stale(B, s, starts[s])
    OBVIOUS
  <2>1. ~Stale(B, s, starts[s])
    BY <1>3, <1>5 DEF SlotsOwn, Stale
  <2>2. \A k \in Names : buffer'[k] = buffer[k] \/ buffer'[k] = NoEvent
    BY <1>4
  <2>3. SlotsOwn(s)'
    BY <1>1, <2>2, SlotAssumption DEF SlotsOwn, Stale
  <2>4. QED
    BY <2>1, <2>3
<1>7. Pending(s)'
  BY <1>1, <1>4, <1>6, PendingPosts DEF Announced
<1>8. LoopSays(s)'
  <2>1. CASE loop[s].pc = "waiting"
    <3>1. B \in SUBSET Event
      BY <1>3, <1>5
    <3>2. PICK t : t = "reconnecting"
      OBVIOUS
    <3>3. Before(Len(wire) + 1, t)
      BY <2>1, <3>2 DEF Announced, LoopSays
    <3>4. Before(Len(wire) + 1, t)'
      BY <1>1, <1>4, <3>1, <3>3, BeforeBatch
    <3>5. QED
      BY <1>1, <2>1, <3>2, <3>4 DEF LoopSays
  <2>2. CASE loop[s].pc # "waiting"
    BY <1>1, <1>4, <2>2 DEF Announced, LoopSays
  <2>3. QED
    BY <2>1, <2>2
<1>9. QED
  BY <1>7, <1>8 DEF Announced

(* The frontend takes a message from the wire.                             *)
Takes ==
  /\ wire # <<>> /\ wire' = Tail(wire)
  /\ \/ Head(wire) \in SUBSET Event /\ prevStatus' = prevStatus
     \/ \E st \in Status : Head(wire) = {st} /\ prevStatus' = st.type

LEMMA TakenIs ==
  ASSUME Typed, Takes
  PROVE  /\ DOMAIN wire = 1..Len(wire) /\ Len(wire) \in Nat /\ 1 \in DOMAIN wire /\ Head(wire) = wire[1]
         /\ Len(wire) = Len(wire') + 1 /\ Len(wire') \in Nat
         /\ \A i \in DOMAIN wire' : i \in Nat /\ i >= 1 /\ i + 1 \in DOMAIN wire /\ wire'[i] = wire[i + 1]
         /\ \A i \in DOMAIN wire : i \in Nat /\ (i = 1 \/ (i > 1 /\ i - 1 \in DOMAIN wire' /\ wire'[i - 1] = wire[i]))
<1>1. wire \in Seq(Message) /\ wire # <<>> /\ wire' = Tail(wire)
  BY DEF Typed, TrafficTyped, Takes
<1>2. /\ DOMAIN wire = 1..Len(wire) /\ Len(wire) \in Nat /\ Len(wire) # 0 /\ Head(wire) = wire[1]
      /\ Len(wire') = Len(wire) - 1 /\ DOMAIN wire' = 1..(Len(wire) - 1)
      /\ \A i \in 1..(Len(wire) - 1) : wire'[i] = wire[i + 1]
  BY <1>1
<1>3. \A i \in DOMAIN wire' : i \in Nat /\ i >= 1 /\ i + 1 \in DOMAIN wire /\ wire'[i] = wire[i + 1]
  BY <1>2
<1>4. ASSUME NEW i \in DOMAIN wire, i # 1 PROVE i > 1 /\ i - 1 \in DOMAIN wire' /\ wire'[i - 1] = wire[i]
  <2>1. i - 1 \in 1..(Len(wire) - 1) /\ (i - 1) + 1 = i /\ i > 1
    BY <1>2, <1>4
  <2>2. QED
    BY <1>2, <2>1
<1>5. QED
  BY <1>2, <1>3, <1>4

LEMMA BeforeShifts ==
  ASSUME Typed, Takes, NEW i \in Nat, i > 1, NEW t, Before(i, t)
  PROVE  Before(i - 1, t)'
<1>1. /\ 1 \in DOMAIN wire /\ Head(wire) = wire[1]
      /\ \A k \in DOMAIN wire' : k \in Nat /\ k >= 1 /\ k + 1 \in DOMAIN wire /\ wire'[k] = wire[k + 1]
      /\ \A k \in DOMAIN wire : k \in Nat /\ (k = 1 \/ (k > 1 /\ k - 1 \in DOMAIN wire' /\ wire'[k - 1] = wire[k]))
  BY TakenIs
<1>2. ASSUME NEW j \in Nat, \A k \in DOMAIN wire : j < k /\ k < i => wire[k] \in SUBSET Event,
             NEW k \in DOMAIN wire', j - 1 < k, k < i - 1
      PROVE  wire'[k] \in SUBSET Event
  <2>1. j < k + 1 /\ k + 1 < i
    BY <1>1, <1>2
  <2>2. QED
    BY <1>1, <1>2, <2>1
<1>3. CASE prevStatus = t /\ \A k \in DOMAIN wire : k < i => wire[k] \in SUBSET Event
  <2>1. wire[1] \in SUBSET Event
    BY <1>1, <1>3
  <2>2. prevStatus' = t
    BY <1>1, <1>3, <2>1, StatusIsNoBatch DEF Takes
  <2>3. \A k \in DOMAIN wire' : k < i - 1 => wire'[k] \in SUBSET Event
    <3>1. ASSUME NEW k \in DOMAIN wire', k < i - 1 PROVE wire'[k] \in SUBSET Event
      <4>1. k + 1 < i
        BY <1>1, <3>1
      <4>2. QED
        BY <1>1, <1>3, <4>1
    <3>2. QED
      BY <3>1
  <2>4. QED
    BY <2>2, <2>3 DEF Before
<1>4. ASSUME NEW j \in DOMAIN wire, j < i, IsStatus(wire[j], t),
             \A k \in DOMAIN wire : j < k /\ k < i => wire[k] \in SUBSET Event
      PROVE  Before(i - 1, t)'
  <2>1. j \in Nat /\ \A k \in DOMAIN wire' : j - 1 < k /\ k < i - 1 => wire'[k] \in SUBSET Event
    BY <1>1, <1>2, <1>4
  <2>2. CASE j = 1
    <3>1. prevStatus' = t
      BY <1>1, <1>4, <2>2, StatusIsNoBatch DEF Takes, IsStatus
    <3>2. \A k \in DOMAIN wire' : j - 1 < k
      BY <1>1, <2>2
    <3>3. QED
      BY <2>1, <3>1, <3>2 DEF Before
  <2>3. CASE j # 1
    <3>1. j - 1 \in DOMAIN wire' /\ wire'[j - 1] = wire[j] /\ j - 1 < i - 1
      BY <1>1, <1>4, <2>3
    <3>2. QED
      BY <1>4, <2>1, <3>1 DEF Before
  <2>4. QED
    BY <2>2, <2>3
<1>5. QED
  BY <1>3, <1>4 DEF Before

LEMMA WireOwnShifts ==
  ASSUME Typed, Takes, UNCHANGED starts, NEW s \in Scopes, NEW i \in Nat, WireOwn(s, i)
  PROVE  WireOwn(s, i - 1)' /\ WireOwn(s, i)'
<1>1. \A k \in DOMAIN wire' : k \in Nat /\ k >= 1 /\ k + 1 \in DOMAIN wire /\ wire'[k] = wire[k + 1]
  BY TakenIs
<1>2. ASSUME NEW k \in DOMAIN wire', k >= i - 1 PROVE ~Stale(wire'[k], s, starts[s])
  <2>1. k + 1 >= i
    BY <1>1, <1>2
  <2>2. QED
    BY <1>1, <2>1 DEF WireOwn
<1>3. \A k \in DOMAIN wire' : k >= i => k >= i - 1
  BY <1>1
<1>4. QED
  BY <1>2, <1>3 DEF WireOwn

LEMMA TakesSays ==
  ASSUME Typed, Takes, UNCHANGED <<loop, starts, buffer>>, NEW s \in Scopes, LoopSays(s)
  PROVE  LoopSays(s)'
<1>1. Before(Len(wire) + 1, "reconnecting") => Before(Len(wire) + 1, "reconnecting")'
  <2> SUFFICES ASSUME Before(Len(wire) + 1, "reconnecting")
               PROVE  Before(Len(wire) + 1, "reconnecting")'
    OBVIOUS
  <2>1. PICK i : i = Len(wire) + 1
    OBVIOUS
  <2>2. i \in Nat /\ i > 1 /\ i - 1 = Len(wire') + 1
    <3>1. Len(wire) = Len(wire') + 1 /\ Len(wire') \in Nat
      BY TakenIs
    <3>2. QED
      BY <2>1, <3>1
  <2>3. PICK t : t = "reconnecting"
    OBVIOUS
  <2>4. Before(i - 1, t)'
    BY <2>1, <2>2, <2>3, BeforeShifts
  <2>5. QED
    BY <2>2, <2>3, <2>4
<1>2. Buffer!Filled' = Buffer!Filled
  BY DEF Buffer!Filled
<1>3. QED
  BY <1>1, <1>2 DEF LoopSays

(* The announcement is on the wire still, or has just been handled. *)
LEMMA SaidShifts ==
  ASSUME Typed, Takes, UNCHANGED starts, NEW s \in Scopes, Said(s)
  PROVE  \/ Said(s)'
         \/ /\ IsStatus(Head(wire), "connected") /\ prevStatus = "reconnecting"
            /\ WireOwn(s, 1)'
<1>1. PICK i \in DOMAIN wire : IsStatus(wire[i], "connected") /\ Before(i, "reconnecting") /\ WireOwn(s, i)
  BY DEF Said
<1>2. /\ Head(wire) = wire[1] /\ i \in Nat
      /\ \A k \in DOMAIN wire : k \in Nat /\ (k = 1 \/ k > 1)
      /\ i = 1 \/ (i > 1 /\ i - 1 \in DOMAIN wire' /\ wire'[i - 1] = wire[i])
  BY TakenIs
<1>3. CASE i = 1
  <2>1. prevStatus = "reconnecting"
    BY <1>1, <1>2, <1>3 DEF Before
  <2>2. WireOwn(s, 1)'
    BY <1>1, <1>3, WireOwnShifts
  <2>3. QED
    BY <1>1, <1>2, <1>3, <2>1, <2>2
<1>4. CASE i # 1
  <2>1. PICK t : t = "reconnecting"
    OBVIOUS
  <2>2. Before(i - 1, t)'
    BY <1>1, <1>2, <1>4, <2>1, BeforeShifts
  <2>3. WireOwn(s, i - 1)'
    BY <1>1, <1>2, WireOwnShifts
  <2>4. QED
    BY <1>1, <1>2, <1>4, <2>1, <2>2, <2>3 DEF Said
<1>5. QED
  BY <1>3, <1>4

LEMMA BatchAnnounced ==
  ASSUME Typed, NEW s \in Scopes, Announced(s), HandleBatch
  PROVE  Announced(s)'
<1>1. /\ UNCHANGED <<loop, starts, silent, buffer, prevStatus, reconcile, fetch, failed, synced>>
      /\ Takes /\ Head(wire) \in SUBSET Event
      /\ journal' = IF fetch.on THEN Append(journal, Head(wire)) ELSE journal
  BY DEF HandleBatch, Takes, backend, trigger
<1>2. LoopSays(s)'
  BY <1>1, TakesSays DEF Announced
<1>3. Pending(s)'
  <2> SUFFICES ASSUME starts[s] > 1, s \notin silent
               PROVE  SlotsOwn(s)' /\ (Said(s)' \/ (reconcile /\ WireOwn(s, 1)') \/ Listing(s)')
    BY <1>1 DEF Pending
  <2>1. SlotsOwn(s) /\ (Said(s) \/ (reconcile /\ WireOwn(s, 1)) \/ Listing(s))
    BY DEF Announced, Pending
  <2>2. SlotsOwn(s)'
    BY <1>1, <2>1 DEF SlotsOwn
  <2>3. Said(s) => Said(s)'
    BY <1>1, SaidShifts, StatusIsNoBatch DEF IsStatus
  <2>4. WireOwn(s, 1) => WireOwn(s, 1)'
    BY <1>1, WireOwnShifts
  <2>5. Listing(s) => Listing(s)'
    <3> SUFFICES ASSUME Listing(s) PROVE Listing(s)'
      OBVIOUS
    <3>1. ~Stale(Head(wire), s, starts[s])
      <4>1. 1 \in DOMAIN wire /\ Head(wire) = wire[1] /\ 1 >= 1
        BY <1>1, TakenIs
      <4>2. QED
        BY <4>1 DEF Listing, WireOwn
    <3>2. \A i \in DOMAIN journal' : (i \in DOMAIN journal /\ journal'[i] = journal[i]) \/ journal'[i] = Head(wire)
      <4>1. journal \in Seq(SUBSET Event)
        BY DEF Typed, TrafficTyped
      <4>2. CASE fetch.on
        <5>1. journal' = Append(journal, Head(wire))
          BY <1>1, <4>2
        <5>2. QED
          BY <4>1, <5>1
      <4>3. CASE ~fetch.on
        BY <1>1, <4>3
      <4>4. QED
        BY <4>2, <4>3
    <3>3. \A i \in DOMAIN journal' : ~Stale(journal'[i], s, starts[s])
      BY <3>1, <3>2 DEF Listing
    <3>4. QED
      BY <1>1, <2>4, <3>3 DEF Listing
  <2>6. QED
    BY <2>1, <2>2, <2>3, <2>4, <2>5
<1>4. QED
  BY <1>2, <1>3 DEF Announced

LEMMA StatusAnnounced ==
  ASSUME Typed, NEW s \in Scopes, Announced(s), HandleStatus
  PROVE  Announced(s)'
<1>1. /\ UNCHANGED <<loop, starts, silent, buffer, fetch, journal, failed, synced>> /\ Takes
      /\ \E st \in Status : /\ Head(wire) = {st}
                            /\ reconcile' = (reconcile \/ (prevStatus = "reconnecting" /\ st.type = "connected"))
  BY DEF HandleStatus, Takes, backend, view
<1>2. LoopSays(s)'
  BY <1>1, TakesSays DEF Announced
<1>3. Pending(s)'
  <2> SUFFICES ASSUME starts[s] > 1, s \notin silent
               PROVE  SlotsOwn(s)' /\ (Said(s)' \/ (reconcile' /\ WireOwn(s, 1)') \/ Listing(s)')
    BY <1>1 DEF Pending
  <2>1. SlotsOwn(s) /\ (Said(s) \/ (reconcile /\ WireOwn(s, 1)) \/ Listing(s))
    BY DEF Announced, Pending
  <2>2. SlotsOwn(s)'
    BY <1>1, <2>1 DEF SlotsOwn
  <2>3. WireOwn(s, 1) => WireOwn(s, 1)'
    BY <1>1, WireOwnShifts
  <2>4. Said(s) => Said(s)' \/ (reconcile' /\ WireOwn(s, 1)')
    <3>1. IsStatus(Head(wire), "connected") /\ prevStatus = "reconnecting" => reconcile'
      BY <1>1 DEF IsStatus
    <3>2. QED
      BY <1>1, <3>1, SaidShifts
  <2>5. reconcile => reconcile'
    BY <1>1
  <2>6. Listing(s) => Listing(s)'
    BY <1>1, <2>3 DEF Listing
  <2>7. QED
    BY <2>1, <2>2, <2>3, <2>4, <2>5, <2>6
<1>4. QED
  BY <1>2, <1>3 DEF Announced

(* A step of the view that leaves the wire alone: a list that follows the  *)
(* restart goes on, ends, or gives way to a later one.                     *)
LEMMA ListingAnnounced ==
  ASSUME NEW s \in Scopes, Announced(s),
         UNCHANGED <<loop, starts, silent, buffer, wire, prevStatus>>,
         starts[s] > 1 /\ SlotsOwn(s) /\ WireOwn(s, 1) /\ reconcile => reconcile' \/ Listing(s)',
         starts[s] > 1 /\ SlotsOwn(s) /\ Listing(s) => Listing(s)'
  PROVE  Announced(s)'
<1>1. LoopSays(s)'
  BY LoopSaysSame DEF Announced
<1>2. /\ SlotsOwn(s)' <=> SlotsOwn(s)
      /\ Said(s)' <=> Said(s)
      /\ WireOwn(s, 1)' <=> WireOwn(s, 1)
  BY DEF SlotsOwn, Said, Before, WireOwn
<1>3. QED
  BY <1>1, <1>2 DEF Announced, Pending

LEMMA ViewAnnounced ==
  ASSUME Typed, TrafficKnown, NEW s \in Scopes, Scopes = {s}, Announced(s),
         \/ ReconcileFires \/ Refresh \/ ListFails \/ ListDone \/ ListRead(s)
         \/ \E S \in SUBSET Uids : PageArrives(S)
  PROVE  Announced(s)'
<1>1. UNCHANGED <<loop, starts, silent, buffer, wire, prevStatus>>
  BY DEF ReconcileFires, Refresh, ListFails, ListDone, ListRead, PageArrives, backend, trigger
<1>2. WireOwn(s, 1) => WireOwn(s, 1)'
  BY <1>1 DEF WireOwn
<1>3. DOMAIN <<>> = {}
  OBVIOUS
<1>4. CASE ReconcileFires \/ Refresh
  <2>1. fetch' = NewFetch /\ journal' = <<>> /\ (reconcile' = reconcile \/ ReconcileFires)
    BY <1>4 DEF ReconcileFires, Refresh, StartFetch, trigger
  <2>2. fetch'.on /\ fetch'.read = {}
    BY <2>1 DEF NewFetch
  <2>3. WireOwn(s, 1) => Listing(s)'
    BY <1>2, <1>3, <2>1, <2>2 DEF Listing
  <2>4. QED
    BY <1>1, <2>3, ListingAnnounced DEF Listing
<1>5. CASE ListFails
  <2>1. /\ fetch' = NoFetch /\ journal' = <<>> /\ failed' = TRUE /\ reconcile' = reconcile
    BY <1>5 DEF ListFails, trigger
  <2>2. Listing(s) => Listing(s)'
    BY <1>2, <1>3, <2>1 DEF Listing, NoFetch, NewFetch
  <2>3. QED
    BY <1>1, <2>1, <2>2, ListingAnnounced
<1>6. CASE ListDone
  <2>1. /\ fetch' = NoFetch /\ journal' = <<>> /\ reconcile' = reconcile /\ fetch.on /\ fetch.read = Scopes
        /\ synced' = {t \in Scopes : starts[t] > 0 /\ fetch.readAt[t] = starts[t] /\ ~OlderInFlight(t)}
    BY <1>6 DEF ListDone, trigger
  <2>2. ASSUME starts[s] > 1, SlotsOwn(s), Listing(s) PROVE Listing(s)'
    <3>1. ~OlderInFlight(s)
      <4> SUFFICES ASSUME NEW e \in InFlight, ScopeOf[e.uid] = s, e.start < starts[s] PROVE FALSE
        BY DEF OlderInFlight
      <4>1. CASE \E k \in Buffer!Filled : e = buffer[k]
        BY <2>2, <4>1 DEF SlotsOwn, Stale, Buffer!Filled, Typed, TrafficTyped
      <4>2. CASE \E i \in DOMAIN journal : e \in journal[i]
        BY <2>2, <4>2 DEF Listing, Stale, Typed, TrafficTyped
      <4>3. CASE \E i \in DOMAIN wire : e \in wire[i] \cap Event
        <5>1. PICK i \in DOMAIN wire : e \in wire[i] /\ e \in Event
          BY <4>3
        <5>2. i >= 1
          BY DEF Typed, TrafficTyped
        <5>3. QED
          BY <2>2, <5>1, <5>2 DEF Listing, WireOwn, Stale
      <4>4. QED
        BY <4>1, <4>2, <4>3 DEF InFlight
    <3>2. starts[s] > 0
      BY <2>2 DEF Typed, BackTyped
    <3>3. s \in synced'
      BY <2>1, <2>2, <3>1, <3>2 DEF Listing
    <3>4. QED
      BY <1>2, <1>3, <2>1, <2>2, <3>3 DEF Listing, NoFetch, NewFetch
  <2>3. QED
    BY <1>1, <2>1, <2>2, ListingAnnounced
<1>7. CASE ListRead(s)
  <2>1. /\ UNCHANGED <<journal, failed, synced, reconcile>>
        /\ fetch.on /\ fetch'.on /\ fetch'.readAt = [fetch.readAt EXCEPT ![s] = starts[s]]
    BY <1>7, ListReadIs DEF ListRead, trigger
  <2>2. fetch'.readAt[s] = starts[s]
    BY <2>1 DEF Typed, ViewTyped, FetchState
  <2>3. Listing(s) => Listing(s)'
    BY <1>1, <1>2, <2>1, <2>2 DEF Listing
  <2>4. QED
    BY <1>1, <2>1, <2>3, ListingAnnounced
<1>8. CASE \E S \in SUBSET Uids : PageArrives(S)
  <2>1. UNCHANGED <<journal, failed, synced, reconcile, fetch>>
    BY <1>8 DEF PageArrives, trigger
  <2>2. Listing(s) => Listing(s)'
    BY <1>1, <1>2, <2>1 DEF Listing
  <2>3. QED
    BY <1>1, <2>1, <2>2, ListingAnnounced
<1>9. QED
  BY <1>4, <1>5, <1>6, <1>7, <1>8

LEMMA InitAnnounced == ASSUME Init, NEW s \in Scopes PROVE Announced(s)
<1>1. starts[s] = 0 /\ loop[s].pc = "connecting"
  BY DEF Init
<1>2. QED
  BY <1>1 DEF Announced, Pending, LoopSays

LEMMA NextAnnounced ==
  ASSUME Typed, TrafficKnown, [Next]_vars, NEW s \in Scopes, Scopes = {s}, Announced(s)
  PROVE  Announced(s)'
<1>1. CASE \E c \in Change : ClusterChanges(c)
  BY <1>1, ClusterAnnounced
<1>2. CASE Connect(s) \/ Deliver(s) \/ Bookmark(s) \/ StreamCloses(s) \/ BackoffEnds(s)
  BY <1>2, ConnectAnnounced, DeliverAnnounced, StopAnnounced, QuietLoopAnnounced
<1>3. CASE \E u \in Uids : DeliverFresh(s, u)
  BY <1>3, DeliverFreshAnnounced
<1>4. CASE \E f \in Faults : StartFails(s, f) \/ StreamError(s, f)
  BY <1>4, StopAnnounced, QuietLoopAnnounced
<1>5. CASE Frame
  BY <1>5, FrameAnnounced
<1>6. CASE HandleBatch
  BY <1>6, BatchAnnounced
<1>7. CASE HandleStatus
  BY <1>7, StatusAnnounced
<1>8. CASE \/ ReconcileFires \/ Refresh \/ ListFails \/ ListDone \/ ListRead(s)
           \/ \E S \in SUBSET Uids : PageArrives(S)
  BY <1>8, ViewAnnounced
<1>9. CASE UNCHANGED vars
  <2>1. UNCHANGED <<loop, starts, silent, buffer, wire, prevStatus, reconcile, fetch, journal, failed, synced>>
    BY <1>9 DEF vars, backend, view, trigger
  <2>2. SlotsOwn(s) => SlotsOwn(s)'
    BY <2>1 DEF SlotsOwn
  <2>3. QED
    BY <2>1, <2>2, PendingPosts, LoopSaysSame DEF Announced
<1>10. QED
  BY <1>1, <1>2, <1>3, <1>4, <1>5, <1>6, <1>7, <1>8, <1>9 DEF Next

(* Lists, and announced restarts: in a view with one watch the rows add up  *)
(* whenever everything has been handled, after a list that followed the     *)
(* watch and after every restart the loop announced, whatever happened to   *)
(* streams, events and requests meanwhile.  With several namespaces the     *)
(* second half does not hold: the frontend keeps one status for them all.   *)
THEOREM RowsAlwaysExact ==
  ASSUME \A s, t \in Scopes : s = t
  PROVE  Spec => []RowsExact
<1> DEFINE AllAnnounced == \A s \in Scopes : Announced(s)
<1>1. Init => FeedInv /\ AllAnnounced
  BY InitInv, InitAnnounced
<1>2. FeedInv /\ AllAnnounced /\ [Next]_vars => FeedInv' /\ AllAnnounced'
  <2> SUFFICES ASSUME FeedInv, AllAnnounced, [Next]_vars PROVE FeedInv' /\ AllAnnounced'
    OBVIOUS
  <2>1. FeedInv'
    BY NextInv
  <2>2. ASSUME NEW s \in Scopes PROVE Announced(s)'
    <3>1. Scopes = {s}
      OBVIOUS
    <3>2. QED
      BY <3>1, NextAnnounced DEF FeedInv
  <2>3. QED
    BY <2>1, <2>2
<1>3. FeedInv /\ AllAnnounced => RowsExact
  <2> SUFFICES ASSUME FeedInv, AllAnnounced PROVE RowsExact
    OBVIOUS
  <2>1. ASSUME Quiescent, NEW u \in Uids, ScopeOf[u] \in synced PROVE Fresh(u)
    <3>1. Settled(u)
      BY <2>1, QuiescentSettles DEF FeedInv
    <3>2. QED
      BY <2>1, <3>1, FreshIs DEF FeedInv, Values, RowsFresh
  <2>2. ASSUME Quiescent, ~failed, NEW u \in Uids, Restarted(ScopeOf[u]), ScopeOf[u] \notin silent
        PROVE  ScopeOf[u] \in synced
    <3>1. PICK s \in Scopes : s = ScopeOf[u]
      BY Scoping
    <3>2. Said(s) \/ (reconcile /\ WireOwn(s, 1)) \/ Listing(s)
      BY <2>2, <3>1 DEF Announced, Pending, Restarted
    <3>3. DOMAIN wire = {} /\ ~reconcile /\ ~fetch.on
      BY <2>2 DEF Quiescent
    <3>4. QED
      BY <2>2, <3>1, <3>2, <3>3 DEF Said, Listing
  <2>3. QED
    BY <2>1, <2>2 DEF RowsExact, SyncedConverges, AnnouncedRestartIsReconciled
<1>4. QED
  BY <1>1, <1>2, <1>3, PTL DEF Spec

=============================================================================
