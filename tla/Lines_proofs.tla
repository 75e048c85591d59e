---------------------------- MODULE Lines_proofs ----------------------------
(***************************************************************************)
(* Proofs about the lines that the log viewer shows: those of pages, for any *)
(* logs, any size of a page and any number of pages to a poll; and those of *)
(* the stream of several containers, for any logs and any channel.         *)
(* FrontendInvariants has the invariants.                                  *)
(***************************************************************************)
EXTENDS FrontendInvariants, FiniteSetTheorems, NaturalsInduction, TLAPS

-----------------------------------------------------------------------------
(***************************************************************************)
(* Numbers in sets and sequences.                                          *)
(***************************************************************************)

Below(S, x) == {y \in S : y < x}
InOrder(S) == [i \in 1 .. Cardinality(S) |-> CHOOSE x \in S : Cardinality({y \in S : y < x}) = i - 1]

(* Of numbers in a finite set, the greater one has more below it. *)
LEMMA BelowIs ==
  ASSUME NEW S \in SUBSET Nat, IsFiniteSet(S)
  PROVE  /\ \A x : IsFiniteSet(Below(S, x)) /\ Cardinality(Below(S, x)) \in Nat
                   /\ Cardinality(Below(S, x)) <= Cardinality(S)
         /\ \A x \in S : Cardinality(Below(S, x)) < Cardinality(S)
         /\ \A x, z \in S : x < z <=> Cardinality(Below(S, x)) < Cardinality(Below(S, z))
<1>1. ASSUME NEW x PROVE IsFiniteSet(Below(S, x)) /\ Cardinality(Below(S, x)) \in Nat
                         /\ Cardinality(Below(S, x)) <= Cardinality(S)
  <2>1. Below(S, x) \in SUBSET S
    BY DEF Below
  <2>2. QED
    BY <2>1, FS_Subset, FS_CardinalityType
<1>2. Cardinality(S) \in Nat
  BY FS_CardinalityType
<1>3. ASSUME NEW x \in S PROVE Cardinality(Below(S, x)) < Cardinality(S)
  <2>1. Below(S, x) \in SUBSET S /\ x \notin Below(S, x)
    BY DEF Below
  <2>2. Below(S, x) # S
    BY <2>1
  <2>3. Cardinality(Below(S, x)) # Cardinality(S)
    BY <2>1, <2>2, FS_Subset
  <2>4. QED
    BY <1>1, <1>2, <2>3
<1>4. ASSUME NEW x \in S, NEW z \in S, x < z
      PROVE  Cardinality(Below(S, x)) < Cardinality(Below(S, z))
  <2>1. Below(S, x) \in SUBSET Below(S, z)
    <3>1. \A y \in S : y < x => y < z
      BY <1>4
    <3>2. QED
      BY <3>1 DEF Below
  <2>2. Below(S, x) # Below(S, z)
    BY <1>4 DEF Below
  <2>3. /\ Cardinality(Below(S, x)) <= Cardinality(Below(S, z))
        /\ Cardinality(Below(S, x)) # Cardinality(Below(S, z))
    BY <1>1, <2>1, <2>2, FS_Subset
  <2>4. QED
    BY <1>1, <2>3
<1>5. ASSUME NEW x \in S, NEW z \in S, Cardinality(Below(S, x)) < Cardinality(Below(S, z))
      PROVE  x < z
  <2>1. CASE z < x
    BY <1>1, <1>4, <1>5, <2>1
  <2>2. CASE x = z
    BY <1>1, <1>5, <2>2
  <2>3. QED
    BY <2>1, <2>2
<1>6. QED
  BY <1>1, <1>3, <1>4, <1>5

(* For each rank there is one. *)
LEMMA RankIs ==
  ASSUME NEW S \in SUBSET Nat, IsFiniteSet(S), NEW i \in 1 .. Cardinality(S)
  PROVE  \E x \in S : Cardinality(Below(S, x)) = i - 1
<1>1. PICK n \in Nat : n = Cardinality(S)
  BY FS_CardinalityType
<1>2. PICK rank : rank = [x \in S |-> Cardinality(Below(S, x)) + 1]
  OBVIOUS
<1>3. rank \in [S -> 1 .. n]
  BY <1>1, <1>2, BelowIs
<1>4. \A x, z \in S : rank[x] = rank[z] => x = z
  <2>1. SUFFICES ASSUME NEW x \in S, NEW z \in S, rank[x] = rank[z], x < z PROVE FALSE
    OBVIOUS
  <2>2. Cardinality(Below(S, x)) < Cardinality(Below(S, z)) /\ {Cardinality(Below(S, x)), Cardinality(Below(S, z))} \subseteq Nat
    BY <2>1, BelowIs
  <2>3. QED
    BY <1>2, <2>1, <2>2
<1>5. rank \in Injection(S, 1 .. n)
  BY <1>3, <1>4 DEF Injection, IsInjective
<1>6. IsFiniteSet(1 .. n) /\ Cardinality(1 .. n) = n
  BY FS_Interval
<1>7. rank \in Surjection(S, 1 .. n)
  BY <1>1, <1>5, <1>6, FS_Injection
<1>8. PICK x \in S : rank[x] = i
  BY <1>1, <1>7 DEF Surjection
<1>9. Cardinality(Below(S, x)) \in Nat
  BY BelowIs
<1>10. QED
  BY <1>2, <1>8, <1>9

(* What sorting a set makes of it. *)
LEMMA InOrderIs ==
  ASSUME NEW S \in SUBSET Nat, IsFiniteSet(S)
  PROVE  /\ InOrder(S) \in Seq(S) /\ Len(InOrder(S)) = Cardinality(S)
         /\ DOMAIN InOrder(S) = 1 .. Cardinality(S) /\ Increasing(InOrder(S))
         /\ \A x : x \in S <=> \E i \in DOMAIN InOrder(S) : InOrder(S)[i] = x
<1>1. PICK n \in Nat : n = Cardinality(S)
  BY FS_CardinalityType
<1>2. PICK s : s = InOrder(S)
  OBVIOUS
<1>3. s = [i \in 1 .. n |-> CHOOSE x \in S : Cardinality(Below(S, x)) = i - 1]
  BY <1>1, <1>2 DEF InOrder, Below
<1>4. \A i \in 1 .. n : s[i] \in S /\ Cardinality(Below(S, s[i])) = i - 1
  BY <1>1, <1>3, RankIs
<1>5. s \in Seq(S) /\ Len(s) = n /\ DOMAIN s = 1 .. n
  BY <1>3, <1>4
<1>6. Increasing(s)
  <2>1. ASSUME NEW i \in 1 .. n, NEW j \in 1 .. n, i < j PROVE s[i] < s[j]
    <3>1. PICK x \in S : x = s[i] /\ Cardinality(Below(S, x)) = i - 1
      BY <1>4
    <3>2. PICK y \in S : y = s[j] /\ Cardinality(Below(S, y)) = j - 1
      BY <1>4
    <3>3. x < y
      BY <2>1, <3>1, <3>2, BelowIs
    <3>4. QED
      BY <3>1, <3>2, <3>3
  <2>2. QED
    BY <1>5, <2>1 DEF Increasing
<1>7. ASSUME NEW x \in S PROVE \E i \in 1 .. n : s[i] = x
  <2>1. PICK k \in 1 .. n : Cardinality(Below(S, x)) = k - 1
    <3>1. PICK m \in Nat : m = Cardinality(Below(S, x)) /\ m < n
      BY <1>1, BelowIs
    <3>2. m + 1 \in 1 .. n /\ m = (m + 1) - 1
      BY <3>1
    <3>3. QED
      BY <3>1, <3>2
  <2>2. PICK y \in S : y = s[k] /\ Cardinality(Below(S, y)) = k - 1
    BY <1>4
  <2>3. y = x
    <3>1. ~(x < y) /\ ~(y < x)
      BY <2>1, <2>2, BelowIs
    <3>2. QED
      BY <3>1
  <2>4. QED
    BY <2>1, <2>2, <2>3
<1>8. QED
  BY <1>1, <1>2, <1>4, <1>5, <1>6, <1>7

(* A set of numbers has a least one. *)
LEMMA LeastNumber ==
  ASSUME NEW T \in SUBSET Nat, T # {}
  PROVE  \E m \in T : \A k \in T : m <= k
<1>1. IsWellFoundedOn(OpToRel(<,Nat), Nat)
  BY NatLessThanWellFounded, Zenon
<1>2. PICK m \in T : \A k \in T : ~(<<k, m>> \in OpToRel(<,Nat))
  BY <1>1, WFMin, Zenon
<1>3. \A k \in T : ~(k < m)
  BY <1>2 DEF OpToRel
<1>4. QED
  BY <1>3

(* The elements of sequences that are put together, taken apart or sorted. *)
LEMMA AppendElems ==
  ASSUME NEW S, NEW s \in Seq(S), NEW x \in S
  PROVE  /\ Elems(Append(s, x)) = Elems(s) \cup {x}
         /\ Distinct(s) /\ x \notin Elems(s) => Distinct(Append(s, x))
<1>1. PICK n \in Nat : n = Len(s) /\ DOMAIN s = 1 .. n
  OBVIOUS
<1>2. PICK t : t = Append(s, x) /\ t \in Seq(S)
  <2>1. Append(s, x) \in Seq(S)
    OBVIOUS
  <2>2. QED
    BY <2>1
<1>3. DOMAIN t = 1 .. (n + 1) /\ t[n + 1] = x /\ \A i \in 1 .. n : t[i] = s[i]
  BY <1>1, <1>2
<1>4. \A i \in 1 .. (n + 1) : i \in 1 .. n \/ i = n + 1
  BY <1>1
<1>5. (1 .. n) \subseteq 1 .. (n + 1) /\ n + 1 \in 1 .. (n + 1)
  BY <1>1
<1>6. Elems(t) = Elems(s) \cup {x}
  BY <1>1, <1>3, <1>4, <1>5 DEF Elems
<1>7. ASSUME Distinct(s), x \notin Elems(s) PROVE Distinct(t)
  BY <1>1, <1>3, <1>4, <1>7 DEF Elems, Distinct
<1>8. QED
  BY <1>2, <1>6, <1>7

LEMMA TailElems ==
  ASSUME NEW S, NEW s \in Seq(S), s # <<>>, Distinct(s)
  PROVE  /\ Tail(s) \in Seq(S) /\ Head(s) \in S /\ Len(Tail(s)) <= Len(s)
         /\ Elems(s) = Elems(Tail(s)) \cup {Head(s)}
         /\ Head(s) \notin Elems(Tail(s)) /\ Distinct(Tail(s))
<1>1. PICK n \in Nat : n = Len(s) /\ DOMAIN s = 1 .. n /\ n # 0
  OBVIOUS
<1>2. PICK t : t = Tail(s) /\ t \in Seq(S)
  <2>1. Tail(s) \in Seq(S)
    OBVIOUS
  <2>2. QED
    BY <2>1
<1>3. DOMAIN t = 1 .. (n - 1) /\ Len(t) = n - 1 /\ Head(s) = s[1] /\ \A i \in 1 .. (n - 1) : t[i] = s[i + 1]
  BY <1>1, <1>2
<1>4. \A i \in 1 .. n : i = 1 \/ \E j \in 1 .. (n - 1) : i = j + 1
  <2>1. ASSUME NEW i \in 1 .. n, i # 1 PROVE i - 1 \in 1 .. (n - 1) /\ i = (i - 1) + 1
    BY <1>1, <2>1
  <2>2. QED
    BY <2>1
<1>5. 1 \in 1 .. n /\ \A i \in 1 .. (n - 1) : i + 1 \in 1 .. n /\ i + 1 # 1
  BY <1>1
<1>6. Elems(s) = Elems(t) \cup {s[1]}
  <2>1. ASSUME NEW i \in 1 .. n PROVE s[i] \in Elems(t) \cup {s[1]}
    <3>1. CASE i = 1
      BY <3>1
    <3>2. ASSUME NEW j \in 1 .. (n - 1), i = j + 1 PROVE s[i] \in Elems(t)
      <4>1. t[j] = s[i]
        BY <1>3, <3>2
      <4>2. QED
        BY <1>3, <4>1 DEF Elems
    <3>3. QED
      BY <1>4, <3>1, <3>2
  <2>2. ASSUME NEW j \in 1 .. (n - 1) PROVE t[j] \in Elems(s)
    <3>1. j + 1 \in 1 .. n /\ t[j] = s[j + 1]
      BY <1>3, <1>5
    <3>2. QED
      BY <1>1, <3>1 DEF Elems
  <2>3. s[1] \in Elems(s)
    BY <1>1, <1>5 DEF Elems
  <2>4. \A x \in Elems(s) : x \in Elems(t) \cup {s[1]}
    BY <1>1, <2>1 DEF Elems
  <2>5. \A x \in Elems(t) : x \in Elems(s)
    BY <1>3, <2>2 DEF Elems
  <2>6. QED
    BY <2>3, <2>4, <2>5
<1>7. s[1] \notin Elems(t)
  BY <1>1, <1>3, <1>5 DEF Elems, Distinct
<1>8. \A i, j \in 1 .. (n - 1) : i + 1 = j + 1 => i = j
  BY <1>1
<1>9. Distinct(t)
  <2>1. ASSUME NEW i \in 1 .. (n - 1), NEW j \in 1 .. (n - 1), t[i] = t[j] PROVE i = j
    <3>1. PICK k \in 1 .. n : k = i + 1 /\ t[i] = s[k]
      BY <1>3, <1>5
    <3>2. PICK l \in 1 .. n : l = j + 1 /\ t[j] = s[l]
      BY <1>3, <1>5
    <3>3. k = l
      BY <1>1, <2>1, <3>1, <3>2 DEF Distinct
    <3>4. QED
      BY <1>8, <3>1, <3>2, <3>3
  <2>2. QED
    BY <1>3, <2>1 DEF Distinct
<1>10. s[1] \in S /\ n - 1 <= n
  BY <1>1, <1>5
<1>11. QED
  BY <1>1, <1>2, <1>3, <1>6, <1>7, <1>9, <1>10

LEMMA ConcatElems ==
  ASSUME NEW S, NEW s \in Seq(S), NEW t \in Seq(S)
  PROVE  /\ s \o t \in Seq(S) /\ Elems(s \o t) = Elems(s) \cup Elems(t)
         /\ Distinct(s) /\ Distinct(t) /\ Elems(s) \cap Elems(t) = {} => Distinct(s \o t)
<1>1. PICK n \in Nat : n = Len(s) /\ DOMAIN s = 1 .. n
  OBVIOUS
<1>2. PICK m \in Nat : m = Len(t) /\ DOMAIN t = 1 .. m
  OBVIOUS
<1>3. PICK u : u = s \o t /\ u \in Seq(S)
  <2>1. s \o t \in Seq(S)
    OBVIOUS
  <2>2. QED
    BY <2>1
<1>4. /\ DOMAIN u = 1 .. (n + m) /\ \A i \in 1 .. n : u[i] = s[i]
      /\ \A i \in 1 .. m : u[n + i] = t[i]
  BY <1>1, <1>2, <1>3
<1>5. \A i \in 1 .. (n + m) : i \in 1 .. n \/ \E j \in 1 .. m : i = n + j
  <2>1. ASSUME NEW i \in 1 .. (n + m), i \notin 1 .. n PROVE i - n \in 1 .. m /\ i = n + (i - n)
    BY <1>1, <1>2, <2>1
  <2>2. QED
    BY <2>1
<1>6. (1 .. n) \subseteq 1 .. (n + m) /\ \A j \in 1 .. m : n + j \in 1 .. (n + m)
  BY <1>1, <1>2
<1>7. Elems(u) = Elems(s) \cup Elems(t)
  <2>1. ASSUME NEW i \in 1 .. n PROVE u[i] \in Elems(s) /\ s[i] \in Elems(u)
    <3>1. u[i] = s[i] /\ i \in 1 .. (n + m)
      BY <1>4, <1>6
    <3>2. QED
      BY <1>1, <1>4, <3>1 DEF Elems
  <2>2. ASSUME NEW j \in 1 .. m PROVE u[n + j] \in Elems(t) /\ t[j] \in Elems(u)
    <3>1. PICK k \in 1 .. (n + m) : k = n + j /\ u[k] = t[j]
      BY <1>4, <1>6
    <3>2. QED
      BY <1>2, <1>4, <3>1 DEF Elems
  <2>3. ASSUME NEW i \in 1 .. (n + m) PROVE u[i] \in Elems(s) \cup Elems(t)
    BY <1>5, <2>1, <2>2
  <2>4. \A x \in Elems(u) : x \in Elems(s) \cup Elems(t)
    BY <1>4, <2>3 DEF Elems
  <2>5. \A x \in Elems(s) : x \in Elems(u)
    BY <1>1, <2>1 DEF Elems
  <2>6. \A x \in Elems(t) : x \in Elems(u)
    BY <1>2, <2>2 DEF Elems
  <2>7. QED
    BY <2>4, <2>5, <2>6
<1>8. ASSUME Distinct(s), Distinct(t), Elems(s) \cap Elems(t) = {} PROVE Distinct(u)
  <2>1. \A i \in 1 .. n : s[i] \in Elems(s)
    BY <1>1 DEF Elems
  <2>2. \A j \in 1 .. m : t[j] \in Elems(t)
    BY <1>2 DEF Elems
  <2>3. \A i \in 1 .. n, j \in 1 .. m : u[i] # u[n + j]
    BY <1>4, <1>8, <2>1, <2>2
  <2>4. \A i, j \in 1 .. n : u[i] = u[j] => i = j
    BY <1>1, <1>4, <1>8 DEF Distinct
  <2>5. ASSUME NEW i \in 1 .. m, NEW j \in 1 .. m, u[n + i] = u[n + j] PROVE i = j
    <3>1. t[i] = t[j]
      BY <1>4, <2>5
    <3>2. QED
      BY <1>2, <1>8, <3>1 DEF Distinct
  <2>6. ASSUME NEW i \in 1 .. (n + m), NEW j \in 1 .. (n + m), u[i] = u[j] PROVE i = j
    BY <1>5, <2>3, <2>4, <2>5, <2>6
  <2>7. QED
    BY <1>4, <2>6 DEF Distinct
<1>9. QED
  BY <1>3, <1>7, <1>8

LEMMA OrderedElems ==
  ASSUME NEW S \in SUBSET Nat, IsFiniteSet(S)
  PROVE  InOrder(S) \in Seq(S) /\ InOrder(S) \in Seq(Nat) /\ Elems(InOrder(S)) = S
         /\ Increasing(InOrder(S)) /\ Distinct(InOrder(S))
<1>1. PICK s \in Seq(S) : s = InOrder(S) /\ Increasing(s) /\ Elems(s) = S
  BY InOrderIs DEF Elems
<1>2. PICK n \in Nat : n = Len(s) /\ DOMAIN s = 1 .. n
  OBVIOUS
<1>3. s \in [1 .. n -> S]
  BY <1>2
<1>4. s \in [1 .. n -> Nat]
  <2>1. \A x \in S : x \in Nat
    OBVIOUS
  <2>2. QED
    BY <1>3, <2>1
<1>5. s \in Seq(Nat)
  BY <1>4
<1>6. \A i, j \in 1 .. n : i # j => i < j \/ j < i
  BY <1>2
<1>7. Distinct(s)
  BY <1>1, <1>2, <1>4, <1>6 DEF Increasing, Distinct
<1>8. QED
  BY <1>1, <1>5, <1>7

(* A sequence is as long as it has elements, if none of them comes twice. *)
LEMMA ElemsCounted ==
  ASSUME NEW S, NEW s \in Seq(S)
  PROVE  IsFiniteSet(Elems(s)) /\ (Distinct(s) => Cardinality(Elems(s)) = Len(s))
<1>1. PICK n \in Nat : n = Len(s) /\ DOMAIN s = 1 .. n
  OBVIOUS
<1>2. IsFiniteSet(1 .. n) /\ Cardinality(1 .. n) = n
  BY FS_Interval
<1>3. s \in [1 .. n -> Elems(s)]
  BY <1>1 DEF Elems
<1>4. s \in Surjection(1 .. n, Elems(s))
  BY <1>1, <1>3 DEF Surjection, Elems
<1>5. Distinct(s) => s \in Injection(1 .. n, Elems(s))
  BY <1>1, <1>3 DEF Distinct, Injection, IsInjective
<1>6. QED
  BY <1>1, <1>2, <1>4, <1>5, FS_Surjection

(* Increasing sequences one after the other. *)
LEMMA IncreasingConcat ==
  ASSUME NEW s \in Seq(Nat), NEW t \in Seq(Nat), Increasing(s), Increasing(t),
         \A x \in Elems(s), y \in Elems(t) : x < y
  PROVE  Increasing(s \o t)
<1>1. PICK n \in Nat : n = Len(s) /\ DOMAIN s = 1 .. n
  OBVIOUS
<1>2. PICK m \in Nat : m = Len(t) /\ DOMAIN t = 1 .. m
  OBVIOUS
<1>3. PICK u : u = s \o t /\ u \in Seq(Nat)
  <2>1. s \o t \in Seq(Nat)
    OBVIOUS
  <2>2. QED
    BY <2>1
<1>4. /\ DOMAIN u = 1 .. (n + m) /\ \A i \in 1 .. n : u[i] = s[i]
      /\ \A i \in 1 .. m : u[n + i] = t[i]
  BY <1>1, <1>2, <1>3
<1>5. \A i \in 1 .. (n + m) : i \in 1 .. n \/ \E j \in 1 .. m : i = n + j
  <2>1. ASSUME NEW i \in 1 .. (n + m), i \notin 1 .. n PROVE i - n \in 1 .. m /\ i = n + (i - n)
    BY <1>1, <1>2, <2>1
  <2>2. QED
    BY <2>1
<1>6. ASSUME NEW i \in 1 .. n, NEW j \in 1 .. n, i < j PROVE u[i] < u[j]
  BY <1>1, <1>4, <1>6 DEF Increasing
<1>7. ASSUME NEW i \in 1 .. n, NEW j \in 1 .. m PROVE u[i] < u[n + j]
  BY <1>1, <1>2, <1>4 DEF Elems
<1>8. ASSUME NEW i \in 1 .. m, NEW j \in 1 .. m, n + i < n + j PROVE u[n + i] < u[n + j]
  <2>1. i < j
    BY <1>1, <1>2, <1>8
  <2>2. QED
    BY <1>2, <1>4, <2>1 DEF Increasing
<1>9. ASSUME NEW i \in 1 .. (n + m), NEW j \in 1 .. (n + m), i < j PROVE u[i] < u[j]
  <2>1. CASE i \in 1 .. n /\ j \in 1 .. n
    BY <1>6, <1>9, <2>1
  <2>2. ASSUME i \in 1 .. n, NEW l \in 1 .. m, j = n + l PROVE u[i] < u[j]
    BY <1>7, <2>2
  <2>3. ASSUME NEW k \in 1 .. m, NEW l \in 1 .. m, i = n + k, j = n + l PROVE u[i] < u[j]
    BY <1>8, <1>9, <2>3
  <2>4. ASSUME NEW k \in 1 .. m, i = n + k, j \in 1 .. n PROVE FALSE
    BY <1>1, <1>2, <1>9, <2>4
  <2>5. QED
    BY <1>5, <2>1, <2>2, <2>3, <2>4
<1>10. QED
  BY <1>3, <1>4, <1>9 DEF Increasing

Above(S, x) == {y \in S : y > x}
FirstOf(S, n) == {x \in S : Cardinality(Below(S, x)) < n}
LastOf(S, n) == {x \in S : Cardinality(Above(S, x)) < n}

(* A finite set of numbers has a greatest one. *)
LEMMA GreatestNumber ==
  ASSUME NEW m \in Nat, NEW S \in SUBSET (0 .. m), S # {}
  PROVE  \E x \in S : \A y \in S : y <= x
<1>1. PICK T : T = {k \in 0 .. m : m - k \in S}
  OBVIOUS
<1>2. \A x \in S : x \in 0 .. m /\ m - x \in 0 .. m /\ m - (m - x) = x
  OBVIOUS
<1>3. T \in SUBSET Nat /\ T # {}
  <2>1. PICK x \in S : TRUE
    OBVIOUS
  <2>2. m - x \in T
    BY <1>1, <1>2, <2>1
  <2>3. \A k \in T : k \in Nat
    BY <1>1
  <2>4. QED
    BY <2>2, <2>3
<1>4. PICK k \in T : \A j \in T : k <= j
  BY <1>3, LeastNumber
<1>5. m - k \in S /\ k \in 0 .. m
  BY <1>1, <1>4
<1>6. \A y \in S : m - y \in T /\ k <= m - y
  BY <1>1, <1>2, <1>4
<1>7. \A y \in S : y <= m - k
  <2>1. ASSUME NEW y \in S PROVE y <= m - k
    <3>1. y \in 0 .. m /\ k <= m - y
      BY <1>6
    <3>2. QED
      BY <1>5, <3>1
  <2>2. QED
    BY <2>1
<1>8. QED
  BY <1>5, <1>7

(* The first n of a set: whatever is not among them comes after n of them. *)
LEMMA FirstIs ==
  ASSUME NEW S \in SUBSET Nat, IsFiniteSet(S), NEW n \in Nat
  PROVE  /\ FirstOf(S, n) \subseteq S /\ IsFiniteSet(FirstOf(S, n))
         /\ \A x \in FirstOf(S, n), y \in S : y < x => y \in FirstOf(S, n)
         /\ Cardinality(S) <= n => FirstOf(S, n) = S
         /\ \A y \in S \ FirstOf(S, n) :
              \E D \in SUBSET FirstOf(S, n) : (\A z \in D : z < y) /\ Cardinality(D) >= n
<1>1. PICK F : F = FirstOf(S, n)
  OBVIOUS
<1>2. F \subseteq S /\ IsFiniteSet(F)
  <2>1. F \subseteq S
    BY <1>1 DEF FirstOf
  <2>2. QED
    BY <2>1, FS_Subset
<1>3. \A x : Cardinality(Below(S, x)) \in Nat
  BY BelowIs
<1>4. ASSUME NEW x \in F, NEW y \in S, y < x PROVE y \in F
  <2>1. Cardinality(Below(S, y)) < Cardinality(Below(S, x)) /\ Cardinality(Below(S, x)) < n
    BY <1>1, <1>2, <1>4, BelowIs DEF FirstOf
  <2>2. Cardinality(Below(S, y)) < n
    BY <1>3, <2>1
  <2>3. QED
    BY <1>1, <2>2 DEF FirstOf
<1>5. ASSUME Cardinality(S) <= n PROVE F = S
  <2>1. \A x \in S : Cardinality(Below(S, x)) < n
    BY <1>3, <1>5, BelowIs, FS_CardinalityType
  <2>2. QED
    BY <1>1, <2>1 DEF FirstOf
<1>6. ASSUME NEW y \in S \ F
      PROVE  \E D \in SUBSET F : (\A z \in D : z < y) /\ Cardinality(D) >= n
  <2>1. PICK x \in S \ F : \A z \in S \ F : x <= z
    BY LeastNumber, <1>6
  <2>2. Below(S, x) \in SUBSET F
    <3>1. ASSUME NEW z \in S, z < x PROVE z \in F
      BY <2>1, <3>1
    <3>2. QED
      BY <3>1 DEF Below
  <2>3. \A z \in Below(S, x) : z < y
    <3>1. x <= y /\ {x, y} \subseteq Nat
      BY <2>1
    <3>2. ASSUME NEW z \in S, z < x PROVE z < y
      <4>1. z \in Nat
        OBVIOUS
      <4>2. QED
        BY <3>1, <3>2, <4>1
    <3>3. QED
      BY <3>2 DEF Below
  <2>4. Cardinality(Below(S, x)) >= n
    <3>1. ~(Cardinality(Below(S, x)) < n)
      BY <1>1, <2>1 DEF FirstOf
    <3>2. QED
      BY <1>3, <3>1
  <2>5. QED
    BY <2>2, <2>3, <2>4
<1>7. QED
  BY <1>1, <1>2, <1>4, <1>5, <1>6

(* The last n of a set: whatever is not among them comes before n of them. *)
LEMMA LastIs ==
  ASSUME NEW m \in Nat, NEW S \in SUBSET (0 .. m), NEW n \in Nat
  PROVE  /\ LastOf(S, n) \subseteq S
         /\ \A x \in LastOf(S, n), y \in S : y > x => y \in LastOf(S, n)
         /\ Cardinality(S) <= n => LastOf(S, n) = S
         /\ \A y \in S \ LastOf(S, n) :
              \E D \in SUBSET LastOf(S, n) : (\A z \in D : y < z) /\ Cardinality(D) >= n
<1>1. PICK F : F = LastOf(S, n)
  OBVIOUS
<1>2. F \subseteq S
  BY <1>1 DEF LastOf
<1>3. IsFiniteSet(S) /\ \A x \in S : x \in Nat
  <2>1. IsFiniteSet(0 .. m)
    BY FS_Interval
  <2>2. IsFiniteSet(S)
    BY <2>1, FS_Subset
  <2>3. QED
    BY <2>2
<1>4. \A x : Above(S, x) \in SUBSET S /\ Cardinality(Above(S, x)) \in Nat
             /\ Cardinality(Above(S, x)) <= Cardinality(S)
  <2>1. ASSUME NEW x PROVE Above(S, x) \in SUBSET S
    BY DEF Above
  <2>2. QED
    BY <1>3, <2>1, FS_Subset, FS_CardinalityType
<1>5. ASSUME NEW x \in F, NEW y \in S, y > x PROVE y \in F
  <2>1. Above(S, y) \in SUBSET Above(S, x)
    <3>1. \A z \in S : z > y => z > x
      BY <1>2, <1>3, <1>5
    <3>2. QED
      BY <3>1 DEF Above
  <2>2. IsFiniteSet(Above(S, x))
    BY <1>3, <1>4, FS_Subset
  <2>3. Cardinality(Above(S, y)) <= Cardinality(Above(S, x))
    BY <2>1, <2>2, FS_Subset
  <2>4. Cardinality(Above(S, x)) < n
    BY <1>1 DEF LastOf
  <2>5. Cardinality(Above(S, y)) < n
    BY <1>4, <2>3, <2>4
  <2>6. QED
    BY <1>1, <2>5 DEF LastOf
<1>6. ASSUME Cardinality(S) <= n PROVE F = S
  <2>1. ASSUME NEW x \in S PROVE Cardinality(Above(S, x)) < n
    <3>1. x \notin Above(S, x)
      BY <1>3 DEF Above
    <3>2. Cardinality(Above(S, x)) # Cardinality(S)
      BY <1>3, <1>4, <3>1, FS_Subset
    <3>3. Cardinality(S) \in Nat
      BY <1>3, FS_CardinalityType
    <3>4. QED
      BY <1>4, <1>6, <3>2, <3>3
  <2>2. QED
    BY <1>1, <2>1 DEF LastOf
<1>7. ASSUME NEW y \in S \ F
      PROVE  \E D \in SUBSET F : (\A z \in D : y < z) /\ Cardinality(D) >= n
  <2>1. PICK x \in S \ F : \A z \in S \ F : z <= x
    BY GreatestNumber, <1>7
  <2>2. Above(S, x) \in SUBSET F
    <3>1. ASSUME NEW z \in S, z > x PROVE z \in F
      BY <1>3, <2>1, <3>1
    <3>2. QED
      BY <3>1 DEF Above
  <2>3. \A z \in Above(S, x) : y < z
    <3>1. y <= x /\ {x, y} \subseteq Nat
      BY <1>3, <2>1
    <3>2. ASSUME NEW z \in S, z > x PROVE y < z
      <4>1. z \in Nat
        BY <1>3
      <4>2. QED
        BY <3>1, <3>2, <4>1
    <3>3. QED
      BY <3>2 DEF Above
  <2>4. Cardinality(Above(S, x)) >= n
    <3>1. ~(Cardinality(Above(S, x)) < n)
      BY <1>1, <2>1 DEF LastOf
    <3>2. QED
      BY <1>4, <3>1
  <2>5. QED
    BY <2>2, <2>3, <2>4
<1>8. QED
  BY <1>1, <1>2, <1>5, <1>6, <1>7

(* Of a later time the second is not an earlier one. *)
LEMMA SecondsPass ==
  ASSUME NEW d \in Nat \ {0}, NEW a \in Nat, NEW b \in Nat
  PROVE  /\ a \div d \in Nat
         /\ a <= b => a \div d <= b \div d
<1>1. PICK q \in Int, r \in Int : q = a \div d /\ r = a % d
  OBVIOUS
<1>2. PICK p \in Int, s \in Int : p = b \div d /\ s = b % d
  OBVIOUS
<1>3. a = d * q + r /\ 0 <= r /\ r < d
  BY <1>1
<1>4. b = d * p + s /\ 0 <= s /\ s < d
  BY <1>2
<1>5. q \in Nat
  <2>1. SUFFICES ASSUME q <= 0 - 1 PROVE FALSE
    OBVIOUS
  <2>2. d * q <= 0 - d
    BY <2>1
  <2>3. QED
    BY <1>3, <2>2
<1>6. ASSUME a <= b PROVE q <= p
  <2>1. SUFFICES ASSUME p + 1 <= q PROVE FALSE
    OBVIOUS
  <2>2. d * (p + 1) <= d * q
    BY <1>5, <2>1
  <2>3. d * (p + 1) = d * p + d
    OBVIOUS
  <2>4. QED
    BY <1>3, <1>4, <1>6, <2>2, <2>3
<1>7. QED
  BY <1>1, <1>2, <1>5, <1>6

-----------------------------------------------------------------------------
(***************************************************************************)
(* The stream of several containers.                                       *)
(***************************************************************************)

LEMMA EmptyElems == Elems(<<>>) = {} /\ Distinct(<<>>) /\ Increasing(<<>>)
BY DEF Elems, Distinct, Increasing

LEMMA MergeInitInv == Merge!Init => MergeInv
<1> SUFFICES ASSUME Merge!Init PROVE MergeInv
  OBVIOUS
<1> USE EmptyElems DEF Merge!Init, Merge!Sources
<1>1. ChannelSize \in Nat
  BY FrontendAssumption DEF Merge!MergeAssumption
<1>2. MergeTyped
  <2>1. Len(<<>>) <= ChannelSize /\ <<>> \in Seq(Nat)
    BY <1>1
  <2>2. QED
    BY <2>1 DEF MergeTyped
<1>3. Apart
  BY DEF Apart
<1>4. Left
  <2>1. Read = {}
    BY DEF Read
  <2>2. QED
    BY <2>1 DEF Left
<1>5. Ended /\ InSight
  BY DEF Ended, InSight
<1>6. QED
  BY <1>2, <1>3, <1>4, <1>5 DEF MergeInv

(* What is in the channel and the buffer is found in a log. *)
LEMMA ReadAreTimes == Left => Read \subseteq Nat \ {0}
BY FrontendAssumption DEF Left, Merge!MergeAssumption

(* A step of a reader or of the user that moves no line. *)
LEMMA NothingRead ==
  ASSUME MergeInv, UNCHANGED <<lines, lineChan, buffer, emitted, kept>>
  PROVE  Apart' /\ Left' /\ InSight'
<1>1. Read' = Read
  BY DEF Read
<1>2. Apart'
  BY DEF MergeInv, Apart
<1>3. Left'
  BY <1>1 DEF MergeInv, Left
<1>4. InSight'
  BY DEF MergeInv, InSight
<1>5. QED
  BY <1>2, <1>3, <1>4

LEMMA ReaderEndsKeeps ==
  ASSUME MergeInv, NEW s \in Merge!Sources, Merge!ReadNoMore(s) \/ Merge!ReaderEnds(s)
  PROVE  MergeInv'
<1>1. /\ UNCHANGED <<lines, lineChan, buffer, emitted, kept, outcome, stopped>>
      /\ reader[s] = "reading" /\ s \in DOMAIN lines
      /\ \/ reader' = [reader EXCEPT ![s] = "ended"] /\ (stopped \/ lines[s] = {})
         \/ reader' = [reader EXCEPT ![s] = "failed"]
  BY DEF Merge!ReadNoMore, Merge!ReaderEnds, Merge!Sources
<1>2. Apart' /\ Left' /\ InSight'
  BY <1>1, NothingRead
<1>3. MergeTyped'
  BY <1>1 DEF MergeInv, MergeTyped
<1>4. Ended'
  BY <1>1 DEF MergeInv, MergeTyped, Ended
<1>5. QED
  BY <1>2, <1>3, <1>4 DEF MergeInv

LEMMA CancelKeeps == ASSUME MergeInv, Merge!Cancel PROVE MergeInv'
<1>1. UNCHANGED <<lines, lineChan, buffer, emitted, kept, outcome, reader>> /\ stopped' = TRUE
  BY DEF Merge!Cancel
<1>2. Apart' /\ Left' /\ InSight'
  BY <1>1, NothingRead
<1>3. MergeTyped' /\ Ended'
  BY <1>1 DEF MergeInv, MergeTyped, Ended
<1>4. QED
  BY <1>2, <1>3 DEF MergeInv

LEMMA MergeStutters == ASSUME MergeInv, UNCHANGED mergeVars PROVE MergeInv'
<1>1. UNCHANGED <<lines, lineChan, buffer, emitted, kept, outcome, reader, stopped>>
  BY DEF mergeVars
<1>2. Apart' /\ Left' /\ InSight'
  BY <1>1, NothingRead
<1>3. MergeTyped' /\ Ended'
  BY <1>1 DEF MergeInv, MergeTyped, Ended
<1>4. QED
  BY <1>2, <1>3 DEF MergeInv

(* The earliest line of a reader. *)
LEMMA OldestIs ==
  ASSUME NEW S \in SUBSET Nat, S # {}
  PROVE  Merge!Oldest(S) \in S
<1> DEFINE x == CHOOSE y \in S : \A z \in S : y <= z
<1>1. \E y \in S : \A z \in S : y <= z
  BY LeastNumber
<1>2. QED
  BY <1>1 DEF Merge!Oldest

LEMMA ReadKeeps == ASSUME MergeInv, NEW s \in Merge!Sources, Merge!Read(s) PROVE MergeInv'
<1>1. /\ s \in DOMAIN lines /\ reader[s] = "reading" /\ lines[s] # {} /\ Len(lineChan) < ChannelSize
      /\ UNCHANGED <<reader, buffer, outcome, stopped, emitted, kept>>
  BY DEF Merge!Read, Merge!Sources
<1>2. PICK l \in StreamLogs :
        /\ DOMAIN lines = DOMAIN l
        /\ \A r \in DOMAIN l : lines[r] \subseteq l[r] /\ l[r] \ lines[r] \subseteq Read
        /\ \A x \in Read : \E r \in DOMAIN l : x \in l[r] \ lines[r]
  BY DEF MergeInv, Left
<1>3. \A r \in DOMAIN l : l[r] \subseteq Nat /\ \A q \in DOMAIN l \ {r} : l[q] \cap l[r] = {}
  BY FrontendAssumption DEF Merge!MergeAssumption
<1>4. PICK x : x = Merge!Oldest(lines[s])
  OBVIOUS
<1>5. x \in lines[s] /\ x \in Nat /\ x \in l[s]
  BY <1>1, <1>2, <1>3, <1>4, OldestIs
<1>6. /\ lineChan' = Append(lineChan, x) /\ DOMAIN lines' = DOMAIN lines
      /\ \A r \in DOMAIN lines : lines'[r] = IF r = s THEN lines[s] \ {x} ELSE lines[r]
  BY <1>1, <1>4 DEF Merge!Read
<1>7. x \notin Read
  <2>1. \A r \in DOMAIN l : x \in l[r] => r = s
    BY <1>1, <1>2, <1>3, <1>5
  <2>2. QED
    BY <1>1, <1>2, <1>5, <2>1
<1>8. PICK c \in Seq(Nat) : c = lineChan /\ Distinct(c)
  BY DEF MergeInv, MergeTyped, Apart
<1>9. PICK d : d = Append(c, x) /\ d \in Seq(Nat) /\ Len(d) = Len(c) + 1
  <2>1. Append(c, x) \in Seq(Nat) /\ Len(Append(c, x)) = Len(c) + 1
    BY <1>5
  <2>2. QED
    BY <2>1
<1>10. Elems(d) = Elems(c) \cup {x} /\ Distinct(d)
  BY <1>5, <1>7, <1>8, <1>9, AppendElems DEF Read
<1>11. Read' = Read \cup {x}
  BY <1>1, <1>6, <1>8, <1>9, <1>10 DEF Read
<1>12. MergeTyped'
  <2>1. Len(d) <= ChannelSize
    <3>1. PICK n \in Nat : n = Len(c) /\ n < ChannelSize
      BY <1>1, <1>8
    <3>2. n + 1 <= ChannelSize
      BY <3>1, FrontendAssumption DEF Merge!MergeAssumption
    <3>3. QED
      BY <1>9, <3>1, <3>2
  <2>2. lineChan' = d
    BY <1>6, <1>8, <1>9
  <2>3. QED
    BY <1>1, <1>6, <1>9, <2>1, <2>2 DEF MergeInv, MergeTyped
<1>13. Apart'
  BY <1>1, <1>6, <1>7, <1>8, <1>9, <1>10 DEF MergeInv, Apart, Read
<1>14. Left'
  <2>1. \A r \in DOMAIN l : lines'[r] \subseteq l[r] /\ l[r] \ lines'[r] \subseteq Read'
    BY <1>2, <1>5, <1>6, <1>11
  <2>2. \A y \in Read' : \E r \in DOMAIN l : y \in l[r] \ lines'[r]
    BY <1>1, <1>2, <1>5, <1>6, <1>11
  <2>3. QED
    BY <1>2, <1>6, <2>1, <2>2 DEF Left
<1>15. Ended'
  BY <1>1, <1>6 DEF MergeInv, Ended
<1>16. InSight'
  BY <1>1 DEF MergeInv, InSight
<1>17. QED
  BY <1>12, <1>13, <1>14, <1>15, <1>16 DEF MergeInv

LEMMA ReceiveKeeps == ASSUME MergeInv, Merge!Receive PROVE MergeInv'
<1>1. /\ outcome = "running" /\ lineChan # <<>>
      /\ buffer' = Append(buffer, Head(lineChan)) /\ lineChan' = Tail(lineChan)
      /\ UNCHANGED <<lines, reader, outcome, stopped, emitted, kept>>
  BY DEF Merge!Receive
<1>2. PICK c \in Seq(Nat) : c = lineChan /\ Distinct(c) /\ c # <<>> /\ Len(c) <= ChannelSize
  BY <1>1 DEF MergeInv, MergeTyped, Apart
<1>3. PICK b \in Seq(Nat) : b = buffer /\ Distinct(b)
  BY DEF MergeInv, MergeTyped, Apart
<1>4. PICK x \in Nat : x = Head(c)
  BY <1>2, TailElems
<1>5. PICK t \in Seq(Nat) : /\ t = Tail(c) /\ Elems(c) = Elems(t) \cup {x} /\ x \notin Elems(t) /\ Distinct(t)
                            /\ Len(t) <= Len(c)
  BY <1>2, <1>4, TailElems
<1>6. Elems(c) \cap Elems(b) = {} /\ Elems(c) \cap Elems(emitted) = {} /\ Elems(b) \cap Elems(emitted) = {}
  BY <1>2, <1>3 DEF MergeInv, Apart
<1>7. PICK d : d = Append(b, x) /\ d \in Seq(Nat)
  <2>1. Append(b, x) \in Seq(Nat)
    OBVIOUS
  <2>2. QED
    BY <2>1
<1>8. Elems(d) = Elems(b) \cup {x} /\ Distinct(d)
  BY <1>3, <1>5, <1>6, <1>7, AppendElems
<1>9. buffer' = d /\ lineChan' = t
  BY <1>1, <1>2, <1>3, <1>4, <1>5, <1>7
<1>10. Read' = Read
  BY <1>1, <1>2, <1>3, <1>5, <1>8, <1>9 DEF Read
<1>11. MergeTyped'
  <2>1. Len(t) <= ChannelSize
    <3>1. PICK n \in Nat, m \in Nat : n = Len(c) /\ m = Len(t)
      OBVIOUS
    <3>2. m <= n /\ n <= ChannelSize /\ ChannelSize \in Nat
      BY <1>2, <1>5, <3>1, FrontendAssumption DEF Merge!MergeAssumption
    <3>3. QED
      BY <3>1, <3>2
  <2>2. QED
    BY <1>1, <1>7, <1>9, <2>1 DEF MergeInv, MergeTyped
<1>12. Apart'
  BY <1>1, <1>3, <1>5, <1>6, <1>8, <1>9 DEF MergeInv, Apart
<1>13. Left'
  BY <1>1, <1>10 DEF MergeInv, Left
<1>14. Ended' /\ InSight'
  BY <1>1 DEF MergeInv, Ended, InSight
<1>15. QED
  BY <1>11, <1>12, <1>13, <1>14 DEF MergeInv

LEMMA ElemsOf == \A s : Merge!Range(s) = Elems(s)
BY DEF Merge!Range, Elems

LEMMA SortedOf == \A S : Merge!Sorted(S) = InOrder(S)
BY DEF Merge!Sorted, InOrder, Merge!Cardinality, Cardinality

(* What a flush makes of the lines, whatever else the step does. *)
LEMMA FlushIs ==
  ASSUME MergeInv, Merge!FlushBuffer, UNCHANGED <<lines, lineChan>>
  PROVE  /\ Apart' /\ Left' /\ InSight' /\ buffer' = <<>>
         /\ emitted' \in Seq(Nat) /\ kept' \in Seq(Nat)
<1>1. PICK b \in Seq(Nat) : b = buffer /\ Distinct(b)
  BY DEF MergeInv, MergeTyped, Apart
<1>2. PICK e \in Seq(Nat) : e = emitted /\ Distinct(e)
  BY DEF MergeInv, MergeTyped, Apart
<1>3. PICK k \in Seq(Nat) : /\ k = kept /\ Increasing(k) /\ Elems(k) \subseteq Elems(e)
                            /\ \A x \in Elems(e) \ Elems(k) : \E y \in Elems(k) : x < y
  BY <1>2 DEF MergeInv, MergeTyped, InSight
<1>4. /\ Elems(lineChan) \cap Elems(b) = {} /\ Elems(lineChan) \cap Elems(e) = {}
      /\ Elems(b) \cap Elems(e) = {} /\ Distinct(lineChan)
  BY <1>1, <1>2 DEF MergeInv, Apart
<1>5. PICK new : new = {x \in Elems(b) : k = <<>> \/ x > k[Len(k)]}
  OBVIOUS
<1>6. Elems(b) \in SUBSET Nat /\ new \in SUBSET Nat /\ new \subseteq Elems(b)
  BY <1>1, <1>5 DEF Elems
<1>7. IsFiniteSet(Elems(b)) /\ IsFiniteSet(new)
  BY <1>1, <1>6, ElemsCounted, FS_Subset
<1>8. PICK s \in Seq(Nat) : /\ s = InOrder(Elems(b)) /\ Elems(s) = Elems(b) /\ Distinct(s)
  BY <1>6, <1>7, OrderedElems
<1>9. PICK t \in Seq(Nat) : /\ t = InOrder(new) /\ Elems(t) = new /\ Increasing(t)
  BY <1>6, <1>7, OrderedElems
<1>10. buffer' = <<>> /\ emitted' = e \o s /\ kept' = k \o t
  BY <1>1, <1>2, <1>3, <1>5, <1>8, <1>9, ElemsOf, SortedOf DEF Merge!FlushBuffer
<1>11. PICK f : f = e \o s /\ f \in Seq(Nat) /\ Elems(f) = Elems(e) \cup Elems(b) /\ Distinct(f)
  <2>1. /\ e \o s \in Seq(Nat) /\ Elems(e \o s) = Elems(e) \cup Elems(s)
        /\ Distinct(e) /\ Distinct(s) /\ Elems(e) \cap Elems(s) = {} => Distinct(e \o s)
    BY ConcatElems
  <2>2. QED
    BY <1>2, <1>4, <1>8, <2>1
<1>12. PICK j : j = k \o t /\ j \in Seq(Nat) /\ Elems(j) = Elems(k) \cup new
  <2>1. k \o t \in Seq(Nat) /\ Elems(k \o t) = Elems(k) \cup Elems(t)
    BY ConcatElems
  <2>2. QED
    BY <1>9, <2>1
<1>13. Read' = Read
  BY <1>1, <1>2, <1>10, <1>11, EmptyElems DEF Read
<1>14. Apart'
  BY <1>4, <1>10, <1>11, EmptyElems DEF Apart
<1>15. Left'
  BY <1>13 DEF MergeInv, Left
<1>16. PICK n \in Nat : n = Len(k) /\ DOMAIN k = 1 .. n /\ (n = 0 <=> k = <<>>)
  OBVIOUS
<1>17. \A x \in Elems(k) : n \in 1 .. n /\ k[n] \in Elems(k) /\ x <= k[n]
  <2>1. ASSUME NEW i \in 1 .. n PROVE n \in 1 .. n /\ k[i] <= k[n]
    <3>1. n \in 1 .. n /\ (i = n \/ i < n)
      BY <1>16
    <3>2. PICK x \in Nat, y \in Nat : x = k[i] /\ y = k[n]
      BY <1>16, <3>1
    <3>3. x = y \/ x < y
      BY <1>3, <1>16, <3>1, <3>2 DEF Increasing
    <3>4. QED
      BY <3>1, <3>2, <3>3
  <2>2. ASSUME NEW x \in Elems(k) PROVE \E i \in 1 .. n : x = k[i]
    BY <1>16 DEF Elems
  <2>3. n \in 1 .. n => k[n] \in Elems(k)
    BY <1>16 DEF Elems
  <2>4. QED
    BY <2>1, <2>2, <2>3
<1>18. InSight'
  <2>1. Increasing(j)
    <3>1. \A x \in Elems(k), y \in new : x < y
      <4>1. ASSUME NEW x \in Elems(k), NEW y \in new PROVE x < y
        <5>1. y > k[n] /\ x <= k[n] /\ {x, y, k[n]} \subseteq Nat
          BY <1>3, <1>5, <1>6, <1>16, <1>17 DEF Elems
        <5>2. QED
          BY <5>1
      <4>2. QED
        BY <4>1
    <3>2. QED
      BY <1>3, <1>9, <1>12, <3>1, IncreasingConcat
  <2>2. \A x \in Elems(f) \ Elems(j) : \E y \in Elems(j) : x < y
    <3>1. ASSUME NEW x \in Elems(b) \ new PROVE \E y \in Elems(k) : x < y
      <4>1. k # <<>> /\ ~(x > k[n])
        BY <1>5, <1>16, <3>1
      <4>2. n \in 1 .. n
        BY <1>16, <4>1
      <4>3. k[n] \in Elems(k) /\ k[n] \in Nat
        BY <1>16, <4>2 DEF Elems
      <4>4. x # k[n] /\ x \in Nat
        BY <1>3, <1>4, <1>6, <4>3
      <4>5. QED
        BY <4>1, <4>3, <4>4
    <3>2. QED
      BY <1>3, <1>11, <1>12, <3>1
  <2>3. Elems(j) \subseteq Elems(f)
    BY <1>3, <1>6, <1>11, <1>12
  <2>4. QED
    BY <1>10, <1>11, <1>12, <2>1, <2>2, <2>3 DEF InSight
<1>19. QED
  BY <1>10, <1>11, <1>12, <1>14, <1>15, <1>18

LEMMA FlushKeeps == ASSUME MergeInv, Merge!Tick \/ Merge!Drained \/ Merge!SeesCancel PROVE MergeInv'
<1>1. /\ Merge!FlushBuffer /\ UNCHANGED <<lines, reader, lineChan, stopped>> /\ outcome = "running"
      /\ \/ outcome' = outcome
         \/ outcome' = "canceled" /\ stopped
         \/ /\ lineChan = <<>> /\ \A s \in DOMAIN lines : reader[s] # "reading"
            /\ outcome' = IF \E s \in DOMAIN lines : reader[s] = "failed" THEN "failed" ELSE "done"
  BY DEF Merge!Tick, Merge!Drained, Merge!SeesCancel, Merge!Sources
<1>2. /\ Apart' /\ Left' /\ InSight' /\ buffer' = <<>>
      /\ emitted' \in Seq(Nat) /\ kept' \in Seq(Nat)
  BY <1>1, FlushIs
<1>3. MergeTyped'
  <2>1. buffer' \in Seq(Nat)
    BY <1>2
  <2>2. QED
    BY <1>1, <1>2, <2>1 DEF MergeInv, MergeTyped
<1>4. \A s \in DOMAIN lines : reader[s] \in {"reading", "ended", "failed"}
  BY DEF MergeInv, MergeTyped
<1>5. Ended'
  <2>1. \A s \in DOMAIN lines : reader[s] = "ended" => stopped \/ lines[s] = {}
    BY DEF MergeInv, Ended
  <2>2. CASE outcome' = outcome
    BY <1>1, <2>1, <2>2 DEF Ended
  <2>3. CASE outcome' = "canceled" /\ stopped
    BY <1>1, <2>1, <2>3 DEF Ended
  <2>4. CASE /\ lineChan = <<>> /\ \A s \in DOMAIN lines : reader[s] # "reading"
             /\ outcome' = IF \E s \in DOMAIN lines : reader[s] = "failed" THEN "failed" ELSE "done"
    BY <1>1, <1>2, <1>4, <2>1, <2>4 DEF Ended
  <2>5. QED
    BY <1>1, <2>2, <2>3, <2>4
<1>6. QED
  BY <1>2, <1>3, <1>5 DEF MergeInv

LEMMA MergeNextInv == MergeInv /\ (Merge!Next \/ UNCHANGED mergeVars) => MergeInv'
<1> SUFFICES ASSUME MergeInv, Merge!Next \/ UNCHANGED mergeVars PROVE MergeInv'
  OBVIOUS
<1>1. CASE UNCHANGED mergeVars
  BY <1>1, MergeStutters
<1>2. ASSUME NEW s \in Merge!Sources, Merge!Read(s) \/ Merge!ReadNoMore(s) \/ Merge!ReaderEnds(s) PROVE MergeInv'
  BY <1>2, ReadKeeps, ReaderEndsKeeps
<1>3. CASE Merge!Cancel \/ Merge!Receive \/ Merge!Tick \/ Merge!Drained \/ Merge!SeesCancel
  BY <1>3, CancelKeeps, ReceiveKeeps, FlushKeeps
<1>4. QED
  BY <1>1, <1>2, <1>3 DEF Merge!Next

LEMMA MergeInvSound == MergeInv => Merge!MergeSound /\ Merge!TypeOK
<1> SUFFICES ASSUME MergeInv PROVE Merge!MergeSound /\ Merge!TypeOK
  OBVIOUS
<1>1. PICK c \in Seq(Nat) : c = lineChan /\ Distinct(c)
  BY DEF MergeInv, MergeTyped, Apart
<1>2. PICK b \in Seq(Nat) : b = buffer /\ Distinct(b)
  BY DEF MergeInv, MergeTyped, Apart
<1>3. PICK e \in Seq(Nat) : e = emitted /\ Distinct(e)
  BY DEF MergeInv, MergeTyped, Apart
<1>4. /\ Elems(c) \cap Elems(b) = {} /\ Elems(c) \cap Elems(e) = {} /\ Elems(b) \cap Elems(e) = {}
      /\ Read = Elems(c) \cup Elems(b) \cup Elems(e)
  BY <1>1, <1>2, <1>3 DEF MergeInv, Apart, Read
<1>5. PICK d : d = c \o b /\ d \in Seq(Nat) /\ Elems(d) = Elems(c) \cup Elems(b) /\ Distinct(d)
  BY <1>1, <1>2, <1>4, ConcatElems
<1>6. PICK a : a = d \o e /\ a \in Seq(Nat) /\ Elems(a) = Elems(d) \cup Elems(e) /\ Distinct(a)
  <2>1. PICK q \in Seq(Nat) : q = d
    BY <1>5
  <2>2. /\ q \o e \in Seq(Nat) /\ Elems(q \o e) = Elems(q) \cup Elems(e)
        /\ Distinct(q) /\ Distinct(e) /\ Elems(q) \cap Elems(e) = {} => Distinct(q \o e)
    BY ConcatElems
  <2>3. QED
    BY <1>3, <1>4, <1>5, <2>1, <2>2
<1>7. a = lineChan \o buffer \o emitted /\ Elems(a) = Read
  BY <1>1, <1>2, <1>3, <1>4, <1>5, <1>6
<1>8. Len(a) = Merge!Cardinality(Merge!Range(a))
  BY <1>6, ElemsCounted, ElemsOf DEF Merge!Cardinality, Cardinality
<1>9. PICK l \in StreamLogs :
        /\ DOMAIN lines = DOMAIN l
        /\ \A s \in DOMAIN l : lines[s] \subseteq l[s] /\ l[s] \ lines[s] \subseteq Read
        /\ \A x \in Read : \E s \in DOMAIN l : x \in l[s] \ lines[s]
  BY DEF MergeInv, Left
<1>10. \A s \in DOMAIN l : \A r \in DOMAIN l \ {s} : l[r] \cap l[s] = {}
  BY FrontendAssumption DEF Merge!MergeAssumption
<1>11. Read \cap Merge!AllOf(lines) = {}
  BY <1>9, <1>10 DEF Merge!AllOf
<1>12. Merge!AllOf(l) = Merge!AllOf(lines) \cup Read
  BY <1>9 DEF Merge!AllOf
<1>13. Merge!NoneLost
  <2>1. outcome \in {"done", "failed"} =>
          /\ lineChan = <<>> /\ buffer = <<>> /\ \A s \in Merge!Sources : reader[s] # "reading"
          /\ outcome = "done" => stopped \/ Merge!AllOf(lines) = {}
    BY DEF MergeInv, Ended, Merge!Sources, Merge!AllOf
  <2>2. QED
    BY <1>7, <1>8, <1>11, <1>12, <2>1, ElemsOf DEF Merge!NoneLost
<1>14. Merge!NoneBlocked
  <2>1. Len(<<>>) # ChannelSize
    BY FrontendAssumption DEF Merge!MergeAssumption
  <2>2. QED
    BY <2>1 DEF MergeInv, MergeTyped, Ended, Merge!NoneBlocked
<1>15. Merge!ShownInOrder
  <2>1. PICK k \in Seq(Nat) : k = kept /\ Increasing(k)
    BY DEF MergeInv, MergeTyped, InSight
  <2>2. \A i \in 1 .. Len(k) - 1 : k[i] < k[i + 1]
    <3>1. PICK n \in Nat : n = Len(k) /\ DOMAIN k = 1 .. n
      OBVIOUS
    <3>2. \A i \in 1 .. n - 1 : i \in 1 .. n /\ i + 1 \in 1 .. n /\ i < i + 1
      BY <3>1
    <3>3. QED
      BY <2>1, <3>1, <3>2 DEF Increasing
  <2>3. QED
    BY <2>1, <2>2, ElemsOf DEF MergeInv, InSight, Merge!ShownInOrder
<1>16. Merge!TypeOK
  <2>1. \A x \in Read : x \in Nat
    BY ReadAreTimes DEF MergeInv
  <2>2. QED
    BY <1>9 DEF MergeInv, MergeTyped, Merge!TypeOK, Merge!Sources
<1>17. QED
  BY <1>13, <1>14, <1>15, <1>16 DEF Merge!MergeSound

-----------------------------------------------------------------------------
(***************************************************************************)
(* The log in pages.                                                       *)
(***************************************************************************)

LEMMA PagingConstants ==
  /\ {PageSize, Second, MaxLines, LastTime, MaxPages} \subseteq Nat \ {0}
  /\ Merged \subseteq LogTargets /\ Orderly \in BOOLEAN
  /\ \A l \in Logs, t \in LogTargets : \A s \in t : s \in DOMAIN l /\ l[s] \subseteq Time
  /\ \A t \in LogTargets \ Merged : \E s : t = {s}
<1> USE FrontendAssumption DEF Paging!PagingAssumption
<1>1. /\ {PageSize, Second, MaxLines, LastTime, MaxPages} \subseteq Nat \ {0}
      /\ Merged \subseteq LogTargets /\ Orderly \in BOOLEAN
  OBVIOUS
<1>2. ASSUME NEW l \in Logs, NEW t \in LogTargets, NEW s \in t PROVE s \in DOMAIN l /\ l[s] \subseteq Time
  BY DEF Time
<1>3. \A t \in LogTargets \ Merged : \E s : t = {s}
  OBVIOUS
<1>4. QED
  BY <1>1, <1>2, <1>3

(* Times pass through the seconds in order. *)
LEMMA Seconds ==
  /\ \A x \in Nat : Sec(x) \in Nat
  /\ \A x, y \in Nat : x <= y => Sec(x) <= Sec(y)
BY PagingConstants, SecondsPass DEF Sec

(* The lines of a target are finitely many times. *)
LEMMA LinesAre ==
  ASSUME log \in Logs, NEW t \in LogTargets
  PROVE  /\ \A S : S \subseteq Paging!Lines(t) => S \in SUBSET Nat /\ S \in SUBSET Time /\ IsFiniteSet(S)
         /\ \A x \in Time : OfSecond(t, x) \subseteq Time /\ IsFiniteSet(OfSecond(t, x))
         /\ \A s \in t : Paging!Lines({s}) \subseteq Paging!Lines(t)
         /\ \A x \in Paging!Lines(t) : \E s \in t : x \in Paging!Lines({s})
         /\ \A x \in Paging!Lines(t) : x \in OfSecond(t, x)
<1>1. LastTime \in Nat
  BY PagingConstants
<1>2. IsFiniteSet(Time) /\ Time \subseteq Nat
  BY <1>1, FS_Interval DEF Time
<1>3. \A s \in t : log[s] \subseteq Time
  BY PagingConstants
<1>4. Paging!Lines(t) \subseteq Time
  BY <1>3 DEF Paging!Lines
<1>5. ASSUME NEW S, S \subseteq Paging!Lines(t)
      PROVE  S \in SUBSET Nat /\ S \in SUBSET Time /\ IsFiniteSet(S)
  <2>1. S \in SUBSET Time
    BY <1>4, <1>5
  <2>2. QED
    BY <1>2, <2>1, FS_Subset
<1>6. ASSUME NEW x \in Time PROVE OfSecond(t, x) \subseteq Time /\ IsFiniteSet(OfSecond(t, x))
  <2>1. OfSecond(t, x) \in SUBSET Time
    BY <1>3 DEF OfSecond
  <2>2. QED
    BY <1>2, <2>1, FS_Subset
<1>7. \A s \in t : Paging!Lines({s}) \subseteq Paging!Lines(t)
  BY DEF Paging!Lines
<1>8. \A x \in Paging!Lines(t) : \E s \in t : x \in Paging!Lines({s})
  BY DEF Paging!Lines
<1>9. \A x \in Paging!Lines(t) : x \in OfSecond(t, x)
  BY DEF Paging!Lines, OfSecond
<1>10. QED
  BY <1>5, <1>6, <1>7, <1>8, <1>9

LEMMA PagingOperators ==
  /\ \A S : Paging!Cardinality(S) = Cardinality(S)
  /\ \A S, n : Paging!Oldest(S, n) = FirstOf(S, n) /\ Paging!Newest(S, n) = LastOf(S, n)
  /\ \A S : Paging!Sorted(S) = InOrder(S)
  /\ \A s : Paging!ToSet(s) = Elems(s)
  /\ \A s : Paging!Last(s) = s[Len(s)]
<1>1. \A S : Paging!Cardinality(S) = Cardinality(S)
  BY DEF Paging!Cardinality, Cardinality
<1>2. \A S, n : Paging!Oldest(S, n) = FirstOf(S, n) /\ Paging!Newest(S, n) = LastOf(S, n)
  BY <1>1 DEF Paging!Oldest, Paging!Newest, FirstOf, LastOf, Below, Above
<1>3. \A S : Paging!Sorted(S) = InOrder(S)
  BY DEF Paging!Sorted, InOrder, Paging!Cardinality, Cardinality
<1>4. \A s : Paging!ToSet(s) = Elems(s)
  BY DEF Paging!ToSet, Elems
<1>5. \A s : Paging!Last(s) = s[Len(s)]
  BY DEF Paging!Last
<1>6. QED
  BY <1>1, <1>2, <1>3, <1>4, <1>5

(* The first of the first lines of each source are the first of all lines.  *)
LEMMA FirstOfParts ==
  ASSUME NEW S \in SUBSET Nat, IsFiniteSet(S), NEW R \in SUBSET S, NEW m \in Nat,
         \A y \in S \ R : \E D \in SUBSET R : (\A z \in D : z < y) /\ Cardinality(D) >= m
  PROVE  /\ \A n \in 0 .. m : FirstOf(R, n) = FirstOf(S, n)
         /\ Cardinality(R) < m => R = S
<1>1. IsFiniteSet(R) /\ R \in SUBSET Nat
  BY FS_Subset
<1>2. \A D \in SUBSET R : Cardinality(D) \in Nat
  BY <1>1, FS_Subset, FS_CardinalityType
<1>3. ASSUME NEW x \in S, NEW y \in S \ R, y <= x PROVE Cardinality(Below(R, x)) >= m
  <2>1. PICK D \in SUBSET R : (\A z \in D : z < y) /\ Cardinality(D) >= m
    OBVIOUS
  <2>2. D \in SUBSET Below(R, x)
    <3>1. ASSUME NEW z \in D PROVE z < x
      <4>1. z < y /\ z \in Nat /\ y \in Nat /\ x \in Nat
        BY <1>1, <2>1
      <4>2. QED
        BY <1>3, <4>1
    <3>2. QED
      BY <3>1 DEF Below
  <2>3. IsFiniteSet(Below(R, x)) /\ Cardinality(Below(R, x)) \in Nat
    BY <1>1, BelowIs
  <2>4. Cardinality(D) <= Cardinality(Below(R, x))
    BY <2>2, <2>3, FS_Subset
  <2>5. QED
    BY <1>2, <2>1, <2>3, <2>4
<1>4. ASSUME NEW n \in 0 .. m, NEW x PROVE x \in FirstOf(R, n) <=> x \in FirstOf(S, n)
  <2>1. ASSUME x \in FirstOf(R, n) PROVE x \in FirstOf(S, n)
    <3>1. x \in R /\ x \in S /\ Cardinality(Below(R, x)) < n
      BY <2>1 DEF FirstOf
    <3>2. \A y \in S \ R : ~(y <= x)
      BY <1>1, <1>3, <3>1, BelowIs
    <3>3. \A y \in S : y < x => y <= x /\ y \in R
      <4>1. \A y \in S : y \in Nat /\ x \in Nat
        BY <3>1
      <4>2. QED
        BY <3>2, <4>1
    <3>4. Below(S, x) = Below(R, x)
      BY <3>3 DEF Below
    <3>5. QED
      BY <3>1, <3>4 DEF FirstOf
  <2>2. ASSUME x \in FirstOf(S, n) PROVE x \in FirstOf(R, n)
    <3>1. x \in S /\ Cardinality(Below(S, x)) < n
      BY <2>2 DEF FirstOf
    <3>2. Below(R, x) \in SUBSET Below(S, x)
      BY DEF Below
    <3>3. IsFiniteSet(Below(S, x)) /\ Cardinality(Below(S, x)) \in Nat /\ Cardinality(Below(R, x)) \in Nat
      BY <1>1, BelowIs
    <3>4. Cardinality(Below(R, x)) <= Cardinality(Below(S, x))
      BY <3>2, <3>3, FS_Subset
    <3>5. Cardinality(Below(R, x)) < n
      BY <3>1, <3>3, <3>4
    <3>6. x \in R
      BY <1>3, <3>1, <3>3, <3>5
    <3>7. QED
      BY <3>5, <3>6 DEF FirstOf
  <2>3. QED
    BY <2>1, <2>2
<1>5. ASSUME Cardinality(R) < m PROVE R = S
  <2>1. SUFFICES ASSUME NEW y \in S \ R PROVE FALSE
    OBVIOUS
  <2>2. PICK D \in SUBSET R : Cardinality(D) >= m
    OBVIOUS
  <2>3. Cardinality(D) <= Cardinality(R) /\ Cardinality(R) \in Nat
    BY <1>1, FS_Subset, FS_CardinalityType
  <2>4. QED
    BY <1>2, <1>5, <2>2, <2>3
<1>6. \A n \in 0 .. m : FirstOf(R, n) = FirstOf(S, n)
  BY <1>4
<1>7. QED
  BY <1>5, <1>6

(* What a read of each source finds. *)
LEMMA ReadIs ==
  ASSUME log \in Logs, NEW t \in LogTargets, NEW u \in Nat, NEW m \in Nat
  PROVE  LET R == Paging!ReadMerged(t, u, m) IN
           /\ R \in SUBSET Since(t, u)
           /\ \A n \in 0 .. m : FirstOf(R, n) = FirstOf(Since(t, u), n)
           /\ Cardinality(R) < m => R = Since(t, u)
           /\ \A s : t = {s} => R = FirstOf(Since(t, u), m)
<1>1. PICK R : R = Paging!ReadMerged(t, u, m)
  OBVIOUS
<1>2. PICK S : S = Since(t, u)
  OBVIOUS
<1>3. S \subseteq Paging!Lines(t) /\ S \in SUBSET Nat /\ IsFiniteSet(S)
  <2>1. S \subseteq Paging!Lines(t)
    BY <1>2 DEF Since
  <2>2. QED
    BY <2>1, LinesAre
<1>4. R = UNION {FirstOf(Since({s}, u), m) : s \in t}
  BY <1>1, PagingOperators DEF Paging!ReadMerged, Paging!ReadPage, Paging!SinceSecond, Since, Sec
<1>5. \A s \in t : Since({s}, u) \in SUBSET S /\ IsFiniteSet(Since({s}, u))
  <2>1. ASSUME NEW s \in t PROVE Since({s}, u) \in SUBSET S
    BY <1>2, LinesAre DEF Since
  <2>2. QED
    BY <1>3, <2>1, FS_Subset
<1>6. R \in SUBSET S
  <2>1. \A s \in t : FirstOf(Since({s}, u), m) \subseteq Since({s}, u)
    BY DEF FirstOf
  <2>2. QED
    BY <1>4, <1>5, <2>1
<1>7. ASSUME NEW y \in S \ R
      PROVE  \E D \in SUBSET R : (\A z \in D : z < y) /\ Cardinality(D) >= m
  <2>1. PICK s \in t : y \in Paging!Lines({s})
    BY <1>3, LinesAre
  <2>2. PICK T : T = Since({s}, u)
    OBVIOUS
  <2>3. y \in T /\ FirstOf(T, m) \subseteq R
    BY <1>2, <1>4, <2>1, <2>2 DEF Since
  <2>4. y \in T \ FirstOf(T, m)
    BY <2>3
  <2>5. T \in SUBSET Nat /\ IsFiniteSet(T)
    BY <1>3, <1>5, <2>2
  <2>6. PICK D \in SUBSET FirstOf(T, m) : (\A z \in D : z < y) /\ Cardinality(D) >= m
    BY <2>4, <2>5, FirstIs
  <2>7. D \in SUBSET R
    BY <2>3
  <2>8. QED
    BY <2>6, <2>7
<1>8. (\A n \in 0 .. m : FirstOf(R, n) = FirstOf(S, n)) /\ (Cardinality(R) < m => R = S)
  BY <1>3, <1>6, <1>7, FirstOfParts
<1>9. \A s : t = {s} => R = FirstOf(S, m)
  BY <1>2, <1>4
<1>10. QED
  BY <1>1, <1>2, <1>6, <1>8, <1>9

(* Not more lines come before one of a second than the second has, less it. *)
LEMMA SecondRoom ==
  ASSUME log \in Logs, NEW t \in LogTargets, NEW x \in Time, NEW D,
         NEW y \in OfSecond(t, x), D \subseteq OfSecond(t, x), y \notin D
  PROVE  Cardinality(D) \in Nat /\ Cardinality(D) < Cardinality(OfSecond(t, x))
         /\ Cardinality(OfSecond(t, x)) \in Nat
<1>1. IsFiniteSet(OfSecond(t, x))
  BY LinesAre
<1>2. D \in SUBSET OfSecond(t, x) /\ D # OfSecond(t, x)
  OBVIOUS
<1>3. /\ IsFiniteSet(D) /\ Cardinality(D) <= Cardinality(OfSecond(t, x))
      /\ Cardinality(D) # Cardinality(OfSecond(t, x))
  BY <1>1, <1>2, FS_Subset
<1>4. QED
  BY <1>1, <1>3, FS_CardinalityType

(* What lies between a cursor and a later line, from the cursor's next time *)
(* on, lies in the second of the cursor.                                   *)
LEMMA SecondsBetween ==
  ASSUME NEW c \in Nat, NEW y \in Nat
  PROVE  /\ y > c => Sec(y) >= Sec(c + 1)
         /\ y <= c /\ Sec(y) >= Sec(c + 1) => Sec(y) = Sec(c) /\ Sec(c + 1) = Sec(c)
<1>1. Sec(y) \in Nat /\ Sec(c) \in Nat /\ Sec(c + 1) \in Nat /\ Sec(c) <= Sec(c + 1)
  BY Seconds
<1>2. y > c => Sec(c + 1) <= Sec(y)
  <2>1. y > c => c + 1 <= y
    OBVIOUS
  <2>2. QED
    BY <2>1, Seconds
<1>3. y <= c => Sec(y) <= Sec(c)
  BY Seconds
<1>4. QED
  BY <1>1, <1>2, <1>3

(* The first and the last of an increasing sequence. *)
LEMMA EndsOf ==
  ASSUME NEW s \in Seq(Nat), s # <<>>, Increasing(s)
  PROVE  /\ s[1] \in Elems(s) /\ s[Len(s)] \in Elems(s)
         /\ \A x \in Elems(s) : s[1] <= x /\ x <= s[Len(s)]
<1>1. PICK n \in Nat : n = Len(s) /\ DOMAIN s = 1 .. n /\ n # 0
  OBVIOUS
<1>2. 1 \in 1 .. n /\ n \in 1 .. n
  BY <1>1
<1>3. \A i \in 1 .. n : s[i] \in Nat
  BY <1>1
<1>4. ASSUME NEW i \in 1 .. n PROVE s[1] <= s[i] /\ s[i] <= s[n]
  <2>1. i = 1 \/ 1 < i
    BY <1>1
  <2>2. i = n \/ i < n
    BY <1>1
  <2>3. 1 < i => s[1] < s[i]
    BY <1>1, <1>2 DEF Increasing
  <2>4. i < n => s[i] < s[n]
    BY <1>1, <1>2 DEF Increasing
  <2>5. s[1] \in Nat /\ s[n] \in Nat /\ s[i] \in Nat
    BY <1>2, <1>3
  <2>6. QED
    BY <2>1, <2>2, <2>3, <2>4, <2>5
<1>5. QED
  BY <1>1, <1>2, <1>4 DEF Elems

(* A first part of a set is empty only if the set is. *)
LEMMA FirstAny ==
  ASSUME NEW S \in SUBSET Nat, IsFiniteSet(S), S # {}, NEW n \in Nat \ {0}
  PROVE  FirstOf(S, n) # {}
<1>1. SUFFICES ASSUME FirstOf(S, n) = {} PROVE FALSE
  OBVIOUS
<1>2. PICK y \in S : TRUE
  OBVIOUS
<1>3. y \in S \ FirstOf(S, n)
  BY <1>1, <1>2
<1>4. PICK D \in SUBSET FirstOf(S, n) : Cardinality(D) >= n
  BY <1>3, FirstIs
<1>5. D = {} /\ Cardinality(D) = 0
  BY <1>1, <1>4, FS_EmptySet
<1>6. QED
  BY <1>4, <1>5

(* The page after a cursor is a first part of what is read since it. *)
LEMMA PageAfterRead ==
  ASSUME log \in Logs, NEW t \in LogTargets, NEW c \in Time
  PROVE  LET page == Paging!PageAfter(t, c)
             U == Since(t, c + 1)
             N == {x \in FirstOf(U, PageSize + 1) : x > c}
         IN  /\ U \in SUBSET Paging!Lines(t) /\ U \in SUBSET Nat /\ IsFiniteSet(U)
             /\ page.more \in BOOLEAN
             /\ t \in Merged => /\ page.lines = InOrder(FirstOf(U, PageSize))
                                /\ ~page.more => FirstOf(U, PageSize) = U
             /\ t \notin Merged => page.lines = InOrder(FirstOf(N, PageSize))
<1>1. PICK n \in Nat : n = PageSize
  BY PagingConstants
<1>2. PICK U : U = Since(t, c + 1)
  OBVIOUS
<1>3. U \in SUBSET Paging!Lines(t) /\ U \in SUBSET Nat /\ IsFiniteSet(U)
  <2>1. U \in SUBSET Paging!Lines(t)
    BY <1>2 DEF Since
  <2>2. QED
    BY <2>1, LinesAre
<1>4. c + 1 \in Nat /\ n + 1 \in Nat /\ n \in 0 .. (n + 1)
  BY <1>1 DEF Time
<1>5. PICK R : R = Paging!ReadMerged(t, c + 1, n + 1)
  OBVIOUS
<1>6. /\ R \in SUBSET U /\ FirstOf(R, n) = FirstOf(U, n) /\ (Cardinality(R) < n + 1 => R = U)
      /\ \A s : t = {s} => R = FirstOf(U, n + 1)
  BY <1>2, <1>4, <1>5, ReadIs
<1>7. Cardinality(R) \in Nat
  BY <1>3, <1>6, FS_Subset, FS_CardinalityType
<1>8. ASSUME t \in Merged
      PROVE  LET page == Paging!PageAfter(t, c)
             IN  /\ page.more \in BOOLEAN /\ page.lines = InOrder(FirstOf(U, n))
                 /\ ~page.more => FirstOf(U, n) = U
  <2>1. Paging!PageAfter(t, c) = [lines |-> InOrder(FirstOf(R, n)), more |-> Cardinality(R) > n]
    BY <1>1, <1>5, <1>8, PagingOperators DEF Paging!PageAfter, Paging!PageAfterMerged, Paging!NextSinceTime
  <2>2. ASSUME ~(Cardinality(R) > n) PROVE FirstOf(U, n) = U
    <3>1. Cardinality(R) < n + 1 /\ Cardinality(R) <= n
      BY <1>1, <1>7, <2>2
    <3>2. R = U /\ Cardinality(U) <= n
      BY <1>6, <3>1
    <3>3. QED
      BY <1>1, <1>3, <3>2, FirstIs
  <2>3. PICK page : page = Paging!PageAfter(t, c)
    OBVIOUS
  <2>4. page.lines = InOrder(FirstOf(U, n)) /\ page.more = (Cardinality(R) > n)
    BY <1>6, <2>1, <2>3
  <2>5. page.more \in BOOLEAN
    BY <2>4
  <2>6. ~page.more => FirstOf(U, n) = U
    BY <2>2, <2>4
  <2>7. QED
    BY <2>3, <2>4, <2>5, <2>6
<1>9. ASSUME t \notin Merged
      PROVE  LET page == Paging!PageAfter(t, c)
                 N == {x \in FirstOf(U, n + 1) : x > c}
             IN  page.more \in BOOLEAN /\ page.lines = InOrder(FirstOf(N, n))
  <2>1. R = FirstOf(U, n + 1)
    BY <1>6, <1>9, PagingConstants
  <2>2. PICK N : N = {x \in R : x > c}
    OBVIOUS
  <2>3. Paging!PageAfter(t, c) = [lines |-> InOrder(FirstOf(N, n)), more |-> Cardinality(N) >= n]
    BY <1>1, <1>5, <1>9, <2>2, PagingOperators DEF Paging!PageAfter, Paging!PageAfterOne, Paging!NextSinceTime
  <2>4. QED
    BY <2>1, <2>2, <2>3
<1>10. QED
  BY <1>1, <1>2, <1>3, <1>8, <1>9

(* The page after a cursor: the lines of the log that follow it, up to the  *)
(* page's last; of merged targets, what else the cursor's second has first. *)
LEMMA PageAfterIs ==
  ASSUME log \in Logs, NEW t \in LogTargets, NEW c \in Time
  PROVE  \E P \in SUBSET Paging!Lines(t) :
           LET page == Paging!PageAfter(t, c) IN
             /\ page.more \in BOOLEAN /\ page.lines = InOrder(P)
             /\ \A x \in P, y \in Paging!Lines(t) : c < y /\ y < x => y \in P
             /\ t \notin Merged => \A x \in P : x > c
             /\ t \in Merged => /\ P \subseteq Since(t, c + 1)
                                /\ \A x \in P, y \in Since(t, c + 1) : y < x => y \in P
                                /\ Since(t, c + 1) # {} => P # {}
                                /\ ~page.more => P = Since(t, c + 1)
             /\ t \in Merged /\ ~Bursts(t) /\ c \in Paging!Lines(t) /\ P # {} => \E x \in P : x >= c
             /\ (t \notin Merged /\ ~Bursts(t)) \/ ~Full(t) =>
                  ((\E y \in Paging!Lines(t) : y > c) => \E x \in P : x > c)
<1>1. PICK n \in Nat \ {0} : n = PageSize
  BY PagingConstants
<1>2. PICK U : U = Since(t, c + 1)
  OBVIOUS
<1>3. U \in SUBSET Paging!Lines(t) /\ U \in SUBSET Nat /\ IsFiniteSet(U)
  BY <1>2, PageAfterRead
<1>4. \A y \in Paging!Lines(t) : y \in Nat /\ (y > c => y \in U)
  <2>1. \A y \in Paging!Lines(t) : y \in Nat
    BY LinesAre
  <2>2. c \in Nat
    BY DEF Time
  <2>3. QED
    BY <1>2, <2>1, <2>2, SecondsBetween DEF Since
<1>5. ASSUME NEW D \in SUBSET U, \A x \in D : x <= c PROVE D \subseteq OfSecond(t, c)
  <2>1. ASSUME NEW x \in D PROVE x \in OfSecond(t, c)
    <3>1. x \in Paging!Lines(t) /\ x \in Nat /\ c \in Nat /\ Sec(x) >= Sec(c + 1) /\ x <= c
      BY <1>2, <1>3, <1>5 DEF Since, Time
    <3>2. Sec(x) = Sec(c)
      BY <3>1, SecondsBetween
    <3>3. QED
      BY <3>1, <3>2 DEF OfSecond, Paging!Lines
  <2>2. QED
    BY <2>1
<1>6. IsFiniteSet(OfSecond(t, c)) /\ Cardinality(OfSecond(t, c)) \in Nat
  BY LinesAre, FS_CardinalityType
<1>7. \A D \in SUBSET OfSecond(t, c) : Cardinality(D) \in Nat /\ Cardinality(D) <= Cardinality(OfSecond(t, c))
  BY <1>6, FS_Subset, FS_CardinalityType
<1>8. ~Bursts(t) => Cardinality(OfSecond(t, c)) <= n
  BY <1>1, <1>6 DEF Bursts
<1>9. ~Full(t) => Cardinality(OfSecond(t, c)) < n
  BY <1>1, <1>6 DEF Full
<1>10. CASE t \in Merged
  <2>1. PICK P : P = FirstOf(U, n)
    OBVIOUS
  <2>2. LET page == Paging!PageAfter(t, c)
        IN  page.more \in BOOLEAN /\ page.lines = InOrder(P) /\ (~page.more => P = U)
    BY <1>1, <1>2, <1>10, <2>1, PageAfterRead
  <2>3. /\ P \subseteq U /\ \A x \in P, y \in U : y < x => y \in P
        /\ \A y \in U \ P : \E D \in SUBSET P : (\A z \in D : z < y) /\ Cardinality(D) >= n
    BY <1>3, <2>1, FirstIs
  <2>4. U # {} => P # {}
    BY <1>1, <1>3, <2>1, FirstAny
  <2>5. ASSUME ~Bursts(t), c \in Paging!Lines(t), P # {} PROVE \E x \in P : x >= c
    <3>1. PICK x \in P : TRUE
      BY <2>5
    <3>2. x \in U /\ x \in Nat /\ c \in Nat /\ Sec(x) >= Sec(c + 1)
      BY <1>2, <1>3, <2>3 DEF Since, Time
    <3>3. CASE x > c
      BY <3>2, <3>3
    <3>4. CASE x <= c
      <4>1. Sec(c + 1) = Sec(c)
        BY <3>2, <3>4, SecondsBetween
      <4>2. c \in U
        <5>1. Sec(c) \in Nat
          BY <3>2, Seconds
        <5>2. QED
          BY <1>2, <2>5, <4>1, <5>1 DEF Since
      <4>3. c \in P
        <5>1. SUFFICES ASSUME c \notin P PROVE FALSE
          OBVIOUS
        <5>2. PICK D \in SUBSET P : (\A z \in D : z < c) /\ Cardinality(D) >= n
          BY <2>3, <4>2, <5>1
        <5>3. D \in SUBSET U /\ \A z \in D : z <= c
          BY <1>3, <2>3, <3>2, <5>2
        <5>4. D \subseteq OfSecond(t, c) /\ c \notin D /\ c \in OfSecond(t, c)
          BY <1>5, <2>5, <5>1, <5>3, LinesAre
        <5>5. Cardinality(D) < Cardinality(OfSecond(t, c)) /\ Cardinality(D) \in Nat
          BY <5>4, SecondRoom
        <5>6. QED
          BY <1>1, <1>6, <1>8, <2>5, <5>2, <5>5
      <4>4. QED
        BY <3>2, <4>3
    <3>5. QED
      BY <3>2, <3>3, <3>4
  <2>6. ASSUME ~Full(t), NEW y \in Paging!Lines(t), y > c PROVE \E x \in P : x > c
    <3>1. SUFFICES ASSUME \A x \in P : ~(x > c) PROVE FALSE
      OBVIOUS
    <3>2. y \in U \ P
      BY <1>4, <2>6, <3>1
    <3>3. PICK D \in SUBSET P : Cardinality(D) >= n
      BY <2>3, <3>2
    <3>4. \A x \in D : x \in U /\ x <= c
      <4>1. \A x \in D : x \in U /\ x \in Nat /\ c \in Nat
        BY <1>3, <2>3 DEF Time
      <4>2. QED
        BY <3>1, <4>1
    <3>5. D \in SUBSET OfSecond(t, c)
      BY <1>5, <3>4
    <3>6. QED
      BY <1>1, <1>6, <1>7, <1>9, <2>6, <3>3, <3>5
  <2>7. P \in SUBSET Paging!Lines(t)
    BY <1>3, <2>3
  <2>8. \A x \in P, y \in Paging!Lines(t) : c < y /\ y < x => y \in P
    BY <1>4, <2>3
  <2>9. QED
    BY <1>2, <1>10, <2>2, <2>3, <2>4, <2>5, <2>6, <2>7, <2>8
<1>11. CASE t \notin Merged
  <2>1. PICK F : F = FirstOf(U, n + 1)
    OBVIOUS
  <2>2. PICK N : N = {x \in F : x > c}
    OBVIOUS
  <2>3. PICK P : P = FirstOf(N, n)
    OBVIOUS
  <2>4. LET page == Paging!PageAfter(t, c)
        IN  page.more \in BOOLEAN /\ page.lines = InOrder(P)
    BY <1>1, <1>2, <1>11, <2>1, <2>2, <2>3, PageAfterRead
  <2>5. /\ F \subseteq U /\ \A x \in F, y \in U : y < x => y \in F
        /\ \A y \in U \ F : \E D \in SUBSET F : (\A z \in D : z < y) /\ Cardinality(D) >= n + 1
    <3>1. n + 1 \in Nat
      OBVIOUS
    <3>2. QED
      BY <1>3, <2>1, <3>1, FirstIs
  <2>6. N \in SUBSET U /\ N \in SUBSET Nat /\ IsFiniteSet(N)
    <3>1. N \in SUBSET U
      BY <2>2, <2>5
    <3>2. QED
      BY <1>3, <3>1, FS_Subset
  <2>7. P \subseteq N /\ (\A x \in P, y \in N : y < x => y \in P)
    BY <2>3, <2>6, FirstIs
  <2>8. P \in SUBSET Paging!Lines(t) /\ \A x \in P : x > c
    BY <1>3, <2>2, <2>6, <2>7
  <2>9. ASSUME NEW x \in P, NEW y \in Paging!Lines(t), c < y, y < x PROVE y \in P
    <3>1. y \in U /\ x \in F
      BY <1>4, <2>2, <2>7, <2>9
    <3>2. y \in N
      BY <2>2, <2>5, <2>9, <3>1, <1>4 DEF Time
    <3>3. QED
      BY <2>7, <2>9, <3>2
  <2>10. ASSUME ~Bursts(t), NEW y \in Paging!Lines(t), y > c PROVE \E x \in P : x > c
    <3>1. N # {}
      <4>1. SUFFICES ASSUME N = {} PROVE FALSE
        OBVIOUS
      <4>2. y \in U \ F
        BY <1>4, <2>2, <2>10, <4>1
      <4>3. PICK D \in SUBSET F : Cardinality(D) >= n + 1
        BY <2>5, <4>2
      <4>4. \A x \in D : x \in U /\ x <= c
        <5>1. \A x \in D : x \in U /\ x \in Nat /\ c \in Nat /\ x \in F
          BY <1>3, <2>5 DEF Time
        <5>2. QED
          BY <2>2, <4>1, <5>1
      <4>5. D \in SUBSET OfSecond(t, c)
        BY <1>5, <4>4
      <4>6. QED
        BY <1>1, <1>6, <1>7, <1>8, <2>10, <4>3, <4>5
    <3>2. P # {}
      BY <1>1, <2>3, <2>6, <3>1, FirstAny
    <3>3. QED
      BY <2>8, <3>2
  <2>11. ASSUME ~Full(t) PROVE ~Bursts(t)
    <3>1. SUFFICES ASSUME NEW x \in Time, Cardinality(OfSecond(t, x)) > n PROVE FALSE
      BY <1>1 DEF Bursts
    <3>2. Cardinality(OfSecond(t, x)) \in Nat
      BY LinesAre, FS_CardinalityType
    <3>3. Cardinality(OfSecond(t, x)) >= n
      BY <3>1, <3>2
    <3>4. QED
      BY <1>1, <2>11, <3>3 DEF Full
  <2>12. QED
    BY <1>11, <2>4, <2>8, <2>9, <2>10, <2>11
<1>12. QED
  BY <1>10, <1>11

(* The first page: of the lines of the log, none left out between two; the  *)
(* first ones, the last ones, or those since a time.                       *)
LEMMA FirstPageIs ==
  ASSUME log \in Logs, NEW s, s.target \in LogTargets, s.since \in Nat
  PROVE  \E P \in SUBSET Paging!Lines(s.target) :
           /\ Paging!FirstPage(s) = InOrder(P)
           /\ \A x, z \in P, y \in Paging!Lines(s.target) : x < y /\ y < z => y \in P
           /\ s.mode = "start" => \A x \in P, y \in Paging!Lines(s.target) : y < x => y \in P
           /\ s.mode # "start" /\ s.since = 0 =>
                \A x \in P, y \in Paging!Lines(s.target) : x < y => y \in P
           /\ s.mode # "start" /\ s.since # 0 => P \subseteq Since(s.target, s.since)
           /\ P = {} => IF s.mode = "start" \/ s.since = 0 THEN Paging!Lines(s.target) = {}
                        ELSE Since(s.target, s.since) = {}
           /\ ~Bursts(s.target) =>
                \A z \in P : (\A x \in P : x <= z) =>
                  \A y \in Paging!Lines(s.target) : y <= z /\ Sec(y) = Sec(z) => y \in P
<1>1. PICK n \in Nat \ {0} : n = PageSize
  BY PagingConstants
<1>2. PICK t \in LogTargets : t = s.target
  OBVIOUS
<1>3. PICK S : S = Paging!Lines(t)
  OBVIOUS
<1>4. S \in SUBSET Nat /\ IsFiniteSet(S) /\ S \in SUBSET Time
  BY <1>3, LinesAre
<1>5. \A x \in S : Sec(x) \in Nat
  BY <1>4, Seconds
<1>6. CASE s.mode = "start"
  <2>1. PICK P : P = FirstOf(S, n)
    OBVIOUS
  <2>2. Paging!FirstPage(s) = InOrder(P)
    BY <1>1, <1>2, <1>3, <1>6, <2>1, PagingOperators DEF Paging!FirstPage, Paging!FirstLines
  <2>3. P \in SUBSET S /\ \A x \in P, y \in S : y < x => y \in P
    BY <1>4, <2>1, FirstIs
  <2>4. P = {} => S = {}
    BY <1>1, <1>4, <2>1, FirstAny
  <2>5. ASSUME NEW z \in P, NEW y \in S, y <= z PROVE y \in P
    <3>1. y \in Nat /\ z \in Nat
      BY <1>4, <2>3
    <3>2. y = z \/ y < z
      BY <2>5, <3>1
    <3>3. QED
      BY <2>3, <3>2
  <2>6. QED
    BY <1>2, <1>3, <1>6, <2>2, <2>3, <2>4, <2>5
<1>7. CASE s.mode # "start" /\ s.since = 0
  <2>1. PICK P : P = LastOf(S, n)
    OBVIOUS
  <2>2. Paging!FirstPage(s) = InOrder(P)
    BY <1>1, <1>2, <1>3, <1>7, <2>1, PagingOperators DEF Paging!FirstPage, Paging!LastLines
  <2>3. LastTime \in Nat /\ S \in SUBSET (0 .. LastTime)
    <3>1. LastTime \in Nat
      BY PagingConstants
    <3>2. Time \subseteq 0 .. LastTime
      BY <3>1 DEF Time
    <3>3. QED
      BY <1>4, <3>1, <3>2
  <2>4. /\ P \in SUBSET S /\ \A x \in P, y \in S : y > x => y \in P
        /\ \A y \in S \ P : \E D \in SUBSET P : (\A z \in D : y < z) /\ Cardinality(D) >= n
    <3>1. PICK m \in Nat : S \in SUBSET (0 .. m)
      BY <2>3
    <3>2. n \in Nat
      BY <1>1
    <3>3. /\ LastOf(S, n) \in SUBSET S /\ \A x \in LastOf(S, n), y \in S : y > x => y \in LastOf(S, n)
          /\ \A y \in S \ LastOf(S, n) :
               \E D \in SUBSET LastOf(S, n) : (\A z \in D : y < z) /\ Cardinality(D) >= n
      BY <3>1, <3>2, LastIs
    <3>4. QED
      BY <2>1, <3>3
  <2>5. P = {} => S = {}
    <3>1. SUFFICES ASSUME P = {}, NEW y \in S PROVE FALSE
      OBVIOUS
    <3>2. PICK D \in SUBSET P : Cardinality(D) >= n
      BY <2>4, <3>1
    <3>3. Cardinality(D) = 0
      BY <3>1, FS_EmptySet
    <3>4. QED
      BY <3>2, <3>3
  <2>6. ASSUME ~Bursts(t), NEW z \in P, \A x \in P : x <= z, NEW y \in S, y <= z, Sec(y) = Sec(z)
        PROVE  y \in P
    <3>1. SUFFICES ASSUME y \notin P PROVE FALSE
      OBVIOUS
    <3>2. PICK D \in SUBSET P : (\A x \in D : y < x) /\ Cardinality(D) >= n
      BY <2>4, <3>1
    <3>3. ASSUME NEW x \in D PROVE x \in OfSecond(t, y)
      <4>1. x \in S /\ {x, y, z} \subseteq Nat /\ y <= x /\ x <= z
        <5>1. x \in S /\ {x, y, z} \subseteq Nat /\ y < x /\ x <= z
          BY <1>4, <2>4, <2>6, <3>2
        <5>2. QED
          BY <5>1
      <4>2. Sec(y) <= Sec(x) /\ Sec(x) <= Sec(z) /\ Sec(x) \in Nat /\ Sec(y) \in Nat
        BY <4>1, Seconds
      <4>3. Sec(x) = Sec(y)
        BY <2>6, <4>2
      <4>4. x \in UNION {log[r] : r \in t}
        BY <1>3, <4>1 DEF Paging!Lines
      <4>5. QED
        BY <4>3, <4>4 DEF OfSecond
    <3>4. D \subseteq OfSecond(t, y) /\ y \notin D /\ y \in OfSecond(t, y) /\ y \in Time
      BY <1>3, <1>4, <2>4, <3>1, <3>3, LinesAre
    <3>5. /\ Cardinality(D) \in Nat /\ Cardinality(OfSecond(t, y)) \in Nat
          /\ Cardinality(D) < Cardinality(OfSecond(t, y))
      BY <3>4, SecondRoom
    <3>6. Cardinality(OfSecond(t, y)) <= n
      BY <1>1, <2>6, <3>4, <3>5 DEF Bursts
    <3>7. QED
      BY <3>2, <3>5, <3>6
  <2>7. QED
    BY <1>2, <1>3, <1>7, <2>2, <2>4, <2>5, <2>6
<1>8. CASE s.mode # "start" /\ s.since # 0
  <2>1. PICK U : U = Since(t, s.since)
    OBVIOUS
  <2>2. U \in SUBSET S /\ U \in SUBSET Nat /\ IsFiniteSet(U)
    <3>1. U \in SUBSET S
      BY <1>3, <2>1 DEF Since
    <3>2. QED
      BY <1>4, <3>1, FS_Subset
  <2>3. PICK P : P = FirstOf(U, n)
    OBVIOUS
  <2>4. Paging!FirstPage(s) = InOrder(P)
    <3>1. PICK R : R = Paging!ReadMerged(t, s.since, n)
      OBVIOUS
    <3>2. n \in 0 .. n
      OBVIOUS
    <3>3. FirstOf(R, n) = P
      BY <2>1, <2>3, <3>1, <3>2, ReadIs
    <3>4. Paging!FirstPage(s) = InOrder(FirstOf(R, n))
      BY <1>1, <1>2, <1>8, <3>1, PagingOperators DEF Paging!FirstPage, Paging!LinesSince
    <3>5. QED
      BY <3>3, <3>4
  <2>5. P \in SUBSET U /\ \A x \in P, y \in U : y < x => y \in P
    BY <2>2, <2>3, FirstIs
  <2>6. P = {} => U = {}
    BY <1>1, <2>2, <2>3, FirstAny
  <2>7. ASSUME NEW x \in P, NEW y \in S, Sec(x) <= Sec(y) PROVE y \in U
    <3>1. Sec(x) >= Sec(s.since) /\ {Sec(x), Sec(y), Sec(s.since)} \subseteq Nat
      BY <1>5, <2>1, <2>2, <2>5, Seconds DEF Since
    <3>2. QED
      BY <1>3, <2>1, <2>7, <3>1 DEF Since
  <2>8. ASSUME NEW x \in P, NEW z \in P, NEW y \in S, x < y, y < z PROVE y \in P
    <3>1. Sec(x) <= Sec(y)
      <4>1. x \in Nat /\ y \in Nat /\ x <= y
        BY <1>4, <2>2, <2>5, <2>8
      <4>2. QED
        BY <4>1, Seconds
    <3>2. QED
      BY <2>5, <2>7, <2>8, <3>1
  <2>9. ASSUME NEW z \in P, NEW y \in S, y <= z, Sec(y) = Sec(z) PROVE y \in P
    <3>1. y \in U
      BY <1>5, <2>7, <2>9
    <3>2. y = z \/ y < z
      BY <1>4, <2>2, <2>5, <2>9
    <3>3. QED
      BY <2>5, <3>1, <3>2
  <2>10. P \in SUBSET S
    BY <2>2, <2>5
  <2>11. QED
    BY <1>2, <1>3, <1>8, <2>1, <2>4, <2>5, <2>6, <2>8, <2>9, <2>10
<1>9. QED
  BY <1>6, <1>7, <1>8

(* The page before a cursor: the lines of the log that precede it, from the *)
(* page's first on; it knows of the first of all.                          *)
LEMMA PageBeforeIs ==
  ASSUME log \in Logs, NEW t \in LogTargets, NEW c \in Time
  PROVE  \E P \in SUBSET Paging!Lines(t) :
           LET page == Paging!PageBefore(t, c) IN
             /\ page.more \in BOOLEAN /\ page.lines = InOrder(P)
             /\ \A x \in P : x < c
             /\ \A x \in P, y \in Paging!Lines(t) : x < y /\ y < c => y \in P
             /\ ~page.more \/ P = {} => \A y \in Paging!Lines(t) : y < c => y \in P
<1>1. PICK n \in Nat \ {0} : n = PageSize
  BY PagingConstants
<1>2. PICK T : T = {x \in Paging!Lines(t) : x < c}
  OBVIOUS
<1>3. T \in SUBSET Paging!Lines(t) /\ T \in SUBSET Time /\ IsFiniteSet(T)
  <2>1. T \in SUBSET Paging!Lines(t)
    BY <1>2
  <2>2. QED
    BY <2>1, LinesAre
<1>4. LastTime \in Nat /\ T \in SUBSET (0 .. LastTime) /\ Cardinality(T) \in Nat
  <2>1. LastTime \in Nat
    BY PagingConstants
  <2>2. Time \subseteq 0 .. LastTime
    BY <2>1 DEF Time
  <2>3. QED
    BY <1>3, <2>1, <2>2, FS_CardinalityType
<1>5. PICK P : P = LastOf(T, n)
  OBVIOUS
<1>6. /\ P \in SUBSET T /\ \A x \in P, y \in T : y > x => y \in P
      /\ Cardinality(T) <= n => P = T
      /\ \A y \in T \ P : \E D \in SUBSET P : (\A z \in D : y < z) /\ Cardinality(D) >= n
  <2>1. PICK m \in Nat : T \in SUBSET (0 .. m)
    BY <1>4
  <2>2. QED
    BY <1>5, <2>1, LastIs
<1>7. PICK page : page = Paging!PageBefore(t, c)
  OBVIOUS
<1>8. page = [lines |-> InOrder(P), more |-> Cardinality(T) >= n]
  BY <1>1, <1>2, <1>5, <1>7, PagingOperators DEF Paging!PageBefore
<1>9. page.more \in BOOLEAN /\ page.lines = InOrder(P) /\ (~page.more => Cardinality(T) <= n)
  <2>1. page.lines = InOrder(P) /\ page.more = (Cardinality(T) >= n)
    BY <1>8
  <2>2. ~(Cardinality(T) >= n) => Cardinality(T) <= n
    BY <1>4
  <2>3. page.more \in BOOLEAN
    BY <2>1
  <2>4. QED
    BY <2>1, <2>2, <2>3, Zenon
<1>10. P = {} => T = {}
  <2>1. SUFFICES ASSUME P = {}, NEW y \in T PROVE FALSE
    OBVIOUS
  <2>2. PICK D \in SUBSET P : Cardinality(D) >= n
    BY <1>6, <2>1
  <2>3. Cardinality(D) = 0
    BY <2>1, FS_EmptySet
  <2>4. QED
    BY <2>2, <2>3
<1>11. ~page.more \/ P = {} => P = T
  BY <1>6, <1>9, <1>10
<1>12. P \in SUBSET Paging!Lines(t) /\ \A x \in P : x < c
  BY <1>2, <1>6
<1>13. QED
  BY <1>2, <1>6, <1>7, <1>9, <1>11, <1>12

(* What is appended: the elements that are not there, in their order.       *)
LEMMA AppendUniqueIs ==
  ASSUME NEW s \in Seq(Nat), NEW t \in Seq(Nat)
  PROVE  \E f \in Seq(Nat) : /\ Paging!AppendUnique(s, t) = s \o f
                             /\ Elems(f) = Elems(t) \ Elems(s)
                             /\ Increasing(t) => Increasing(f)
<1>1. PICK n \in Nat : n = Len(t) /\ DOMAIN t = 1 .. n
  OBVIOUS
<1>2. PICK I : I = {i \in 1 .. n : t[i] \notin Elems(s)}
  OBVIOUS
<1>3. I \in SUBSET Nat /\ I \in SUBSET (1 .. n) /\ IsFiniteSet(I)
  <2>1. I \in SUBSET (1 .. n) /\ IsFiniteSet(1 .. n)
    BY <1>2, FS_Interval
  <2>2. IsFiniteSet(I)
    BY <2>1, FS_Subset
  <2>3. \A i \in I : i \in Nat
    BY <2>1
  <2>4. QED
    BY <2>1, <2>2, <2>3
<1>4. PICK g : g = InOrder(I)
  OBVIOUS
<1>5. g \in Seq(I) /\ Elems(g) = I /\ Increasing(g)
  BY <1>3, <1>4, OrderedElems
<1>6. PICK m \in Nat : m = Len(g) /\ DOMAIN g = 1 .. m
  BY <1>5
<1>7. PICK f : f = [i \in 1 .. m |-> t[g[i]]]
  OBVIOUS
<1>8. \A i \in 1 .. m : g[i] \in I /\ g[i] \in 1 .. n
  <2>1. \A i \in 1 .. m : g[i] \in I
    BY <1>5, <1>6 DEF Elems
  <2>2. QED
    BY <1>3, <2>1
<1>9. f \in Seq(Nat) /\ DOMAIN f = 1 .. m
  <2>1. \A i \in 1 .. m : t[g[i]] \in Nat
    BY <1>1, <1>8
  <2>2. QED
    BY <1>6, <1>7, <2>1
<1>10. Elems(f) = Elems(t) \ Elems(s)
  <2>1. ASSUME NEW i \in 1 .. m PROVE f[i] \in Elems(t) \ Elems(s)
    BY <1>1, <1>2, <1>7, <1>8 DEF Elems
  <2>2. ASSUME NEW k \in 1 .. n, t[k] \notin Elems(s) PROVE t[k] \in Elems(f)
    <3>1. k \in Elems(g)
      BY <1>2, <1>5, <2>2
    <3>2. PICK i \in 1 .. m : g[i] = k
      BY <1>6, <3>1 DEF Elems
    <3>3. QED
      BY <1>7, <1>9, <3>2 DEF Elems
  <2>3. \A x \in Elems(f) : x \in Elems(t) \ Elems(s)
    BY <1>9, <2>1 DEF Elems
  <2>4. \A x \in Elems(t) : x \notin Elems(s) => x \in Elems(f)
    <3>1. \A x \in Elems(t) : \E k \in 1 .. n : x = t[k]
      BY <1>1 DEF Elems
    <3>2. QED
      BY <2>2, <3>1
  <2>5. QED
    BY <2>3, <2>4
<1>11. ASSUME Increasing(t) PROVE Increasing(f)
  <2>1. ASSUME NEW i \in 1 .. m, NEW j \in 1 .. m, i < j PROVE f[i] < f[j]
    <3>1. g[i] < g[j]
      BY <1>5, <1>6, <2>1 DEF Increasing
    <3>2. t[g[i]] < t[g[j]]
      BY <1>1, <1>8, <1>11, <3>1 DEF Increasing
    <3>3. QED
      BY <1>7, <3>2
  <2>2. QED
    BY <1>9, <2>1 DEF Increasing
<1>12. Paging!AppendUnique(s, t) = s \o f
  <2>1. Paging!AppendUnique(s, t) = LET fresh == InOrder(I) IN s \o [i \in DOMAIN fresh |-> t[fresh[i]]]
    BY <1>1, <1>2, PagingOperators DEF Paging!AppendUnique
  <2>2. QED
    BY <1>4, <1>6, <1>7, <2>1
<1>13. QED
  BY <1>9, <1>10, <1>11, <1>12

(* As long as the selection and the log stay, so does what is selected.     *)
LEMMA SelectedStays ==
  ASSUME UNCHANGED <<log, written, sel>>
  PROVE  /\ Selected' = Selected /\ Several' = Several /\ FitsPage' = FitsPage /\ Calm' = Calm
         /\ Roomy' = Roomy
         /\ Since(sel.target, sel.since)' = Since(sel.target, sel.since)
BY DEF Selected, Several, FitsPage, Calm, Roomy, Paging!Lines, Since, Bursts, Full, OfSecond

LEMMA SelectionIs ==
  /\ \A s \in Paging!Selection : s.target \in LogTargets /\ s.since \in Nat /\ s.mode \in {"start", "end"}
                                 /\ s.since \in 0 .. LastTime
  /\ \A s \in Paging!Selection : \A t \in LogTargets : [s EXCEPT !.target = t] \in Paging!Selection
  /\ \A s \in Paging!Selection : [s EXCEPT !.mode = "start", !.since = 0] \in Paging!Selection
  /\ \A s \in Paging!Selection : [s EXCEPT !.mode = "end", !.since = 0] \in Paging!Selection
  /\ \A s \in Paging!Selection : \A since \in 1 .. LastTime : since % Second = 0 =>
       [s EXCEPT !.mode = "end", !.since = since] \in Paging!Selection
<1>1. LastTime \in Nat /\ {0} \cup {x \in 1 .. LastTime : x % Second = 0} \subseteq 0 .. LastTime
      /\ 0 .. LastTime \subseteq Nat /\ 0 \in 0 .. LastTime
  BY PagingConstants
<1>2. QED
  BY <1>1 DEF Paging!Selection

LEMMA SelectedIs ==
  ASSUME PagingTyped
  PROVE  /\ sel.target \in LogTargets /\ sel.since \in Nat /\ log \in Logs
         /\ Selected \in SUBSET Nat /\ Selected \in SUBSET Time
         /\ \A x \in Selected : x <= written /\ x \in Time /\ x \in Nat /\ Sec(x) \in Nat
         /\ view \in Seq(Nat) /\ Elems(view) \subseteq Nat
         /\ view # <<>> => view[1] \in Elems(view) /\ Bottom(view) \in Elems(view)
         /\ \A c \in calls : c.lines \in Seq(Nat)
<1> USE DEF PagingTyped
<1>1. sel.target \in LogTargets /\ sel.since \in Nat /\ log \in Logs
  BY SelectionIs
<1>2. Selected \in SUBSET Nat /\ Selected \in SUBSET Time
  <2>1. Selected \subseteq Paging!Lines(sel.target)
    BY DEF Selected
  <2>2. QED
    BY <1>1, <2>1, LinesAre
<1>3. \A x \in Selected : x <= written /\ x \in Time /\ x \in Nat /\ Sec(x) \in Nat
  <2>1. \A x \in Selected : x <= written
    BY DEF Selected, Paging!Lines
  <2>2. QED
    BY <1>2, <2>1, Seconds
<1>4. \A s \in Seq(Time) : s \in Seq(Nat) /\ Elems(s) \subseteq Nat
  <2>1. ASSUME NEW s \in Seq(Time) PROVE s \in Seq(Nat) /\ Elems(s) \subseteq Nat
    <3>1. PICK n \in Nat : n = Len(s) /\ DOMAIN s = 1 .. n
      OBVIOUS
    <3>2. \A i \in DOMAIN s : s[i] \in Nat
      <4>1. \A i \in 1 .. n : s[i] \in Time
        BY <3>1
      <4>2. Time \subseteq Nat
        BY PagingConstants DEF Time
      <4>3. QED
        BY <3>1, <4>1, <4>2
    <3>3. s \in [1 .. n -> Nat]
      BY <3>1, <3>2
    <3>4. s \in Seq(Nat)
      BY <3>3
    <3>5. Elems(s) \subseteq Nat
      BY <3>2 DEF Elems
    <3>6. QED
      BY <3>4, <3>5
  <2>2. QED
    BY <2>1
<1>5. view # <<>> => view[1] \in Elems(view) /\ Bottom(view) \in Elems(view)
  <2>1. PICK n \in Nat : n = Len(view) /\ DOMAIN view = 1 .. n
    OBVIOUS
  <2>2. view # <<>> => n # 0
    BY <2>1
  <2>3. n # 0 => 1 \in 1 .. n /\ n \in 1 .. n
    BY <2>1
  <2>4. QED
    BY <2>1, <2>2, <2>3 DEF Elems, Bottom
<1>6. \A c \in calls : c.lines \in Seq(Time)
  BY DEF CallType
<1>7. QED
  BY <1>1, <1>2, <1>3, <1>4, <1>5, <1>6

LEMMA PagingInitInv ==
  ASSUME Paging!Init
  PROVE  PagingInv
<1>1. LastTime \in Nat /\ 0 \in 0 .. LastTime /\ MaxPages \in Nat \ {0} /\ 0 \in 0 .. (MaxPages - 1)
  BY PagingConstants
<1>2. PICK c : c = [kind |-> "fetch", sel |-> sel, cursor |-> 0, had |-> FALSE, lines |-> <<>>, pages |-> 0]
  OBVIOUS
<1>3. /\ calls = {c} /\ view = <<>> /\ missed = {} /\ sel \in Paging!Selection /\ sel.since = 0
      /\ load = [loading |-> TRUE, hasBefore |-> FALSE, hasAfter |-> FALSE, beforeTs |-> 0,
                 afterTs |-> 0, busy |-> {}]
  BY <1>2 DEF Paging!Init, Paging!Call
<1>4. <<>> \in Seq(Time) /\ Elems(<<>>) = {} /\ Increasing(<<>>)
  BY DEF Elems, Increasing
<1>5. c \in CallType
  BY <1>1, <1>2, <1>3, <1>4 DEF CallType
<1>6. load \in LoadType
  BY <1>1, <1>3 DEF LoadType
<1>7. PagingTyped
  <2>1. log \in Logs /\ written \in 0 .. LastTime /\ seen = 0 /\ follow = TRUE /\ error = FALSE
    BY DEF Paging!Init
  <2>2. seen \in 0 .. LastTime /\ seen <= written
    BY <1>1, <2>1
  <2>3. view \in Seq(Time) /\ calls \in SUBSET CallType /\ missed \in SUBSET {"before", "after"}
    BY <1>3, <1>4, <1>5
  <2>4. QED
    BY <1>3, <1>6, <2>1, <2>2, <2>3 DEF PagingTyped
<1>8. CallsKept
  BY <1>2, <1>3 DEF CallsKept
<1>9. OfLog
  BY <1>2, <1>3, <1>4 DEF OfLog
<1>10. Whole /\ TopKnown /\ BottomKnown
  BY <1>3 DEF Whole, TopKnown, BottomKnown
<1>11. Polled
  BY <1>2, <1>3 DEF Polled
<1>12. Ordered
  BY <1>3, <1>4 DEF Ordered
<1>13. QED
  BY <1>7, <1>8, <1>9, <1>10, <1>11, <1>12 DEF PagingInv

LEMMA PagingWrite ==
  ASSUME PagingInv, Paging!Write
  PROVE  PagingInv'
<1>1. /\ written < LastTime /\ written' = written + 1
      /\ log' = log /\ sel' = sel /\ follow' = follow /\ view' = view /\ load' = load
      /\ error' = error /\ calls' = calls /\ seen' = seen /\ missed' = missed
  BY DEF Paging!Write
<1>2. /\ PagingTyped /\ CallsKept /\ OfLog /\ Whole /\ Polled /\ Ordered /\ TopKnown /\ BottomKnown
  BY DEF PagingInv
<1>3. LastTime \in Nat /\ written \in Nat /\ seen \in Nat /\ seen <= written
  BY <1>2, PagingConstants DEF PagingTyped
<1>4. PICK S : S = Selected
  OBVIOUS
<1>5. PICK T : T = Selected'
  OBVIOUS
<1>6. \A x \in S : x \in Nat /\ x <= written
  BY <1>2, <1>4, SelectedIs
<1>7. S \subseteq T /\ \A x \in T : x \in S \/ x = written + 1
  <2>1. S = {x \in UNION {log[s] : s \in sel.target} : x <= written}
    BY <1>4 DEF Selected, Paging!Lines
  <2>2. T = {x \in UNION {log[s] : s \in sel.target} : x <= written + 1}
    BY <1>1, <1>5 DEF Selected, Paging!Lines
  <2>3. UNION {log[s] : s \in sel.target} \subseteq Nat
    <3>1. \A s \in sel.target : log[s] \subseteq Time
      BY <1>2, SelectedIs, PagingConstants
    <3>2. Time \subseteq Nat
      BY <1>3 DEF Time
    <3>3. QED
      BY <3>1, <3>2
  <2>4. \A x \in Nat : x <= written + 1 => x <= written \/ x = written + 1
    BY <1>3
  <2>5. \A x \in Nat : x <= written => x <= written + 1
    BY <1>3
  <2>6. QED
    BY <2>1, <2>2, <2>3, <2>4, <2>5
<1>8. \A x \in T : \A y \in Nat : x <= y /\ y <= written => x \in S
  BY <1>3, <1>6, <1>7
<1>9. Several' = Several /\ FitsPage' = FitsPage /\ Calm' = Calm /\ Roomy' = Roomy /\ Paging!Following' = Paging!Following
  BY <1>1 DEF Several, FitsPage, Calm, Roomy, Bursts, Full, OfSecond, Paging!Following, Paging!AtEnd
<1>10. PagingTyped'
  <2>1. written' \in 0 .. LastTime /\ seen <= written'
    BY <1>1, <1>3
  <2>2. QED
    BY <1>1, <1>2, <2>1 DEF PagingTyped
<1>11. CallsKept'
  BY <1>1, <1>2, <1>9 DEF CallsKept
<1>12. OfLog'
  <2>1. Elems(view) \subseteq T /\ \A c \in calls : Elems(c.lines) \subseteq T /\ (c.kind # "fetch" => c.cursor \in T)
    BY <1>2, <1>4, <1>7 DEF OfLog
  <2>2. view # <<>> /\ sel.since # 0 => Since(sel.target, sel.since)' # {}
    <3>1. Since(sel.target, sel.since) = {x \in S : Sec(x) >= Sec(sel.since)}
      BY <1>4 DEF Since, Selected
    <3>2. Since(sel.target, sel.since)' = {x \in T : Sec(x) >= Sec(sel.since)}
      BY <1>1, <1>5 DEF Since, Selected
    <3>3. QED
      BY <1>2, <1>7, <3>1, <3>2 DEF OfLog
  <2>3. QED
    BY <1>1, <1>5, <2>1, <2>2 DEF OfLog
<1>13. view # <<>> => /\ view[1] \in S /\ Bottom(view) \in S
                      /\ view[1] \in Nat /\ Bottom(view) \in Nat /\ Bottom(view) <= written
  <2>1. view # <<>> => view[1] \in S /\ Bottom(view) \in S
    BY <1>2, <1>4, SelectedIs DEF OfLog
  <2>2. QED
    BY <1>6, <2>1
<1>14. Whole'
  <2>1. ASSUME view # <<>>, RunOf(S, view, Several) PROVE RunOf(T, view, Several)
    <3>1. \A x \in T : x <= Bottom(view) => x \in S
      BY <1>8, <1>13, <2>1
    <3>2. Elems(view) = {x \in T : view[1] <= x /\ x <= Bottom(view)}
      BY <1>7, <2>1, <3>1 DEF RunOf
    <3>3. QED
      BY <2>1, <3>1, <3>2 DEF RunOf
  <2>2. QED
    BY <1>1, <1>2, <1>4, <1>5, <1>9, <2>1 DEF Whole
<1>15. Polled'
  <2>1. ASSUME NEW c \in calls, c.kind = "poll", Continues(S, view, Several, c.cursor, c.lines)
        PROVE  Continues(T, view, Several, c.cursor, c.lines)
    <3>1. c.cursor \in S
      BY <1>2, <1>4, <2>1 DEF OfLog
    <3>2. c.cursor \in Nat /\ c.cursor <= written
      BY <1>6, <3>1
    <3>3. \A x \in T : x <= c.cursor => x \in S
      BY <1>8, <3>2
    <3>4. QED
      BY <2>1, <3>3 DEF Continues
  <2>2. QED
    BY <1>1, <1>2, <1>4, <1>5, <1>9, <2>1 DEF Polled
<1>16. Ordered'
  BY <1>1, <1>2, <1>9 DEF Ordered
<1>17. TopKnown'
  <2>1. view # <<>> /\ (\A x \in S : view[1] <= x) => \A x \in T : view[1] <= x
    <3>1. view # <<>> => view[1] <= written + 1
      BY <1>3, <1>6, <1>13
    <3>2. QED
      BY <1>7, <3>1
  <2>2. QED
    BY <1>1, <1>2, <1>4, <1>5, <2>1 DEF TopKnown
<1>18. BottomKnown'
  <2>1. \A x \in T : x <= seen => x \in S
    BY <1>3, <1>8
  <2>2. QED
    BY <1>1, <1>2, <1>4, <1>5, <1>9, <2>1 DEF BottomKnown
<1>19. QED
  BY <1>10, <1>11, <1>12, <1>14, <1>15, <1>16, <1>17, <1>18 DEF PagingInv

(* Resetting and fetching. *)
LEMMA ResetIs ==
  ASSUME NEW l \in LoadType, l.busy = {}
  PROVE  /\ Paging!Reset(l) \in LoadType
         /\ Paging!Reset(l).busy = {} /\ Paging!Reset(l).beforeTs = 0 /\ Paging!Reset(l).afterTs = 0
         /\ Paging!Reset(l).loading = l.loading /\ Paging!Reset(l).hasBefore = l.hasBefore
         /\ Paging!Reset(l).hasAfter = l.hasAfter
<1>1. 0 \in 0 .. LastTime
  BY PagingConstants
<1>2. l.busy \ {"before", "after"} = {}
  OBVIOUS
<1>3. PICK k : k = Paging!Reset(l)
  OBVIOUS
<1>4. k = [l EXCEPT !.busy = {}, !.beforeTs = 0, !.afterTs = 0]
  BY <1>2, <1>3 DEF Paging!Reset
<1>5. k \in LoadType /\ k.busy = {} /\ k.beforeTs = 0 /\ k.afterTs = 0 /\ k.loading = l.loading
      /\ k.hasBefore = l.hasBefore /\ k.hasAfter = l.hasAfter
  BY <1>1, <1>4 DEF LoadType
<1>6. QED
  BY <1>3, <1>5

LEMMA FetchIs ==
  ASSUME NEW s \in Paging!Selection, NEW had \in BOOLEAN, NEW l \in LoadType, l.busy = {}, calls = {},
         Paging!Fetch(s, l, had)
  PROVE  \E c \in CallType :
           /\ c.kind = "fetch" /\ c.sel = s /\ c.lines = <<>> /\ calls' = {c}
           /\ load' \in LoadType /\ load'.loading = TRUE /\ load'.busy = {}
           /\ load'.beforeTs = 0 /\ load'.afterTs = 0
<1>1. PICK c : c = [kind |-> "fetch", sel |-> s, cursor |-> 0, had |-> had, lines |-> <<>>, pages |-> 0]
  OBVIOUS
<1>2. 0 \in 0 .. LastTime /\ 0 \in 0 .. (MaxPages - 1) /\ <<>> \in Seq(Time)
  BY PagingConstants
<1>3. c \in CallType /\ c.kind = "fetch" /\ c.sel = s /\ c.lines = <<>>
  BY <1>1, <1>2 DEF CallType
<1>4. calls' = {c}
  BY <1>1 DEF Paging!Fetch, Paging!Call
<1>5. PICK k \in LoadType : k = Paging!Reset(l) /\ k.busy = {} /\ k.beforeTs = 0 /\ k.afterTs = 0
  BY ResetIs
<1>6. load' = [k EXCEPT !.loading = TRUE]
  BY <1>5 DEF Paging!Fetch
<1>7. load' \in LoadType /\ load'.loading = TRUE /\ load'.busy = {} /\ load'.beforeTs = 0 /\ load'.afterTs = 0
  BY <1>5, <1>6 DEF LoadType
<1>8. QED
  BY <1>3, <1>4, <1>7

(* Nothing is known of an empty screen, and of a fetch. *)
LEMMA NothingShown ==
  ASSUME PagingTyped', view' = <<>>, \A c \in calls' : c.kind = "fetch" /\ c.lines = <<>> /\ c.sel = sel'
                                                     /\ calls' = {c},
         load.busy' = {}, load.loading' <=> calls' # {}, load.beforeTs' = 0, load.afterTs' = 0
  PROVE  PagingInv'
<1>1. Elems(<<>>) = {} /\ Increasing(<<>>)
  BY DEF Elems, Increasing
<1>2. CallsKept'
  BY DEF CallsKept
<1>3. OfLog'
  BY <1>1 DEF OfLog
<1>4. Whole' /\ TopKnown' /\ BottomKnown'
  BY DEF Whole, TopKnown, BottomKnown
<1>5. Polled'
  BY DEF Polled
<1>6. Ordered'
  BY <1>1 DEF Ordered
<1>7. QED
  BY <1>2, <1>3, <1>4, <1>5, <1>6 DEF PagingInv

LEMMA PagingSelect ==
  ASSUME PagingInv, calls = {}, NEW s \in Paging!Selection, NEW l \in LoadType, NEW had \in BOOLEAN,
         l.busy = load.busy, l.loading = load.loading, Paging!Select(s, l, had), follow' \in BOOLEAN
  PROVE  PagingInv'
<1>1. PagingTyped /\ CallsKept
  BY DEF PagingInv
<1>2. l.busy = {} /\ l.loading = FALSE
  <2>1. load.busy \subseteq {"before", "after", "poll"} /\ l.loading \in BOOLEAN
    BY <1>1 DEF PagingTyped, LoadType
  <2>2. load.busy = {}
    BY <1>1, <2>1 DEF CallsKept
  <2>3. ~load.loading
    BY <1>1 DEF CallsKept
  <2>4. QED
    BY <2>1, <2>2, <2>3
<1>3. /\ sel' = s /\ view' = <<>> /\ log' = log /\ written' = written /\ error' = error
      /\ seen' = seen /\ missed' = missed
  BY DEF Paging!Select
<1>4. <<>> \in Seq(Time)
  OBVIOUS
<1>5. CASE s # sel
  <2>1. Paging!Fetch(s, l, had)
    BY <1>5 DEF Paging!Select
  <2>2. PICK c \in CallType : /\ c.kind = "fetch" /\ c.sel = s /\ c.lines = <<>> /\ calls' = {c}
                              /\ load' \in LoadType /\ load'.loading = TRUE /\ load'.busy = {}
                              /\ load'.beforeTs = 0 /\ load'.afterTs = 0
    BY <1>2, <2>1, FetchIs
  <2>3. PagingTyped'
    BY <1>1, <1>3, <1>4, <2>2 DEF PagingTyped
  <2>4. QED
    BY <1>3, <2>2, <2>3, NothingShown
<1>6. CASE s = sel
  <2>1. load' = Paging!Reset(l) /\ calls' = calls
    BY <1>6 DEF Paging!Select
  <2>2. /\ load' \in LoadType /\ load'.loading = FALSE /\ load'.busy = {}
        /\ load'.beforeTs = 0 /\ load'.afterTs = 0
    BY <1>2, <2>1, ResetIs
  <2>3. PagingTyped'
    BY <1>1, <1>3, <1>4, <2>1, <2>2 DEF PagingTyped
  <2>4. QED
    BY <1>3, <2>1, <2>2, <2>3, NothingShown
<1>7. QED
  BY <1>5, <1>6

(* What the user chooses, when nothing is under way. *)
LEMMA PagingChoice ==
  ASSUME PagingInv, Orderly,
         \/ \E t \in LogTargets : Paging!SelectTarget(t)
         \/ Paging!JumpToStart
         \/ Paging!JumpToEnd
         \/ \E since \in 1 .. LastTime : since % Second = 0 /\ Paging!ApplyTime(since)
  PROVE  PagingInv'
<1>1. PagingTyped /\ load \in LoadType /\ sel \in Paging!Selection /\ follow \in BOOLEAN
  BY DEF PagingInv, PagingTyped
<1>2. calls = {}
  BY DEF Paging!SelectTarget, Paging!JumpToStart, Paging!JumpToEnd, Paging!ApplyTime, Paging!MayJump, Paging!MayAct
<1>3. (view # <<>>) \in BOOLEAN /\ FALSE \in BOOLEAN
  OBVIOUS
<1>4. ASSUME NEW t \in LogTargets, Paging!SelectTarget(t) PROVE PagingInv'
  <2>1. PICK s \in Paging!Selection : s = [sel EXCEPT !.target = t]
    BY <1>1, SelectionIs
  <2>2. Paging!Select(s, load, view # <<>>) /\ follow' = follow
    BY <1>4, <2>1 DEF Paging!SelectTarget
  <2>3. QED
    BY <1>1, <1>2, <1>3, <2>2, PagingSelect
<1>5. ASSUME Paging!JumpToStart PROVE PagingInv'
  <2>1. PICK s \in Paging!Selection : s = [sel EXCEPT !.mode = "start", !.since = 0]
    BY <1>1, SelectionIs
  <2>2. PICK l : l = [load EXCEPT !.hasBefore = FALSE, !.hasAfter = TRUE]
    OBVIOUS
  <2>3. l \in LoadType /\ l.busy = load.busy /\ l.loading = load.loading
    BY <1>1, <2>2 DEF LoadType
  <2>4. Paging!Select(s, l, FALSE) /\ follow' = follow
    BY <1>5, <2>1, <2>2 DEF Paging!JumpToStart
  <2>5. QED
    BY <1>1, <1>2, <1>3, <2>3, <2>4, PagingSelect
<1>6. ASSUME Paging!JumpToEnd PROVE PagingInv'
  <2>1. PICK s \in Paging!Selection : s = [sel EXCEPT !.mode = "end", !.since = 0]
    BY <1>1, SelectionIs
  <2>2. PICK l : l = [load EXCEPT !.hasBefore = TRUE, !.hasAfter = FALSE]
    OBVIOUS
  <2>3. l \in LoadType /\ l.busy = load.busy /\ l.loading = load.loading
    BY <1>1, <2>2 DEF LoadType
  <2>4. Paging!Select(s, l, FALSE) /\ follow' = TRUE
    BY <1>6, <2>1, <2>2 DEF Paging!JumpToEnd
  <2>5. QED
    BY <1>1, <1>2, <1>3, <2>3, <2>4, PagingSelect
<1>7. ASSUME NEW since \in 1 .. LastTime, since % Second = 0, Paging!ApplyTime(since) PROVE PagingInv'
  <2>1. PICK s \in Paging!Selection : s = [sel EXCEPT !.mode = "end", !.since = since]
    BY <1>1, <1>7, SelectionIs
  <2>2. Paging!Select(s, load, view # <<>>) /\ follow' = follow
    BY <1>7, <2>1 DEF Paging!ApplyTime
  <2>3. QED
    BY <1>1, <1>2, <1>3, <2>2, PagingSelect
<1>8. QED
  BY <1>4, <1>5, <1>6, <1>7

LEMMA PagingToggle ==
  ASSUME PagingInv, Orderly, Paging!ToggleFollow
  PROVE  PagingInv'
<1>1. /\ PagingTyped /\ CallsKept /\ OfLog /\ Whole /\ Polled /\ Ordered /\ TopKnown /\ BottomKnown
  BY DEF PagingInv
<1>2. /\ calls = {} /\ Paging!AtEnd /\ follow' = ~follow /\ load' = [load EXCEPT !.hasAfter = follow]
      /\ seen' = 0 /\ log' = log /\ written' = written /\ sel' = sel /\ view' = view /\ error' = error
      /\ calls' = calls /\ missed' = missed
  BY DEF Paging!ToggleFollow, Paging!MayJump, Paging!MayAct
<1>3. load \in LoadType /\ follow \in BOOLEAN
  BY <1>1 DEF PagingTyped
<1>4. load' \in LoadType /\ load'.busy = load.busy /\ load'.loading = load.loading
      /\ load'.beforeTs = load.beforeTs /\ load'.afterTs = load.afterTs /\ load'.hasBefore = load.hasBefore
  BY <1>2, <1>3 DEF LoadType
<1>5. load.busy = {}
  <2>1. load.busy \subseteq {"before", "after", "poll"}
    BY <1>3 DEF LoadType
  <2>2. QED
    BY <1>1, <1>2, <2>1 DEF CallsKept
<1>6. Selected' = Selected /\ Several' = Several /\ FitsPage' = FitsPage /\ Calm' = Calm
      /\ Since(sel.target, sel.since)' = Since(sel.target, sel.since)
  BY <1>2, SelectedStays
<1>7. PagingTyped'
  <2>1. 0 \in 0 .. LastTime /\ 0 <= written
    BY <1>1, PagingConstants DEF PagingTyped
  <2>2. QED
    BY <1>1, <1>2, <1>4, <2>1 DEF PagingTyped
<1>8. CallsKept'
  BY <1>1, <1>2, <1>4, <1>5 DEF CallsKept
<1>9. OfLog'
  BY <1>1, <1>2, <1>6 DEF OfLog
<1>10. Whole' /\ Polled'
  BY <1>1, <1>2, <1>6 DEF Whole, Polled
<1>11. Ordered'
  BY <1>1, <1>2, <1>4, <1>6 DEF Ordered
<1>12. TopKnown'
  BY <1>1, <1>2, <1>4, <1>5, <1>6 DEF TopKnown
<1>13. BottomKnown'
  <2>1. \A x \in Selected' : ~(x <= 0)
    <3>1. \A x \in Selected : x \in Time
      BY <1>1, SelectedIs
    <3>2. QED
      BY <1>6, <3>1 DEF Time
  <2>2. QED
    BY <1>2, <2>1 DEF BottomKnown
<1>14. QED
  BY <1>7, <1>8, <1>9, <1>10, <1>11, <1>12, <1>13 DEF PagingInv

LEMMA PagingRefresh ==
  ASSUME PagingInv, Orderly, Paging!Refresh
  PROVE  PagingInv'
<1>1. /\ PagingTyped /\ CallsKept /\ OfLog /\ Whole /\ Polled /\ Ordered /\ TopKnown /\ BottomKnown
  BY DEF PagingInv
<1>2. /\ calls = {} /\ Paging!Fetch(sel, load, view # <<>>)
      /\ seen' = seen /\ log' = log /\ written' = written /\ sel' = sel /\ view' = view /\ error' = error
      /\ follow' = follow /\ missed' = missed
  BY DEF Paging!Refresh, Paging!MayAct
<1>3. load \in LoadType /\ sel \in Paging!Selection /\ (view # <<>>) \in BOOLEAN
  BY <1>1 DEF PagingTyped
<1>4. load.busy = {}
  <2>1. load.busy \subseteq {"before", "after", "poll"}
    BY <1>3 DEF LoadType
  <2>2. QED
    BY <1>1, <1>2, <2>1 DEF CallsKept
<1>5. PICK c \in CallType : /\ c.kind = "fetch" /\ c.sel = sel /\ c.lines = <<>> /\ calls' = {c}
                            /\ load' \in LoadType /\ load'.loading = TRUE /\ load'.busy = {}
                            /\ load'.beforeTs = 0 /\ load'.afterTs = 0
  BY <1>2, <1>3, <1>4, FetchIs
<1>6. Selected' = Selected /\ Several' = Several /\ FitsPage' = FitsPage /\ Calm' = Calm
      /\ Since(sel.target, sel.since)' = Since(sel.target, sel.since)
  BY <1>2, SelectedStays
<1>7. PagingTyped'
  BY <1>1, <1>2, <1>5 DEF PagingTyped
<1>8. CallsKept'
  BY <1>2, <1>5 DEF CallsKept
<1>9. OfLog'
  <2>1. Elems(<<>>) = {}
    BY DEF Elems
  <2>2. QED
    BY <1>1, <1>2, <1>5, <1>6, <2>1 DEF OfLog
<1>10. Whole' /\ Polled'
  BY <1>1, <1>2, <1>5, <1>6 DEF Whole, Polled
<1>11. Ordered'
  BY <1>1, <1>2, <1>5, <1>6 DEF Ordered
<1>12. TopKnown'
  BY <1>5 DEF TopKnown
<1>13. BottomKnown'
  BY <1>5 DEF BottomKnown
<1>14. QED
  BY <1>7, <1>8, <1>9, <1>10, <1>11, <1>12, <1>13 DEF PagingInv

LEMMA SeqOfElems ==
  ASSUME NEW s \in Seq(Nat), NEW T, Elems(s) \subseteq T
  PROVE  s \in Seq(T)
<1>1. PICK n \in Nat : n = Len(s) /\ DOMAIN s = 1 .. n
  OBVIOUS
<1>2. \A i \in 1 .. n : s[i] \in T
  BY <1>1 DEF Elems
<1>3. s \in [1 .. n -> T]
  BY <1>1, <1>2
<1>4. QED
  BY <1>3

(* A page, and what is at its ends. *)
LEMMA PageSeq ==
  ASSUME PagingTyped, NEW P \in SUBSET Selected
  PROVE  LET page == InOrder(P) IN
           /\ page \in Seq(Time) /\ page \in Seq(Nat) /\ Elems(page) = P /\ Increasing(page)
           /\ page = <<>> <=> P = {}
           /\ P # {} => /\ page[1] \in P /\ Bottom(page) \in P
                        /\ \A x \in P : page[1] <= x /\ x <= Bottom(page)
<1>1. P \in SUBSET Nat /\ P \in SUBSET Time /\ IsFiniteSet(P)
  <2>1. P \subseteq Paging!Lines(sel.target)
    BY DEF Selected
  <2>2. QED
    BY <2>1, SelectedIs, LinesAre
<1>2. PICK p : p = InOrder(P)
  OBVIOUS
<1>3. p \in Seq(Nat) /\ Elems(p) = P /\ Increasing(p)
  BY <1>1, <1>2, OrderedElems
<1>4. p \in Seq(Time)
  BY <1>1, <1>3, SeqOfElems
<1>5. p = <<>> => P = {}
  <2>1. Elems(<<>>) = {}
    BY DEF Elems
  <2>2. QED
    BY <1>3, <2>1
<1>6. p # <<>> => /\ p[1] \in P /\ Bottom(p) \in P
                  /\ \A x \in P : p[1] <= x /\ x <= Bottom(p)
  BY <1>3, EndsOf DEF Bottom
<1>7. QED
  BY <1>2, <1>3, <1>4, <1>5, <1>6

LEMMA PagingFetched ==
  ASSUME PagingInv, NEW c \in calls, Paging!Fetched(c)
  PROVE  PagingInv'
<1>1. /\ PagingTyped /\ CallsKept /\ OfLog /\ Whole /\ Polled /\ Ordered /\ TopKnown /\ BottomKnown
  BY DEF PagingInv
<1>2. PICK page : page = Paging!FirstPage(sel)
  OBVIOUS
<1>3. /\ c.kind = "fetch" /\ calls = {c} /\ c.sel = sel /\ load.busy = {}
      /\ load.beforeTs = 0 /\ load.afterTs = 0
  BY <1>1 DEF Paging!Fetched, CallsKept
<1>4. /\ calls' = {} /\ error' = (page = <<>> /\ c.had)
      /\ view' = IF page = <<>> /\ c.had THEN view ELSE page
      /\ load' = [load EXCEPT !.loading = FALSE, !.hasBefore = sel.mode = "end", !.hasAfter = sel.mode = "start"]
      /\ seen' = written /\ missed' = {} /\ log' = log /\ written' = written /\ sel' = sel /\ follow' = follow
  BY <1>2, <1>3 DEF Paging!Fetched
<1>5. PICK S : S = Selected
  OBVIOUS
<1>6. PICK P \in SUBSET S :
        /\ page = InOrder(P)
        /\ \A x, z \in P, y \in S : x < y /\ y < z => y \in P
        /\ sel.mode = "start" => \A x \in P, y \in S : y < x => y \in P
        /\ sel.mode # "start" /\ sel.since = 0 => \A x \in P, y \in S : x < y => y \in P
        /\ sel.mode # "start" /\ sel.since # 0 => P \subseteq Since(sel.target, sel.since)
        /\ P = {} => IF sel.mode = "start" \/ sel.since = 0 THEN S = {}
                     ELSE Since(sel.target, sel.since) = {}
        /\ FitsPage => \A z \in P : (\A x \in P : x <= z) => \A y \in S : y <= z /\ Sec(y) = Sec(z) => y \in P
  <2>1. log \in Logs /\ sel.target \in LogTargets /\ sel.since \in Nat
    BY <1>1, SelectedIs
  <2>2. QED
    BY <1>2, <1>5, <2>1, FirstPageIs DEF Selected, FitsPage
<1>7. /\ page \in Seq(Time) /\ page \in Seq(Nat) /\ Elems(page) = P /\ Increasing(page)
      /\ page = <<>> <=> P = {}
      /\ P # {} => /\ page[1] \in P /\ Bottom(page) \in P
                   /\ \A x \in P : page[1] <= x /\ x <= Bottom(page)
  BY <1>1, <1>5, <1>6, PageSeq
<1>8. view' = page
  <2>1. view # <<>> => Elems(view) # {}
    BY <1>1, SelectedIs
  <2>2. P = {} => view = <<>>
    BY <1>1, <1>5, <1>6, <2>1 DEF OfLog
  <2>3. QED
    BY <1>4, <1>7, <2>2
<1>9. load \in LoadType /\ sel.mode \in {"start", "end"}
  BY <1>1, SelectionIs DEF PagingTyped
<1>10. /\ load' \in LoadType /\ load'.loading = FALSE /\ load'.busy = {} /\ load'.beforeTs = 0 /\ load'.afterTs = 0
       /\ load'.hasBefore <=> sel.mode = "end"
       /\ load'.hasAfter <=> sel.mode = "start"
  BY <1>3, <1>4, <1>9 DEF LoadType
<1>11. Selected' = S /\ Several' = Several /\ FitsPage' = FitsPage /\ Calm' = Calm
       /\ Since(sel.target, sel.since)' = Since(sel.target, sel.since)
  BY <1>4, <1>5, SelectedStays
<1>12. \A x \in S : x \in Nat
  BY <1>1, <1>5, SelectedIs
<1>13. PagingTyped'
  <2>1. error' \in BOOLEAN
    BY <1>4
  <2>2. written <= written
    BY <1>1 DEF PagingTyped
  <2>3. QED
    BY <1>1, <1>4, <1>7, <1>8, <1>10, <2>1, <2>2 DEF PagingTyped
<1>14. CallsKept'
  BY <1>4, <1>10 DEF CallsKept
<1>15. OfLog'
  <2>1. page # <<>> /\ sel.since # 0 => Since(sel.target, sel.since) # {}
    <3>1. sel.since # 0 => sel.mode = "end"
      BY <1>1 DEF PagingTyped, Paging!Selection
    <3>2. QED
      BY <1>6, <1>7, <3>1
  <2>2. QED
    BY <1>4, <1>6, <1>7, <1>8, <1>11, <2>1 DEF OfLog
<1>16. Whole'
  <2>1. ASSUME page # <<>>, Calm PROVE RunOf(S, page, Several)
    <3>1. page[1] \in P /\ Bottom(page) \in P /\ \A x \in P : page[1] <= x /\ x <= Bottom(page)
      BY <1>7, <2>1
    <3>2. page[1] \in Nat /\ Bottom(page) \in Nat
      BY <1>12, <3>1
    <3>3. ASSUME NEW x \in S, page[1] <= x, x <= Bottom(page) PROVE x \in P
      <4>1. x = page[1] \/ x = Bottom(page) \/ (page[1] < x /\ x < Bottom(page))
        BY <1>12, <3>2, <3>3
      <4>2. QED
        BY <1>6, <3>1, <4>1
    <3>4. Elems(page) = {x \in S : page[1] <= x /\ x <= Bottom(page)}
      BY <1>6, <1>7, <3>1, <3>3
    <3>5. ASSUME Several, NEW x \in S, x <= Bottom(page), Sec(x) = Sec(Bottom(page)) PROVE page[1] <= x
      <4>1. FitsPage
        BY <2>1, <3>5 DEF Calm
      <4>2. x \in P
        BY <1>6, <3>1, <3>5, <4>1
      <4>3. QED
        BY <3>1, <4>2
    <3>6. QED
      BY <3>4, <3>5 DEF RunOf
  <2>2. QED
    BY <1>8, <1>11, <2>1 DEF Whole
<1>17. Polled'
  BY <1>4 DEF Polled
<1>18. Ordered'
  BY <1>7, <1>8 DEF Ordered
<1>19. TopKnown'
  <2>1. ASSUME page # <<>>, sel.mode # "end", NEW x \in S PROVE page[1] <= x
    <3>1. page[1] \in P /\ \A y \in P : page[1] <= y
      BY <1>7, <2>1
    <3>2. x < page[1] => x \in P
      BY <1>6, <1>9, <2>1, <3>1
    <3>3. x \in Nat /\ page[1] \in Nat
      BY <1>12, <3>1
    <3>4. QED
      BY <3>1, <3>2, <3>3
  <2>2. QED
    BY <1>8, <1>10, <1>11, <2>1 DEF TopKnown
<1>20. BottomKnown'
  <2>1. ASSUME page # <<>>, sel.mode = "end", sel.since = 0, NEW x \in S PROVE x <= Bottom(page)
    <3>1. Bottom(page) \in P /\ \A y \in P : y <= Bottom(page)
      BY <1>7, <2>1
    <3>2. Bottom(page) < x => x \in P
      BY <1>6, <2>1, <3>1
    <3>3. x \in Nat /\ Bottom(page) \in Nat
      BY <1>12, <3>1
    <3>4. QED
      BY <3>1, <3>2, <3>3
  <2>2. Paging!Following' => sel.mode = "end" /\ sel.since = 0
    BY <1>4 DEF Paging!Following, Paging!AtEnd
  <2>3. QED
    BY <1>4, <1>8, <1>10, <1>11, <2>1, <2>2 DEF BottomKnown
<1>21. QED
  BY <1>13, <1>14, <1>15, <1>16, <1>17, <1>18, <1>19, <1>20 DEF PagingInv

LEMMA PagingFetchFails ==
  ASSUME PagingInv, NEW c \in calls, Paging!FetchFails(c)
  PROVE  PagingInv'
<1>1. /\ PagingTyped /\ CallsKept /\ OfLog /\ Whole /\ Polled /\ Ordered /\ TopKnown /\ BottomKnown
  BY DEF PagingInv
<1>2. /\ c.kind = "fetch" /\ calls = {c} /\ c.sel = sel /\ load.busy = {}
      /\ load.beforeTs = 0 /\ load.afterTs = 0
  BY <1>1 DEF Paging!FetchFails, CallsKept
<1>3. /\ calls' = {} /\ error' = TRUE /\ view' = IF c.had THEN view ELSE <<>>
      /\ load' = [load EXCEPT !.loading = FALSE, !.hasBefore = FALSE, !.hasAfter = FALSE]
      /\ missed' = {"before", "after"} /\ log' = log /\ written' = written /\ sel' = sel
      /\ follow' = follow /\ seen' = seen
  BY <1>2 DEF Paging!FetchFails
<1>4. load \in LoadType
  BY <1>1 DEF PagingTyped
<1>5. /\ load' \in LoadType /\ load'.loading = FALSE /\ load'.busy = {} /\ load'.beforeTs = 0
      /\ load'.afterTs = 0 /\ load'.hasBefore = FALSE
  BY <1>2, <1>3, <1>4 DEF LoadType
<1>6. Selected' = Selected /\ Several' = Several /\ FitsPage' = FitsPage /\ Calm' = Calm
      /\ Since(sel.target, sel.since)' = Since(sel.target, sel.since)
  BY <1>3, SelectedStays
<1>7. <<>> \in Seq(Time)
  OBVIOUS
<1>8. PagingTyped'
  BY <1>1, <1>3, <1>5, <1>7 DEF PagingTyped
<1>9. CASE view' = <<>>
  BY <1>3, <1>5, <1>8, <1>9, NothingShown
<1>10. CASE view' = view
  <2>1. CallsKept'
    BY <1>3, <1>5 DEF CallsKept
  <2>2. OfLog' /\ Polled'
    BY <1>1, <1>3, <1>6, <1>10 DEF OfLog, Polled
  <2>3. Whole'
    BY <1>1, <1>6, <1>10 DEF Whole
  <2>4. Ordered'
    BY <1>1, <1>3, <1>6, <1>10 DEF Ordered
  <2>5. TopKnown' /\ BottomKnown'
    BY <1>3, <1>5 DEF TopKnown, BottomKnown
  <2>6. QED
    BY <1>8, <2>1, <2>2, <2>3, <2>4, <2>5 DEF PagingInv
<1>11. QED
  BY <1>3, <1>9, <1>10

(* A chunk, or a poll, sets out from an end of what is on screen. *)
LEMMA CallMade ==
  ASSUME PagingInv, NEW k \in {"before", "after", "poll"}, k \notin load.busy, view # <<>>,
         \A d \in calls : d.kind # "fetch", NEW cursor,
         cursor = (IF k = "before" THEN view[1] ELSE Bottom(view)),
         calls' = calls \cup {Paging!Call(k, sel, cursor, TRUE)},
         UNCHANGED <<log, written, sel, follow, view>>,
         load'.busy = load.busy \cup {k}, load'.loading = load.loading,
         load'.beforeTs = (IF k = "before" THEN cursor ELSE load.beforeTs),
         load'.afterTs = (IF k = "after" THEN cursor ELSE load.afterTs),
         k = "after" => "poll" \notin load.busy /\ ~Paging!Following,
         k = "poll" => "after" \notin load.busy /\ Paging!Following
  PROVE  cursor \in 0 .. LastTime /\ calls' \in SUBSET CallType /\ CallsKept' /\ OfLog' /\ Polled'
<1>1. PagingTyped /\ CallsKept /\ OfLog /\ Polled
  BY DEF PagingInv
<1>2. PICK n : n = [kind |-> k, sel |-> sel, cursor |-> cursor, had |-> TRUE, lines |-> <<>>, pages |-> 0]
  OBVIOUS
<1>3. calls' = calls \cup {n} /\ n.kind = k /\ n.sel = sel /\ n.cursor = cursor /\ n.lines = <<>>
  BY <1>2 DEF Paging!Call
<1>4. cursor \in Selected /\ cursor \in Time /\ cursor \in Nat /\ cursor # 0
  <2>1. view[1] \in Selected /\ Bottom(view) \in Selected
    BY <1>1, SelectedIs DEF OfLog
  <2>2. cursor \in Selected
    BY <2>1
  <2>3. cursor \in Time /\ cursor \in Nat
    BY <1>1, <2>2, SelectedIs
  <2>4. QED
    BY <2>2, <2>3 DEF Time
<1>5. cursor \in 0 .. LastTime /\ 0 \in 0 .. (MaxPages - 1) /\ <<>> \in Seq(Time)
  BY <1>4, PagingConstants DEF Time
<1>6. n \in CallType
  BY <1>1, <1>2, <1>5 DEF CallType, PagingTyped
<1>7. ~load.loading /\ \A d \in calls : d.kind # k
  BY <1>1 DEF CallsKept
<1>8. Selected' = Selected /\ Several' = Several /\ Calm' = Calm
      /\ Since(sel.target, sel.since)' = Since(sel.target, sel.since)
  BY SelectedStays
<1>9. Paging!Following' = Paging!Following
  BY DEF Paging!Following, Paging!AtEnd
<1>10. CallsKept'
  <2>1. \A d \in calls' : d.sel = sel /\ d.kind # "fetch"
    BY <1>1, <1>3 DEF CallsKept
  <2>2. \A c, d \in calls' : c.kind = d.kind => c = d
    BY <1>1, <1>3, <1>7 DEF CallsKept
  <2>3. \A j \in {"before", "after", "poll"} : j \in load'.busy <=> \E c \in calls' : c.kind = j
    BY <1>1, <1>3 DEF CallsKept
  <2>4. ~load'.loading
    BY <1>7
  <2>5. "poll" \in load'.busy => "after" \notin load'.busy /\ Paging!Following
    BY <1>1 DEF CallsKept
  <2>6. "after" \in load'.busy => ~Paging!Following /\ load'.afterTs # 0
    BY <1>1, <1>4 DEF CallsKept
  <2>7. \A d \in calls' : d.kind = "before" => d.cursor = view[1] /\ load'.beforeTs = view[1]
    BY <1>1, <1>3 DEF CallsKept
  <2>8. \A d \in calls' : d.kind = "after" => d.cursor = Bottom(view)
    BY <1>1, <1>3 DEF CallsKept
  <2>9. QED
    BY <1>9, <2>1, <2>2, <2>3, <2>4, <2>5, <2>6, <2>7, <2>8 DEF CallsKept
<1>11. OfLog'
  <2>1. Elems(<<>>) = {}
    BY DEF Elems
  <2>2. QED
    BY <1>1, <1>3, <1>4, <1>8, <2>1 DEF OfLog
<1>12. Polled'
  <2>1. ASSUME k = "poll" PROVE Continues(Selected, view, Several, n.cursor, n.lines)
    <3>1. Elems(<<>>) = {} /\ Increasing(<<>>)
      BY DEF Elems, Increasing
    <3>2. n.cursor = Bottom(view) /\ n.cursor \in Nat /\ n.lines = <<>>
      BY <1>3, <1>4, <2>1
    <3>3. \A x \in Selected : x \in Nat
      BY <1>1, SelectedIs
    <3>4. \A x \in Selected : ~(Bottom(view) < x /\ x <= n.cursor)
      BY <3>2, <3>3
    <3>5. Bottom(view) <= n.cursor
      BY <3>2
    <3>6. QED
      BY <3>1, <3>2, <3>4, <3>5 DEF Continues
  <2>2. QED
    BY <1>1, <1>3, <1>8, <2>1 DEF Polled
<1>13. calls' \in SUBSET CallType
  BY <1>1, <1>3, <1>6 DEF PagingTyped
<1>14. QED
  BY <1>5, <1>10, <1>11, <1>12, <1>13

(* With nothing on screen, and no fetch, nothing is under way. *)
LEMMA NothingOut ==
  ASSUME PagingTyped, CallsKept, view = <<>>, \A d \in calls : d.kind # "fetch"
  PROVE  calls = {} /\ load.busy = {} /\ ~load.loading
<1>1. load.busy = {} /\ ~load.loading
  BY DEF CallsKept
<1>2. \A d \in calls : d.kind \in {"before", "after", "poll"}
  BY DEF PagingTyped, CallType
<1>3. QED
  BY <1>1, <1>2 DEF CallsKept

LEMMA PagingLoadOlder ==
  ASSUME PagingInv, Orderly, Paging!LoadOlder
  PROVE  PagingInv'
<1>1. /\ PagingTyped /\ CallsKept /\ OfLog /\ Whole /\ Polled /\ Ordered /\ TopKnown /\ BottomKnown
  BY DEF PagingInv
<1>2. /\ load.hasBefore /\ "before" \notin load.busy /\ \A d \in calls : d.kind # "fetch"
      /\ log' = log /\ written' = written /\ sel' = sel /\ follow' = follow /\ view' = view
      /\ error' = error /\ seen' = seen /\ missed' = missed
  BY DEF Paging!LoadOlder, Paging!Out
<1>3. load \in LoadType /\ load.busy \subseteq {"before", "after", "poll"}
  BY <1>1 DEF PagingTyped, LoadType
<1>4. Selected' = Selected /\ Several' = Several /\ FitsPage' = FitsPage /\ Calm' = Calm /\ Roomy' = Roomy
      /\ Since(sel.target, sel.since)' = Since(sel.target, sel.since)
  BY <1>2, SelectedStays
<1>5. Paging!Following' = Paging!Following
  BY <1>2 DEF Paging!Following, Paging!AtEnd
<1>6. CASE view = <<>>
  <2>1. load' = [load EXCEPT !.hasBefore = FALSE] /\ calls' = calls
    BY <1>6 DEF Paging!LoadOlder
  <2>2. calls = {} /\ load.busy = {} /\ ~load.loading
    BY <1>1, <1>2, <1>6, NothingOut
  <2>3. /\ load' \in LoadType /\ load'.busy = {} /\ load'.loading = load.loading
        /\ load'.beforeTs = load.beforeTs /\ load'.afterTs = load.afterTs
    BY <1>3, <2>1, <2>2 DEF LoadType
  <2>4. PagingTyped'
    BY <1>1, <1>2, <2>1, <2>3 DEF PagingTyped
  <2>5. CallsKept'
    BY <2>1, <2>2, <2>3 DEF CallsKept
  <2>6. OfLog' /\ Polled'
    BY <1>1, <1>2, <1>4, <2>1 DEF OfLog, Polled
  <2>7. Whole' /\ TopKnown' /\ BottomKnown'
    BY <1>2, <1>6 DEF Whole, TopKnown, BottomKnown
  <2>8. Ordered'
    <3>1. Increasing(<<>>)
      BY DEF Increasing
    <3>2. QED
      BY <1>2, <1>6, <3>1 DEF Ordered
  <2>9. QED
    BY <2>4, <2>5, <2>6, <2>7, <2>8 DEF PagingInv
<1>7. CASE view # <<>>
  <2>1. /\ load' = [load EXCEPT !.beforeTs = view[1], !.busy = @ \cup {"before"}]
        /\ calls' = calls \cup {Paging!Call("before", sel, view[1], TRUE)}
    BY <1>7 DEF Paging!LoadOlder
  <2>2. /\ load'.busy = load.busy \cup {"before"} /\ load'.loading = load.loading
        /\ load'.beforeTs = view[1] /\ load'.afterTs = load.afterTs /\ load'.hasBefore = load.hasBefore
        /\ load'.hasAfter = load.hasAfter
    BY <1>3, <2>1 DEF LoadType
  <2>3. view[1] \in 0 .. LastTime /\ calls' \in SUBSET CallType /\ CallsKept' /\ OfLog' /\ Polled'
    BY <1>2, <1>7, <2>1, <2>2, CallMade
  <2>4. load' \in LoadType
    BY <1>3, <2>1, <2>3 DEF LoadType
  <2>5. PagingTyped'
    BY <1>1, <1>2, <2>3, <2>4 DEF PagingTyped
  <2>6. Whole' /\ Ordered'
    BY <1>1, <1>2, <1>4, <2>2 DEF Whole, Ordered
  <2>7. TopKnown'
    BY <1>2, <2>2 DEF TopKnown
  <2>8. BottomKnown'
    BY <1>1, <1>2, <1>4, <1>5, <2>2 DEF BottomKnown
  <2>9. QED
    BY <2>3, <2>5, <2>6, <2>7, <2>8 DEF PagingInv
<1>8. QED
  BY <1>6, <1>7

LEMMA PagingLoadNewer ==
  ASSUME PagingInv, Orderly, Paging!LoadNewer
  PROVE  PagingInv'
<1>1. /\ PagingTyped /\ CallsKept /\ OfLog /\ Whole /\ Polled /\ Ordered /\ TopKnown /\ BottomKnown
  BY DEF PagingInv
<1>2. /\ load.hasAfter /\ "after" \notin load.busy /\ ~Paging!Following
      /\ \A d \in calls : d.kind \notin {"fetch", "poll"}
      /\ log' = log /\ written' = written /\ sel' = sel /\ follow' = follow /\ view' = view
      /\ error' = error /\ seen' = seen /\ missed' = missed
  BY DEF Paging!LoadNewer, Paging!Out
<1>3. load \in LoadType /\ load.busy \subseteq {"before", "after", "poll"}
  BY <1>1 DEF PagingTyped, LoadType
<1>4. Selected' = Selected /\ Several' = Several /\ FitsPage' = FitsPage /\ Calm' = Calm /\ Roomy' = Roomy
      /\ Since(sel.target, sel.since)' = Since(sel.target, sel.since)
  BY <1>2, SelectedStays
<1>5. Paging!Following' = Paging!Following
  BY <1>2 DEF Paging!Following, Paging!AtEnd
<1>6. CASE view = <<>>
  <2>1. load' = [load EXCEPT !.hasAfter = FALSE] /\ calls' = calls
    BY <1>6 DEF Paging!LoadNewer
  <2>2. calls = {} /\ load.busy = {} /\ ~load.loading
    BY <1>1, <1>2, <1>6, NothingOut
  <2>3. /\ load' \in LoadType /\ load'.busy = {} /\ load'.loading = load.loading
        /\ load'.beforeTs = load.beforeTs /\ load'.afterTs = load.afterTs
    BY <1>3, <2>1, <2>2 DEF LoadType
  <2>4. PagingTyped'
    BY <1>1, <1>2, <2>1, <2>3 DEF PagingTyped
  <2>5. CallsKept'
    BY <2>1, <2>2, <2>3 DEF CallsKept
  <2>6. OfLog' /\ Polled'
    BY <1>1, <1>2, <1>4, <2>1 DEF OfLog, Polled
  <2>7. Whole' /\ TopKnown' /\ BottomKnown'
    BY <1>2, <1>6 DEF Whole, TopKnown, BottomKnown
  <2>8. Ordered'
    <3>1. Increasing(<<>>)
      BY DEF Increasing
    <3>2. QED
      BY <1>2, <1>6, <3>1 DEF Ordered
  <2>9. QED
    BY <2>4, <2>5, <2>6, <2>7, <2>8 DEF PagingInv
<1>7. CASE view # <<>>
  <2>1. PICK cursor : cursor = Bottom(view)
    OBVIOUS
  <2>2. /\ load' = [load EXCEPT !.afterTs = cursor, !.busy = @ \cup {"after"}]
        /\ calls' = calls \cup {Paging!Call("after", sel, cursor, TRUE)}
    BY <1>7, <2>1, PagingOperators DEF Paging!LoadNewer, Bottom
  <2>3. /\ load'.busy = load.busy \cup {"after"} /\ load'.loading = load.loading
        /\ load'.beforeTs = load.beforeTs /\ load'.afterTs = cursor /\ load'.hasBefore = load.hasBefore
        /\ load'.hasAfter = load.hasAfter
    BY <1>3, <2>2 DEF LoadType
  <2>4. "poll" \notin load.busy
    BY <1>1, <1>2 DEF CallsKept
  <2>5. cursor \in 0 .. LastTime /\ calls' \in SUBSET CallType /\ CallsKept' /\ OfLog' /\ Polled'
    BY <1>2, <1>7, <2>1, <2>2, <2>3, <2>4, CallMade
  <2>6. load' \in LoadType
    BY <1>3, <2>2, <2>5 DEF LoadType
  <2>7. PagingTyped'
    BY <1>1, <1>2, <2>5, <2>6 DEF PagingTyped
  <2>8. load'.afterTs # 0
    BY <2>3, <2>5 DEF CallsKept
  <2>9. Whole' /\ Ordered'
    BY <1>1, <1>2, <1>4, <2>8 DEF Whole, Ordered
  <2>10. TopKnown'
    BY <1>1, <1>2, <1>4, <2>3 DEF TopKnown
  <2>11. BottomKnown'
    BY <1>1, <1>2, <1>4, <1>5, <2>3 DEF BottomKnown
  <2>12. QED
    BY <2>5, <2>7, <2>9, <2>10, <2>11 DEF PagingInv
<1>8. QED
  BY <1>6, <1>7

LEMMA PagingPollNewer ==
  ASSUME PagingInv, Orderly, Paging!PollNewer
  PROVE  PagingInv'
<1>1. /\ PagingTyped /\ CallsKept /\ OfLog /\ Whole /\ Polled /\ Ordered /\ TopKnown /\ BottomKnown
  BY DEF PagingInv
<1>2. /\ "poll" \notin load.busy /\ Paging!Following /\ view # <<>>
      /\ \A d \in calls : d.kind \notin {"fetch", "after"}
      /\ load' = [load EXCEPT !.busy = @ \cup {"poll"}]
      /\ log' = log /\ written' = written /\ sel' = sel /\ follow' = follow /\ view' = view
      /\ error' = error /\ seen' = seen /\ missed' = missed
  BY DEF Paging!PollNewer, Paging!Out
<1>3. load \in LoadType
  BY <1>1 DEF PagingTyped
<1>4. Selected' = Selected /\ Several' = Several /\ FitsPage' = FitsPage /\ Calm' = Calm /\ Roomy' = Roomy
  BY <1>2, SelectedStays
<1>5. PICK cursor : cursor = Bottom(view)
  OBVIOUS
<1>6. calls' = calls \cup {Paging!Call("poll", sel, cursor, TRUE)}
  BY <1>5, PagingOperators DEF Paging!PollNewer, Bottom
<1>7. /\ load'.busy = load.busy \cup {"poll"} /\ load'.loading = load.loading
      /\ load'.beforeTs = load.beforeTs /\ load'.afterTs = load.afterTs /\ load'.hasBefore = load.hasBefore
      /\ load'.hasAfter = load.hasAfter /\ load' \in LoadType
  BY <1>2, <1>3 DEF LoadType
<1>8. "after" \notin load.busy
  BY <1>1, <1>2 DEF CallsKept
<1>9. calls' \in SUBSET CallType /\ CallsKept' /\ OfLog' /\ Polled'
  BY <1>2, <1>5, <1>6, <1>7, <1>8, CallMade
<1>10. PagingTyped'
  BY <1>1, <1>2, <1>7, <1>9 DEF PagingTyped
<1>11. Whole' /\ Ordered'
  BY <1>1, <1>2, <1>4, <1>7 DEF Whole, Ordered
<1>12. TopKnown'
  BY <1>1, <1>2, <1>4, <1>7 DEF TopKnown
<1>13. BottomKnown'
  <2>1. Paging!Following' = Paging!Following
    BY <1>2 DEF Paging!Following, Paging!AtEnd
  <2>2. QED
    BY <1>1, <1>2, <1>4, <1>7, <2>1 DEF BottomKnown
<1>14. QED
  BY <1>9, <1>10, <1>11, <1>12, <1>13 DEF PagingInv

LEMMA PagingLeaveBottom ==
  ASSUME PagingInv, Paging!LeaveBottom
  PROVE  PagingInv'
<1>1. /\ PagingTyped /\ CallsKept /\ OfLog /\ Whole /\ Polled /\ Ordered /\ TopKnown /\ BottomKnown
  BY DEF PagingInv
<1>2. /\ view # <<>> /\ ~Paging!Following /\ load' = [load EXCEPT !.hasAfter = TRUE]
      /\ log' = log /\ written' = written /\ sel' = sel /\ follow' = follow /\ view' = view
      /\ error' = error /\ seen' = seen /\ missed' = missed /\ calls' = calls
  BY DEF Paging!LeaveBottom
<1>3. load \in LoadType
  BY <1>1 DEF PagingTyped
<1>4. Selected' = Selected /\ Several' = Several /\ FitsPage' = FitsPage /\ Calm' = Calm /\ Roomy' = Roomy
      /\ Since(sel.target, sel.since)' = Since(sel.target, sel.since)
  BY <1>2, SelectedStays
<1>5. /\ load'.busy = load.busy /\ load'.loading = load.loading
      /\ load'.beforeTs = load.beforeTs /\ load'.afterTs = load.afterTs /\ load'.hasBefore = load.hasBefore
      /\ load'.hasAfter = TRUE /\ load' \in LoadType
  BY <1>2, <1>3 DEF LoadType
<1>6. Paging!Following' = Paging!Following
  BY <1>2 DEF Paging!Following, Paging!AtEnd
<1>7. PagingTyped'
  BY <1>1, <1>2, <1>5 DEF PagingTyped
<1>8. CallsKept'
  BY <1>1, <1>2, <1>5, <1>6 DEF CallsKept
<1>9. OfLog' /\ Whole' /\ Polled' /\ Ordered'
  BY <1>1, <1>2, <1>4, <1>5 DEF OfLog, Whole, Polled, Ordered
<1>10. TopKnown'
  BY <1>1, <1>2, <1>4, <1>5 DEF TopKnown
<1>11. BottomKnown'
  BY <1>2, <1>5, <1>6 DEF BottomKnown
<1>12. QED
  BY <1>7, <1>8, <1>9, <1>10, <1>11 DEF PagingInv

LEMMA JoinedEmpty == \A s \in Seq(Nat) : <<>> \o s = s /\ s \o <<>> = s
OBVIOUS

LEMMA Joined ==
  ASSUME NEW s \in Seq(Nat), NEW t \in Seq(Nat)
  PROVE  LET u == s \o t IN
           /\ u \in Seq(Nat) /\ Elems(u) = Elems(s) \cup Elems(t)
           /\ s # <<>> => u[1] = s[1] /\ u # <<>>
           /\ t # <<>> => Bottom(u) = Bottom(t) /\ u # <<>>
           /\ s = <<>> => u = t
           /\ t = <<>> => u = s
<1>1. PICK n \in Nat : n = Len(s) /\ DOMAIN s = 1 .. n
  OBVIOUS
<1>2. PICK m \in Nat : m = Len(t) /\ DOMAIN t = 1 .. m
  OBVIOUS
<1>3. PICK u : u = s \o t /\ u \in Seq(Nat) /\ Len(u) = n + m
  <2>1. s \o t \in Seq(Nat) /\ Len(s \o t) = n + m
    BY <1>1, <1>2
  <2>2. QED
    BY <2>1
<1>4. Elems(s \o t) = Elems(s) \cup Elems(t)
  BY ConcatElems
<1>5. /\ \A i \in 1 .. n : u[i] = s[i]
      /\ \A i \in 1 .. m : u[n + i] = t[i]
  BY <1>1, <1>2, <1>3
<1>6. s # <<>> => u[1] = s[1] /\ u # <<>>
  <2>1. s # <<>> => 1 \in 1 .. n /\ n + m # 0
    BY <1>1, <1>2
  <2>2. QED
    BY <1>3, <1>5, <2>1
<1>7. t # <<>> => u[n + m] = t[m] /\ u # <<>>
  <2>1. t # <<>> => m \in 1 .. m /\ n + m # 0
    BY <1>1, <1>2
  <2>2. QED
    BY <1>3, <1>5, <2>1
<1>8. (s = <<>> => s \o t = t) /\ (t = <<>> => s \o t = s)
  BY JoinedEmpty
<1>9. QED
  BY <1>1, <1>2, <1>3, <1>4, <1>6, <1>7, <1>8 DEF Bottom

(* What is read since the time after a cursor. *)
LEMMA SinceNext ==
  ASSUME PagingTyped, NEW c \in Time
  PROVE  /\ \A x \in Selected : x > c => x \in Since(sel.target, c + 1)
         /\ \A x \in Since(sel.target, c + 1) : x \in Selected /\ (x > c \/ Sec(x) = Sec(c))
         /\ \A x \in Selected, b \in Since(sel.target, c + 1) : Sec(x) >= Sec(b) => x \in Since(sel.target, c + 1)
<1>1. c \in Nat /\ c + 1 \in Nat /\ Sec(c + 1) \in Nat
  <2>1. c \in Nat /\ c + 1 \in Nat
    BY DEF Time
  <2>2. QED
    BY <2>1, Seconds
<1>2. \A x \in Selected : x \in Nat /\ Sec(x) \in Nat
  BY SelectedIs
<1>3. Since(sel.target, c + 1) = {x \in Selected : Sec(x) >= Sec(c + 1)}
  BY DEF Since, Selected
<1>4. \A x \in Selected : x > c => Sec(x) >= Sec(c + 1)
  BY <1>1, <1>2, SecondsBetween
<1>5. \A x \in Selected : Sec(x) >= Sec(c + 1) => x > c \/ Sec(x) = Sec(c)
  <2>1. ASSUME NEW x \in Selected, Sec(x) >= Sec(c + 1), ~(x > c) PROVE Sec(x) = Sec(c)
    <3>1. x <= c /\ x \in Nat
      BY <1>1, <1>2, <2>1
    <3>2. QED
      BY <1>1, <2>1, <3>1, SecondsBetween
  <2>2. QED
    BY <2>1
<1>6. \A x, b \in Selected : Sec(b) >= Sec(c + 1) /\ Sec(x) >= Sec(b) => Sec(x) >= Sec(c + 1)
  BY <1>1, <1>2
<1>7. QED
  BY <1>3, <1>4, <1>5, <1>6

(* A run with all that follows it, up to some line, is a run. *)
LEMMA RunGrows ==
  ASSUME NEW S \in SUBSET Nat, NEW v, NEW m, NEW u, RunOf(S, v, m), v[1] \in Nat, Bottom(v) \in Nat,
         u[1] = v[1], Bottom(u) \in S, Bottom(v) <= Bottom(u), Elems(v) \subseteq Elems(u),
         \A x \in S : Bottom(v) < x /\ x <= Bottom(u) => x \in Elems(u),
         \A x \in Elems(u) : x \in S /\ v[1] <= x /\ x <= Bottom(u), v[1] <= Bottom(v)
  PROVE  RunOf(S, u, m)
<1>1. \A x \in S : x \in Nat /\ (x <= Bottom(v) \/ Bottom(v) < x)
  OBVIOUS
<1>2. \A x \in S : v[1] <= x /\ x <= Bottom(u) => x \in Elems(u)
  BY <1>1 DEF RunOf
<1>3. Elems(u) = {x \in S : u[1] <= x /\ x <= Bottom(u)}
  BY <1>2
<1>4. ASSUME m, NEW x \in S, x <= Bottom(u), Sec(x) = Sec(Bottom(u)) PROVE v[1] <= x
  <2>1. CASE x <= Bottom(v)
    <3>1. Sec(x) <= Sec(Bottom(v)) /\ Sec(Bottom(v)) <= Sec(Bottom(u))
          /\ {Sec(x), Sec(Bottom(v)), Sec(Bottom(u))} \subseteq Nat
      <4>1. x \in Nat /\ Bottom(v) \in Nat /\ Bottom(u) \in Nat
        OBVIOUS
      <4>2. QED
        BY <2>1, <4>1, Seconds
    <3>2. Sec(x) = Sec(Bottom(v))
      BY <1>4, <3>1
    <3>3. QED
      BY <1>4, <2>1, <3>2 DEF RunOf
  <2>2. CASE Bottom(v) < x
    BY <1>1, <2>2
  <2>3. QED
    BY <1>1, <2>1, <2>2
<1>5. QED
  BY <1>3, <1>4 DEF RunOf

(* A chunk, or a poll, is over. *)
LEMMA CallEnds ==
  ASSUME PagingTyped, CallsKept, NEW c \in calls, c.kind # "fetch", calls' = calls \ {c},
         sel' = sel, follow' = follow, load'.busy = load.busy \ {c.kind}, load'.loading = load.loading,
         load'.beforeTs = load.beforeTs, load'.afterTs = load.afterTs,
         view' # <<>>, c.kind # "before" => view'[1] = view[1],
         c.kind = "before" => Bottom(view') = Bottom(view)
  PROVE  CallsKept'
<1>1. c.kind \in {"before", "after", "poll"}
  BY DEF PagingTyped, CallType
<1>2. \A d \in calls' : d \in calls /\ d.kind # c.kind /\ d.sel = sel /\ d.kind # "fetch"
  BY DEF CallsKept
<1>3. \A d, e \in calls' : d.kind = e.kind => d = e
  BY <1>2 DEF CallsKept
<1>4. \A k \in {"before", "after", "poll"} : k \in load'.busy <=> \E d \in calls' : d.kind = k
  <2>1. ASSUME NEW k \in {"before", "after", "poll"} PROVE k \in load'.busy <=> \E d \in calls' : d.kind = k
    <3>1. CASE k = c.kind
      BY <1>2, <3>1
    <3>2. CASE k # c.kind
      BY <3>2 DEF CallsKept
    <3>3. QED
      BY <3>1, <3>2
  <2>2. QED
    BY <2>1
<1>5. ~load.loading
  BY DEF CallsKept
<1>6. Paging!Following' = Paging!Following
  BY DEF Paging!Following, Paging!AtEnd
<1>7. "poll" \in load'.busy => "after" \notin load'.busy /\ Paging!Following
  BY DEF CallsKept
<1>8. "after" \in load'.busy => ~Paging!Following /\ load'.afterTs # 0
  BY DEF CallsKept
<1>9. \A d \in calls' : d.kind = "before" => d.cursor = view'[1] /\ load'.beforeTs = view'[1]
  BY <1>2 DEF CallsKept
<1>10. \A d \in calls' : d.kind = "after" => d.cursor = Bottom(view')
  <2>1. ASSUME NEW d \in calls', d.kind = "after" PROVE c.kind = "before"
    <3>1. "after" \in load.busy /\ c.kind \in load.busy
      BY <1>1, <1>2, <2>1 DEF CallsKept
    <3>2. c.kind # "poll" /\ c.kind # "after"
      BY <1>2, <2>1, <3>1 DEF CallsKept
    <3>3. QED
      BY <1>1, <3>2
  <2>2. QED
    BY <1>2, <2>1 DEF CallsKept
<1>11. QED
  BY <1>2, <1>3, <1>4, <1>5, <1>6, <1>7, <1>8, <1>9, <1>10 DEF CallsKept

LEMMA PagingOlderArrives ==
  ASSUME PagingInv, NEW c \in calls, Paging!OlderArrives(c)
  PROVE  PagingInv'
<1>1. /\ PagingTyped /\ CallsKept /\ OfLog /\ Whole /\ Polled /\ Ordered /\ TopKnown /\ BottomKnown
  BY DEF PagingInv
<1>2. c.kind = "before" /\ c.sel = sel /\ c.cursor = view[1] /\ load.beforeTs = c.cursor
      /\ view # <<>> /\ ~load.loading
  BY <1>1 DEF Paging!OlderArrives, CallsKept
<1>3. PICK page : page = Paging!PageBefore(sel.target, c.cursor)
  OBVIOUS
<1>4. PICK p : p = page.lines
  OBVIOUS
<1>5. /\ calls' = calls \ {c} /\ view' = p \o view
      /\ load' = [load EXCEPT !.busy = @ \ {"before"}, !.hasBefore = p # <<>> /\ page.more]
      /\ log' = log /\ written' = written /\ sel' = sel /\ follow' = follow
      /\ error' = error /\ seen' = seen /\ missed' = missed
  BY <1>2, <1>3, <1>4 DEF Paging!OlderArrives
<1>6. PICK S : S = Selected
  OBVIOUS
<1>7. S \in SUBSET Nat /\ view \in Seq(Nat) /\ view[1] \in Elems(view) /\ Bottom(view) \in Elems(view)
      /\ Elems(view) \subseteq S /\ \A x \in S : x \in Nat /\ x \in Time
  BY <1>1, <1>2, <1>6, SelectedIs DEF OfLog
<1>8. c.cursor \in S /\ c.cursor \in Time /\ c.cursor \in Nat /\ Bottom(view) \in Nat
  BY <1>2, <1>7
<1>9. PICK P \in SUBSET S :
        /\ page.more \in BOOLEAN /\ p = InOrder(P) /\ \A x \in P : x < c.cursor
        /\ \A x \in P, y \in S : x < y /\ y < c.cursor => y \in P
        /\ ~page.more \/ P = {} => \A y \in S : y < c.cursor => y \in P
  <2>1. log \in Logs /\ sel.target \in LogTargets
    BY <1>1, SelectedIs
  <2>2. QED
    BY <1>3, <1>4, <1>6, <1>8, <2>1, PageBeforeIs DEF Selected
<1>10. /\ p \in Seq(Time) /\ p \in Seq(Nat) /\ Elems(p) = P /\ Increasing(p)
       /\ p = <<>> <=> P = {}
       /\ P # {} => /\ p[1] \in P /\ Bottom(p) \in P
                    /\ \A x \in P : p[1] <= x /\ x <= Bottom(p)
  BY <1>1, <1>6, <1>9, PageSeq
<1>11. PICK u : u = p \o view /\ u \in Seq(Nat) /\ Elems(u) = P \cup Elems(view) /\ u # <<>>
                /\ Bottom(u) = Bottom(view) /\ (P = {} => u[1] = view[1]) /\ (P # {} => u[1] = p[1])
  BY <1>2, <1>7, <1>10, Joined
<1>12. u[1] \in S /\ u[1] \in Nat /\ u[1] <= view[1]
  <2>1. CASE P = {}
    BY <1>2, <1>8, <1>11, <2>1
  <2>2. CASE P # {}
    <3>1. p[1] \in S /\ p[1] \in Nat /\ p[1] < c.cursor
      BY <1>7, <1>9, <1>10, <2>2
    <3>2. QED
      BY <1>2, <1>8, <1>11, <2>2, <3>1
  <2>3. QED
    BY <2>1, <2>2
<1>13. load \in LoadType
  BY <1>1 DEF PagingTyped
<1>14. /\ load' \in LoadType /\ load'.busy = load.busy \ {"before"} /\ load'.loading = load.loading
       /\ load'.beforeTs = load.beforeTs /\ load'.afterTs = load.afterTs /\ load'.hasAfter = load.hasAfter
       /\ load'.hasBefore <=> P # {} /\ page.more
  <2>1. PICK b \in BOOLEAN : b = (p # <<>> /\ page.more)
    BY <1>9
  <2>2. load' = [load EXCEPT !.busy = @ \ {"before"}, !.hasBefore = b]
    BY <1>5, <2>1
  <2>3. /\ load' \in LoadType /\ load'.busy = load.busy \ {"before"} /\ load'.loading = load.loading
        /\ load'.beforeTs = load.beforeTs /\ load'.afterTs = load.afterTs /\ load'.hasAfter = load.hasAfter
        /\ load'.hasBefore = b
    BY <1>13, <2>2 DEF LoadType
  <2>4. QED
    BY <1>10, <2>1, <2>3
<1>15. Selected' = S /\ Several' = Several /\ FitsPage' = FitsPage /\ Calm' = Calm /\ Roomy' = Roomy
       /\ Since(sel.target, sel.since)' = Since(sel.target, sel.since)
  BY <1>5, <1>6, SelectedStays
<1>16. view' = u
  BY <1>5, <1>11
<1>17. Elems(u) \subseteq S /\ Elems(u) \subseteq Time
  BY <1>7, <1>9, <1>11
<1>18. PagingTyped'
  <2>1. u \in Seq(Time)
    BY <1>11, <1>17, SeqOfElems
  <2>2. QED
    BY <1>1, <1>5, <1>14, <1>16, <2>1 DEF PagingTyped
<1>19. CallsKept'
  BY <1>1, <1>2, <1>5, <1>11, <1>14, <1>16, CallEnds
<1>20. OfLog'
  BY <1>1, <1>2, <1>5, <1>6, <1>15, <1>16, <1>17 DEF OfLog
<1>21. Whole'
  <2>1. ASSUME RunOf(S, view, Several) PROVE RunOf(S, u, Several)
    <3>1. Elems(view) = {x \in S : view[1] <= x /\ x <= Bottom(view)} /\ view[1] <= Bottom(view)
      BY <1>7, <2>1 DEF RunOf
    <3>2. ASSUME NEW x \in S, u[1] <= x, x <= Bottom(view) PROVE x \in Elems(u)
      <4>1. CASE view[1] <= x
        BY <1>11, <3>1, <3>2, <4>1
      <4>2. CASE x < view[1]
        <5>1. P # {}
          BY <1>2, <1>7, <1>8, <1>11, <3>2, <4>2
        <5>2. x = p[1] \/ p[1] < x
          BY <1>7, <1>10, <1>11, <3>2, <5>1
        <5>3. x \in P
          BY <1>2, <1>9, <1>10, <4>2, <5>1, <5>2
        <5>4. QED
          BY <1>11, <5>3
      <4>3. QED
        BY <1>2, <1>7, <1>8, <4>1, <4>2
    <3>3. ASSUME NEW x \in P PROVE u[1] <= x /\ x <= Bottom(view)
      <4>1. u[1] <= x /\ x < view[1] /\ x \in Nat
        BY <1>2, <1>7, <1>9, <1>10, <1>11, <3>3
      <4>2. QED
        BY <1>2, <1>8, <3>1, <4>1
    <3>4. ASSUME NEW x \in S, view[1] <= x PROVE u[1] <= x
      BY <1>2, <1>7, <1>8, <1>12, <3>4
    <3>5. Elems(u) = {x \in S : u[1] <= x /\ x <= Bottom(u)}
      BY <1>11, <1>17, <3>1, <3>2, <3>3, <3>4
    <3>6. QED
      BY <1>11, <2>1, <3>4, <3>5 DEF RunOf
  <2>2. QED
    BY <1>1, <1>2, <1>6, <1>15, <1>16, <2>1 DEF Whole
<1>22. Polled'
  <2>1. ASSUME NEW d \in calls, Continues(S, view, Several, d.cursor, d.lines), Elems(d.lines) \subseteq S
        PROVE  Continues(S, u, Several, d.cursor, d.lines)
    <3>1. \A x \in Elems(d.lines) : u[1] <= x
      <4>1. \A x \in Elems(d.lines) : view[1] <= x /\ x \in Nat
        BY <1>7, <2>1 DEF Continues
      <4>2. QED
        BY <1>2, <1>8, <1>12, <4>1
    <3>2. QED
      BY <1>11, <2>1, <3>1 DEF Continues
  <2>2. QED
    BY <1>1, <1>5, <1>6, <1>15, <1>16, <2>1 DEF Polled, OfLog
<1>23. Ordered'
  <2>1. ASSUME Increasing(view) PROVE Increasing(u)
    <3>1. \A x \in Elems(view) : view[1] <= x /\ x \in Nat
      BY <1>2, <1>7, <2>1, EndsOf
    <3>2. \A x \in Elems(p), y \in Elems(view) : x < y
      <4>1. \A x \in Elems(p) : x < view[1] /\ x \in Nat
        BY <1>2, <1>7, <1>9, <1>10
      <4>2. QED
        BY <1>2, <1>8, <3>1, <4>1
    <3>3. Increasing(p \o view)
      BY <1>7, <1>10, <2>1, <3>2, IncreasingConcat
    <3>4. QED
      BY <1>11, <3>3
  <2>2. QED
    BY <1>1, <1>5, <1>14, <1>15, <1>16, <2>1 DEF Ordered
<1>24. TopKnown'
  <2>1. ASSUME P # {} PROVE u[1] < load.beforeTs
    BY <1>2, <1>9, <1>10, <1>11, <2>1
  <2>2. ASSUME ~page.more \/ P = {}, NEW x \in S PROVE u[1] <= x
    <3>1. CASE x < c.cursor
      <4>1. x \in P
        BY <1>9, <2>2, <3>1
      <4>2. QED
        BY <1>10, <1>11, <4>1
    <3>2. CASE ~(x < c.cursor)
      BY <1>2, <1>7, <1>8, <1>12, <3>2
    <3>3. QED
      BY <3>1, <3>2
  <2>3. QED
    BY <1>14, <1>15, <1>16, <2>1, <2>2 DEF TopKnown
<1>25. BottomKnown'
  <2>1. Paging!Following' = Paging!Following
    BY <1>5 DEF Paging!Following, Paging!AtEnd
  <2>2. "poll" \in load'.busy <=> "poll" \in load.busy
    BY <1>14
  <2>3. QED
    BY <1>1, <1>2, <1>5, <1>6, <1>11, <1>14, <1>15, <1>16, <2>1, <2>2 DEF BottomKnown
<1>26. QED
  BY <1>18, <1>19, <1>20, <1>21, <1>22, <1>23, <1>24, <1>25 DEF PagingInv

LEMMA PagingChunkFails ==
  ASSUME PagingInv, NEW c \in calls, Paging!ChunkFails(c)
  PROVE  PagingInv'
<1>1. /\ PagingTyped /\ CallsKept /\ OfLog /\ Whole /\ Polled /\ Ordered /\ TopKnown /\ BottomKnown
  BY DEF PagingInv
<1>2. /\ c.kind \in {"before", "after"} /\ calls' = calls \ {c} /\ missed' = missed \cup {c.kind}
      /\ log' = log /\ written' = written /\ sel' = sel /\ follow' = follow /\ view' = view /\ seen' = seen
  BY DEF Paging!ChunkFails
<1>3. \/ /\ c.kind = "before" /\ error' = error
         /\ load' = [load EXCEPT !.busy = @ \ {"before"}, !.hasBefore = FALSE]
      \/ /\ c.kind = "after" /\ error' = TRUE
         /\ load' = [load EXCEPT !.busy = @ \ {"after"}, !.hasAfter = FALSE]
  BY DEF Paging!ChunkFails
<1>4. load \in LoadType
  BY <1>1 DEF PagingTyped
<1>5. /\ load' \in LoadType /\ load'.busy = load.busy \ {c.kind} /\ load'.loading = load.loading
      /\ load'.beforeTs = load.beforeTs /\ load'.afterTs = load.afterTs
      /\ load'.hasBefore => load.hasBefore /\ c.kind # "before"
      /\ c.kind = "after" => load'.hasBefore = load.hasBefore
  <2>1. CASE c.kind = "before"
    <3>1. load' = [load EXCEPT !.busy = @ \ {"before"}, !.hasBefore = FALSE]
      BY <1>3, <2>1
    <3>2. QED
      BY <1>4, <2>1, <3>1 DEF LoadType
  <2>2. CASE c.kind = "after"
    <3>1. load' = [load EXCEPT !.busy = @ \ {"after"}, !.hasAfter = FALSE]
      BY <1>3, <2>2
    <3>2. QED
      BY <1>4, <2>2, <3>1 DEF LoadType
  <2>3. QED
    BY <1>2, <2>1, <2>2
<1>6. view # <<>> /\ ~load.loading
  <2>1. c.kind \in load.busy
    BY <1>1, <1>2 DEF CallsKept
  <2>2. QED
    BY <1>1, <1>2, <2>1 DEF CallsKept
<1>7. Selected' = Selected /\ Several' = Several /\ Calm' = Calm
      /\ Since(sel.target, sel.since)' = Since(sel.target, sel.since)
  BY <1>2, SelectedStays
<1>8. PagingTyped'
  <2>1. error' \in BOOLEAN /\ missed' \in SUBSET {"before", "after"}
    BY <1>1, <1>2, <1>3 DEF PagingTyped
  <2>2. QED
    BY <1>1, <1>2, <1>5, <2>1 DEF PagingTyped
<1>9. CallsKept'
  BY <1>1, <1>2, <1>5, <1>6, CallEnds
<1>10. OfLog' /\ Whole' /\ Polled'
  BY <1>1, <1>2, <1>7 DEF OfLog, Whole, Polled
<1>11. Ordered'
  BY <1>1, <1>2, <1>7 DEF Ordered
<1>12. TopKnown'
  BY <1>1, <1>2, <1>5, <1>7 DEF TopKnown
<1>13. BottomKnown'
  BY <1>2 DEF BottomKnown
<1>14. QED
  BY <1>8, <1>9, <1>10, <1>11, <1>12, <1>13 DEF PagingInv

LEMMA PagingPollFails ==
  ASSUME PagingInv, NEW c \in calls, Paging!PollFails(c)
  PROVE  PagingInv'
<1>1. /\ PagingTyped /\ CallsKept /\ OfLog /\ Whole /\ Polled /\ Ordered /\ TopKnown /\ BottomKnown
  BY DEF PagingInv
<1>2. /\ c.kind = "poll" /\ calls' = calls \ {c} /\ missed' = missed /\ error' = TRUE
      /\ load' = [load EXCEPT !.busy = @ \ {"poll"}]
      /\ log' = log /\ written' = written /\ sel' = sel /\ follow' = follow /\ view' = view /\ seen' = seen
  BY DEF Paging!PollFails
<1>3. load \in LoadType
  BY <1>1 DEF PagingTyped
<1>4. /\ load' \in LoadType /\ load'.busy = load.busy \ {"poll"} /\ load'.loading = load.loading
      /\ load'.beforeTs = load.beforeTs /\ load'.afterTs = load.afterTs
      /\ load'.hasBefore = load.hasBefore /\ load'.hasAfter = load.hasAfter
  BY <1>2, <1>3 DEF LoadType
<1>5. view # <<>> /\ ~load.loading
  <2>1. c.kind \in load.busy
    BY <1>1, <1>2 DEF CallsKept
  <2>2. QED
    BY <1>1, <1>2, <2>1 DEF CallsKept
<1>6. Selected' = Selected /\ Several' = Several /\ FitsPage' = FitsPage /\ Calm' = Calm
      /\ Since(sel.target, sel.since)' = Since(sel.target, sel.since)
  BY <1>2, SelectedStays
<1>7. PagingTyped'
  BY <1>1, <1>2, <1>4 DEF PagingTyped
<1>8. CallsKept'
  BY <1>1, <1>2, <1>4, <1>5, CallEnds
<1>9. OfLog' /\ Whole' /\ Polled'
  BY <1>1, <1>2, <1>6 DEF OfLog, Whole, Polled
<1>10. Ordered'
  BY <1>1, <1>2, <1>4, <1>6 DEF Ordered
<1>11. TopKnown'
  BY <1>1, <1>2, <1>4, <1>6 DEF TopKnown
<1>12. BottomKnown'
  BY <1>1, <1>2, <1>4, <1>6 DEF BottomKnown
<1>13. QED
  BY <1>7, <1>8, <1>9, <1>10, <1>11, <1>12 DEF PagingInv

(* The page after a cursor, of what is selected. *)
LEMMA PageRead ==
  ASSUME PagingInv, NEW c \in Selected
  PROVE  \E P \in SUBSET Selected, p \in Seq(Nat) :
           NextPage(Selected, Paging!PageAfter(sel.target, c), c, P, p)
<1>1. PagingTyped
  BY DEF PagingInv
<1>2. PICK S : S = Selected
  OBVIOUS
<1>3. PICK t \in LogTargets : t = sel.target
  BY <1>1, SelectedIs
<1>4. PICK page : page = Paging!PageAfter(t, c)
  OBVIOUS
<1>5. c \in Time /\ c \in Nat /\ \A x \in S : x \in Nat
  BY <1>1, <1>2, SelectedIs
<1>6. PICK P \in SUBSET S :
        /\ page.more \in BOOLEAN /\ page.lines = InOrder(P)
        /\ \A x \in P, y \in S : c < y /\ y < x => y \in P
        /\ ~Several => \A x \in P : x > c
        /\ Several => /\ P \subseteq Since(t, c + 1)
                      /\ \A x \in P, y \in Since(t, c + 1) : y < x => y \in P
                      /\ Since(t, c + 1) # {} => P # {}
                      /\ ~page.more => P = Since(t, c + 1)
        /\ Several /\ FitsPage /\ P # {} => \E x \in P : x >= c
        /\ Roomy => ((\E y \in S : y > c) => \E x \in P : x > c)
  <2>1. log \in Logs
    BY <1>1, SelectedIs
  <2>2. QED
    BY <1>2, <1>3, <1>4, <1>5, <2>1, PageAfterIs DEF Selected, Several, FitsPage, Roomy
<1>7. PICK p : p = InOrder(P)
  OBVIOUS
<1>8. /\ p \in Seq(Time) /\ p \in Seq(Nat) /\ Elems(p) = P /\ Increasing(p) /\ (p = <<>> <=> P = {})
      /\ P # {} => /\ Bottom(p) \in P
                   /\ \A x \in P : x <= Bottom(p)
  BY <1>1, <1>2, <1>6, <1>7, PageSeq
<1>9. P # {} => Bottom(p) \in Nat
  BY <1>5, <1>6, <1>8
<1>10. ASSUME P # {}, Calm PROVE c <= Bottom(p)
  <2>1. \E x \in P : x >= c /\ x \in Nat
    <3>1. CASE Several
      <4>1. FitsPage
        BY <1>10, <3>1 DEF Calm
      <4>2. QED
        BY <1>5, <1>6, <1>10, <3>1, <4>1
    <3>2. CASE ~Several
      BY <1>5, <1>6, <1>10, <3>2
    <3>3. QED
      BY <3>1, <3>2
  <2>2. PICK x \in P : x >= c /\ x \in Nat
    BY <2>1
  <2>3. x <= Bottom(p) /\ Bottom(p) \in Nat
    BY <1>8, <1>9, <2>2
  <2>4. QED
    BY <1>5, <2>2, <2>3
<1>11. ASSUME NEW x \in S, P # {}, c < x, x <= Bottom(p) PROVE x \in P
  <2>1. x = Bottom(p) \/ x < Bottom(p)
    BY <1>5, <1>9, <1>11
  <2>2. QED
    BY <1>6, <1>8, <1>11, <2>1
<1>12. /\ \A x \in S : x > c => x \in Since(t, c + 1)
       /\ \A x \in Since(t, c + 1) : x \in S /\ (x > c \/ Sec(x) = Sec(c))
       /\ \A x \in S, b \in Since(t, c + 1) : Sec(x) >= Sec(b) => x \in Since(t, c + 1)
  BY <1>1, <1>2, <1>3, <1>5, SinceNext
<1>13. Several => \A x \in P : x > c \/ Sec(x) = Sec(c)
  BY <1>6, <1>12
<1>14. ASSUME Several, P = {} \/ ~page.more, NEW x \in S, x > c PROVE x \in P
  BY <1>6, <1>12, <1>14
<1>15. ASSUME Several, NEW x \in S, P # {}, x <= Bottom(p), Sec(x) = Sec(Bottom(p)) PROVE x \in P
  <2>1. Bottom(p) \in Since(t, c + 1)
    BY <1>6, <1>8, <1>15
  <2>2. Sec(x) >= Sec(Bottom(p))
    <3>1. Sec(x) \in Nat
      BY <1>5, Seconds
    <3>2. QED
      BY <1>15, <3>1
  <2>3. x \in Since(t, c + 1)
    BY <1>12, <2>1, <2>2
  <2>4. x = Bottom(p) \/ x < Bottom(p)
    BY <1>5, <1>9, <1>15
  <2>5. QED
    BY <1>6, <1>8, <1>15, <2>3, <2>4
<1>16. NextPage(S, page, c, P, p)
  BY <1>5, <1>6, <1>7, <1>8, <1>9, <1>10, <1>11, <1>13, <1>14, <1>15 DEF NextPage
<1>17. QED
  BY <1>2, <1>3, <1>4, <1>7, <1>8, <1>16

LEMMA PagingNewerArrives ==
  ASSUME PagingInv, NEW c \in calls, Paging!NewerArrives(c)
  PROVE  PagingInv'
<1>1. /\ PagingTyped /\ CallsKept /\ OfLog /\ Whole /\ Polled /\ Ordered /\ TopKnown /\ BottomKnown
  BY DEF PagingInv
<1>2. /\ c.kind = "after" /\ c.sel = sel /\ c.cursor = Bottom(view) /\ view # <<>> /\ ~load.loading
      /\ load.afterTs # 0 /\ ~Paging!Following /\ "poll" \notin load.busy
  <2>1. c.kind = "after"
    BY DEF Paging!NewerArrives
  <2>2. "after" \in load.busy
    BY <1>1, <2>1 DEF CallsKept
  <2>3. QED
    BY <1>1, <2>1, <2>2 DEF CallsKept
<1>3. PICK page : page = Paging!PageAfter(sel.target, c.cursor)
  OBVIOUS
<1>4. PICK S : S = Selected
  OBVIOUS
<1>5. S \in SUBSET Nat /\ view \in Seq(Nat) /\ view[1] \in Elems(view) /\ Bottom(view) \in Elems(view)
      /\ Elems(view) \subseteq S /\ (\A x \in S : x \in Nat /\ x \in Time)
  BY <1>1, <1>2, <1>4, SelectedIs DEF OfLog
<1>6. view[1] \in Nat /\ Bottom(view) \in S /\ Bottom(view) \in Nat
  BY <1>5
<1>7. PICK P \in SUBSET S, p \in Seq(Nat) : NextPage(S, page, Bottom(view), P, p)
  BY <1>2, <1>3, <1>4, <1>6, PageRead
<1> USE DEF NextPage
<1>8. /\ calls' = calls \ {c} /\ view' = view \o p
      /\ load' = [load EXCEPT !.busy = @ \ {"after"}, !.hasAfter = p # <<>> /\ page.more]
      /\ log' = log /\ written' = written /\ sel' = sel /\ follow' = follow
      /\ error' = error /\ seen' = written /\ missed' = missed
  BY <1>2, <1>3, <1>7 DEF Paging!NewerArrives
<1>9. PICK u : u = view \o p /\ u \in Seq(Nat) /\ Elems(u) = Elems(view) \cup P /\ u # <<>> /\ u[1] = view[1]
               /\ (P = {} => u = view) /\ (P # {} => Bottom(u) = Bottom(p))
  <2>1. /\ view \o p \in Seq(Nat) /\ Elems(view \o p) = Elems(view) \cup Elems(p)
        /\ view # <<>> => (view \o p)[1] = view[1] /\ view \o p # <<>>
        /\ p # <<>> => Bottom(view \o p) = Bottom(p)
        /\ p = <<>> => view \o p = view
    BY <1>5, <1>7, Joined
  <2>2. QED
    BY <1>2, <1>7, <2>1
<1>10. view' = u
  BY <1>8, <1>9
<1>11. load \in LoadType
  BY <1>1 DEF PagingTyped
<1>12. /\ load' \in LoadType /\ load'.busy = load.busy \ {"after"} /\ load'.loading = load.loading
       /\ load'.beforeTs = load.beforeTs /\ load'.afterTs = load.afterTs /\ load'.hasBefore = load.hasBefore
       /\ load'.hasAfter <=> P # {} /\ page.more
  <2>1. PICK b \in BOOLEAN : b = (p # <<>> /\ page.more)
    BY <1>7
  <2>2. load' = [load EXCEPT !.busy = @ \ {"after"}, !.hasAfter = b]
    BY <1>8, <2>1
  <2>3. /\ load' \in LoadType /\ load'.busy = load.busy \ {"after"} /\ load'.loading = load.loading
        /\ load'.beforeTs = load.beforeTs /\ load'.afterTs = load.afterTs /\ load'.hasBefore = load.hasBefore
        /\ load'.hasAfter = b
    BY <1>11, <2>2 DEF LoadType
  <2>4. QED
    BY <1>7, <2>1, <2>3
<1>13. Selected' = S /\ Several' = Several /\ FitsPage' = FitsPage /\ Calm' = Calm
       /\ Since(sel.target, sel.since)' = Since(sel.target, sel.since)
  BY <1>4, <1>8, SelectedStays
<1>14. Elems(u) \subseteq S /\ Elems(u) \subseteq Time
  BY <1>5, <1>7, <1>9
<1>15. PagingTyped'
  <2>1. u \in Seq(Time)
    BY <1>9, <1>14, SeqOfElems
  <2>2. written \in 0 .. LastTime /\ written <= written
    BY <1>1 DEF PagingTyped
  <2>3. QED
    BY <1>1, <1>8, <1>10, <1>12, <2>1, <2>2 DEF PagingTyped
<1>16. CallsKept'
  BY <1>1, <1>2, <1>8, <1>9, <1>10, <1>12, CallEnds
<1>17. OfLog'
  BY <1>1, <1>2, <1>4, <1>8, <1>10, <1>13, <1>14 DEF OfLog
<1>18. Whole'
  <2>1. ASSUME RunOf(S, view, Several), Calm PROVE RunOf(S, u, Several)
    <3>1. CASE P = {}
      BY <1>9, <2>1, <3>1
    <3>2. CASE P # {}
      <4>1. Bottom(u) \in S /\ Bottom(view) <= Bottom(u) /\ Bottom(u) \in Nat
        BY <1>7, <1>9, <2>1, <3>2
      <4>2. Elems(view) = {x \in S : view[1] <= x /\ x <= Bottom(view)} /\ view[1] <= Bottom(view)
        BY <1>5, <2>1 DEF RunOf
      <4>3. \A x \in S : Bottom(view) < x /\ x <= Bottom(u) => x \in Elems(u)
        BY <1>7, <1>9, <3>2
      <4>4. \A x \in Elems(view) : view[1] <= x /\ x <= Bottom(u)
        <5>1. \A x \in Elems(view) : x \in Nat /\ view[1] <= x /\ x <= Bottom(view)
          BY <1>5, <4>2
        <5>2. QED
          BY <1>6, <4>1, <5>1
      <4>5. ASSUME NEW x \in P PROVE view[1] <= x /\ x <= Bottom(u)
        <5>1. x <= Bottom(u) /\ x \in S /\ x \in Nat
          BY <1>5, <1>7, <1>9, <3>2
        <5>2. CASE x > Bottom(view)
          BY <1>6, <4>2, <5>1, <5>2
        <5>3. CASE x <= Bottom(view)
          <6>1. Several /\ Sec(x) = Sec(Bottom(view))
            BY <1>6, <1>7, <5>1, <5>3
          <6>2. QED
            BY <2>1, <5>1, <5>3, <6>1 DEF RunOf
        <5>4. QED
          BY <1>6, <5>1, <5>2, <5>3
      <4>6. \A x \in Elems(u) : x \in S /\ view[1] <= x /\ x <= Bottom(u)
        BY <1>9, <1>14, <4>4, <4>5
      <4>7. QED
        BY <1>5, <1>6, <1>9, <2>1, <4>1, <4>2, <4>3, <4>6, RunGrows
    <3>3. QED
      BY <3>1, <3>2
  <2>2. QED
    BY <1>1, <1>2, <1>4, <1>10, <1>13, <2>1 DEF Whole
<1>19. Polled'
  <2>1. \A d \in calls' : d.kind # "poll"
    BY <1>1, <1>2, <1>8 DEF CallsKept
  <2>2. QED
    BY <2>1 DEF Polled
<1>20. Ordered'
  <2>1. ASSUME ~Several PROVE Increasing(u)
    <3>1. Increasing(view)
      BY <1>1, <2>1 DEF Ordered
    <3>2. \A x \in Elems(view), y \in Elems(p) : x < y
      <4>1. \A x \in Elems(view) : x <= Bottom(view) /\ x \in Nat
        BY <1>2, <1>5, <3>1, EndsOf DEF Bottom
      <4>2. \A y \in Elems(p) : Bottom(view) < y /\ y \in Nat
        BY <1>5, <1>7, <2>1
      <4>3. QED
        BY <1>6, <4>1, <4>2
    <3>3. Increasing(view \o p)
      BY <1>5, <1>7, <3>1, <3>2, IncreasingConcat
    <3>4. QED
      BY <1>9, <3>3
  <2>2. QED
    BY <1>2, <1>10, <1>12, <1>13, <2>1 DEF Ordered
<1>21. TopKnown'
  <2>1. "before" \in load'.busy <=> "before" \in load.busy
    BY <1>12
  <2>2. QED
    BY <1>1, <1>2, <1>4, <1>8, <1>9, <1>10, <1>12, <1>13, <2>1 DEF TopKnown
<1>22. BottomKnown'
  <2>1. ~Paging!Following'
    BY <1>2, <1>8 DEF Paging!Following, Paging!AtEnd
  <2>2. ASSUME Several, FitsPage, P = {} \/ ~page.more, NEW x \in S PROVE x <= Bottom(u)
    <3>1. CASE P = {}
      BY <1>5, <1>6, <1>7, <1>9, <2>2, <3>1
    <3>2. CASE P # {}
      <4>1. Bottom(view) <= Bottom(u) /\ Bottom(u) \in Nat
        BY <1>7, <1>9, <2>2, <3>2 DEF Calm
      <4>2. x > Bottom(view) => x <= Bottom(u)
        BY <1>7, <1>9, <2>2, <3>2
      <4>3. QED
        BY <1>5, <1>6, <4>1, <4>2
    <3>3. QED
      BY <3>1, <3>2
  <2>3. QED
    BY <1>10, <1>12, <1>13, <2>1, <2>2 DEF BottomKnown
<1>23. QED
  BY <1>15, <1>16, <1>17, <1>18, <1>19, <1>20, <1>21, <1>22 DEF PagingInv

(* A page continues what a poll has read. *)
LEMMA PollReads ==
  ASSUME NEW S \in SUBSET Nat, NEW v, NEW m \in BOOLEAN, NEW cursor \in Nat, NEW more \in Seq(Nat),
         NEW p \in Seq(Nat), NEW f \in Seq(Nat),
         RunOf(S, v, m), v[1] \in Nat, Bottom(v) \in Nat, v[1] <= Bottom(v),
         Continues(S, v, m, cursor, more), Elems(more) \subseteq S,
         Elems(p) \subseteq S, p # <<>>, Bottom(p) \in Elems(p), cursor <= Bottom(p),
         \A x \in Elems(p) : x <= Bottom(p),
         \A x \in S : cursor < x /\ x <= Bottom(p) => x \in Elems(p),
         \A x \in Elems(p) : x > cursor \/ (m /\ Sec(x) = Sec(cursor)),
         m => \A x \in S : x <= Bottom(p) /\ Sec(x) = Sec(Bottom(p)) => x \in Elems(p),
         Elems(f) = Elems(p) \ Elems(more), Increasing(f)
  PROVE  Continues(S, v, m, Bottom(p), more \o f)
<1>1. PICK b \in Nat : b = Bottom(p) /\ b \in S /\ b \in Elems(p)
  OBVIOUS
<1>2. PICK u \in Seq(Nat) : u = more \o f /\ Elems(u) = Elems(more) \cup Elems(p)
  <2>1. more \o f \in Seq(Nat) /\ Elems(more \o f) = Elems(more) \cup Elems(f)
    BY Joined
  <2>2. QED
    BY <2>1
<1>3. Bottom(v) <= b
  BY <1>1 DEF Continues
<1>4. \A x \in S : x \in Nat
  OBVIOUS
<1>5. ASSUME NEW x \in Elems(p), x <= cursor PROVE v[1] <= x /\ (more # <<>> => x \in Elems(more))
  <2>1. m /\ Sec(x) = Sec(cursor) /\ x \in S
    <3>1. x \in S /\ ~(x > cursor)
      <4>1. x \in S
        OBVIOUS
      <4>2. x \in Nat
        BY <1>4, <4>1
      <4>3. QED
        BY <1>5, <4>1, <4>2
    <3>2. x > cursor \/ (m /\ Sec(x) = Sec(cursor))
      OBVIOUS
    <3>3. QED
      BY <3>1, <3>2, Zenon
  <2>2. CASE more = <<>>
    <3>1. cursor = Bottom(v)
      BY <2>2 DEF Continues
    <3>2. QED
      BY <1>5, <2>1, <2>2, <3>1 DEF RunOf
  <2>3. CASE more # <<>>
    <3>1. x \in Elems(more)
      BY <1>5, <2>1, <2>3 DEF Continues
    <3>2. QED
      BY <3>1 DEF Continues
  <2>4. QED
    BY <2>2, <2>3
<1>6. Increasing(u)
  <2>1. ASSUME NEW x \in Elems(more), NEW y \in Elems(f) PROVE x < y
    <3>1. x <= cursor /\ x \in Nat
      BY <1>4 DEF Continues
    <3>2. y \in Elems(p) /\ y \notin Elems(more) /\ y \in Nat
      BY <1>4
    <3>3. more # <<>>
      BY DEF Elems
    <3>4. ~(y <= cursor)
      BY <1>5, <3>2, <3>3
    <3>5. QED
      BY <3>1, <3>2, <3>4
  <2>2. Increasing(more)
    BY DEF Continues
  <2>3. Increasing(more \o f)
    BY <2>1, <2>2, IncreasingConcat
  <2>4. QED
    BY <1>2, <2>3
<1>7. \A x \in Elems(u) : v[1] <= x /\ x <= b
  <2>1. ASSUME NEW x \in Elems(more) PROVE v[1] <= x /\ x <= b
    <3>1. v[1] <= x /\ x <= cursor /\ x \in Nat
      BY <1>4 DEF Continues
    <3>2. QED
      BY <1>1, <3>1
  <2>2. ASSUME NEW x \in Elems(p) PROVE v[1] <= x /\ x <= b
    <3>1. x \in Nat /\ x <= b
      BY <1>1, <1>4
    <3>2. CASE x <= cursor
      BY <1>5, <3>1, <3>2
    <3>3. CASE x > cursor
      <4>1. Bottom(v) <= cursor
        BY DEF Continues
      <4>2. QED
        BY <3>1, <3>3, <4>1
    <3>4. QED
      BY <3>1, <3>2, <3>3
  <2>3. QED
    BY <1>2, <2>1, <2>2
<1>8. \A x \in S : Bottom(v) < x /\ x <= b => x \in Elems(u)
  <2>1. ASSUME NEW x \in S, Bottom(v) < x, x <= b PROVE x \in Elems(u)
    <3>1. x <= cursor \/ cursor < x
      BY <1>4
    <3>2. x <= cursor => x \in Elems(more)
      BY <2>1 DEF Continues
    <3>3. cursor < x => x \in Elems(p)
      BY <1>1, <2>1
    <3>4. QED
      BY <1>2, <3>1, <3>2, <3>3
  <2>2. QED
    BY <2>1
<1>9. u # <<>> /\ b = Bottom(u)
  <2>1. u # <<>>
    <3>1. b \in Elems(u)
      BY <1>1, <1>2
    <3>2. QED
      BY <3>1 DEF Elems
  <2>2. Bottom(u) \in Elems(u) /\ b <= Bottom(u)
    BY <1>1, <1>2, <1>6, <2>1, EndsOf DEF Bottom
  <2>3. Bottom(u) <= b /\ Bottom(u) \in Nat
    BY <1>2, <1>4, <1>7, <2>2
  <2>4. QED
    BY <2>1, <2>2, <2>3
<1>10. m => \A x \in S : x <= b /\ Sec(x) = Sec(b) => x \in Elems(u)
  BY <1>1, <1>2
<1>11. Continues(S, v, m, b, u)
  BY <1>3, <1>6, <1>7, <1>8, <1>9, <1>10 DEF Continues
<1>12. QED
  BY <1>1, <1>2, <1>11

(* What a poll has read is put on screen. *)
LEMMA PollShown ==
  ASSUME NEW S, NEW v, NEW m, NEW cursor, NEW more, NEW f, Continued(S, v, m, cursor, more, f)
  PROVE  /\ RunOf(S, v \o f, m) /\ Bottom(v \o f) = cursor
         /\ Increasing(v) => Increasing(v \o f)
<1> USE DEF Continued
<1>0. PICK u : u = v \o f
  OBVIOUS
<1>1. v[1] \in Nat /\ Bottom(v) \in Nat /\ cursor \in Nat /\ v[1] <= Bottom(v) /\ Bottom(v) <= cursor
  BY DEF RunOf, Continues
<1>2. /\ u \in Seq(Nat) /\ Elems(u) = Elems(v) \cup Elems(f) /\ u[1] = v[1]
      /\ f # <<>> => Bottom(u) = Bottom(f)
      /\ f = <<>> => u = v
  BY <1>0, Joined
<1>3. \A x \in S : x \in Nat
  OBVIOUS
<1>4. ASSUME NEW x \in Elems(f) PROVE Bottom(v) < x /\ x <= cursor /\ x \in S
  <2>1. x \in S /\ x \in Nat /\ x \notin Elems(v) /\ v[1] <= x /\ x <= cursor
    BY <1>3 DEF Continues
  <2>2. ~(x <= Bottom(v))
    BY <2>1 DEF RunOf
  <2>3. QED
    BY <1>1, <2>1, <2>2
<1>5. \A x \in Elems(v) : x <= Bottom(v) /\ v[1] <= x /\ x \in Nat
  BY <1>3 DEF RunOf
<1>6. ASSUME NEW x \in S, Bottom(v) < x, x <= cursor PROVE x \in Elems(f)
  <2>1. x \in Elems(more)
    BY <1>6 DEF Continues
  <2>2. x \notin Elems(v)
    BY <1>1, <1>3, <1>5, <1>6
  <2>3. QED
    BY <2>1, <2>2
<1>7. Bottom(u) = cursor
  <2>1. CASE f = <<>>
    <3>1. Elems(f) = {}
      BY <2>1 DEF Elems
    <3>2. ~(Bottom(v) < cursor)
      BY <1>1, <1>6, <3>1
    <3>3. QED
      BY <1>1, <1>2, <2>1, <3>2
  <2>2. CASE f # <<>>
    <3>1. Bottom(f) \in Elems(f) /\ \A x \in Elems(f) : x <= Bottom(f)
      BY <2>2, EndsOf DEF Bottom
    <3>2. Bottom(v) < Bottom(f) /\ Bottom(f) <= cursor /\ Bottom(f) \in Nat
      BY <1>3, <1>4, <3>1
    <3>3. cursor \in Elems(f)
      BY <1>1, <1>6, <3>2
    <3>4. QED
      BY <1>1, <1>2, <2>2, <3>1, <3>2, <3>3
  <2>3. QED
    BY <2>1, <2>2
<1>8. \A x \in Elems(u) : x \in S /\ v[1] <= x /\ x <= Bottom(u)
  <2>1. \A x \in Elems(v) : x \in S /\ v[1] <= x /\ x <= cursor
    BY <1>1, <1>5
  <2>2. \A x \in Elems(f) : x \in S /\ v[1] <= x /\ x <= cursor
    <3>1. ASSUME NEW x \in Elems(f) PROVE x \in S /\ v[1] <= x /\ x <= cursor
      <4>1. Bottom(v) < x /\ x <= cursor /\ x \in S
        BY <1>4
      <4>2. x \in Nat
        BY <1>3, <4>1
      <4>3. QED
        BY <1>1, <4>1, <4>2
    <3>2. QED
      BY <3>1
  <2>3. QED
    BY <1>2, <1>7, <2>1, <2>2
<1>9. RunOf(S, u, m)
  <2>1. \A x \in S : Bottom(v) < x /\ x <= Bottom(u) => x \in Elems(u)
    BY <1>2, <1>6, <1>7
  <2>2. Elems(v) \subseteq Elems(u) /\ Bottom(u) \in S /\ Bottom(v) <= Bottom(u)
    BY <1>1, <1>2, <1>7
  <2>3. QED
    BY <1>1, <1>2, <1>8, <2>1, <2>2, RunGrows
<1>10. ASSUME Increasing(v) PROVE Increasing(u)
  <2>1. \A x \in Elems(v), y \in Elems(f) : x < y
    <3>1. \A y \in Elems(f) : y \in Nat
      BY <1>3, <1>4
    <3>2. QED
      BY <1>1, <1>4, <1>5, <3>1
  <2>2. QED
    BY <1>0, <1>10, <2>1, IncreasingConcat
<1>11. QED
  BY <1>0, <1>7, <1>9, <1>10

LEMMA PagingPollPage ==
  ASSUME PagingInv, NEW c \in calls, Paging!PollPage(c)
  PROVE  PagingInv'
<1>1. /\ PagingTyped /\ CallsKept /\ OfLog /\ Whole /\ Polled /\ Ordered /\ TopKnown /\ BottomKnown
  BY DEF PagingInv
<1>2. /\ c.kind = "poll" /\ c.sel = sel /\ view # <<>> /\ ~load.loading
      /\ Paging!Following /\ "after" \notin load.busy /\ "poll" \in load.busy
  <2>1. c.kind = "poll"
    BY DEF Paging!PollPage
  <2>2. "poll" \in load.busy
    BY <1>1, <2>1 DEF CallsKept
  <2>3. QED
    BY <1>1, <2>1, <2>2 DEF CallsKept
<1>3. PICK S : S = Selected
  OBVIOUS
<1>4. S \in SUBSET Nat /\ view \in Seq(Nat) /\ view[1] \in Elems(view) /\ Bottom(view) \in Elems(view)
      /\ Elems(view) \subseteq S /\ (\A x \in S : x \in Nat /\ x \in Time)
  BY <1>1, <1>2, <1>3, SelectedIs DEF OfLog
<1>5. view[1] \in Nat /\ Bottom(view) \in S /\ Bottom(view) \in Nat
  BY <1>4
<1>6. PICK cursor \in S : cursor = c.cursor
  BY <1>1, <1>2, <1>3 DEF OfLog
<1>7. PICK more \in Seq(Nat) : more = c.lines /\ Elems(more) \subseteq S
  BY <1>1, <1>3, SelectedIs DEF OfLog
<1>8. PICK page : page = Paging!PageAfter(sel.target, cursor)
  OBVIOUS
<1>9. PICK P \in SUBSET S, p \in Seq(Nat) : NextPage(S, page, cursor, P, p)
  <2>1. cursor \in Selected
    BY <1>3
  <2>2. \E P \in SUBSET Selected, p \in Seq(Nat) :
          NextPage(Selected, Paging!PageAfter(sel.target, cursor), cursor, P, p)
    BY <2>1, PageRead, Zenon
  <2>3. QED
    BY <1>3, <1>8, <2>2
<1> USE DEF NextPage
<1>10. PICK f \in Seq(Nat) : /\ Paging!AppendUnique(more, p) = more \o f /\ Elems(f) = P \ Elems(more)
                             /\ Increasing(f)
  BY <1>7, <1>9, AppendUniqueIs
<1>11. PICK read \in Seq(Nat) : /\ read = Paging!AppendUnique(more, p) /\ Elems(read) = Elems(more) \cup P
                                /\ read = more \o f /\ (P = {} => read = more) /\ Elems(read) \subseteq S
  <2>1. more \o f \in Seq(Nat) /\ Elems(more \o f) = Elems(more) \cup Elems(f) /\ (f = <<>> => more \o f = more)
    BY <1>10, Joined
  <2>2. P = {} => f = <<>>
    <3>1. P = {} => Elems(f) = {}
      BY <1>10
    <3>2. f # <<>> => f[1] \in Elems(f)
      BY <1>10, EndsOf
    <3>3. QED
      BY <3>1, <3>2
  <2>3. QED
    BY <1>7, <1>9, <1>10, <2>1, <2>2
<1>12. PICK cur \in S : cur = IF P = {} THEN cursor ELSE Bottom(p)
  BY <1>6, <1>9
<1>13. cursor \in Nat /\ cur \in Nat /\ (Several \in BOOLEAN)
  <2>1. Several \in BOOLEAN
    BY DEF Several
  <2>2. QED
    BY <1>4, <1>6, <1>12, <2>1
<1>14. ASSUME Calm PROVE /\ RunOf(S, view, Several) /\ Continues(S, view, Several, cur, read)
  <2>1. RunOf(S, view, Several) /\ Continues(S, view, Several, cursor, more)
    BY <1>1, <1>2, <1>3, <1>6, <1>7, <1>14 DEF Whole, Polled
  <2>2. CASE P = {}
    BY <1>11, <1>12, <2>1, <2>2
  <2>3. CASE P # {}
    <3>1. view[1] <= Bottom(view)
      BY <1>4, <2>1 DEF RunOf
    <3>2. p # <<>> /\ Bottom(p) \in Elems(p) /\ cursor <= Bottom(p) /\ Elems(p) \subseteq S
          /\ \A x \in Elems(p) : x <= Bottom(p)
      BY <1>9, <1>14, <2>3
    <3>3. \A x \in S : cursor < x /\ x <= Bottom(p) => x \in Elems(p)
      BY <1>9, <2>3
    <3>4. \A x \in Elems(p) : x > cursor \/ (Several /\ Sec(x) = Sec(cursor))
      BY <1>9, <1>13, Zenon
    <3>5. Several => \A x \in S : x <= Bottom(p) /\ Sec(x) = Sec(Bottom(p)) => x \in Elems(p)
      BY <1>9, <2>3
    <3>6. Elems(f) = Elems(p) \ Elems(more)
      BY <1>9, <1>10
    <3>7. Continues(S, view, Several, Bottom(p), more \o f)
      BY <1>4, <1>5, <1>7, <1>9, <1>10, <1>13, <2>1, <3>1, <3>2, <3>3, <3>4, <3>5, <3>6, PollReads
    <3>8. QED
      BY <1>11, <1>12, <2>1, <2>3, <3>7
  <2>4. QED
    BY <2>2, <2>3
<1>15. PICK ends \in BOOLEAN : ends <=> p = <<>> \/ Bottom(p) = cursor \/ ~page.more
  OBVIOUS
<1>16. /\ IF ends \/ c.pages + 1 = MaxPages
          THEN /\ calls' = calls \ {c} /\ load' = [load EXCEPT !.busy = @ \ {"poll"}]
               /\ view' = Paging!AppendUnique(view, read) /\ error' = ~ends
          ELSE /\ calls' = (calls \ {c}) \cup
                   {[c EXCEPT !.cursor = Bottom(p), !.lines = read, !.pages = c.pages + 1]}
               /\ load' = load /\ view' = view /\ error' = error
       /\ seen' = written /\ log' = log /\ written' = written /\ sel' = sel /\ follow' = follow
       /\ missed' = missed
  <2>1. ends = (page.lines = <<>> \/ Paging!Last(page.lines) = c.cursor \/ ~page.more)
    BY <1>6, <1>9, <1>15, PagingOperators DEF Bottom
  <2>2. /\ LET read0 == Paging!AppendUnique(c.lines, page.lines)
               e == (page.lines = <<>> \/ Paging!Last(page.lines) = c.cursor \/ ~page.more)
           IN  IF e \/ c.pages + 1 = MaxPages
               THEN /\ calls' = calls \ {c} /\ load' = [load EXCEPT !.busy = @ \ {"poll"}]
                    /\ view' = Paging!AppendUnique(view, read0) /\ error' = ~e
               ELSE /\ calls' = (calls \ {c}) \cup
                        {[c EXCEPT !.cursor = Paging!Last(page.lines), !.lines = read0, !.pages = c.pages + 1]}
                    /\ UNCHANGED <<load, view, error>>
        /\ seen' = written /\ UNCHANGED <<log, written, sel, follow, missed>>
    BY <1>2, <1>6, <1>8 DEF Paging!PollPage
  <2>3. Paging!AppendUnique(c.lines, page.lines) = read /\ Paging!Last(page.lines) = Bottom(p)
    BY <1>7, <1>9, <1>11, PagingOperators DEF Bottom
  <2>4. QED
    BY <2>1, <2>2, <2>3
<1>17. load \in LoadType /\ c \in CallType /\ calls \in SUBSET CallType
  BY <1>1 DEF PagingTyped
<1>18. Selected' = S /\ Several' = Several /\ FitsPage' = FitsPage /\ Calm' = Calm /\ Roomy' = Roomy
       /\ Since(sel.target, sel.since)' = Since(sel.target, sel.since)
  BY <1>3, <1>16, SelectedStays
<1>19. written \in 0 .. LastTime /\ written <= written
  BY <1>1 DEF PagingTyped
<1>20. Paging!Following' = Paging!Following /\ (Paging!Following => sel.mode = "end")
  BY <1>16 DEF Paging!Following, Paging!AtEnd
<1>21. CASE ends \/ c.pages + 1 = MaxPages
  <2>1. /\ calls' = calls \ {c} /\ load' = [load EXCEPT !.busy = @ \ {"poll"}]
        /\ view' = Paging!AppendUnique(view, read) /\ error' = ~ends
    BY <1>16, <1>21
  <2>2. /\ load' \in LoadType /\ load'.busy = load.busy \ {"poll"} /\ load'.loading = load.loading
        /\ load'.beforeTs = load.beforeTs /\ load'.afterTs = load.afterTs
        /\ load'.hasBefore = load.hasBefore /\ load'.hasAfter = load.hasAfter
    BY <1>17, <2>1 DEF LoadType
  <2>3. PICK g \in Seq(Nat) : /\ view' = view \o g /\ Elems(g) = Elems(read) \ Elems(view)
                              /\ Increasing(read) => Increasing(g)
    BY <1>4, <2>1, AppendUniqueIs
  <2>4. PICK u : /\ u = view \o g /\ u \in Seq(Nat) /\ Elems(u) = Elems(view) \cup Elems(g) /\ u # <<>>
                 /\ u[1] = view[1]
    <3>1. /\ view \o g \in Seq(Nat) /\ Elems(view \o g) = Elems(view) \cup Elems(g)
          /\ view # <<>> => (view \o g)[1] = view[1] /\ view \o g # <<>>
      BY <1>4, Joined
    <3>2. QED
      BY <1>2, <3>1
  <2>5. view' = u /\ Elems(u) \subseteq S /\ Elems(u) \subseteq Time
    BY <1>4, <1>11, <2>3, <2>4
  <2>6. ASSUME Calm PROVE /\ RunOf(S, u, Several) /\ Bottom(u) = cur
                          /\ Increasing(view) => Increasing(u)
    <3>1. RunOf(S, view, Several) /\ Continues(S, view, Several, cur, read)
      BY <1>14, <2>6
    <3>2. Increasing(read)
      BY <3>1 DEF Continues
    <3>3. Increasing(g) /\ Elems(g) = Elems(read) \ Elems(view) /\ u = view \o g
      BY <2>3, <2>4, <3>2
    <3>4. view # <<>> /\ view[1] \in Elems(view) /\ Bottom(view) \in Elems(view) /\ Elems(view) \subseteq S
          /\ Elems(read) \subseteq S /\ S \in SUBSET Nat /\ view \in Seq(Nat) /\ Several \in BOOLEAN
      BY <1>2, <1>4, <1>11, <1>13
    <3>5. cur \in S /\ read \in Seq(Nat) /\ g \in Seq(Nat)
      BY <1>11, <1>12, <2>3
    <3>6. Continued(S, view, Several, cur, read, g)
      BY <3>1, <3>3, <3>4, <3>5 DEF Continued
    <3>7. /\ RunOf(S, view \o g, Several) /\ Bottom(view \o g) = cur
          /\ Increasing(view) => Increasing(view \o g)
      BY <3>6, PollShown
    <3>8. QED
      BY <3>3, <3>7
  <2>7. PagingTyped'
    <3>1. u \in Seq(Time)
      BY <2>4, <2>5, SeqOfElems
    <3>2. error' \in BOOLEAN /\ calls' \in SUBSET CallType
      BY <1>17, <2>1
    <3>3. QED
      BY <1>1, <1>16, <1>19, <2>2, <2>5, <3>1, <3>2 DEF PagingTyped
  <2>8. CallsKept'
    BY <1>1, <1>2, <1>16, <2>1, <2>2, <2>4, <2>5, CallEnds
  <2>9. OfLog'
    BY <1>1, <1>2, <1>3, <1>16, <1>18, <2>1, <2>5 DEF OfLog
  <2>10. Whole'
    BY <1>18, <2>5, <2>6 DEF Whole
  <2>11. Polled'
    <3>1. \A d \in calls' : d.kind # "poll"
      BY <1>1, <1>2, <2>1 DEF CallsKept
    <3>2. QED
      BY <3>1 DEF Polled
  <2>12. Ordered'
    BY <1>1, <1>16, <1>18, <2>2, <2>5, <2>6 DEF Ordered, Calm
  <2>13. TopKnown'
    <3>1. "before" \in load'.busy <=> "before" \in load.busy
      BY <2>2
    <3>2. QED
      BY <1>1, <1>2, <1>3, <1>16, <1>18, <2>2, <2>4, <2>5, <3>1 DEF TopKnown
  <2>14. BottomKnown'
    <3>1. ASSUME Several, FitsPage, Roomy, ends, NEW x \in S PROVE x <= cur
      <4>1. x \in Nat /\ Calm
        BY <1>4, <3>1 DEF Calm
      <4>2. x <= cursor => x <= cur
        <5>1. cursor <= cur
          BY <1>9, <1>12, <1>13, <4>1
        <5>2. QED
          BY <1>13, <4>1, <5>1
      <4>3. ASSUME x > cursor PROVE x <= cur
        <5>1. CASE P = {} \/ ~page.more
          <6>1. x \in P
            BY <1>9, <3>1, <4>3, <5>1
          <6>2. QED
            BY <1>9, <1>12, <6>1
        <5>2. CASE P # {} /\ Bottom(p) = cursor
          <6>1. PICK y \in P : y > cursor
            BY <1>9, <3>1, <4>3
          <6>2. y <= cursor /\ y \in Nat
            BY <1>4, <1>9, <5>2, <6>1
          <6>3. QED
            BY <1>13, <6>1, <6>2
        <5>3. QED
          BY <1>9, <1>15, <3>1, <5>1, <5>2
      <4>4. QED
        BY <1>13, <4>1, <4>2, <4>3
    <3>2. FitsPage => Calm
      BY DEF Calm
    <3>3. sel'.mode # "start"
      BY <1>2, <1>16, <1>20
    <3>4. error' = FALSE => ends
      BY <2>1
    <3>5. QED
      BY <1>18, <2>1, <2>5, <2>6, <3>1, <3>2, <3>3 DEF BottomKnown
  <2>15. QED
    BY <2>7, <2>8, <2>9, <2>10, <2>11, <2>12, <2>13, <2>14 DEF PagingInv
<1>22. CASE ~(ends \/ c.pages + 1 = MaxPages)
  <2>1. P # {} /\ cur = Bottom(p)
    BY <1>9, <1>12, <1>15, <1>22
  <2>2. PICK d : d = [c EXCEPT !.cursor = cur, !.lines = read, !.pages = c.pages + 1]
    OBVIOUS
  <2>3. calls' = (calls \ {c}) \cup {d} /\ load' = load /\ view' = view /\ error' = error
    BY <1>16, <1>22, <2>1, <2>2
  <2>4. d \in CallType /\ d.kind = "poll" /\ d.sel = sel /\ d.cursor = cur /\ d.lines = read
    <3>1. c.pages + 1 \in 0 .. (MaxPages - 1)
      <4>1. c.pages \in 0 .. (MaxPages - 1) /\ MaxPages \in Nat
        BY <1>17, PagingConstants DEF CallType
      <4>2. QED
        BY <1>22, <4>1
    <3>2. cur \in 0 .. LastTime
      BY <1>4, <1>12, PagingConstants DEF Time
    <3>3. read \in Seq(Time)
      <4>1. Elems(read) \subseteq Time
        BY <1>4, <1>11
      <4>2. QED
        BY <1>11, <4>1, SeqOfElems
    <3>4. QED
      BY <1>2, <1>17, <2>2, <3>1, <3>2, <3>3 DEF CallType
  <2>5. PagingTyped'
    <3>1. calls' \in SUBSET CallType
      BY <1>17, <2>3, <2>4
    <3>2. QED
      BY <1>1, <1>16, <1>19, <2>3, <3>1 DEF PagingTyped
  <2>6. \A e \in calls' : e = d \/ (e \in calls /\ e.kind # "poll")
    BY <1>1, <1>2, <2>3 DEF CallsKept
  <2>7. CallsKept'
    <3>1. \A e \in calls' : e.sel = sel /\ e.kind # "fetch"
      BY <1>1, <1>2, <2>4, <2>6 DEF CallsKept
    <3>2. \A e, h \in calls' : e.kind = h.kind => e = h
      BY <1>1, <2>4, <2>6 DEF CallsKept
    <3>3. \A k \in {"before", "after", "poll"} : k \in load.busy <=> \E e \in calls' : e.kind = k
      <4>1. ASSUME NEW k \in {"before", "after", "poll"} PROVE k \in load.busy <=> \E e \in calls' : e.kind = k
        <5>1. CASE k = "poll"
          BY <1>2, <2>3, <2>4, <5>1
        <5>2. CASE k # "poll"
          BY <1>1, <1>2, <2>3, <2>4, <5>2 DEF CallsKept
        <5>3. QED
          BY <5>1, <5>2
      <4>2. QED
        BY <4>1
    <3>4. \A e \in calls' : e.kind = "before" => e.cursor = view[1] /\ load.beforeTs = view[1]
      BY <1>1, <2>4, <2>6 DEF CallsKept
    <3>5. \A e \in calls' : e.kind = "after" => e.cursor = Bottom(view)
      BY <1>1, <2>4, <2>6 DEF CallsKept
    <3>6. QED
      BY <1>1, <1>2, <1>16, <1>20, <2>3, <3>1, <3>2, <3>3, <3>4, <3>5 DEF CallsKept
  <2>8. OfLog'
    BY <1>1, <1>2, <1>3, <1>11, <1>12, <1>16, <1>18, <2>3, <2>4, <2>6 DEF OfLog
  <2>9. Whole' /\ Ordered' /\ TopKnown'
    BY <1>1, <1>3, <1>16, <1>18, <2>3 DEF Whole, Ordered, TopKnown
  <2>10. Polled'
    BY <1>14, <1>18, <2>3, <2>4, <2>6 DEF Polled
  <2>11. BottomKnown'
    BY <1>2, <1>16, <1>20, <2>3 DEF BottomKnown
  <2>12. QED
    BY <2>5, <2>7, <2>8, <2>9, <2>10, <2>11 DEF PagingInv
<1>23. QED
  BY <1>21, <1>22

LEMMA PagingNextInv ==
  ASSUME Orderly, PagingInv, Paging!Next \/ UNCHANGED pagingVars
  PROVE  PagingInv'
<1>1. CASE UNCHANGED pagingVars
  <2>1. /\ log' = log /\ written' = written /\ sel' = sel /\ follow' = follow /\ view' = view
        /\ load' = load /\ error' = error /\ calls' = calls /\ seen' = seen /\ missed' = missed
    BY <1>1 DEF pagingVars
  <2>2. /\ Selected' = Selected /\ Several' = Several /\ FitsPage' = FitsPage /\ Calm' = Calm /\ Roomy' = Roomy
        /\ Since(sel.target, sel.since)' = Since(sel.target, sel.since)
    BY <2>1, SelectedStays
  <2>3. Paging!Following' = Paging!Following
    BY <2>1 DEF Paging!Following, Paging!AtEnd
  <2>4. PagingTyped' /\ CallsKept' /\ Whole'
    BY <2>1, <2>2, <2>3 DEF PagingInv, PagingTyped, CallsKept, Whole
  <2>5. OfLog' /\ Polled' /\ Ordered'
    BY <2>1, <2>2 DEF PagingInv, OfLog, Polled, Ordered
  <2>6. TopKnown' /\ BottomKnown'
    BY <2>1, <2>2, <2>3 DEF PagingInv, TopKnown, BottomKnown
  <2>7. QED
    BY <2>4, <2>5, <2>6 DEF PagingInv
<1>2. CASE \/ Paging!JumpToStart \/ Paging!JumpToEnd \/ \E t \in LogTargets : Paging!SelectTarget(t)
           \/ \E since \in 1 .. LastTime : since % Second = 0 /\ Paging!ApplyTime(since)
  BY <1>2, PagingChoice
<1>3. CASE \/ Paging!Write \/ Paging!ToggleFollow \/ Paging!Refresh \/ Paging!LoadOlder
           \/ Paging!LoadNewer \/ Paging!LeaveBottom \/ Paging!PollNewer
  BY <1>3, PagingWrite, PagingToggle, PagingRefresh, PagingLoadOlder, PagingLoadNewer, PagingLeaveBottom,
     PagingPollNewer
<1>4. ASSUME NEW c \in calls,
             \/ Paging!Fetched(c) \/ Paging!FetchFails(c) \/ Paging!OlderArrives(c)
             \/ Paging!NewerArrives(c) \/ Paging!ChunkFails(c) \/ Paging!PollPage(c) \/ Paging!PollFails(c)
      PROVE  PagingInv'
  BY <1>4, PagingFetched, PagingFetchFails, PagingOlderArrives, PagingNewerArrives, PagingChunkFails,
     PagingPollPage, PagingPollFails
<1>5. QED
  BY <1>1, <1>2, <1>3, <1>4 DEF Paging!Next

(* What the seconds hold, in the words of LogPaging. *)
LEMMA SecondsHold ==
  ASSUME PagingTyped
  PROVE  (Paging!NoBurst => FitsPage) /\ (Paging!NoFullPage => Roomy /\ FitsPage)
<1>1. \A x : Paging!InSecond(x) = OfSecond(sel.target, x)
  BY DEF Paging!InSecond, OfSecond, Sec
<1>2. \A x \in Time : Cardinality(OfSecond(sel.target, x)) \in Nat
  BY SelectedIs, LinesAre, FS_CardinalityType
<1>3. PageSize \in Nat
  BY PagingConstants
<1>4. \A S : Paging!Cardinality(S) = Cardinality(S)
  BY PagingOperators
<1>5. \A x \in Time : Paging!NoBurst => Cardinality(OfSecond(sel.target, x)) <= PageSize
  BY <1>1, <1>4 DEF Paging!NoBurst, Time
<1>6. \A x \in Time : Paging!NoFullPage => Cardinality(OfSecond(sel.target, x)) < PageSize
  BY <1>1, <1>4 DEF Paging!NoFullPage, Time
<1>7. Paging!NoBurst => FitsPage
  BY <1>2, <1>3, <1>5 DEF FitsPage, Bursts
<1>8. Paging!NoFullPage => FitsPage /\ Roomy
  BY <1>2, <1>3, <1>6 DEF FitsPage, Bursts, Roomy, Full
<1>9. QED
  BY <1>7, <1>8

LEMMA PagingInvSound ==
  ASSUME Orderly, PagingInv
  PROVE  Paging!PagesSound /\ Paging!TypeOK
<1>1. /\ PagingTyped /\ CallsKept /\ OfLog /\ Whole /\ Ordered /\ TopKnown /\ BottomKnown
  BY DEF PagingInv
<1>2. (Paging!NoBurst => FitsPage) /\ (Paging!NoFullPage => Roomy /\ FitsPage)
  BY <1>1, SecondsHold
<1>3. /\ Selected = Paging!Lines(sel.target) /\ (Several <=> sel.target \in Merged)
      /\ Paging!ToSet(view) = Elems(view) /\ Paging!Last(view) = Bottom(view)
  BY PagingOperators DEF Selected, Several, Bottom
<1>4. view \in Seq(Nat) /\ Selected \in SUBSET Nat /\ Selected \in SUBSET Time
      /\ (view # <<>> => view[1] \in Elems(view) /\ Bottom(view) \in Elems(view))
  BY <1>1, SelectedIs
<1>5. Elems(view) \subseteq Selected
  BY <1>1 DEF OfLog
<1>6. Paging!NoGap
  <2>1. ASSUME view # <<>>, Paging!NoBurst \/ sel.target \notin Merged, NEW x \in Selected,
               NEW y \in Elems(view), NEW z \in Elems(view), y <= x, x <= z
        PROVE  x \in Elems(view)
    <3>1. RunOf(Selected, view, Several)
      BY <1>1, <1>2, <1>3, <2>1 DEF Whole, Calm
    <3>2. x \in Nat /\ y \in Nat /\ z \in Nat /\ view[1] \in Nat /\ Bottom(view) \in Nat
      BY <1>4, <1>5, <2>1
    <3>3. view[1] <= y /\ z <= Bottom(view)
      BY <3>1 DEF RunOf
    <3>4. view[1] <= x /\ x <= Bottom(view)
      BY <2>1, <3>2, <3>3
    <3>5. QED
      BY <3>1, <3>4 DEF RunOf
  <2>2. ASSUME missed = {}, (load.afterTs = 0 /\ Paging!NoBurst) \/ sel.target \notin Merged, ~load.loading,
               NEW i \in 1 .. Len(view) - 1
        PROVE  view[i] < view[i + 1]
    <3>1. Increasing(view)
      BY <1>1, <1>2, <1>3, <2>2 DEF Ordered
    <3>2. PICK n \in Nat : n = Len(view) /\ DOMAIN view = 1 .. n
      BY <1>4
    <3>3. i \in 1 .. n /\ i + 1 \in 1 .. n /\ i < i + 1
      BY <2>2, <3>2
    <3>4. QED
      BY <3>1, <3>2, <3>3 DEF Increasing
  <2>3. view # <<>> /\ (Paging!NoBurst \/ sel.target \notin Merged) =>
          \A x \in Paging!Lines(sel.target) :
            (\E y, z \in Paging!ToSet(view) : y <= x /\ x <= z) => x \in Paging!ToSet(view)
    BY <1>3, <2>1
  <2>4. load.loading \in BOOLEAN
    BY <1>1 DEF PagingTyped, LoadType
  <2>5. Orderly /\ missed = {} /\ ((load.afterTs = 0 /\ Paging!NoBurst) \/ sel.target \notin Merged) =>
          \A i \in 1 .. Len(view) - 1 : load.loading \/ view[i] < view[i + 1]
    BY <2>2, <2>4
  <2>6. QED
    BY <2>3, <2>5 DEF Paging!NoGap
<1>7. Paging!PollsAdvance
  <2>1. ASSUME IF sel.target \in Merged THEN Paging!NoFullPage ELSE Paging!NoBurst, view # <<>>,
               NEW y \in Selected, y > Bottom(view)
        PROVE  \E x \in Paging!ToSet(Paging!PageAfter(sel.target, Bottom(view)).lines) : x > Bottom(view)
    <3>1. PICK c \in Time : c = Bottom(view)
      BY <1>4, <1>5, <2>1
    <3>2. PICK t \in LogTargets : t = sel.target
      BY <1>1, SelectedIs
    <3>3. log \in Logs
      BY <1>1 DEF PagingTyped
    <3>4. PICK P \in SUBSET Paging!Lines(t) :
            /\ Paging!PageAfter(t, c).lines = InOrder(P)
            /\ (t \notin Merged /\ ~Bursts(t)) \/ ~Full(t) =>
                  ((\E u \in Paging!Lines(t) : u > c) => \E x \in P : x > c)
      BY <3>3, PageAfterIs
    <3>5. (t \notin Merged /\ ~Bursts(t)) \/ ~Full(t)
      BY <1>2, <2>1, <3>2 DEF FitsPage, Roomy
    <3>6. \E u \in Paging!Lines(t) : u > c
      BY <1>3, <2>1, <3>1, <3>2
    <3>7. Elems(InOrder(P)) = P
      BY <1>1, <1>3, <3>2, <3>4, PageSeq
    <3>8. PICK x \in P : x > c
      BY <3>4, <3>5, <3>6
    <3>9. Paging!ToSet(Paging!PageAfter(t, c).lines) = P
      BY <3>4, <3>7, PagingOperators
    <3>10. QED
      BY <3>1, <3>2, <3>8, <3>9
  <2>2. QED
    BY <1>3, <2>1 DEF Paging!PollsAdvance
<1>8. Paging!EndsKnown
  <2>1. load.loading \in BOOLEAN /\ load.hasBefore \in BOOLEAN /\ load.hasAfter \in BOOLEAN /\ load.beforeTs \in Nat
    <3>1. 0 .. LastTime \subseteq Nat
      BY PagingConstants
    <3>2. QED
      BY <1>1, <3>1 DEF PagingTyped, LoadType
  <2>2. ~load.hasBefore /\ view # <<>> /\ missed = {} /\ ~load.loading =>
          \A x \in Paging!Lines(sel.target) : view[1] <= x
    BY <1>1, <1>3 DEF TopKnown
  <2>3. load.hasBefore /\ view # <<>> /\ ~load.loading /\ "before" \notin load.busy => view[1] # load.beforeTs
    <3>1. view # <<>> => view[1] \in Nat /\ view[1] # 0
      BY <1>4, <1>5 DEF Time
    <3>2. QED
      BY <1>1, <2>1, <3>1 DEF TopKnown
  <2>4. ASSUME sel.target \in Merged, Paging!NoBurst, view # <<>>, missed = {}, ~error, ~load.loading,
               \/ sel.mode = "start" /\ ~load.hasAfter
               \/ Paging!Following /\ "poll" \notin load.busy /\ Paging!NoFullPage
        PROVE  \A x \in Paging!Lines(sel.target) : x <= seen => x <= Paging!Last(view)
    <3>1. Several /\ FitsPage
      BY <1>2, <1>3, <2>4
    <3>2. \A x \in Selected : x <= seen => x <= Bottom(view)
      BY <1>1, <1>2, <2>4, <3>1 DEF BottomKnown
    <3>3. QED
      BY <1>3, <3>2
  <2>5. QED
    BY <2>2, <2>3, <2>4 DEF Paging!EndsKnown
<1>9. Paging!TypeOK
  <2>1. \A c \in calls : /\ c.kind \in {"fetch", "before", "after", "poll"} /\ c.sel \in Paging!Selection
                         /\ c.lines \in Seq(Time) /\ c.pages \in 0 .. MaxPages - 1
    BY <1>1 DEF PagingTyped, CallType
  <2>2. log \in Logs /\ {written, seen} \subseteq 0 .. LastTime /\ sel \in Paging!Selection
        /\ {follow, error} \subseteq BOOLEAN /\ view \in Seq(Time) /\ missed \subseteq {"before", "after"}
    BY <1>1 DEF PagingTyped
  <2>3. load \in [loading : BOOLEAN, hasBefore : BOOLEAN, hasAfter : BOOLEAN,
               beforeTs : 0 .. LastTime, afterTs : 0 .. LastTime,
               busy : SUBSET {"before", "after", "poll"}]
    BY <1>1 DEF PagingTyped, LoadType
  <2>4. QED
    BY <2>1, <2>2, <2>3 DEF Paging!TypeOK, Time
<1>10. QED
  BY <1>6, <1>7, <1>8, <1>9 DEF Paging!PagesSound
=============================================================================
