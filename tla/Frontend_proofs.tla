--------------------------- MODULE Frontend_proofs ---------------------------
(***************************************************************************)
(* Proofs about parts of the frontend: the polling budget, for any number  *)
(* of polls and of slots; the views with fetches of their own, for any     *)
(* fetches and targets; the connection monitor, for any watches, any       *)
(* window and any threshold; the chat of the assistant, for any sessions   *)
(* and requests and any length of an answer; and all parts together, with  *)
(* what Lines_proofs says of the log viewer.  FrontendInvariants has the   *)
(* invariants.                                                             *)
(***************************************************************************)
EXTENDS Lines_proofs, FiniteSetTheorems, TLAPS

(* Any set of polls is finite. *)
LEMMA FinitePolls ==
  ASSUME NEW S \in SUBSET Polls
  PROVE  IsFiniteSet(S) /\ Cardinality(S) \in Nat
BY PollingAssumption, FS_Subset, FS_CardinalityType

(* Disjoint sets of polls add up. *)
LEMMA Adds ==
  ASSUME NEW S \in SUBSET Polls, NEW T \in SUBSET Polls, S \cap T = {}
  PROVE  Cardinality(S \cup T) = Cardinality(S) + Cardinality(T)
<1>1. IsFiniteSet(S) /\ IsFiniteSet(T)
  BY FinitePolls
<1>2. Cardinality(S \cap T) = 0
  BY FS_EmptySet
<1>3. Cardinality(S \cup T) = Cardinality(S) + Cardinality(T) - Cardinality(S \cap T)
  BY <1>1, FS_Union
<1>4. Cardinality(S) \in Nat /\ Cardinality(T) \in Nat
  BY FinitePolls
<1>5. QED
  BY <1>2, <1>3, <1>4

(* One poll more, one poll less. *)
LEMMA AddOne ==
  ASSUME NEW S \in SUBSET Polls, NEW p \in Polls, p \notin S
  PROVE  Cardinality(S \cup {p}) = Cardinality(S) + 1
BY FinitePolls, FS_AddElement

LEMMA RemoveOne ==
  ASSUME NEW S \in SUBSET Polls, NEW p \in S
  PROVE  Cardinality(S \ {p}) = Cardinality(S) - 1
BY FinitePolls, FS_RemoveElement

(* A sequence of a set of polls holds each of them once. *)
LEMMA LineOf ==
  ASSUME NEW S \in SUBSET Polls, NEW line \in SetToSeqs(S)
  PROVE  line \in Seq(Polls) /\ ToSet(line) = S /\ IsInjective(line)
<1> DEFINE n == Cardinality(S)
<1>1. IsFiniteSet(S) /\ n \in Nat
  BY FinitePolls
<1>2. line \in [1..n -> S] /\ \A i, j \in 1..n : i # j => line[i] # line[j]
  BY DEF SetToSeqs
<1>3. line \in Injection(1..n, S)
  BY <1>2 DEF Injection, IsInjective
<1>4. Cardinality(1..n) = n
  BY <1>1, FS_Interval
<1>5. line \in Surjection(1..n, S)
  BY <1>1, <1>3, <1>4, FS_Injection
<1>6. \A p \in S : \E i \in 1..n : line[i] = p
  BY <1>5 DEF Surjection
<1>7. line \in Seq(Polls) /\ DOMAIN line = 1..n
  BY <1>1, <1>2
<1>8. ToSet(line) = S
  BY <1>2, <1>6, <1>7 DEF ToSet
<1>9. QED
  BY <1>3, <1>7, <1>8 DEF Injection

(* Appending to the queue a line of polls that are not in it. *)
LEMMA Joins ==
  ASSUME NEW s \in Seq(Polls), NEW t \in Seq(Polls), IsInjective(s), IsInjective(t),
         ToSet(s) \cap ToSet(t) = {}
  PROVE  /\ s \o t \in Seq(Polls) /\ IsInjective(s \o t)
         /\ ToSet(s \o t) = ToSet(s) \cup ToSet(t)
<1> DEFINE u == s \o t
<1>1. /\ u \in Seq(Polls) /\ Len(u) = Len(s) + Len(t)
      /\ \A i \in 1..Len(s) : u[i] = s[i]
      /\ \A i \in 1..Len(t) : u[i + Len(s)] = t[i]
  OBVIOUS
<1>2. \A i \in DOMAIN u : i \notin 1..Len(s) => /\ i - Len(s) \in DOMAIN t /\ u[i] = t[i - Len(s)]
  BY <1>1
<1>3. \A i \in DOMAIN u : IF i \in 1..Len(s) THEN u[i] \in ToSet(s) ELSE u[i] \in ToSet(t)
  BY <1>1, <1>2 DEF ToSet
<1>4. ToSet(u) = ToSet(s) \cup ToSet(t)
  <2>1. ToSet(u) \subseteq ToSet(s) \cup ToSet(t)
    BY <1>3 DEF ToSet
  <2>2. ToSet(s) \subseteq ToSet(u)
    BY <1>1 DEF ToSet
  <2>3. ToSet(t) \subseteq ToSet(u)
    <3> SUFFICES ASSUME NEW i \in 1..Len(t) PROVE t[i] \in ToSet(u)
      BY DEF ToSet
    <3>1. i + Len(s) \in DOMAIN u /\ u[i + Len(s)] = t[i]
      BY <1>1
    <3>2. QED
      BY <3>1 DEF ToSet
  <2>4. QED
    BY <2>1, <2>2, <2>3
<1>5. IsInjective(u)
  <2> SUFFICES ASSUME NEW i \in DOMAIN u, NEW j \in DOMAIN u, u[i] = u[j] PROVE i = j
    BY DEF IsInjective
  <2>1. CASE i \in 1..Len(s) /\ j \in 1..Len(s)
    BY <2>1, <1>1 DEF IsInjective
  <2>2. CASE i \notin 1..Len(s) /\ j \notin 1..Len(s)
    <3>1. i - Len(s) = j - Len(s)
      BY <2>2, <1>2 DEF IsInjective
    <3>2. QED
      BY <3>1, <1>1
  <2>3. CASE (i \in 1..Len(s)) # (j \in 1..Len(s))
    BY <2>3, <1>3
  <2>4. QED
    BY <2>1, <2>2, <2>3
<1>6. QED
  BY <1>1, <1>4, <1>5

(* Taking the first of the queue leaves the others. *)
LEMMA Leaves ==
  ASSUME NEW s \in Seq(Polls), IsInjective(s), s # <<>>
  PROVE  /\ Head(s) \in ToSet(s) /\ Tail(s) \in Seq(Polls) /\ IsInjective(Tail(s))
         /\ ToSet(Tail(s)) = ToSet(s) \ {Head(s)}
<1> DEFINE t == Tail(s)
<1>1. /\ t \in Seq(Polls) /\ Len(t) = Len(s) - 1 /\ Head(s) = s[1] /\ 1 \in DOMAIN s
      /\ \A i \in 1..Len(t) : t[i] = s[i + 1]
  OBVIOUS
<1>2. \A i \in DOMAIN t : i + 1 \in DOMAIN s /\ i + 1 # 1 /\ t[i] = s[i + 1]
  BY <1>1
<1>3. IsInjective(t)
  <2> SUFFICES ASSUME NEW i \in DOMAIN t, NEW j \in DOMAIN t, t[i] = t[j] PROVE i = j
    BY DEF IsInjective
  <2>1. i + 1 = j + 1
    BY <1>2 DEF IsInjective
  <2>2. QED
    BY <2>1, <1>1
<1>4. ToSet(t) \subseteq ToSet(s) \ {Head(s)}
  BY <1>1, <1>2 DEF ToSet, IsInjective
<1>5. ToSet(s) \ {Head(s)} \subseteq ToSet(t)
  <2> SUFFICES ASSUME NEW i \in DOMAIN s, s[i] # s[1] PROVE s[i] \in ToSet(t)
    BY <1>1 DEF ToSet
  <2>1. i - 1 \in DOMAIN t /\ t[i - 1] = s[i]
    BY <1>1
  <2>2. QED
    BY <2>1 DEF ToSet
<1>6. QED
  BY <1>1, <1>3, <1>4, <1>5 DEF ToSet

-----------------------------------------------------------------------------
LEMMA InitInv == Init => Inv
<1> SUFFICES ASSUME Init PROVE Inv
  OBVIOUS
<1>1. In("running") = {} /\ In("waiting") = {} /\ In("woken") = {} /\ ToSet(waiting) = {}
  BY DEF Init, In, ToSet
<1>2. TypeOK
  BY DEF Init, TypeOK
<1>3. SlotsExact
  BY <1>1, FS_EmptySet DEF Init, SlotsExact
<1>4. BudgetKept
  <2>1. In("running") \cup In("woken") = {}
    BY <1>1
  <2>2. QED
    BY <2>1, FS_EmptySet, PollingAssumption DEF BudgetKept
<1>5. NoLostWakeup
  BY DEF Init, NoLostWakeup
<1>6. QueueExact
  <2>1. DOMAIN waiting = {}
    BY DEF Init
  <2>2. QED
    BY <1>1, <2>1 DEF QueueExact, IsInjective
<1>7. QED
  BY <1>2, <1>3, <1>4, <1>5, <1>6 DEF Inv, BudgetExact

(* A step that moves no poll into, out of or within the budget.             *)
LEMMA OutsideInv ==
  ASSUME Inv, TypeOK', UNCHANGED <<racy, waiting, active>>,
         \A place \in {"running", "woken", "waiting"} : In(place)' = In(place)
  PROVE  Inv'
BY DEF Inv, BudgetExact, SlotsExact, NoLostWakeup, QueueExact, BudgetKept

(* Several polls ask for slots: as many as there are free slots run, and if *)
(* one has to wait, no slot is left.                                        *)
LEMMA AcquireInv ==
  ASSUME Inv, Turn, NEW polls \in SUBSET In("idle"), Acquire(polls), TypeOK', racy' = racy
  PROVE  Inv'
<1>1. PICK now \in SUBSET polls :
        /\ Cardinality(now) = Fits(Cardinality(polls))
        /\ \E line \in SetToSeqs(polls \ now) : waiting' = waiting \o line
        /\ active' = active + Cardinality(now)
        /\ at' = [p \in Polls |-> IF p \in now THEN "running"
                                  ELSE IF p \in polls THEN "waiting" ELSE at[p]]
  BY DEF Acquire
<1>2. PICK line \in SetToSeqs(polls \ now) : waiting' = waiting \o line
  BY <1>1
<1>3. /\ polls \subseteq Polls /\ now \subseteq Polls
      /\ In("running") \subseteq Polls /\ In("woken") \subseteq Polls /\ In("waiting") \subseteq Polls
      /\ In("running") \cap now = {} /\ In("waiting") \cap polls = {}
  BY DEF In
<1>4. /\ In("running")' = In("running") \cup now /\ In("woken")' = In("woken")
      /\ In("waiting")' = In("waiting") \cup (polls \ now)
  BY <1>1, <1>3 DEF In
<1>5. Cardinality(In("running")') = Cardinality(In("running")) + Cardinality(now)
  BY <1>3, <1>4, Adds
<1>6. /\ Cardinality(now) \in Nat /\ Cardinality(polls) \in Nat /\ active \in Int
      /\ Slots \in Nat \ {0} /\ Cardinality(In("woken")) \in Nat
      /\ Cardinality(In("running")) \in Nat /\ active = Cardinality(In("running"))
  BY <1>3, FinitePolls, PollingAssumption DEF Inv, BudgetExact, SlotsExact, TypeOK
<1>7. line \in Seq(Polls) /\ ToSet(line) = polls \ now /\ IsInjective(line)
  BY <1>3, LineOf
<1>8. SlotsExact'
  BY <1>1, <1>5, <1>6 DEF SlotsExact
<1>9. QueueExact'
  <2>1. waiting \in Seq(Polls) /\ IsInjective(waiting) /\ ToSet(waiting) = In("waiting")
    BY DEF Inv, TypeOK, BudgetExact, QueueExact
  <2>2. ToSet(waiting) \cap ToSet(line) = {}
    BY <2>1, <1>3, <1>7
  <2>3. QED
    BY <1>2, <1>4, <1>7, <2>1, <2>2, Joins DEF QueueExact
<1>10. NoLostWakeup'
  <2>1. CASE now = polls
    <3>1. line = <<>> /\ waiting' = waiting
      <4>1. line = <<>>
        BY <2>1, <1>7 DEF ToSet
      <4>2. QED
        BY <4>1, <1>2 DEF Inv, TypeOK
    <3>2. QED
      BY <3>1, <1>1, <1>4, <1>6 DEF Inv, BudgetExact, NoLostWakeup
  <2>2. CASE now # polls
    <3>1. Cardinality(now) # Cardinality(polls)
      BY <2>2, <1>3, FinitePolls, FS_Subset
    <3>2. active' >= Slots
      BY <3>1, <1>1, <1>6 DEF Fits
    <3>3. QED
      BY <3>2, <1>4, <1>6, <1>1 DEF NoLostWakeup
  <2>3. QED
    BY <2>1, <2>2
<1>11. BudgetKept'
  <2> SUFFICES ASSUME ~racy PROVE Cardinality(In("running") \cup In("woken"))' <= Slots
    BY DEF BudgetKept
  <2>1. In("woken") = {}
    BY DEF Turn
  <2>2. (In("running") \cup In("woken"))' = In("running")' /\ In("running") \cup In("woken") = In("running")
    BY <2>1, <1>4
  <2>3. Cardinality(In("running")) <= Slots
    BY <2>2 DEF Inv, BudgetExact, BudgetKept
  <2>4. active + Cardinality(now) <= Slots
    BY <2>3, <1>1, <1>6 DEF Fits
  <2>5. QED
    BY <2>2, <2>4, <1>5, <1>6
<1>12. QED
  BY <1>8, <1>9, <1>10, <1>11 DEF Inv, BudgetExact

(* A woken poll takes the slot it was promised. *)
LEMMA ContinueInv == ASSUME Inv, NEW p \in Polls, Continue(p), TypeOK' PROVE Inv'
<1>1. /\ at[p] = "woken" /\ at' = [at EXCEPT ![p] = "running"] /\ active' = active + 1
      /\ UNCHANGED <<racy, waiting>>
  BY DEF Continue
<1>2. /\ p \in In("woken") /\ p \notin In("running")
      /\ In("running")' = In("running") \cup {p} /\ In("woken")' = In("woken") \ {p}
      /\ In("waiting")' = In("waiting")
      /\ In("running") \subseteq Polls /\ In("woken") \subseteq Polls
  BY <1>1 DEF In, Inv, TypeOK
<1>3. /\ Cardinality(In("running")') = Cardinality(In("running")) + 1
      /\ Cardinality(In("woken")') = Cardinality(In("woken")) - 1
      /\ (In("running") \cup In("woken"))' = In("running") \cup In("woken")
  <2>1. Cardinality(In("running") \cup {p}) = Cardinality(In("running")) + 1
    BY <1>2, AddOne
  <2>2. Cardinality(In("woken") \ {p}) = Cardinality(In("woken")) - 1
    BY <1>2, RemoveOne
  <2>3. QED
    BY <1>2, <2>1, <2>2
<1>4. active \in Int /\ Cardinality(In("woken")) \in Nat /\ Slots \in Nat
  BY <1>2, FinitePolls, PollingAssumption DEF Inv, TypeOK
<1>5. SlotsExact'
  BY <1>1, <1>3 DEF Inv, BudgetExact, SlotsExact
<1>6. NoLostWakeup'
  <2>1. active' + Cardinality(In("woken")') = active + Cardinality(In("woken"))
    BY <1>1, <1>3, <1>4
  <2>2. QED
    BY <2>1, <1>1 DEF Inv, BudgetExact, NoLostWakeup
<1>7. QueueExact'
  BY <1>1, <1>2 DEF Inv, BudgetExact, QueueExact
<1>8. BudgetKept'
  BY <1>1, <1>3 DEF Inv, BudgetExact, BudgetKept
<1>9. QED
  BY <1>5, <1>6, <1>7, <1>8 DEF Inv, BudgetExact

(* A poll that ends gives its slot to the first that waits. *)
LEMMA SettleInv == ASSUME Inv, NEW p \in Polls, Settle(p), TypeOK' PROVE Inv'
<1>1. /\ at[p] = "running" /\ active' = active - 1 /\ racy' = racy
      /\ IF waiting = <<>> THEN at' = [at EXCEPT ![p] = Settled(p)] /\ UNCHANGED waiting
         ELSE /\ at' = [at EXCEPT ![p] = Settled(p), ![Head(waiting)] = "woken"]
              /\ waiting' = Tail(waiting)
  BY DEF Settle
<1>2. /\ p \in In("running") /\ Settled(p) \in {"gone", "idle"}
      /\ at \in [Polls -> {"gone", "idle", "waiting", "woken", "running"}]
      /\ In("running") \subseteq Polls /\ In("woken") \subseteq Polls /\ In("waiting") \subseteq Polls
      /\ active \in Int /\ Slots \in Nat
  <2>1. Settled(p) \in {"gone", "idle"}
    BY DEF Settled
  <2>2. QED
    BY <1>1, <2>1, PollingAssumption DEF In, Inv, TypeOK
<1>3. Cardinality(In("running") \ {p}) = Cardinality(In("running")) - 1
  BY <1>2, RemoveOne
<1>4. Cardinality(In("running")) \in Nat /\ Cardinality(In("woken")) \in Nat
  BY <1>2, FinitePolls
<1>5. CASE waiting = <<>>
  <2>1. /\ In("running")' = In("running") \ {p} /\ In("woken")' = In("woken")
        /\ In("waiting")' = In("waiting") /\ waiting' = waiting
    BY <1>1, <1>2, <1>5 DEF In
  <2>2. SlotsExact'
    BY <1>1, <1>3, <2>1 DEF Inv, BudgetExact, SlotsExact
  <2>3. NoLostWakeup' /\ QueueExact'
    BY <1>5, <2>1 DEF Inv, BudgetExact, NoLostWakeup, QueueExact
  <2>4. BudgetKept'
    <3>1. (In("running") \cup In("woken"))' \subseteq In("running") \cup In("woken")
      BY <2>1
    <3>2. Cardinality((In("running") \cup In("woken"))') <= Cardinality(In("running") \cup In("woken"))
      BY <3>1, <1>2, FinitePolls, FS_Subset
    <3>3. /\ Cardinality((In("running") \cup In("woken"))') \in Nat
          /\ Cardinality(In("running") \cup In("woken")) \in Nat
      BY <2>1, <1>2, FinitePolls
    <3>4. QED
      BY <3>2, <3>3, <1>1, <1>2 DEF Inv, BudgetExact, BudgetKept
  <2>5. QED
    BY <2>2, <2>3, <2>4 DEF Inv, BudgetExact
<1>6. CASE waiting # <<>>
  <2> DEFINE h == Head(waiting)
  <2>1. /\ waiting \in Seq(Polls) /\ IsInjective(waiting) /\ ToSet(waiting) = In("waiting")
    BY DEF Inv, TypeOK, BudgetExact, QueueExact
  <2>2. /\ h \in In("waiting") /\ IsInjective(Tail(waiting))
        /\ ToSet(Tail(waiting)) = In("waiting") \ {h}
    BY <2>1, <1>6, Leaves
  <2>3. h \in Polls /\ at[h] = "waiting" /\ h # p /\ h \notin In("woken") /\ h \notin In("running")
    BY <2>2, <1>1 DEF In
  <2>4. /\ at' = [at EXCEPT ![p] = Settled(p), ![h] = "woken"] /\ waiting' = Tail(waiting)
    BY <1>1, <1>6
  <2>5. \A q \in Polls : at'[q] = IF q = h THEN "woken" ELSE IF q = p THEN Settled(p) ELSE at[q]
    BY <2>3, <2>4, <1>2
  <2>6. /\ In("running")' = In("running") \ {p} /\ In("woken")' = In("woken") \cup {h}
        /\ In("waiting")' = In("waiting") \ {h}
    BY <2>3, <2>5, <1>1, <1>2 DEF In
  <2>7. Cardinality(In("woken") \cup {h}) = Cardinality(In("woken")) + 1
    BY <2>3, <1>2, AddOne
  <2>8. SlotsExact'
    BY <1>1, <1>3, <2>6 DEF Inv, BudgetExact, SlotsExact
  <2>9. NoLostWakeup'
    <3>1. active + Cardinality(In("woken")) >= Slots
      BY <1>6 DEF Inv, BudgetExact, NoLostWakeup
    <3>2. Cardinality(In("woken")') = Cardinality(In("woken")) + 1
      BY <2>6, <2>7
    <3>3. active' = active - 1 /\ Cardinality(In("woken")) \in Int /\ active \in Int
      BY <1>1, <1>2, <1>4
    <3>4. QED
      BY <3>1, <3>2, <3>3 DEF NoLostWakeup
  <2>10. QueueExact'
    BY <2>2, <2>4, <2>6 DEF QueueExact
  <2>11. BudgetKept'
    <3> DEFINE S == In("running") \cup In("woken")
    <3>1. S' = (S \ {p}) \cup {h}
      BY <2>6, <1>1, <1>2 DEF In
    <3>2. Cardinality(S \ {p}) = Cardinality(S) - 1
      BY <1>2, RemoveOne
    <3>3. Cardinality((S \ {p}) \cup {h}) = Cardinality(S \ {p}) + 1
      BY <1>2, <2>3, AddOne
    <3>4. Cardinality(S) \in Nat
      BY <1>2, FinitePolls
    <3>5. Cardinality(S') = Cardinality(S)
      <4>1. Cardinality(S') = Cardinality((S \ {p}) \cup {h})
        BY <3>1
      <4>2. QED
        BY <4>1, <3>2, <3>3, <3>4
    <3>6. QED
      BY <3>5, <1>1 DEF Inv, BudgetExact, BudgetKept
  <2>12. QED
    BY <2>8, <2>9, <2>10, <2>11 DEF Inv, BudgetExact
<1>7. QED
  BY <1>5, <1>6

(* Every step leaves every variable in its range. *)
LEMMA NextType == ASSUME TypeOK, QueueExact, [Next]_vars PROVE TypeOK'
<1>1. ASSUME NEW polls \in SUBSET In("idle"), Acquire(polls)
      PROVE  /\ at' \in [Polls -> {"gone", "idle", "waiting", "woken", "running"}]
             /\ waiting' \in Seq(Polls) /\ active' \in Int
  <2>1. PICK now \in SUBSET polls :
          /\ \E line \in SetToSeqs(polls \ now) : waiting' = waiting \o line
          /\ active' = active + Cardinality(now)
          /\ at' = [p \in Polls |-> IF p \in now THEN "running"
                                    ELSE IF p \in polls THEN "waiting" ELSE at[p]]
    BY <1>1 DEF Acquire
  <2>2. polls \subseteq Polls /\ now \subseteq Polls
    BY DEF In
  <2>3. Cardinality(now) \in Nat
    BY <2>2, FinitePolls
  <2>4. waiting' \in Seq(Polls)
    BY <2>1, <2>2, LineOf DEF TypeOK
  <2>5. QED
    BY <2>1, <2>3, <2>4 DEF TypeOK
<1>2. In("idle") \subseteq Polls
  BY DEF In
<1>3. CASE Start \/ Stop \/ Rearm \/ UNCHANGED vars
  BY <1>3 DEF Start, Stop, Rearm, vars, TypeOK
<1>4. CASE Tick
  BY <1>1, <1>2, <1>4 DEF Tick, TypeOK
<1>5. ASSUME NEW p \in Polls, Refresh(p) PROVE TypeOK'
  <2>1. {p} \subseteq In("idle") /\ Acquire({p})
    BY <1>5 DEF Refresh, In
  <2>2. QED
    BY <1>1, <1>5, <2>1 DEF Refresh, TypeOK
<1>6. ASSUME NEW p \in Polls, Continue(p) \/ Register(p) \/ Unregister(p) PROVE TypeOK'
  BY <1>6 DEF Continue, Register, Unregister, TypeOK
<1>7. ASSUME NEW p \in Polls, Settle(p) PROVE TypeOK'
  <2>1. /\ racy' = racy /\ clock' = clock /\ active' = active - 1
        /\ awaited' = awaited \ {p} /\ canceled' = canceled \ {p}
        /\ IF waiting = <<>> THEN at' = [at EXCEPT ![p] = Settled(p)] /\ UNCHANGED waiting
           ELSE /\ at' = [at EXCEPT ![p] = Settled(p), ![Head(waiting)] = "woken"]
                /\ waiting' = Tail(waiting)
    BY <1>7 DEF Settle
  <2>2. Settled(p) \in {"gone", "idle"}
    BY DEF Settled
  <2>3. waiting # <<>> => Tail(waiting) \in Seq(Polls)
    BY DEF TypeOK
  <2>4. at' \in [Polls -> {"gone", "idle", "waiting", "woken", "running"}]
    BY <2>1, <2>2 DEF TypeOK
  <2>5. waiting' \in Seq(Polls)
    BY <2>1, <2>3 DEF TypeOK
  <2>6. QED
    BY <2>1, <2>4, <2>5 DEF TypeOK
<1>8. QED
  BY <1>3, <1>4, <1>5, <1>6, <1>7 DEF Next

LEMMA NextInv == Inv /\ [Next]_vars => Inv'
<1> SUFFICES ASSUME Inv, [Next]_vars PROVE Inv'
  OBVIOUS
<1>1. TypeOK'
  BY NextType DEF Inv, BudgetExact
<1>2. CASE Start \/ Stop \/ Rearm \/ UNCHANGED vars
  <2>1. UNCHANGED <<racy, waiting, active, at>>
    BY <1>2 DEF Start, Stop, Rearm, vars
  <2>2. QED
    BY <2>1, <1>1, OutsideInv DEF In
<1>3. CASE Tick
  BY <1>1, <1>3, AcquireInv DEF Tick
<1>4. ASSUME NEW p \in Polls, Refresh(p) PROVE Inv'
  <2>1. {p} \in SUBSET In("idle")
    BY <1>4 DEF Refresh, In
  <2>2. QED
    BY <1>1, <1>4, <2>1, AcquireInv DEF Refresh
<1>5. ASSUME NEW p \in Polls, Register(p) \/ Unregister(p) PROVE Inv'
  <2>1. /\ UNCHANGED <<racy, waiting, active>>
        /\ \/ at' = at
           \/ at[p] \in {"gone", "idle"} /\ \E x \in {"gone", "idle"} : at' = [at EXCEPT ![p] = x]
    BY <1>5 DEF Register, Unregister
  <2>2. \A place \in {"running", "woken", "waiting"} : In(place)' = In(place)
    BY <2>1 DEF In, Inv, TypeOK
  <2>3. QED
    BY <1>1, <2>1, <2>2, OutsideInv
<1>6. QED
  BY <1>1, <1>2, <1>3, <1>4, <1>5, ContinueInv, SettleInv DEF Next

(* Every reachable state is well typed. *)
THEOREM TypeCorrect == Spec => []TypeOK
<1>1. Inv => TypeOK
  BY DEF Inv
<1>2. QED
  BY <1>1, InitInv, NextInv, PTL DEF Spec

(* The budget is exact: it loses no slot and forgets no poll, whatever is   *)
(* registered, canceled and refreshed in which order, and it keeps its      *)
(* bound as long as woken polls go on before others ask.                    *)
THEOREM BudgetAlwaysExact == Spec => []BudgetExact
<1>1. Inv => BudgetExact
  BY DEF Inv
<1>2. QED
  BY <1>1, InitInv, NextInv, PTL DEF Spec

-----------------------------------------------------------------------------
(***************************************************************************)
(* Views with fetches of their own.                                        *)
(***************************************************************************)

LEMMA PanelConstants == NoTarget \notin Targets
BY FrontendAssumption DEF Panel!PanelAssumption

LEMMA PanelInitInv == Panel!Init => PanelInv
<1> SUFFICES ASSUME Panel!Init PROVE PanelInv
  OBVIOUS
<1>1. Panel!NoFetch \in Panel!Fetch /\ ~Panel!NoFetch.current /\ Panel!NoFetch.by = "nobody"
  BY DEF Panel!Fetch, Panel!NoFetch
<1>2. \A f \in Fetches : fetch[f] = Panel!NoFetch
  BY DEF Panel!Init
<1>3. Panel!TypeOK
  BY <1>1 DEF Panel!Init, Panel!TypeOK
<1>4. QED
  BY <1>1, <1>2, <1>3 DEF Panel!Init, PanelInv, CurrentOK

(* A fetch that is overtaken differs in nothing else. *)
LEMMA OvertakenIs ==
  ASSUME PanelInv, NEW t \in Targets \cup {NoTarget}
  PROVE  /\ Panel!Overtaken(t) \in [Fetches -> Panel!Fetch]
         /\ \A f \in Fetches :
              /\ Panel!Overtaken(t)[f].by = fetch[f].by /\ Panel!Overtaken(t)[f].target = fetch[f].target
              /\ Panel!Overtaken(t)[f].current => fetch[f].current /\ ~Panel!Overtakes(f, t)
              /\ fetch[f].current /\ ~Panel!Overtakes(f, t) => Panel!Overtaken(t)[f] = fetch[f]
              /\ Panel!Overtaken(t)[f] = Panel!NoFetch <=> fetch[f] = Panel!NoFetch
<1> DEFINE r(f) == [fetch[f] EXCEPT !.current = FALSE]
<1>1. \A f \in Fetches : fetch[f] \in Panel!Fetch
  BY DEF PanelInv, Panel!TypeOK
<1>2. \A f \in Fetches : /\ r(f) \in Panel!Fetch /\ ~r(f).current
                        /\ r(f).by = fetch[f].by /\ r(f).target = fetch[f].target
  BY <1>1 DEF Panel!Fetch
<1>3. Panel!Overtaken(t) = [f \in Fetches |-> IF Panel!Overtakes(f, t) THEN r(f) ELSE fetch[f]]
  BY DEF Panel!Overtaken
<1> HIDE DEF r
<1>4. \A f \in Fetches : fetch[f].by = "nobody" => fetch[f] = Panel!NoFetch
  BY DEF PanelInv, CurrentOK
<1>5. /\ \A x \in Panel!Fetch : x = [by |-> x.by, target |-> x.target, current |-> x.current]
      /\ Panel!NoFetch.by = "nobody" /\ Panel!NoFetch.target = NoTarget
      /\ Panel!NoFetch = [by |-> "nobody", target |-> NoTarget, current |-> FALSE]
  BY DEF Panel!Fetch, Panel!NoFetch
<1>6. ASSUME NEW f \in Fetches PROVE r(f) = Panel!NoFetch <=> fetch[f] = Panel!NoFetch
  <2>1. CASE fetch[f] = Panel!NoFetch
    <3>1. r(f).by = "nobody" /\ r(f).target = NoTarget /\ r(f).current = FALSE
      BY <1>2, <1>5, <2>1 DEF Panel!Fetch
    <3>2. QED
      BY <1>2, <1>5, <2>1, <3>1
  <2>2. CASE fetch[f] # Panel!NoFetch
    BY <1>2, <1>4, <1>5, <2>2
  <2>3. QED
    BY <2>1, <2>2
<1>7. QED
  BY <1>1, <1>2, <1>3, <1>6

(* How the panels work. *)
LEMMA KnownPanels == \A p \in Panel!Known : p.guard \in {"none", "flag", "id"}
<1> DEFINE R == [guard : {"none", "flag", "id"}, bumps : BOOLEAN, polled : BOOLEAN, refetch : BOOLEAN,
                 quits : BOOLEAN, blank : BOOLEAN, empties : BOOLEAN]
<1>1. Panel!Flagged \in R
  BY DEF Panel!Flagged
<1>2. Panel!Numbered \in R
  BY <1>1 DEF Panel!Numbered
<1>3. Panel!Unguarded \in R
  BY <1>2 DEF Panel!Unguarded
<1>4. {Panel!UseCRDs, Panel!UseHelmReleases, Panel!HelmReleaseEventsTab, Panel!HelmReleaseHistoryTab,
       Panel!HelmReleaseValuesTab} \subseteq R
  BY <1>1 DEF Panel!UseCRDs, Panel!UseHelmReleases, Panel!HelmReleaseEventsTab, Panel!HelmReleaseHistoryTab,
     Panel!HelmReleaseValuesTab
<1>5. {Panel!ResourceEventsTab, Panel!PodEventsTab, Panel!CustomResourceDetails, Panel!DependencyGraph,
       Panel!TopLevelOwner} \subseteq R
  BY <1>1 DEF Panel!ResourceEventsTab, Panel!PodEventsTab, Panel!CustomResourceDetails, Panel!DependencyGraph,
     Panel!TopLevelOwner
<1>6. {Panel!PodMetricsTab, Panel!NamespaceMetricsTab, Panel!ControllerMetricsTab, Panel!NodeMetricsTab,
       Panel!NodeMemoryDiagnosticsTab} \subseteq R
  BY <1>2 DEF Panel!PodMetricsTab, Panel!NamespaceMetricsTab, Panel!ControllerMetricsTab, Panel!NodeMetricsTab,
     Panel!NodeMemoryDiagnosticsTab
<1>7. {Panel!EventMarkers, Panel!UseNodeMetrics, Panel!FlowTimeline, Panel!HelmUpgradeDialog,
       Panel!YamlEditor} \subseteq R
  BY <1>3 DEF Panel!EventMarkers, Panel!UseNodeMetrics, Panel!FlowTimeline, Panel!HelmUpgradeDialog,
     Panel!YamlEditor
<1> HIDE DEF R
<1>8. Panel!Known \subseteq R
  BY <1>4, <1>5, <1>6, <1>7 DEF Panel!Known
<1>9. QED
  BY <1>8 DEF R

(* A fetch starts, for the target there is now. *)
LEMMA FetchStarts ==
  ASSUME PanelInv, NEW f \in Fetches, NEW by \in {"effect", "poll", "caller"}, NEW fetches \in [Fetches -> Panel!Fetch],
         Panel!Starts(fetches, f, by), target' \in Targets, UNCHANGED <<panel, failed>>,
         by = "caller" => panel.refetch,
         \A g \in Fetches : /\ fetches[g].by = fetch[g].by /\ fetches[g].target = fetch[g].target
                            /\ fetches[g] = Panel!NoFetch <=> fetch[g] = Panel!NoFetch
                            /\ Panel!Guarded /\ g # f /\ fetches[g].current => fetches[g].target = target'
  PROVE  PanelInv' /\ shown' \in {shown, NoTarget}
<1> DEFINE r == [by |-> by, target |-> target', current |-> TRUE]
<1>1. /\ fetch' = [fetches EXCEPT ![f] = r] /\ loading' = TRUE
      /\ shown' = IF panel.blank THEN NoTarget ELSE shown
  BY DEF Panel!Starts
<1>2. r \in Panel!Fetch /\ r # Panel!NoFetch /\ r.by = by /\ r.target = target' /\ r.current
  BY DEF Panel!Fetch, Panel!NoFetch
<1> HIDE DEF r
<1>3. fetch' \in [Fetches -> Panel!Fetch] /\ fetch'[f] = r /\ \A g \in Fetches : g # f => fetch'[g] = fetches[g]
  BY <1>1, <1>2
<1>4. Panel!TypeOK'
  BY <1>1, <1>3 DEF PanelInv, Panel!TypeOK
<1>5. Panel!Guarded' = Panel!Guarded
  BY DEF Panel!Guarded
<1>6. ASSUME NEW g \in Fetches PROVE CurrentOK(g)'
  <2>1. CASE g = f
    BY <1>2, <1>3, <1>5, <2>1 DEF CurrentOK, Panel!Guarded
  <2>2. CASE g # f
    BY <1>3, <1>5, <2>2 DEF CurrentOK, PanelInv, Panel!NoFetch
  <2>3. QED
    BY <2>1, <2>2
<1>7. UnderWay'
  BY <1>2, <1>3 DEF UnderWay, Panel!NoFetch
<1>8. QED
  BY <1>1, <1>4, <1>6, <1>7 DEF PanelInv

LEMMA RerunInv ==
  ASSUME PanelInv, NEW t \in Targets \cup {NoTarget}, Panel!Rerun(t)
  PROVE  PanelInv' /\ shown' \in {shown, NoTarget}
<1>1. target' = t /\ UNCHANGED <<panel, failed>>
  BY DEF Panel!Rerun
<1>2. CASE t # NoTarget
  <2>1. PICK f \in Fetches : Panel!Starts(Panel!Overtaken(t), f, "effect")
    BY <1>2 DEF Panel!Rerun
  <2>2. ASSUME NEW g \in Fetches, Panel!Guarded, g # f, Panel!Overtaken(t)[g].current
        PROVE  Panel!Overtaken(t)[g].target = target'
    <3>1. ~Panel!Overtakes(g, t) /\ fetch[g].current
      BY <2>2, OvertakenIs
    <3>2. fetch[g] \in Panel!Fetch /\ panel.guard \in {"flag", "id"}
      BY <2>2, KnownPanels DEF PanelInv, Panel!TypeOK, Panel!Guarded
    <3>3. fetch[g].by = "nobody"
      BY <1>2, <2>2, <3>1, <3>2 DEF Panel!Overtakes, Panel!Fetch, PanelInv, CurrentOK
    <3>4. fetch[g] = Panel!NoFetch
      BY <3>3 DEF PanelInv, CurrentOK
    <3>5. QED
      BY <3>1, <3>4 DEF Panel!NoFetch
  <2>3. QED
    BY <1>1, <1>2, <2>1, <2>2, OvertakenIs, FetchStarts
<1>3. CASE t = NoTarget
  <2>1. fetch' = Panel!Overtaken(t) /\ loading' = (loading /\ ~panel.quits) /\ shown' = shown
    BY <1>3 DEF Panel!Rerun
  <2>2. loading' \in BOOLEAN
    BY <2>1
  <2>3. Panel!TypeOK'
    BY <1>1, <2>1, <2>2, OvertakenIs DEF PanelInv, Panel!TypeOK
  <2>4. Panel!Guarded' = Panel!Guarded
    BY <1>1 DEF Panel!Guarded
  <2>5. \A f \in Fetches : CurrentOK(f)'
    BY <1>1, <1>3, <2>1, <2>4, OvertakenIs DEF CurrentOK, PanelInv, Panel!NoFetch
  <2>6. QED
    BY <1>1, <1>3, <2>1, <2>3, <2>5 DEF PanelInv
<1>4. QED
  BY <1>2, <1>3

LEMMA PollInv ==
  ASSUME PanelInv, NEW f \in Fetches, Panel!Poll(f) \/ Panel!Refetch(f)
  PROVE  PanelInv' /\ shown' \in {shown, NoTarget}
<1>1. /\ target' = target /\ target \in Targets /\ UNCHANGED <<panel, failed>>
      /\ Panel!Starts(fetch, f, "poll") \/ (panel.refetch /\ Panel!Starts(fetch, f, "caller"))
  BY DEF Panel!Poll, Panel!Refetch, PanelInv, Panel!TypeOK
<1>2. /\ fetch \in [Fetches -> Panel!Fetch]
      /\ \A g \in Fetches : Panel!Guarded /\ fetch[g].current => fetch[g].target = target'
  BY <1>1, PanelConstants DEF PanelInv, Panel!TypeOK, CurrentOK
<1>3. CASE Panel!Starts(fetch, f, "poll")
  BY <1>1, <1>2, <1>3, FetchStarts
<1>4. CASE panel.refetch /\ Panel!Starts(fetch, f, "caller")
  BY <1>1, <1>2, <1>4, FetchStarts
<1>5. QED
  BY <1>1, <1>3, <1>4

LEMMA EndFetchInv ==
  ASSUME PanelInv, NEW f \in Fetches, NEW ok \in BOOLEAN, Panel!End(f, ok)
  PROVE  PanelInv' /\ (Panel!Guarded /\ target # NoTarget => shown' \in {shown, NoTarget, target})
<1>1. /\ fetch[f] # Panel!NoFetch /\ fetch' = [fetch EXCEPT ![f] = Panel!NoFetch]
      /\ UNCHANGED <<panel, target>>
  BY DEF Panel!End
<1>2. Panel!NoFetch \in Panel!Fetch /\ ~Panel!NoFetch.current /\ Panel!NoFetch.by = "nobody"
  BY DEF Panel!Fetch, Panel!NoFetch
<1>3. /\ fetch' \in [Fetches -> Panel!Fetch] /\ fetch'[f] = Panel!NoFetch
      /\ \A g \in Fetches : g # f => fetch'[g] = fetch[g]
  BY <1>1, <1>2 DEF PanelInv, Panel!TypeOK
<1>4. Panel!Guarded' = Panel!Guarded
  BY <1>1 DEF Panel!Guarded
<1>5. \A g \in Fetches : CurrentOK(g)'
  BY <1>1, <1>2, <1>3, <1>4 DEF PanelInv, CurrentOK, Panel!NoFetch
<1>6. fetch[f] \in Panel!Fetch /\ fetch[f].target \in Targets
  BY <1>1 DEF PanelInv, Panel!TypeOK, CurrentOK
<1>7. CASE ~fetch[f].current
  <2>1. UNCHANGED <<loading, failed, shown>>
    BY <1>7 DEF Panel!End
  <2>2. UnderWay => UnderWay'
    BY <1>3, <1>7 DEF UnderWay, Panel!NoFetch
  <2>3. Panel!TypeOK'
    BY <1>1, <1>3, <2>1 DEF PanelInv, Panel!TypeOK
  <2>4. QED
    BY <1>1, <1>4, <1>5, <2>1, <2>2, <2>3 DEF PanelInv
<1>8. CASE fetch[f].current
  <2>1. /\ loading' = FALSE /\ failed' = ~ok
        /\ shown' = IF ok THEN fetch[f].target ELSE IF panel.empties THEN NoTarget ELSE shown
    BY <1>8 DEF Panel!End
  <2>2. Panel!TypeOK'
    BY <1>1, <1>3, <1>6, <2>1 DEF PanelInv, Panel!TypeOK
  <2>3. Panel!Guarded /\ target # NoTarget => fetch[f].target = target
    BY <1>8 DEF PanelInv, CurrentOK
  <2>4. QED
    BY <1>1, <1>4, <1>5, <2>1, <2>2, <2>3 DEF PanelInv
<1>9. QED
  BY <1>7, <1>8

LEMMA PanelNextInv ==
  PanelInv /\ (Panel!Next \/ UNCHANGED panelVars) => PanelInv' /\ Panel!ShowsNoLateAnswer
<1> SUFFICES ASSUME PanelInv, Panel!Next \/ UNCHANGED panelVars PROVE PanelInv' /\ Panel!ShowsNoLateAnswer
  OBVIOUS
<1>1. CASE UNCHANGED panelVars
  <2>1. UNCHANGED <<panel, target, fetch, shown, failed, loading>>
    BY <1>1 DEF panelVars
  <2>2. QED
    BY <2>1 DEF PanelInv, Panel!TypeOK, CurrentOK, UnderWay, Panel!Guarded, Panel!ShowsNoLateAnswer
<1>2. CASE \E t \in Targets \cup {NoTarget} : Panel!Rerun(t)
  BY <1>2, RerunInv DEF Panel!ShowsNoLateAnswer
<1>3. CASE \E f \in Fetches : Panel!Poll(f) \/ Panel!Refetch(f)
  BY <1>3, PollInv DEF Panel!ShowsNoLateAnswer
<1>4. CASE \E f \in Fetches, ok \in BOOLEAN : Panel!End(f, ok)
  BY <1>4, EndFetchInv DEF Panel!ShowsNoLateAnswer
<1>5. QED
  BY <1>1, <1>2, <1>3, <1>4 DEF Panel!Next

LEMMA PanelInvSound == PanelInv => Panel!QuietIsCurrent
BY DEF PanelInv, UnderWay, Panel!QuietIsCurrent, Panel!TypeOK
-----------------------------------------------------------------------------
(***************************************************************************)
(* The connection monitor.                                                 *)
(***************************************************************************)

(* The module's operators on sets are those of the library. *)
LEMMA MonitorSets ==
  ASSUME NEW S
  PROVE  /\ Monitor!IsFiniteSet(S) <=> IsFiniteSet(S)
         /\ Monitor!Cardinality(S) = Cardinality(S)
BY DEF Monitor!IsFiniteSet, IsFiniteSet, Monitor!Cardinality, Cardinality

LEMMA MonitorConstants ==
  /\ Window \in Nat \ {0} /\ Threshold \in Nat \ {0} /\ MaxTime \in Nat /\ MaxFaults \in Nat
  /\ \A l \in Layouts : l \subseteq Monitor!Watch /\ IsFiniteSet(l)
BY FrontendAssumption, MonitorSets DEF Monitor!MonitorAssumption, Monitor!Watch

(* One message more. *)
LEMMA MessageSent ==
  ASSUME NEW wire \in Wire, NEW m \in [kind : {"connected", "reconnecting", "stopped", "error"}, watch : Monitor!Watch],
         NEW last, NEW type
  PROVE  /\ Append(wire, m) \in Wire
         /\ ReconnectComes(wire, last, type) => ReconnectComes(Append(wire, m), last, type)
         /\ m.kind = "error" \/ m.watch[1] # type => \A x :
              Precedes(wire, last, Len(wire) + 1, type, x) =>
              Precedes(Append(wire, m), last, Len(Append(wire, m)) + 1, type, x)
         /\ m.kind # "error" /\ m.watch[1] = type =>
              Precedes(Append(wire, m), last, Len(Append(wire, m)) + 1, type, m.kind)
         /\ m.kind = "connected" /\ m.watch[1] = type /\ Precedes(wire, last, Len(wire) + 1, type, "reconnecting") =>
              ReconnectComes(Append(wire, m), last, type)
<1> DEFINE W == Append(wire, m)
           n == Len(wire)
<1>1. /\ W \in Wire /\ n \in Nat /\ Len(W) = n + 1 /\ DOMAIN W = 1 .. n + 1 /\ DOMAIN wire = 1 .. n
      /\ W[n + 1] = m /\ \A i \in 1 .. n : W[i] = wire[i]
  BY DEF Wire
<1>2. n = Len(wire) /\ W = Append(wire, m)
  OBVIOUS
<1> HIDE DEF W, n
<1>3. /\ \A i \in 1 .. n : StatusAt(W, i, type) <=> StatusAt(wire, i, type)
      /\ StatusAt(W, n + 1, type) <=> m.kind # "error" /\ m.watch[1] = type
  BY <1>1 DEF StatusAt
<1>4. ASSUME NEW k \in 1 .. n + 1, NEW x, Precedes(wire, last, k, type, x) PROVE Precedes(W, last, k, type, x)
  BY <1>1, <1>3, <1>4 DEF Precedes
<1>5. ReconnectComes(wire, last, type) => ReconnectComes(W, last, type)
  BY <1>1, <1>3, <1>4 DEF ReconnectComes
<1>6. ASSUME m.kind = "error" \/ m.watch[1] # type, NEW x, Precedes(wire, last, n + 1, type, x)
      PROVE  Precedes(W, last, n + 2, type, x)
  BY <1>1, <1>3, <1>6 DEF Precedes
<1>7. ASSUME m.kind # "error", m.watch[1] = type PROVE Precedes(W, last, n + 2, type, m.kind)
  BY <1>1, <1>3, <1>7 DEF Precedes
<1>8. ASSUME m.kind = "connected", m.watch[1] = type, Precedes(wire, last, n + 1, type, "reconnecting")
      PROVE  ReconnectComes(W, last, type)
  BY <1>1, <1>3, <1>4, <1>8 DEF ReconnectComes
<1>9. Len(W) + 1 = n + 2
  BY <1>1
<1>10. QED
  BY <1>1, <1>2, <1>5, <1>6, <1>7, <1>8, <1>9

(* One message less: what was the first is now the last that was handled.   *)
LEMMA MessageHandled ==
  ASSUME NEW wire \in Wire, wire # <<>>, NEW last, NEW next, NEW type,
         next = IF StatusAt(wire, 1, type) THEN Head(wire).kind ELSE last
  PROVE  /\ Tail(wire) \in Wire /\ Head(wire) = wire[1] /\ 1 \in DOMAIN wire
         /\ \A x : Precedes(wire, last, Len(wire) + 1, type, x) =>
                   Precedes(Tail(wire), next, Len(Tail(wire)) + 1, type, x)
         /\ ReconnectComes(wire, last, type) =>
              \/ ReconnectComes(Tail(wire), next, type)
              \/ StatusAt(wire, 1, type) /\ Head(wire).kind = "connected" /\ last = "reconnecting"
<1> DEFINE W == Tail(wire)
           n == Len(wire)
<1>1. /\ W \in Wire /\ n \in Nat \ {0} /\ Len(W) = n - 1 /\ DOMAIN W = 1 .. n - 1 /\ DOMAIN wire = 1 .. n
      /\ Head(wire) = wire[1] /\ \A i \in 1 .. n - 1 : W[i] = wire[i + 1]
  BY DEF Wire
<1>2. n = Len(wire) /\ W = Tail(wire)
  OBVIOUS
<1> HIDE DEF W, n
<1>3. \A i \in 1 .. n - 1 : StatusAt(W, i, type) <=> StatusAt(wire, i + 1, type)
  BY <1>1 DEF StatusAt
<1>4. ASSUME NEW k \in 1 .. n, NEW x, Precedes(wire, last, k + 1, type, x) PROVE Precedes(W, next, k, type, x)
  <2>1. CASE \E j \in DOMAIN wire : /\ j < k + 1 /\ StatusAt(wire, j, type) /\ wire[j].kind = x
                                    /\ \A i \in DOMAIN wire : j < i /\ i < k + 1 => ~StatusAt(wire, i, type)
    <3>1. PICK j \in 1 .. n : /\ j < k + 1 /\ StatusAt(wire, j, type) /\ wire[j].kind = x
                              /\ \A i \in DOMAIN wire : j < i /\ i < k + 1 => ~StatusAt(wire, i, type)
      BY <1>1, <2>1
    <3>2. \A i \in 1 .. n - 1 : j - 1 < i /\ i < k => ~StatusAt(W, i, type)
      BY <1>1, <1>3, <3>1
    <3>3. CASE j = 1
      <4>1. next = x
        BY <1>1, <3>1, <3>3
      <4>2. QED
        BY <1>1, <3>2, <3>3, <4>1 DEF Precedes
    <3>4. CASE j # 1
      <4>1. j - 1 \in DOMAIN W /\ j - 1 < k /\ StatusAt(W, j - 1, type) /\ W[j - 1].kind = x
        BY <1>1, <1>3, <3>1, <3>4
      <4>2. QED
        BY <1>1, <3>2, <4>1 DEF Precedes
    <3>5. QED
      BY <3>3, <3>4
  <2>2. CASE last = x /\ \A i \in DOMAIN wire : i < k + 1 => ~StatusAt(wire, i, type)
    <3>1. next = x
      BY <1>1, <2>2
    <3>2. \A i \in DOMAIN W : i < k => ~StatusAt(W, i, type)
      BY <1>1, <1>3, <2>2
    <3>3. QED
      BY <3>1, <3>2 DEF Precedes
  <2>3. QED
    BY <1>4, <2>1, <2>2 DEF Precedes
<1>5. ASSUME ReconnectComes(wire, last, type)
      PROVE  \/ ReconnectComes(W, next, type)
             \/ StatusAt(wire, 1, type) /\ Head(wire).kind = "connected" /\ last = "reconnecting"
  <2>1. PICK i \in 1 .. n : /\ StatusAt(wire, i, type) /\ wire[i].kind = "connected"
                            /\ Precedes(wire, last, i, type, "reconnecting")
    BY <1>1, <1>5 DEF ReconnectComes
  <2>2. CASE i = 1
    BY <1>1, <2>1, <2>2 DEF Precedes
  <2>3. CASE i # 1
    <3>1. i - 1 \in 1 .. n /\ i - 1 \in DOMAIN W /\ (i - 1) + 1 = i
      BY <1>1, <2>3
    <3>2. StatusAt(W, i - 1, type) /\ W[i - 1].kind = "connected"
      BY <1>1, <1>3, <2>1, <3>1
    <3>3. Precedes(W, next, i - 1, type, "reconnecting")
      BY <1>4, <2>1, <3>1
    <3>4. QED
      BY <3>1, <3>2, <3>3 DEF ReconnectComes
  <2>4. QED
    BY <2>2, <2>3
<1>6. Len(W) + 1 = n /\ n \in 1 .. n
  BY <1>1
<1>7. QED
  BY <1>1, <1>2, <1>4, <1>5, <1>6

MonitorMessage == [kind : {"connected", "reconnecting", "stopped", "error"}, watch : Monitor!Watch]
MonitorLoop == [at : {"off", "connecting", "open", "waiting"}, rv : {"first", "none", "known"}, quiet : BOOLEAN]
MonitorGaps == [Monitor!Watch -> {"none", "announced", "silent"}]

(* A finite set of messages in any order. *)
LEMMA MessagesInOrder ==
  ASSUME NEW S \in SUBSET MonitorMessage, IsFiniteSet(S),
         NEW line \in Monitor!Bijection(1 .. Monitor!Cardinality(S), S)
  PROVE  line \in Wire
<1>1. Monitor!Cardinality(S) \in Nat
  BY MonitorSets, FS_CardinalityType
<1>2. line \in [1 .. Monitor!Cardinality(S) -> MonitorMessage]
  BY DEF Monitor!Bijection, Monitor!Injection
<1>3. line \in Seq(MonitorMessage)
  BY <1>1, <1>2
<1>4. QED
  BY <1>3 DEF Wire, MonitorMessage

(* The typed part of a state that keeps its failures. *)
LEMMA StatusTyped ==
  ASSUME MonitorInv
  PROVE  /\ statuses \in Wire /\ loop \in [Monitor!Watch -> MonitorLoop]
         /\ time \in 0 .. MaxTime /\ time \in Nat /\ used \subseteq Monitor!Watch /\ gap \in MonitorGaps
         /\ \A w \in Monitor!Watch : /\ w[1] \in Types /\ loop[w] \in MonitorLoop
                                     /\ openedAt[w] \in Int /\ openedAt[w] >= -1
                                     /\ history[w] \in Seq(0 .. MaxTime)
BY MonitorConstants DEF MonitorInv, Monitor!TypeOK, Wire, Monitor!Watch, MonitorLoop, MonitorGaps

(* A mode is chosen: nothing is known of a watch any more. *)
LEMMA ModeInv ==
  ASSUME MonitorInv, NEW m \in {"streaming", "polling"}, NEW stops \in Wire, Monitor!SetMode(m, stops),
         faults' \in 0 .. MaxFaults, UNCHANGED <<used, time, prev, timer>>
  PROVE  MonitorInv'
<1>1. /\ mode' = m /\ failures' = Monitor!NoFailures /\ openedAt' = Monitor!NeverOpened
      /\ history' = Monitor!NoHistory /\ gap' = Monitor!NoGaps
      /\ loop' = Monitor!Started \/ loop' = [w \in Monitor!Watch |-> Monitor!Off]
  BY DEF Monitor!SetMode
<1>2. statuses' \in Wire
  <2>1. CASE m = "streaming"
    BY <2>1 DEF Monitor!SetMode
  <2>2. CASE m = "polling"
    <3> DEFINE U == {v \in used : loop[v].at # "off"}
               S == {Monitor!Message("stopped", w) : w \in U}
    <3>1. PICK line \in Monitor!Bijection(1 .. Monitor!Cardinality(S), S) : statuses' = stops \o line
      BY <2>2 DEF Monitor!SetMode
    <3>2. S \in SUBSET MonitorMessage
      BY StatusTyped DEF MonitorMessage, Monitor!Message
    <3>3. IsFiniteSet(S)
      <4>1. IsFiniteSet(U)
        BY MonitorConstants, FS_Subset DEF MonitorInv
      <4> DEFINE said == [w \in U |-> Monitor!Message("stopped", w)]
      <4>2. said \in Surjection(U, S)
        BY DEF Surjection
      <4> HIDE DEF U, S, said
      <4>3. QED
        BY <4>1, <4>2, FS_Surjection
    <3> HIDE DEF S
    <3>4. line \in Wire
      BY <3>1, <3>2, <3>3, MessagesInOrder
    <3>5. QED
      BY <3>1, <3>4 DEF Wire
  <2>3. QED
    BY <2>1, <2>2
<1>3. ASSUME NEW w \in Monitor!Watch
      PROVE  /\ failures'[w] = {} /\ openedAt'[w] = -1 /\ history'[w] = <<>> /\ gap'[w] = "none"
             /\ loop'[w].rv = "first" /\ (loop'[w].at # "off" => w \in used)
  BY <1>1 DEF Monitor!NoFailures, Monitor!NeverOpened, Monitor!NoHistory, Monitor!Started, Monitor!Off, Monitor!NoGaps
<1>4. /\ loop' \in [Monitor!Watch -> MonitorLoop] /\ gap' \in MonitorGaps
      /\ openedAt' \in [Monitor!Watch -> -1 .. MaxTime] /\ history' \in [Monitor!Watch -> Seq(0 .. MaxTime)]
      /\ failures' \in [Monitor!Watch -> SUBSET Nat]
  <2>1. Monitor!Off \in MonitorLoop /\ [Monitor!Off EXCEPT !.at = "connecting"] \in MonitorLoop
    BY DEF Monitor!Off, MonitorLoop
  <2>2. Monitor!Started \in [Monitor!Watch -> MonitorLoop] /\ [w \in Monitor!Watch |-> Monitor!Off] \in [Monitor!Watch -> MonitorLoop]
    BY <2>1 DEF Monitor!Started
  <2>3. loop' \in [Monitor!Watch -> MonitorLoop] /\ gap' \in MonitorGaps
    BY <1>1, <2>2 DEF Monitor!NoGaps, MonitorGaps
  <2>4. -1 \in -1 .. MaxTime
    BY MonitorConstants
  <2>5. openedAt' \in [Monitor!Watch -> -1 .. MaxTime]
    BY <1>1, <2>4 DEF Monitor!NeverOpened
  <2>6. <<>> \in Seq(0 .. MaxTime) /\ {} \in SUBSET Nat
    OBVIOUS
  <2>7. history' \in [Monitor!Watch -> Seq(0 .. MaxTime)] /\ failures' \in [Monitor!Watch -> SUBSET Nat]
    BY <1>1, <2>6 DEF Monitor!NoHistory, Monitor!NoFailures
  <2>8. QED
    BY <2>3, <2>5, <2>7
<1>5. Monitor!Cardinality({}) = 0
  <2>1. \A T : Monitor!Cardinality(T) = Cardinality(T)
    BY DEF Monitor!Cardinality, Cardinality
  <2>2. QED
    BY <2>1, FS_EmptySet
<1>6. Monitor!TypeOK'
  <2>1. \A w \in Monitor!Watch : failures'[w] \subseteq DOMAIN history'[w] /\ Monitor!Cardinality(failures'[w]) < Threshold
    <3>1. 0 < Threshold
      BY MonitorConstants
    <3>2. QED
      BY <1>3, <1>5, <3>1
  <2>2. mode' \in {"streaming", "polling"}
    BY <1>1
  <2>3. /\ used' \subseteq Monitor!Watch /\ time' \in 0 .. MaxTime /\ timer' \in BOOLEAN
        /\ prev' \in [Types -> {"none", "connected", "reconnecting", "stopped"}]
    BY DEF MonitorInv, Monitor!TypeOK
  <2>4. QED
    BY <1>2, <1>4, <2>1, <2>2, <2>3 DEF Monitor!TypeOK, Wire, MonitorLoop, MonitorGaps
<1>7. \A w \in Monitor!Watch : WindowOK(w)' /\ GapOK(w)'
  BY <1>1, <1>3, StatusTyped DEF WindowOK, GapOK, FromNow
<1>8. QED
  BY <1>1, <1>3, <1>6, <1>7 DEF MonitorInv

(* A message is sent by a watch of the open views, and no other of its type *)
(* is one.                                                                  *)
LEMMA OthersSpeak ==
  ASSUME MonitorInv, NEW v \in used, NEW w \in used, v # w, Monitor!Alone(w)
  PROVE  v[1] # w[1]
BY DEF Monitor!Alone

LEMMA MonitorTickInv == ASSUME MonitorInv, Monitor!Tick PROVE MonitorInv'
<1>1. /\ time' = time + 1 /\ time < MaxTime
      /\ UNCHANGED <<used, loop, gap, statuses, faults, mode, prev, timer, failures, openedAt, history>>
  BY DEF Monitor!Tick, Monitor!window
<1>2. Monitor!TypeOK'
  BY <1>1, MonitorConstants DEF MonitorInv, Monitor!TypeOK
<1>3. ASSUME NEW w \in Monitor!Watch PROVE WindowOK(w)'
  <2>1. WindowOK(w) /\ \A i \in DOMAIN history[w] : history[w][i] \in Nat
    BY StatusTyped, MonitorConstants DEF MonitorInv
  <2>2. time \in Nat /\ openedAt[w] \in Int /\ Window \in Nat
    BY StatusTyped, MonitorConstants
  <2>3. \A h \in Nat : h <= time => h <= time + 1
    BY <2>2
  <2>4. \A h \in Nat : time + 1 - h < Window => time - h < Window
    BY <2>2
  <2>5. openedAt[w] <= time + 1
    BY <2>1, <2>2 DEF WindowOK
  <2>6. ASSUME NEW i \in DOMAIN history[w]
        PROVE  /\ history[w][i] <= time + 1 /\ (openedAt[w] # -1 => history[w][i] <= openedAt[w])
               /\ time + 1 - history[w][i] < Window => i \in failures[w]
    BY <2>1, <2>3, <2>4 DEF WindowOK
  <2>7. failures[w] \subseteq DOMAIN history[w]
    BY <2>1 DEF WindowOK
  <2>8. /\ failures'[w] = failures[w] /\ history'[w] = history[w] /\ openedAt'[w] = openedAt[w]
        /\ time' = time + 1
    BY <1>1
  <2>9. openedAt'[w] <= time' /\ failures'[w] \subseteq DOMAIN history'[w]
    BY <2>5, <2>7, <2>8
  <2>10. ASSUME NEW i \in DOMAIN history'[w]
         PROVE  /\ history'[w][i] <= time' /\ (openedAt'[w] # -1 => history'[w][i] <= openedAt'[w])
                /\ time' - history'[w][i] < Window => i \in failures'[w]
    <3>1. i \in DOMAIN history[w] /\ history'[w][i] = history[w][i]
      BY <2>8, <2>10
    <3>2. history'[w][i] <= time + 1 /\ (openedAt'[w] # -1 => history'[w][i] <= openedAt'[w])
      BY <2>6, <2>8, <3>1
    <3>3. time + 1 - history'[w][i] < Window => i \in failures'[w]
      BY <2>6, <2>8, <3>1
    <3>4. time' = time + 1 /\ time' - history'[w][i] = time + 1 - history'[w][i]
      BY <2>1, <2>2, <2>8, <3>1
    <3>5. QED
      BY <3>2, <3>3, <3>4
  <2>11. QED
    BY <2>9, <2>10 DEF WindowOK
<1>4. \A w \in Monitor!Watch : Monitor!Alone(w) /\ w \in used => GapOK(w)'
  BY <1>1 DEF MonitorInv, GapOK, FromNow
<1>5. QED
  BY <1>1, <1>2, <1>3, <1>4 DEF MonitorInv, Monitor!Alone

(* A loop goes on, and says so or not: the failures stay as they are. *)
LEMMA LoopInv ==
  ASSUME MonitorInv, UNCHANGED <<used, time, mode, prev, timer, failures, openedAt, history>>,
         NEW v \in used, NEW place \in MonitorLoop, place.at # "off", loop' = [loop EXCEPT ![v] = place],
         NEW between \in {"none", "announced", "silent"}, gap' = [gap EXCEPT ![v] = between],
         faults' \in 0 .. MaxFaults, statuses' \in Wire,
         Monitor!Alone(v) => GapOK(v)',
         \A w \in used : w # v /\ Monitor!Alone(w) => GapOK(w)'
  PROVE  MonitorInv'
<1>1. v \in Monitor!Watch
  BY StatusTyped
<1>2. /\ loop' \in [Monitor!Watch -> MonitorLoop] /\ gap' \in MonitorGaps
      /\ \A w \in Monitor!Watch : w # v => loop'[w] = loop[w] /\ gap'[w] = gap[w]
  BY <1>1, StatusTyped DEF MonitorGaps
<1>3. Monitor!TypeOK'
  BY <1>1, <1>2 DEF MonitorInv, Monitor!TypeOK, Wire, MonitorLoop, MonitorGaps
<1>4. \A w \in Monitor!Watch : WindowOK(w)'
  BY DEF MonitorInv, WindowOK
<1>5. \A w \in Monitor!Watch : loop'[w].at # "off" \/ gap'[w] # "none" => w \in used
  BY <1>1, <1>2 DEF MonitorInv
<1>6. QED
  BY <1>3, <1>4, <1>5 DEF MonitorInv, Monitor!Alone

(* A loop goes on and says nothing. *)
LEMMA SilentLoopInv ==
  ASSUME MonitorInv, UNCHANGED <<used, gap, statuses, time, mode, prev, timer, failures, openedAt, history>>,
         NEW v \in Monitor!Watch, loop[v].at # "off", faults' \in 0 .. MaxFaults,
         NEW place \in MonitorLoop, place.at # "off", loop' = [loop EXCEPT ![v] = place],
         place.at = "open" \/ place.quiet \/
           (loop[v].at = "waiting" /\ place.rv = loop[v].rv /\ place.quiet = loop[v].quiet)
  PROVE  MonitorInv'
<1>1. v \in used /\ gap[v] \in {"none", "announced", "silent"}
  BY StatusTyped DEF MonitorInv, MonitorGaps
<1>2. gap' = [gap EXCEPT ![v] = gap[v]]
  BY StatusTyped DEF MonitorGaps
<1>3. statuses' \in Wire
  BY StatusTyped
<1>4. ASSUME NEW w \in used, Monitor!Alone(w) PROVE GapOK(w)'
  <2>1. GapOK(w) /\ w \in Monitor!Watch
    BY <1>4, StatusTyped DEF MonitorInv
  <2>2. FromNow(w)' => FromNow(w)
    BY <2>1, StatusTyped DEF FromNow
  <2>3. QED
    BY <2>1, <2>2 DEF GapOK
<1>5. QED
  BY <1>1, <1>2, <1>3, <1>4, LoopInv

LEMMA ConnectInv == ASSUME MonitorInv, NEW v \in Monitor!Watch, Monitor!Connect(v) PROVE MonitorInv'
<1> DEFINE m == Monitor!Message("connected", v)
<1>1. PICK now, was, place, between :
        /\ now = loop[v] /\ was = gap[v]
        /\ place = [at |-> "open", rv |-> IF now.rv = "first" THEN "none" ELSE now.rv, quiet |-> FALSE]
        /\ between = IF now.rv # "none" THEN was
                     ELSE IF now.quiet /\ was # "announced" THEN "silent" ELSE "announced"
  OBVIOUS
<1>2. /\ now.at = "connecting" /\ loop' = [loop EXCEPT ![v] = place]
      /\ gap' = [gap EXCEPT ![v] = between]
      /\ statuses' = Append(statuses, m)
      /\ UNCHANGED <<used, time, faults, mode, prev, timer, failures, openedAt, history>>
  BY <1>1, StatusTyped DEF Monitor!Connect, Monitor!window, MonitorGaps
<1>3. /\ v \in used /\ now \in MonitorLoop /\ was \in {"none", "announced", "silent"}
      /\ between \in {"none", "announced", "silent"}
  BY <1>1, <1>2, StatusTyped DEF MonitorInv, MonitorGaps
<1>4. place \in MonitorLoop /\ place.at = "open"
  BY <1>1, <1>3 DEF MonitorLoop
<1>5. /\ loop'[v] = place /\ gap'[v] = between
      /\ \A w \in Monitor!Watch : w # v => loop'[w] = loop[w] /\ gap'[w] = gap[w]
  BY <1>2, StatusTyped DEF MonitorGaps
<1>6. m \in MonitorMessage /\ m.kind = "connected" /\ m.watch = v
  BY DEF Monitor!Message, MonitorMessage
<1> HIDE DEF m
<1>7. statuses' \in Wire
  BY <1>2, <1>6, StatusTyped, MessageSent DEF MonitorMessage
<1>8. ASSUME Monitor!Alone(v) PROVE GapOK(v)'
  <2>1. GapOK(v)
    BY <1>3, <1>8 DEF MonitorInv
  <2>2. ReconnectComes(statuses, prev[v[1]], v[1]) => ReconnectComes(statuses', prev[v[1]], v[1])
    BY <1>2, <1>6, StatusTyped, MessageSent DEF MonitorMessage
  <2>3. FromNow(v) => ReconnectComes(statuses', prev[v[1]], v[1])
    BY <1>2, <1>6, <2>1, StatusTyped, MessageSent DEF MonitorMessage, GapOK
  <2>4. between = "announced" => was = "announced" \/ FromNow(v)
    BY <1>1, <1>2 DEF FromNow
  <2>5. ~FromNow(v)'
    BY <1>4, <1>5 DEF FromNow
  <2>6. QED
    BY <1>1, <1>2, <1>5, <2>1, <2>2, <2>3, <2>4, <2>5 DEF GapOK
<1>9. ASSUME NEW w \in used, w # v, Monitor!Alone(w) PROVE GapOK(w)'
  <2>1. GapOK(w) /\ w \in Monitor!Watch
    BY <1>9, StatusTyped DEF MonitorInv
  <2>2. v[1] # w[1]
    BY <1>3, <1>9, OthersSpeak
  <2>3. /\ ReconnectComes(statuses, prev[w[1]], w[1]) => ReconnectComes(statuses', prev[w[1]], w[1])
        /\ Precedes(statuses, prev[w[1]], Len(statuses) + 1, w[1], "reconnecting") =>
           Precedes(statuses', prev[w[1]], Len(statuses') + 1, w[1], "reconnecting")
    BY <1>2, <1>6, <2>2, StatusTyped, MessageSent DEF MonitorMessage
  <2>4. QED
    BY <1>2, <1>5, <1>9, <2>1, <2>3 DEF GapOK, FromNow
<1>10. faults' \in 0 .. MaxFaults
  BY <1>2 DEF MonitorInv, Monitor!TypeOK
<1>11. QED
  BY <1>2, <1>3, <1>4, <1>7, <1>8, <1>9, <1>10, LoopInv

(* The steps that say nothing. *)
LEMMA QuietStepsInv ==
  ASSUME MonitorInv, NEW v \in Monitor!Watch,
         Monitor!Event(v) \/ Monitor!Retry(v) \/ \E expired \in BOOLEAN : Monitor!ErrorEvent(v, expired)
  PROVE  MonitorInv'
<1>1. PICK now : now = loop[v]
  OBVIOUS
<1>2. now \in MonitorLoop
  BY <1>1, StatusTyped
<1>3. ASSUME NEW rv \in {"first", "none", "known"}
      PROVE  /\ [now EXCEPT !.rv = "known"] \in MonitorLoop /\ [now EXCEPT !.rv = "known"].at = now.at
             /\ [now EXCEPT !.at = "connecting"] \in MonitorLoop /\ [now EXCEPT !.at = "connecting"].at = "connecting"
             /\ [now EXCEPT !.at = "connecting"].rv = now.rv /\ [now EXCEPT !.at = "connecting"].quiet = now.quiet
             /\ [at |-> "connecting", quiet |-> TRUE, rv |-> rv] \in MonitorLoop
  BY <1>2 DEF MonitorLoop
<1>4. CASE Monitor!Event(v)
  <2>1. PICK place : place = [now EXCEPT !.rv = "known"]
    OBVIOUS
  <2>2. /\ now.at = "open" /\ loop' = [loop EXCEPT ![v] = place]
        /\ UNCHANGED <<used, gap, statuses, time, faults, mode, prev, timer, failures, openedAt, history>>
    BY <1>1, <1>4, <2>1 DEF Monitor!Event, Monitor!window
  <2>3. faults' \in 0 .. MaxFaults
    BY <2>2 DEF MonitorInv, Monitor!TypeOK
  <2>4. place \in MonitorLoop /\ place.at = "open"
    BY <1>3, <2>1, <2>2
  <2>5. QED
    BY <1>1, <2>2, <2>3, <2>4, SilentLoopInv
<1>5. CASE Monitor!Retry(v)
  <2>1. PICK place : place = [now EXCEPT !.at = "connecting"]
    OBVIOUS
  <2>2. /\ now.at = "waiting" /\ loop' = [loop EXCEPT ![v] = place]
        /\ UNCHANGED <<used, gap, statuses, time, faults, mode, prev, timer, failures, openedAt, history>>
    BY <1>1, <1>5, <2>1 DEF Monitor!Retry, Monitor!window
  <2>3. faults' \in 0 .. MaxFaults
    BY <2>2 DEF MonitorInv, Monitor!TypeOK
  <2>4. place \in MonitorLoop /\ place.at = "connecting" /\ place.rv = now.rv /\ place.quiet = now.quiet
    BY <1>3, <2>1
  <2>5. QED
    BY <1>1, <2>2, <2>3, <2>4, SilentLoopInv
<1>6. CASE \E expired \in BOOLEAN : Monitor!ErrorEvent(v, expired)
  <2>1. PICK expired \in BOOLEAN : Monitor!ErrorEvent(v, expired)
    BY <1>6
  <2>2. PICK place, rv : rv = (IF expired THEN "none" ELSE now.rv) /\ place = [at |-> "connecting", quiet |-> TRUE, rv |-> rv]
    OBVIOUS
  <2>3. /\ now.at = "open" /\ loop' = [loop EXCEPT ![v] = place] /\ faults < MaxFaults /\ faults' = faults + 1
        /\ UNCHANGED <<used, gap, statuses, time, mode, prev, timer, failures, openedAt, history>>
    BY <1>1, <2>1, <2>2 DEF Monitor!ErrorEvent, Monitor!window
  <2>4. faults' \in 0 .. MaxFaults
    BY <2>3, MonitorConstants DEF MonitorInv, Monitor!TypeOK
  <2>5. rv \in {"first", "none", "known"}
    BY <1>2, <2>2 DEF MonitorLoop
  <2>6. place \in MonitorLoop /\ place.at = "connecting" /\ place.quiet
    BY <1>3, <2>2, <2>5
  <2>7. QED
    BY <1>1, <2>3, <2>4, <2>6, SilentLoopInv
<1>7. QED
  BY <1>4, <1>5, <1>6

LEMMA BreakInv ==
  ASSUME MonitorInv, NEW v \in Monitor!Watch, NEW fails \in BOOLEAN, NEW expired \in BOOLEAN,
         Monitor!Break(v, fails, expired)
  PROVE  MonitorInv'
<1> DEFINE e == Monitor!Message("error", v)
           m == Monitor!Message("reconnecting", v)
           first == IF fails THEN Append(statuses, e) ELSE statuses
<1>1. PICK now, rv, place : /\ now = loop[v] /\ rv = (IF expired /\ now.rv = "known" THEN "none" ELSE now.rv)
                            /\ place = [at |-> "waiting", quiet |-> FALSE, rv |-> rv]
  OBVIOUS
<1>2. /\ now.at # "off" /\ loop' = [loop EXCEPT ![v] = place]
      /\ faults < MaxFaults /\ faults' = faults + 1
      /\ statuses' = statuses \o (IF fails THEN <<e>> ELSE <<>>) \o <<m>>
      /\ UNCHANGED <<used, gap, time, mode, prev, timer, failures, openedAt, history>>
  BY <1>1 DEF Monitor!Break, Monitor!window
<1>3. /\ v \in used /\ now \in MonitorLoop /\ gap[v] \in {"none", "announced", "silent"}
      /\ gap' = [gap EXCEPT ![v] = gap[v]]
  BY <1>1, <1>2, StatusTyped DEF MonitorInv, MonitorGaps
<1>4. place \in MonitorLoop /\ place.at = "waiting"
  BY <1>1, <1>3 DEF MonitorLoop
<1>5. /\ e \in MonitorMessage /\ e.kind = "error" /\ e.watch = v
      /\ m \in MonitorMessage /\ m.kind = "reconnecting" /\ m.watch = v
  BY DEF Monitor!Message, MonitorMessage
<1> HIDE DEF m, e
<1>6. first \in Wire /\ statuses' = Append(first, m) /\ statuses' \in Wire
  <2>1. first \in Wire /\ first = statuses \o (IF fails THEN <<e>> ELSE <<>>)
    <3>1. PICK line : line = statuses
      OBVIOUS
    <3>2. line \in Seq(MonitorMessage)
      BY <3>1, StatusTyped DEF Wire, MonitorMessage
    <3>3. Append(line, e) \in Seq(MonitorMessage) /\ Append(line, e) = line \o <<e>> /\ line = line \o <<>>
      BY <1>5, <3>2
    <3>4. QED
      BY <3>1, <3>2, <3>3 DEF Wire, MonitorMessage
  <2> HIDE DEF first
  <2>2. statuses' = first \o <<m>>
    BY <1>2, <2>1
  <2>3. QED
    BY <1>5, <2>1, <2>2 DEF Wire, MonitorMessage
<1>7. ASSUME NEW type
      PROVE  /\ ReconnectComes(statuses, prev[type], type) => ReconnectComes(first, prev[type], type)
             /\ \A x : Precedes(statuses, prev[type], Len(statuses) + 1, type, x) =>
                       Precedes(first, prev[type], Len(first) + 1, type, x)
  BY <1>5, StatusTyped, MessageSent DEF MonitorMessage
<1> HIDE DEF first
<1>8. \A w \in Monitor!Watch : w # v => loop'[w] = loop[w]
  BY <1>2, StatusTyped
<1>9. ASSUME Monitor!Alone(v) PROVE GapOK(v)'
  <2>1. GapOK(v)
    BY <1>3, <1>9 DEF MonitorInv
  <2>2. ReconnectComes(first, prev[v[1]], v[1]) => ReconnectComes(statuses', prev[v[1]], v[1])
    BY <1>5, <1>6, MessageSent DEF MonitorMessage
  <2>3. Precedes(statuses', prev[v[1]], Len(statuses') + 1, v[1], "reconnecting")
    BY <1>5, <1>6, MessageSent DEF MonitorMessage
  <2>4. QED
    BY <1>2, <1>7, <2>1, <2>2, <2>3 DEF GapOK
<1>10. ASSUME NEW w \in used, w # v, Monitor!Alone(w) PROVE GapOK(w)'
  <2>1. GapOK(w) /\ w \in Monitor!Watch
    BY <1>10, StatusTyped DEF MonitorInv
  <2>2. v[1] # w[1]
    BY <1>3, <1>10, OthersSpeak
  <2>3. /\ ReconnectComes(first, prev[w[1]], w[1]) => ReconnectComes(statuses', prev[w[1]], w[1])
        /\ Precedes(first, prev[w[1]], Len(first) + 1, w[1], "reconnecting") =>
           Precedes(statuses', prev[w[1]], Len(statuses') + 1, w[1], "reconnecting")
    BY <1>5, <1>6, <2>2, MessageSent DEF MonitorMessage
  <2>4. QED
    BY <1>2, <1>7, <1>8, <1>10, <2>1, <2>3 DEF GapOK, FromNow
<1>11. faults' \in 0 .. MaxFaults
  BY <1>2, MonitorConstants DEF MonitorInv, Monitor!TypeOK
<1>12. QED
  BY <1>2, <1>3, <1>4, <1>6, <1>9, <1>10, <1>11, LoopInv

LEMMA ReconcileInv == ASSUME MonitorInv, Monitor!Reconcile PROVE MonitorInv'
<1>1. /\ gap' = Monitor!NoGaps /\ timer' = FALSE
      /\ UNCHANGED <<used, loop, statuses, time, faults, mode, prev, failures, openedAt, history>>
  BY DEF Monitor!Reconcile, Monitor!window
<1>2. Monitor!TypeOK' /\ \A w \in Monitor!Watch : gap'[w] = "none"
  BY <1>1 DEF MonitorInv, Monitor!TypeOK, Monitor!NoGaps
<1>3. \A w \in Monitor!Watch : WindowOK(w)' /\ (GapOK(w) => GapOK(w)')
  BY <1>1, <1>2 DEF MonitorInv, WindowOK, GapOK, FromNow
<1>4. QED
  BY <1>1, <1>2, <1>3 DEF MonitorInv, Monitor!Alone

(* What a sequence over a set is, member by member. *)
LEMMA MembersOf ==
  ASSUME NEW S, NEW s \in Seq(S)
  PROVE  Len(s) \in Nat /\ DOMAIN s = 1 .. Len(s) /\ \A i \in DOMAIN s : s[i] \in S
OBVIOUS

LEMMA ChooseModeInv == ASSUME MonitorInv, Monitor!ChooseMode PROVE MonitorInv'
<1>1. PICK m : m = IF mode = "polling" THEN "streaming" ELSE "polling"
  OBVIOUS
<1>2. m \in {"streaming", "polling"} /\ Monitor!SetMode(m, statuses) /\ UNCHANGED <<used, time, prev, timer>>
  BY <1>1 DEF Monitor!ChooseMode
<1>3. faults' \in 0 .. MaxFaults
  BY MonitorConstants DEF Monitor!ChooseMode, MonitorInv, Monitor!TypeOK
<1>4. QED
  BY <1>2, <1>3, StatusTyped, ModeInv

(* The failures that a watch is counted with are the recent ones of its     *)
(* history, and the one that is being handled.                              *)
LEMMA CountedFailures ==
  ASSUME MonitorInv, NEW w \in Monitor!Watch
  PROVE  /\ Monitor!Failed(w) \subseteq failures[w] /\ Monitor!Cardinality(Monitor!Failed(w)) < Threshold
         /\ \A i \in DOMAIN history[w] : time - history[w][i] < Window => i \in Monitor!Failed(w)
         /\ Monitor!Cardinality(Monitor!WithLast(w)) = Monitor!Count(w, time) + 1
         /\ Monitor!WithLast(w) \subseteq 1 .. Len(history[w]) + 1
<1> DEFINE n == Len(history[w])
           R == {i \in DOMAIN history[w] : time - history[w][i] < Window}
<1>1. /\ WindowOK(w) /\ failures[w] \subseteq DOMAIN history[w] /\ Monitor!Cardinality(failures[w]) < Threshold
  BY DEF MonitorInv, Monitor!TypeOK
<1>2. /\ n \in Nat /\ DOMAIN history[w] = 1 .. n /\ \A i \in 1 .. n : history[w][i] \in Nat
  <2>1. history[w] \in Seq(0 .. MaxTime)
    BY StatusTyped
  <2>2. \A x \in 0 .. MaxTime : x \in Nat
    OBVIOUS
  <2>3. QED
    BY <2>1, <2>2, MembersOf
<1>3. \A T : Monitor!Cardinality(T) = Cardinality(T)
  BY DEF Monitor!Cardinality, Cardinality
<1>4. Monitor!Failed(w) \subseteq failures[w]
  BY DEF Monitor!Failed
<1>5. Monitor!Cardinality(Monitor!Failed(w)) < Threshold
  <2>1. Monitor!Cardinality({}) = 0 /\ 0 < Threshold
    BY <1>3, FS_EmptySet, MonitorConstants
  <2>2. QED
    BY <1>1, <2>1 DEF Monitor!Failed
<1>6. ASSUME NEW i \in 1 .. n, time - history[w][i] < Window PROVE i \in Monitor!Failed(w)
  <2>1. ~Monitor!Healthy(w)
    <3>1. /\ history[w][i] \in Nat /\ openedAt[w] \in Int /\ time \in Nat /\ Window \in Nat
          /\ openedAt[w] # -1 => history[w][i] <= openedAt[w]
      BY <1>1, <1>2, StatusTyped, MonitorConstants DEF WindowOK
    <3>2. \A h, o, t, x \in Int : t - h < x /\ h <= o => ~(t - o >= x)
      OBVIOUS
    <3>3. QED
      BY <1>6, <3>1, <3>2 DEF Monitor!Healthy
  <2>2. QED
    BY <1>1, <1>2, <1>6, <2>1 DEF WindowOK, Monitor!Failed
<1>7. Monitor!Recent(w, Monitor!Failed(w)) = R
  BY <1>1, <1>2, <1>4, <1>6 DEF Monitor!Recent
<1>8. IsFiniteSet(R) /\ n + 1 \notin R /\ R \subseteq 1 .. n
  <2>1. R \subseteq 1 .. n
    BY <1>2
  <2> HIDE DEF R, n
  <2>2. IsFiniteSet(1 .. n)
    BY <1>2, FS_Interval
  <2>3. n + 1 \notin 1 .. n
    BY <1>2
  <2>4. QED
    BY <2>1, <2>2, <2>3, FS_Subset
<1>9. Monitor!WithLast(w) = R \cup {n + 1} /\ Monitor!Count(w, time) = Cardinality(R)
  BY <1>3, <1>7 DEF Monitor!WithLast, Monitor!Count
<1> HIDE DEF R, n
<1>10. Cardinality(R \cup {n + 1}) = Cardinality(R) + 1
  BY <1>8, FS_AddElement
<1>11. Monitor!WithLast(w) \subseteq 1 .. n + 1
  <2>1. n \in Nat
    BY <1>2
  <2>2. n + 1 \in 1 .. n + 1 /\ 1 .. n \subseteq 1 .. n + 1
    BY <2>1
  <2>3. QED
    BY <1>8, <1>9, <2>2
<1>12. QED
  BY <1>2, <1>3, <1>4, <1>5, <1>6, <1>9, <1>10, <1>11 DEF n

LEMMA HandleErrorInv ==
  ASSUME MonitorInv, Monitor!HandleError
  PROVE  MonitorInv' /\ Monitor!FallsBackNow
<1>1. PICK v : v = Head(statuses).watch
  OBVIOUS
<1>2. /\ statuses # <<>> /\ Head(statuses).kind = "error" /\ UNCHANGED <<used, time, faults, prev, timer>>
      /\ \/ mode # "streaming" /\ statuses' = Tail(statuses) /\ UNCHANGED <<loop, gap, mode, failures, openedAt, history>>
         \/ mode = "streaming" /\ Monitor!Cardinality(Monitor!WithLast(v)) >= Threshold
            /\ Monitor!SetMode("polling", Tail(statuses))
         \/ /\ mode = "streaming" /\ ~(Monitor!Cardinality(Monitor!WithLast(v)) >= Threshold)
            /\ statuses' = Tail(statuses)
            /\ failures' = [failures EXCEPT ![v] = Monitor!WithLast(v)]
            /\ openedAt' = [openedAt EXCEPT ![v] = -1]
            /\ history' = [history EXCEPT ![v] = Append(@, time)]
            /\ UNCHANGED <<loop, gap, mode>>
  BY <1>1 DEF Monitor!HandleError, Monitor!window
<1>3. /\ v \in Monitor!Watch /\ Tail(statuses) \in Wire /\ Head(statuses) = statuses[1]
  <2>1. 1 \in DOMAIN statuses /\ Head(statuses) = statuses[1] /\ Tail(statuses) \in Wire
    BY <1>2, StatusTyped DEF Wire
  <2>2. statuses[1] \in [kind : {"connected", "reconnecting", "stopped", "error"}, watch : Monitor!Watch]
    BY <2>1, StatusTyped, MembersOf DEF Wire
  <2>3. QED
    BY <1>1, <2>1, <2>2
<1>4. ASSUME statuses' = Tail(statuses), UNCHANGED <<loop, gap>>, NEW w \in Monitor!Watch, GapOK(w) PROVE GapOK(w)'
  <2>1. ~StatusAt(statuses, 1, w[1])
    BY <1>2, <1>3 DEF StatusAt
  <2>2. /\ \A x : Precedes(statuses, prev[w[1]], Len(statuses) + 1, w[1], x) =>
                  Precedes(Tail(statuses), prev[w[1]], Len(Tail(statuses)) + 1, w[1], x)
        /\ ReconnectComes(statuses, prev[w[1]], w[1]) => ReconnectComes(Tail(statuses), prev[w[1]], w[1])
    BY <1>2, <2>1, StatusTyped, MessageHandled
  <2>3. QED
    BY <1>2, <1>4, <2>2 DEF GapOK, FromNow
<1>5. /\ Monitor!Count(v, time) + 1 = Monitor!Cardinality(Monitor!WithLast(v))
      /\ Monitor!WithLast(v) \subseteq 1 .. Len(history[v]) + 1
      /\ \A i \in DOMAIN history[v] : time - history[v][i] < Window => i \in Monitor!Failed(v)
  BY <1>3, CountedFailures
<1>6. CASE mode # "streaming" /\ statuses' = Tail(statuses) /\ UNCHANGED <<loop, gap, mode, failures, openedAt, history>>
  <2>1. Monitor!TypeOK'
    BY <1>2, <1>3, <1>6 DEF MonitorInv, Monitor!TypeOK, Wire
  <2>2. \A w \in Monitor!Watch : WindowOK(w)'
    BY <1>2, <1>6 DEF MonitorInv, WindowOK
  <2>3. \A w \in Monitor!Watch : Monitor!Alone(w)' /\ w \in used' => GapOK(w)'
    BY <1>2, <1>4, <1>6 DEF MonitorInv, Monitor!Alone
  <2>4. MonitorInv'
    BY <1>2, <1>6, <2>1, <2>2, <2>3 DEF MonitorInv
  <2>5. QED
    BY <1>6, <2>4 DEF Monitor!FallsBackNow
<1>7. CASE mode = "streaming" /\ Monitor!Cardinality(Monitor!WithLast(v)) >= Threshold
           /\ Monitor!SetMode("polling", Tail(statuses))
  <2>1. mode' = "polling"
    BY <1>7 DEF Monitor!SetMode
  <2>2. faults' \in 0 .. MaxFaults
    BY <1>2 DEF MonitorInv, Monitor!TypeOK
  <2>3. MonitorInv'
    BY <1>2, <1>3, <1>7, <2>2, ModeInv
  <2>4. QED
    BY <1>1, <1>5, <1>7, <2>1, <2>3 DEF Monitor!FallsBackNow
<1>8. CASE /\ mode = "streaming" /\ ~(Monitor!Cardinality(Monitor!WithLast(v)) >= Threshold)
           /\ statuses' = Tail(statuses)
           /\ failures' = [failures EXCEPT ![v] = Monitor!WithLast(v)]
           /\ openedAt' = [openedAt EXCEPT ![v] = -1]
           /\ history' = [history EXCEPT ![v] = Append(@, time)]
           /\ UNCHANGED <<loop, gap, mode>>
  <2>1. PICK past : past = history[v]
    OBVIOUS
  <2>2. /\ past \in Seq(0 .. MaxTime) /\ time \in 0 .. MaxTime
        /\ \A i \in DOMAIN past : past[i] \in 0 .. MaxTime
    <3>1. past \in Seq(0 .. MaxTime) /\ time \in 0 .. MaxTime
      BY <1>3, <2>1, StatusTyped
    <3>2. QED
      BY <3>1, MembersOf
  <2>3. /\ Append(past, time) \in Seq(0 .. MaxTime) /\ DOMAIN Append(past, time) = 1 .. Len(past) + 1
        /\ DOMAIN past = 1 .. Len(past) /\ Len(past) \in Nat
        /\ Append(past, time)[Len(past) + 1] = time /\ \A i \in 1 .. Len(past) : Append(past, time)[i] = past[i]
    BY <2>2
  <2>4. /\ history' \in [Monitor!Watch -> Seq(0 .. MaxTime)] /\ history'[v] = Append(past, time)
        /\ failures'[v] = Monitor!WithLast(v) /\ openedAt'[v] = -1
        /\ \A w \in Monitor!Watch : w # v => history'[w] = history[w] /\ failures'[w] = failures[w] /\ openedAt'[w] = openedAt[w]
    <3> HIDE DEF MonitorInv
    <3>1. /\ history \in [Monitor!Watch -> Seq(0 .. MaxTime)] /\ failures \in [Monitor!Watch -> SUBSET Nat]
          /\ openedAt \in [Monitor!Watch -> -1 .. MaxTime]
      BY DEF MonitorInv, Monitor!TypeOK
    <3>2. history' = [history EXCEPT ![v] = Append(past, time)]
      BY <1>8, <2>1
    <3>3. QED
      BY <1>3, <1>8, <2>3, <3>1, <3>2
  <2>5. Monitor!WithLast(v) \subseteq 1 .. Len(past) + 1
    BY <1>5, <2>1
  <2>6. /\ failures' \in [Monitor!Watch -> SUBSET Nat] /\ openedAt' \in [Monitor!Watch -> -1 .. MaxTime]
    <3>1. Monitor!WithLast(v) \in SUBSET Nat
      BY <2>3, <2>5
    <3>2. -1 \in -1 .. MaxTime
      BY MonitorConstants
    <3>3. QED
      BY <1>3, <1>8, <3>1, <3>2 DEF MonitorInv, Monitor!TypeOK
  <2>7. ASSUME NEW w \in Monitor!Watch
        PROVE  failures'[w] \subseteq DOMAIN history'[w] /\ Monitor!Cardinality(failures'[w]) < Threshold
    <3>1. CASE w = v
      <4>1. Monitor!Cardinality(Monitor!WithLast(v)) \in Int
        <5>1. \A T : Monitor!Cardinality(T) = Cardinality(T)
          BY DEF Monitor!Cardinality, Cardinality
        <5>2. IsFiniteSet(Monitor!WithLast(v))
          <6>1. IsFiniteSet(1 .. Len(past) + 1)
            BY <2>3, FS_Interval
          <6>2. QED
            BY <2>5, <6>1, FS_Subset
        <5>3. Cardinality(Monitor!WithLast(v)) \in Nat
          BY <5>2, FS_CardinalityType
        <5>4. QED
          BY <5>1, <5>3
      <4>2. QED
        BY <1>8, <2>3, <2>4, <2>5, <3>1, <4>1, MonitorConstants
    <3>2. CASE w # v
      BY <2>4, <3>2 DEF MonitorInv, Monitor!TypeOK
    <3>3. QED
      BY <3>1, <3>2
  <2>8. Monitor!TypeOK'
    BY <1>2, <1>3, <1>8, <2>4, <2>6, <2>7 DEF MonitorInv, Monitor!TypeOK, Wire
  <2>9. ASSUME NEW w \in Monitor!Watch PROVE WindowOK(w)'
    <3>1. CASE w = v
      <4>1. /\ \A i \in DOMAIN past : time - past[i] < Window => i \in Monitor!WithLast(v)
            /\ Len(past) + 1 \in Monitor!WithLast(v)
        BY <1>5, <2>1 DEF Monitor!WithLast, Monitor!Recent
      <4>2. \A i \in DOMAIN past : past[i] <= time
        BY <1>3, <2>1 DEF MonitorInv, WindowOK
      <4>3. \A i \in 1 .. Len(past) + 1 : /\ Append(past, time)[i] <= time
                                          /\ time - Append(past, time)[i] < Window => i \in Monitor!WithLast(v)
        BY <2>2, <2>3, <4>1, <4>2
      <4>4. /\ failures'[v] \subseteq DOMAIN history'[v] /\ openedAt'[v] <= time'
        BY <1>2, <2>2, <2>4, <2>7, <3>1
      <4>5. QED
        <5>1. /\ time' = time /\ failures'[w] = Monitor!WithLast(v) /\ openedAt'[w] = -1
              /\ history'[w] = Append(past, time) /\ DOMAIN history'[w] = 1 .. Len(past) + 1
          BY <1>2, <2>3, <2>4, <3>1
        <5>2. PICK all : all = Append(past, time)
          OBVIOUS
        <5>3. \A i \in 1 .. Len(past) + 1 : /\ all[i] <= time
                                            /\ time - all[i] < Window => i \in Monitor!WithLast(v)
          BY <4>3, <5>2
        <5>4. history'[w] = all
          BY <5>1, <5>2
        <5>5. \A i \in DOMAIN history'[w] :
                /\ history'[w][i] <= time'
                /\ openedAt'[w] # -1 => history'[w][i] <= openedAt'[w]
                /\ time' - history'[w][i] < Window => i \in failures'[w]
          BY <5>1, <5>3, <5>4
        <5>6. QED
          BY <3>1, <4>4, <5>5 DEF WindowOK
    <3>2. CASE w # v
      <4>1. WindowOK(w)
        BY DEF MonitorInv
      <4>2. QED
        BY <1>2, <2>4, <3>2, <4>1 DEF WindowOK
    <3>3. QED
      BY <3>1, <3>2
  <2>10. \A w \in Monitor!Watch : Monitor!Alone(w)' /\ w \in used' => GapOK(w)'
    BY <1>2, <1>4, <1>8 DEF MonitorInv, Monitor!Alone
  <2>11. MonitorInv'
    BY <1>2, <1>8, <2>8, <2>9, <2>10 DEF MonitorInv
  <2>12. QED
    BY <1>1, <1>5, <1>8, <2>11 DEF Monitor!FallsBackNow
<1>9. QED
  BY <1>2, <1>6, <1>7, <1>8

LEMMA HandleStatusInv == ASSUME MonitorInv, Monitor!HandleStatus PROVE MonitorInv'
<1>1. PICK v, status : v = Head(statuses).watch /\ status = Head(statuses).kind
  OBVIOUS
<1>2. /\ statuses # <<>> /\ status # "error" /\ statuses' = Tail(statuses)
      /\ openedAt' = [openedAt EXCEPT ![v] = IF status = "connected" THEN time ELSE -1]
      /\ failures' = IF status = "connected" THEN failures
                     ELSE [failures EXCEPT ![v] = IF status = "stopped" THEN {} ELSE Monitor!Failed(v)]
      /\ prev' = [prev EXCEPT ![v[1]] = status]
      /\ timer' = (timer \/ Monitor!Reconnects(v[1], status))
      /\ history' = IF status = "stopped" THEN [history EXCEPT ![v] = <<>>] ELSE history
      /\ UNCHANGED <<used, loop, gap, time, faults, mode>>
  BY <1>1 DEF Monitor!HandleStatus
<1>3. /\ v \in Monitor!Watch /\ v[1] \in Types /\ Tail(statuses) \in Wire /\ Head(statuses) = statuses[1]
      /\ status \in {"connected", "reconnecting", "stopped"} /\ 1 \in DOMAIN statuses
  <2>1. 1 \in DOMAIN statuses /\ Head(statuses) = statuses[1] /\ Tail(statuses) \in Wire
    BY <1>2, StatusTyped DEF Wire
  <2>2. statuses[1] \in [kind : {"connected", "reconnecting", "stopped", "error"}, watch : Monitor!Watch]
    BY <2>1, StatusTyped, MembersOf DEF Wire
  <2>3. v \in Monitor!Watch /\ status \in {"connected", "reconnecting", "stopped"}
    BY <1>1, <1>2, <2>1, <2>2
  <2>4. QED
    BY <2>1, <2>3, StatusTyped
<1>4. ASSUME NEW w \in Monitor!Watch, GapOK(w) PROVE GapOK(w)'
  <2>1. StatusAt(statuses, 1, w[1]) <=> v[1] = w[1]
    BY <1>1, <1>2, <1>3 DEF StatusAt
  <2>2. w[1] \in Types /\ prev \in [Types -> {"none", "connected", "reconnecting", "stopped"}]
    BY StatusTyped DEF MonitorInv, Monitor!TypeOK
  <2>3. prev'[w[1]] = IF StatusAt(statuses, 1, w[1]) THEN Head(statuses).kind ELSE prev[w[1]]
    BY <1>1, <1>2, <2>1, <2>2
  <2>4. /\ \A x : Precedes(statuses, prev[w[1]], Len(statuses) + 1, w[1], x) =>
                  Precedes(Tail(statuses), prev'[w[1]], Len(Tail(statuses)) + 1, w[1], x)
        /\ ReconnectComes(statuses, prev[w[1]], w[1]) =>
             \/ ReconnectComes(Tail(statuses), prev'[w[1]], w[1])
             \/ StatusAt(statuses, 1, w[1]) /\ Head(statuses).kind = "connected" /\ prev[w[1]] = "reconnecting"
    BY <1>2, <2>3, StatusTyped, MessageHandled
  <2>5. StatusAt(statuses, 1, w[1]) /\ Head(statuses).kind = "connected" /\ prev[w[1]] = "reconnecting" => timer'
    BY <1>1, <1>2, <2>1 DEF Monitor!Reconnects
  <2>6. QED
    BY <1>2, <1>4, <2>4, <2>5 DEF GapOK, FromNow
<1>5. /\ history \in [Monitor!Watch -> Seq(0 .. MaxTime)] /\ failures \in [Monitor!Watch -> SUBSET Nat]
      /\ openedAt \in [Monitor!Watch -> -1 .. MaxTime]
      /\ \A w \in Monitor!Watch : failures[w] \subseteq DOMAIN history[w] /\ Monitor!Cardinality(failures[w]) < Threshold
  BY DEF MonitorInv, Monitor!TypeOK
<1>6. /\ Monitor!Failed(v) \subseteq failures[v] /\ Monitor!Cardinality(Monitor!Failed(v)) < Threshold
      /\ \A i \in DOMAIN history[v] : time - history[v][i] < Window => i \in Monitor!Failed(v)
  BY <1>3, CountedFailures
<1>7. /\ openedAt'[v] = IF status = "connected" THEN time ELSE -1
      /\ failures'[v] = IF status = "connected" THEN failures[v]
                        ELSE IF status = "stopped" THEN {} ELSE Monitor!Failed(v)
      /\ history'[v] = IF status = "stopped" THEN <<>> ELSE history[v]
      /\ \A w \in Monitor!Watch : w # v => history'[w] = history[w] /\ failures'[w] = failures[w] /\ openedAt'[w] = openedAt[w]
  BY <1>2, <1>3, <1>5
<1>8. /\ openedAt' \in [Monitor!Watch -> -1 .. MaxTime] /\ history' \in [Monitor!Watch -> Seq(0 .. MaxTime)]
      /\ failures' \in [Monitor!Watch -> SUBSET Nat]
  <2>1. (IF status = "connected" THEN time ELSE -1) \in -1 .. MaxTime
    BY StatusTyped, MonitorConstants
  <2>2. openedAt' \in [Monitor!Watch -> -1 .. MaxTime]
    BY <1>2, <1>5, <2>1
  <2>3. <<>> \in Seq(0 .. MaxTime)
    OBVIOUS
  <2>4. history' \in [Monitor!Watch -> Seq(0 .. MaxTime)]
    BY <1>2, <1>5, <2>3
  <2>5. (IF status = "stopped" THEN {} ELSE Monitor!Failed(v)) \in SUBSET Nat
    BY <1>3, <1>5, <1>6
  <2>6. failures' \in [Monitor!Watch -> SUBSET Nat]
    BY <1>2, <1>5, <2>5
  <2>7. QED
    BY <2>2, <2>4, <2>6
<1>9. Monitor!Cardinality({}) < Threshold
  <2>1. Monitor!Cardinality({}) = Cardinality({})
    BY DEF Monitor!Cardinality, Cardinality
  <2>2. QED
    BY <2>1, FS_EmptySet, MonitorConstants
<1>10. ASSUME NEW w \in Monitor!Watch
       PROVE  failures'[w] \subseteq DOMAIN history'[w] /\ Monitor!Cardinality(failures'[w]) < Threshold
  <2>1. CASE w # v
    BY <1>5, <1>7, <2>1
  <2>2. CASE w = v /\ status = "connected"
    BY <1>5, <1>7, <2>2
  <2>3. CASE w = v /\ status = "stopped"
    BY <1>7, <1>9, <2>3
  <2>4. CASE w = v /\ status = "reconnecting"
    BY <1>3, <1>5, <1>6, <1>7, <2>4
  <2>5. QED
    BY <1>3, <2>1, <2>2, <2>3, <2>4
<1>11. prev' \in [Types -> {"none", "connected", "reconnecting", "stopped"}] /\ timer' \in BOOLEAN
  BY <1>2, <1>3 DEF MonitorInv, Monitor!TypeOK
<1>12. Monitor!TypeOK'
  BY <1>2, <1>3, <1>8, <1>10, <1>11 DEF MonitorInv, Monitor!TypeOK, Wire
<1>13. ASSUME NEW w \in Monitor!Watch PROVE WindowOK(w)'
  <2>1. WindowOK(w)
    BY DEF MonitorInv
  <2>2. CASE w # v
    BY <1>2, <1>7, <2>1, <2>2 DEF WindowOK
  <2>3. CASE w = v /\ status = "connected"
    BY <1>2, <1>7, <2>1, <2>3, StatusTyped DEF WindowOK
  <2>4. CASE w = v /\ status = "stopped"
    BY <1>2, <1>7, <2>4, StatusTyped DEF WindowOK
  <2>5. CASE w = v /\ status = "reconnecting"
    BY <1>2, <1>5, <1>6, <1>7, <2>1, <2>5, StatusTyped DEF WindowOK
  <2>6. QED
    BY <1>3, <2>2, <2>3, <2>4, <2>5
<1>14. \A w \in Monitor!Watch : Monitor!Alone(w)' /\ w \in used' => GapOK(w)'
  BY <1>2, <1>4 DEF MonitorInv, Monitor!Alone
<1>15. QED
  BY <1>2, <1>12, <1>13, <1>14 DEF MonitorInv

LEMMA MonitorInitInv == Monitor!Init => MonitorInv
<1> SUFFICES ASSUME Monitor!Init PROVE MonitorInv
  OBVIOUS
<1>1. used \in Layouts /\ used \subseteq Monitor!Watch
  BY MonitorConstants DEF Monitor!Init
<1>2. Monitor!Cardinality({}) < Threshold
  <2>1. Monitor!Cardinality({}) = Cardinality({})
    BY DEF Monitor!Cardinality, Cardinality
  <2>2. QED
    BY <2>1, FS_EmptySet, MonitorConstants
<1>3. loop \in [Monitor!Watch -> MonitorLoop] /\ gap \in MonitorGaps
  <2>1. Monitor!Off \in MonitorLoop /\ [Monitor!Off EXCEPT !.at = "connecting"] \in MonitorLoop
    BY DEF Monitor!Off, MonitorLoop
  <2>2. loop = [w \in Monitor!Watch |-> IF w \in used THEN [Monitor!Off EXCEPT !.at = "connecting"] ELSE Monitor!Off]
    BY DEF Monitor!Init, Monitor!Started
  <2>3. loop \in [Monitor!Watch -> MonitorLoop]
    BY <2>1, <2>2
  <2>4. QED
    BY <2>3 DEF Monitor!Init, Monitor!NoGaps, MonitorGaps
<1>4. ASSUME NEW w \in Monitor!Watch
      PROVE  /\ failures[w] = {} /\ openedAt[w] = -1 /\ history[w] = <<>> /\ gap[w] = "none"
             /\ loop[w].rv = "first" /\ (loop[w].at # "off" => w \in used)
  BY DEF Monitor!Init, Monitor!NoFailures, Monitor!NeverOpened, Monitor!NoHistory, Monitor!Started, Monitor!Off, Monitor!NoGaps
<1>5. /\ openedAt \in [Monitor!Watch -> -1 .. MaxTime] /\ history \in [Monitor!Watch -> Seq(0 .. MaxTime)]
      /\ failures \in [Monitor!Watch -> SUBSET Nat]
  <2>1. -1 \in -1 .. MaxTime /\ <<>> \in Seq(0 .. MaxTime)
    BY MonitorConstants
  <2>2. QED
    BY <2>1 DEF Monitor!Init, Monitor!NoFailures, Monitor!NeverOpened, Monitor!NoHistory
<1>6. /\ time \in 0 .. MaxTime /\ faults \in 0 .. MaxFaults /\ time = 0
  BY MonitorConstants DEF Monitor!Init
<1>7. Monitor!TypeOK
  <2>1. \A w \in Monitor!Watch : failures[w] \subseteq DOMAIN history[w] /\ Monitor!Cardinality(failures[w]) < Threshold
    BY <1>2, <1>4
  <2>2. QED
    <3>1. /\ statuses \in Seq([kind : {"connected", "reconnecting", "stopped", "error"}, watch : Monitor!Watch])
          /\ prev \in [Types -> {"none", "connected", "reconnecting", "stopped"}] /\ timer \in BOOLEAN
          /\ mode \in {"streaming", "polling"}
      <4>1. statuses = <<>> /\ prev = [t \in Types |-> "none"] /\ timer = FALSE /\ mode = "streaming"
        BY DEF Monitor!Init
      <4>2. prev \in [Types -> {"none", "connected", "reconnecting", "stopped"}]
        BY <4>1
      <4>3. statuses \in Seq([kind : {"connected", "reconnecting", "stopped", "error"}, watch : Monitor!Watch])
        BY <4>1
      <4>4. QED
        BY <4>1, <4>2, <4>3
    <3>2. QED
      BY <1>1, <1>3, <1>5, <1>6, <2>1, <3>1 DEF Monitor!TypeOK, MonitorLoop, MonitorGaps
<1>8. \A w \in Monitor!Watch : WindowOK(w) /\ GapOK(w)
  BY <1>4, <1>6 DEF WindowOK, GapOK, FromNow
<1>9. QED
  BY <1>1, <1>4, <1>6, <1>7, <1>8 DEF MonitorInv

LEMMA MonitorNextInv ==
  MonitorInv /\ (Monitor!Next \/ UNCHANGED monitorVars) => MonitorInv' /\ Monitor!FallsBackNow
<1> SUFFICES ASSUME MonitorInv, Monitor!Next \/ UNCHANGED monitorVars PROVE MonitorInv' /\ Monitor!FallsBackNow
  OBVIOUS
<1>1. Monitor!FallsBackNow
  BY HandleErrorInv DEF Monitor!FallsBackNow
<1>2. CASE UNCHANGED monitorVars
  <2>1. UNCHANGED <<used, loop, gap, statuses, time, faults, mode, prev, timer, failures, openedAt, history>>
    BY <1>2 DEF monitorVars
  <2>2. QED
    BY <1>1, <2>1 DEF MonitorInv, Monitor!TypeOK, GapOK, FromNow, WindowOK, Monitor!Alone
<1>3. CASE Monitor!Next
  BY <1>1, <1>3, MonitorTickInv, ChooseModeInv, HandleErrorInv, HandleStatusInv, ReconcileInv, ConnectInv, QuietStepsInv, BreakInv
     DEF Monitor!Next
<1>4. QED
  BY <1>2, <1>3

LEMMA MonitorInvSound == MonitorInv => Monitor!GapsAreListed
<1> SUFFICES ASSUME MonitorInv, statuses = <<>>, ~timer, NEW w \in Monitor!Watch, gap[w] = "announced", Monitor!Alone(w)
               PROVE  FALSE
  BY DEF Monitor!GapsAreListed
<1>1. w \in Monitor!Watch /\ w \in used
  BY StatusTyped DEF MonitorInv
<1>2. ReconnectComes(statuses, prev[w[1]], w[1])
  BY <1>1 DEF MonitorInv, GapOK
<1>3. QED
  BY <1>2 DEF ReconnectComes

-----------------------------------------------------------------------------
(***************************************************************************)
(* The chat.                                                               *)
(***************************************************************************)

LEMMA ChatConstants == NoSession \notin Sessions /\ NoRequest \notin Requests /\ MaxChunks \in Nat
BY FrontendAssumption DEF Chat!ChatAssumption

LEMMA ChatInitInv == Chat!Init => ChatInv
<1> SUFFICES ASSUME Chat!Init PROVE ChatInv
  OBVIOUS
<1> USE ChatConstants DEF Chat!Init
<1>1. ChatTyped
  <2>1. /\ sessions \in [Sessions -> Chat!Session] /\ request \in [Requests -> Chat!Request]
        /\ set \in Chat!UI /\ rendered \in Chat!UI
    BY DEF Chat!Session, Chat!Request, Chat!Unsent, Chat!UI
  <2>2. events \in Seq(Chat!Event)
    OBVIOUS
  <2>3. QED
    BY <2>1, <2>2 DEF ChatTyped
<1>2. \A r \in Requests : request[r] = Chat!Unsent /\ request[r].at = "unused"
  BY DEF Chat!Unsent
<1>3. \A r \in Requests : ~Underway(r) /\ ~Tells(r) /\ ~Unanswered(r)
  BY <1>2 DEF Underway, Tells, Unanswered, Chat!Unsent
<1>4. Rooted
  BY <1>2 DEF Rooted, RequestOK, EventOK, Chat!Unsent
<1>5. Exchanged
  <2>1. screen \in Chat!Screen /\ Numbered(screen)
    BY DEF Chat!Screen, Numbered
  <2>2. QED
    BY <1>2, <2>1 DEF Exchanged, Short, Fresh
<1>6. OneAtATime /\ Counting
  BY <1>3 DEF OneAtATime, Counting
<1>7. Speaking
  BY DEF Speaking
<1>8. Belonging
  BY <1>3 DEF Belonging
<1>9. Progress
  BY <1>2 DEF Progress, Chat!Unsent
<1>10. QED
  BY <1>1, <1>4, <1>5, <1>6, <1>7, <1>8, <1>9 DEF ChatInv

LEMMA EventOf ==
  ASSUME events \in Seq(Chat!Event), NEW i \in DOMAIN events
  PROVE  /\ events[i] \in Chat!Event /\ events[i].by \in Requests /\ events[i].gen \in Nat
         /\ events[i].session \in Sessions /\ events[i].kind \in {"chunk", "warning", "done", "error"}
<1>1. events[i] \in Chat!Event
  OBVIOUS
<1>2. QED
  BY <1>1 DEF Chat!Event

(* What an event adds to those on their way.                               *)
LEMMA EventAdded ==
  ASSUME events \in Seq(Chat!Event), NEW e \in Chat!Event, events' = Append(events, e)
  PROVE  /\ events' \in Seq(Chat!Event)
         /\ DOMAIN events \subseteq Nat /\ DOMAIN events \subseteq DOMAIN events'
         /\ \A i \in DOMAIN events : events'[i] = events[i] /\ i < Len(events) + 1
         /\ Len(events) + 1 \in DOMAIN events' /\ events'[Len(events) + 1] = e
         /\ DOMAIN events' = DOMAIN events \cup {Len(events) + 1}
         /\ \A q \in Requests : Tells(q)' <=> Tells(q) \/ e.by = q
<1>1. /\ events' \in Seq(Chat!Event) /\ Len(events) \in Nat /\ DOMAIN events = 1 .. Len(events)
      /\ DOMAIN events' = 1 .. Len(events) + 1
      /\ \A i \in 1 .. Len(events) : events'[i] = events[i]
      /\ events'[Len(events) + 1] = e
  OBVIOUS
<1>2. DOMAIN events' = DOMAIN events \cup {Len(events) + 1}
  BY <1>1
<1>3. QED
  BY <1>1, <1>2 DEF Tells

(* A request says something: its last event, or a chunk, or a warning.     *)
LEMMA SaysInv ==
  ASSUME ChatInv, NEW r \in Requests, NEW e \in Chat!Event, NEW q \in Chat!Request,
         request' = [request EXCEPT ![r] = q], events' = Append(events, e),
         UNCHANGED <<disturbed, sessions, starting, set, rendered, generation, newest, chat, pending, queue, screen>>,
         Underway(r), q.session = request[r].session, q.gen = request[r].gen,
         e.by = r, e.session = request[r].session,
         q.joined = request[r].joined,
         \/ /\ request[r].at = "sent" /\ q.at = "over" /\ q.reply = "no" /\ e.kind = "error" /\ e.gen = 0
            /\ sessions[request[r].session].stage # "live" \/ "refusal" \in disturbed
         \/ /\ request[r].at \in {"running", "stopping"} /\ q.reply = request[r].reply /\ e.gen = request[r].gen
            /\ \/ ~Final(e) /\ q.at = request[r].at /\ (e.kind = "warning" => "error" \in disturbed)
               \/ Final(e) /\ q.at = "over" /\ (e.kind = "error" => "error" \in disturbed)
  PROVE  ChatInv'
<1> USE ChatConstants
<1>0. ChatTyped /\ Rooted
  BY DEF ChatInv
<1>1. /\ request' \in [Requests -> Chat!Request] /\ request'[r] = q
      /\ \A p \in Requests \ {r} : request'[p] = request[p]
      /\ request \in [Requests -> Chat!Request] /\ request[r] \in Chat!Request
  BY <1>0 DEF ChatTyped
<1>2. events \in Seq(Chat!Event)
  BY <1>0 DEF ChatTyped
<1>3. /\ events' \in Seq(Chat!Event)
      /\ DOMAIN events \subseteq Nat /\ DOMAIN events \subseteq DOMAIN events'
      /\ \A i \in DOMAIN events : events'[i] = events[i] /\ i < Len(events) + 1
      /\ Len(events) + 1 \in DOMAIN events' /\ events'[Len(events) + 1] = e
      /\ DOMAIN events' = DOMAIN events \cup {Len(events) + 1}
      /\ \A p \in Requests : Tells(p)' <=> Tells(p) \/ p = r
  BY <1>2, EventAdded
<1>4. ChatTyped'
  BY <1>0, <1>1, <1>3 DEF ChatTyped
<1>5. /\ RequestOK(r) /\ request[r].session \in Sessions
      /\ \A p \in Requests : request'[p].session = request[p].session /\ request'[p].gen = request[p].gen
  BY <1>0, <1>1 DEF Rooted, RequestOK, Underway
<1>6. ASSUME NEW p \in Requests PROVE RequestOK(p)'
  <2>1. RequestOK(p)
    BY <1>0 DEF Rooted
  <2>2. CASE p # r
    <3>1. request'[p] = request[p]
      BY <1>1, <2>2
    <3>2. QED
      BY <2>1, <3>1 DEF RequestOK
  <2>3. CASE p = r
    <3>1. /\ request'[p] = q /\ sessions' = sessions /\ request[p].session \in Sessions
          /\ sessions[request[p].session].stage # "new" /\ q.at # "unused"
      BY <1>1, <1>5, <2>3 DEF RequestOK, Underway
    <3>2. q.at = "running" => q.joined = request[p].joined /\ request[p].at = "running"
      BY <2>3
    <3>3. QED
      BY <1>5, <2>3, <3>1, <3>2 DEF RequestOK
  <2>4. QED
    BY <2>2, <2>3
<1> USE DEF Final
<1>7. ASSUME NEW i \in DOMAIN events' PROVE EventOK(i)'
  <2>1. CASE i \in DOMAIN events
    <3>1. EventOK(i) /\ events[i].by \in Requests /\ events'[i] = events[i]
      BY <1>0, <1>2, <1>3, <2>1, EventOf DEF Rooted
    <3>2. CASE events[i].by # r
      BY <1>1, <1>3, <2>1, <3>1, <3>2 DEF EventOK
    <3>3. CASE events[i].by = r
      BY <1>1, <1>3, <1>5, <2>1, <3>1, <3>3 DEF EventOK
    <3>4. QED
      BY <3>2, <3>3
  <2>2. CASE i = Len(events) + 1
    BY <1>1, <1>3, <1>5, <2>2 DEF EventOK, RequestOK
  <2>3. QED
    BY <1>3, <2>1, <2>2
<1>8. Rooted'
  BY <1>0, <1>1, <1>5, <1>6, <1>7 DEF Rooted, Empty, Underway
<1>9. \A p \in Requests : /\ Unanswered(p)' => Unanswered(p)
                          /\ Underway(p)' => Underway(p)
                          /\ Underway(p) \/ Tells(p) <=> (Underway(p) \/ Tells(p))'
                          /\ EndComes(p) => EndComes(p)'
  <2> SUFFICES ASSUME NEW p \in Requests
               PROVE  /\ Unanswered(p)' => Unanswered(p)
                      /\ Underway(p)' => Underway(p)
                      /\ Underway(p) \/ Tells(p) <=> (Underway(p) \/ Tells(p))'
                      /\ EndComes(p) => EndComes(p)'
    OBVIOUS
  <2>1. EndComes(p) => EndComes(p)'
    BY <1>1, <1>3 DEF EndComes
  <2>2. QED
    BY <1>1, <1>3, <2>1 DEF Unanswered, Underway
<1>10. Without({"batch"}) => Exchanged'
  BY <1>1, <1>5 DEF ChatInv, Exchanged, Short, Fresh
<1>11. Without({"batch", "haste"}) => OneAtATime'
  BY <1>5, <1>9 DEF ChatInv, OneAtATime
<1>12. ASSUME NEW p \in Requests, Speaker(p) PROVE Speaker(p)'
  <2>1. request'[p].at \in {"running", "stopping", "over"}
    BY <1>1, <1>12 DEF Speaker, Underway
  <2>2. ASSUME NEW o \in Requests \ {p}, request[o].session = set.session
        PROVE  /\ request'[o].at \notin {"found", "running", "stopping"}
               /\ request'[o].at = "sent" => sessions[set.session].stage # "live"
               /\ \A i \in DOMAIN events' : events'[i].by = o => events'[i].kind # "chunk"
    BY <1>1, <1>3, <1>12, <2>2 DEF Speaker
  <2>3. QED
    BY <1>5, <1>9, <1>12, <2>1, <2>2 DEF Speaker, Without
<1>13. ASSUME Without({"batch", "haste"}) PROVE Speaking'
  <2>1. \A p \in Requests : Talks(p) => Talks(p)'
    BY <1>12 DEF Talks
  <2>2. QED
    BY <1>13, <2>1 DEF ChatInv, Speaking
<1>14. ASSUME Without({"batch", "haste", "refusal", "loss"}) PROVE Counting'
  <2>1. Counting
    BY <1>14 DEF ChatInv
  <2>2. ASSUME NEW p \in Requests, request[p].session = set.session, request[p].at = "sent",
               sessions[set.session].stage = "live"
        PROVE  request'[p].at = "sent"
    BY <1>1, <1>14, <2>2 DEF Without
  <2>3. \A p \in Requests : request'[p].at = "found" <=> request[p].at = "found"
    BY <1>1
  <2>4. ASSUME set.session # NoSession, Counts(set.session)'
        PROVE  \/ generation <= sessions[set.session].gen
               \/ /\ generation = sessions[set.session].gen + 1
                  /\ \E p \in Requests : request'[p].session = set.session /\ request'[p].at \in {"sent", "found"}
    <3>1. Counts(set.session)
      BY <1>5, <2>3, <2>4 DEF Counts
    <3>2. CASE sessions[set.session].stage = "live"
      BY <1>5, <2>1, <2>2, <2>3, <2>4, <3>1, <3>2 DEF Counting
    <3>3. CASE sessions[set.session].stage # "live"
      BY <1>5, <2>1, <2>3, <2>4, <3>1, <3>3 DEF Counting, Counts
    <3>4. QED
      BY <3>2, <3>3
  <2>5. \A p \in Requests : request'[p].session = set.session /\ Unanswered(p)' =>
          request'[p].gen = 0 \/ request'[p].gen >= generation
    BY <1>5, <1>9, <2>1 DEF Counting
  <2>6. QED
    BY <2>4, <2>5 DEF Counting
<1>15. Without({"batch", "delete", "loss"}) => Belonging'
  BY <1>5, <1>9 DEF ChatInv, Belonging
<1>16. ASSUME Without({"batch", "haste", "refusal", "loss", "error", "lateness", "disconnect"}) PROVE Progress'
  <2>1. Progress
    BY <1>16 DEF ChatInv
  <2>2. ASSUME NEW i \in DOMAIN events'
        PROVE  /\ events'[i].kind # "warning"
               /\ events'[i].kind = "error" => events'[i].gen = 0 /\ request'[events'[i].by].gen = 0
    <3>1. CASE i \in DOMAIN events
      <4>1. events[i].by \in Requests /\ events'[i] = events[i]
        BY <1>2, <1>3, <3>1, EventOf
      <4>2. QED
        BY <1>5, <2>1, <2>2, <3>1, <4>1 DEF Progress
    <3>2. CASE i = Len(events) + 1
      BY <1>3, <1>5, <1>16, <2>2, <3>2 DEF RequestOK, Without
    <3>3. QED
      BY <1>3, <3>1, <3>2
  <2>3. ASSUME NEW p \in Requests, request'[p].reply = "yes"
        PROVE  request'[p].session = set.session /\ EndComes(p)'
    BY <1>1, <1>5, <1>9, <2>1, <2>3 DEF Progress
  <2>4. \A p \in Requests : request'[p].at = "found" => request'[p].session = set.session
    BY <1>1, <1>5, <2>1 DEF Progress
  <2>5. QED
    BY <1>5, <1>9, <2>1, <2>2, <2>3, <2>4 DEF Progress
<1>17. QED
  BY <1>4, <1>8, <1>10, <1>11, <1>13, <1>14, <1>15, <1>16 DEF ChatInv, Without

LEMMA EmitKeeps == ASSUME ChatInv, NEW r \in Requests, Chat!Emit(r) PROVE ChatInv'
<1> DEFINE q == [request[r] EXCEPT !.chunks = @ + 1]
           e(kind) == [kind |-> kind, session |-> request[r].session, gen |-> request[r].gen, by |-> r]
<1>1. request[r] \in Chat!Request /\ RequestOK(r) /\ request \in [Requests -> Chat!Request]
  BY DEF ChatInv, ChatTyped, Rooted
<1>2. /\ request[r].at \in {"running", "stopping"} /\ request[r].session \in Sessions
      /\ request[r].chunks < MaxChunks + 1
  BY <1>1, ChatConstants DEF Chat!Emit, Chat!Longest, RequestOK, Chat!Request
<1>3. q \in Chat!Request /\ q.at = request[r].at /\ q.session = request[r].session /\ q.gen = request[r].gen /\ q.reply = request[r].reply /\ q.joined = request[r].joined
  BY <1>1, <1>2, ChatConstants DEF Chat!Request
<1>4. PICK kind \in {"chunk", "warning"} :
        events' = Append(events, e(kind)) /\ (kind = "warning" => "error" \in disturbed)
  BY DEF Chat!Emit, Chat!Emitted, Chat!May
<1>5. e(kind) \in Chat!Event
  BY <1>1, <1>2 DEF Chat!Event, Chat!Request
<1>6. /\ request' = [request EXCEPT ![r] = q]
      /\ UNCHANGED <<disturbed, sessions, starting, set, rendered, generation, newest, chat, pending, queue, screen>>
  BY DEF Chat!Emit, Chat!counted
<1>7. /\ Underway(r) /\ e(kind).by = r /\ e(kind).session = request[r].session
      /\ e(kind).kind = kind /\ e(kind).gen = request[r].gen /\ ~Final(e(kind))
  BY <1>2 DEF Underway, Final
<1> HIDE DEF q, e
<1>8. QED
  BY <1>2, <1>3, <1>4, <1>5, <1>6, <1>7, SaysInv

LEMMA EndKeeps == ASSUME ChatInv, NEW r \in Requests, Chat!End(r) PROVE ChatInv'
<1> DEFINE q == [request[r] EXCEPT !.at = "over"]
           e(kind) == [kind |-> kind, session |-> request[r].session, gen |-> request[r].gen, by |-> r]
<1>1. request[r] \in Chat!Request /\ RequestOK(r)
  BY DEF ChatInv, ChatTyped, Rooted
<1>2. request[r].at \in {"running", "stopping"} /\ request[r].session \in Sessions
  BY <1>1 DEF Chat!End, RequestOK
<1>3. q \in Chat!Request /\ q.at = "over" /\ q.session = request[r].session /\ q.gen = request[r].gen /\ q.reply = request[r].reply /\ q.joined = request[r].joined
  BY <1>1 DEF Chat!Request
<1>4. PICK kind \in {"done", "error"} :
        events' = Append(events, e(kind)) /\ (kind = "error" => "error" \in disturbed)
  BY DEF Chat!End, Chat!Emitted, Chat!May
<1>5. e(kind) \in Chat!Event
  BY <1>1, <1>2 DEF Chat!Event, Chat!Request
<1>6. /\ request' = [request EXCEPT ![r] = q]
      /\ UNCHANGED <<disturbed, sessions, starting, set, rendered, generation, newest, chat, pending, queue, screen>>
  BY DEF Chat!End, Chat!counted
<1>7. /\ Underway(r) /\ e(kind).by = r /\ e(kind).session = request[r].session
      /\ e(kind).kind = kind /\ e(kind).gen = request[r].gen /\ Final(e(kind))
  BY <1>2 DEF Underway, Final
<1> HIDE DEF q, e
<1>8. QED
  BY <1>2, <1>3, <1>4, <1>5, <1>6, <1>7, SaysInv

LEMMA RefusedKeeps == ASSUME ChatInv, NEW r \in Requests, Chat!Refused(r) PROVE ChatInv'
<1> DEFINE q == [request[r] EXCEPT !.at = "over", !.reply = "no"]
           e == [kind |-> "error", session |-> request[r].session, gen |-> 0, by |-> r]
<1>1. request[r] \in Chat!Request /\ RequestOK(r)
  BY DEF ChatInv, ChatTyped, Rooted
<1>2. request[r].at = "sent" /\ request[r].session \in Sessions
  BY <1>1 DEF Chat!Refused, RequestOK
<1>3. q \in Chat!Request /\ q.at = "over" /\ q.session = request[r].session /\ q.gen = request[r].gen /\ q.reply = "no" /\ q.joined = request[r].joined
  BY <1>1 DEF Chat!Request
<1>4. e \in Chat!Event
  BY <1>1, <1>2 DEF Chat!Event
<1>5. /\ request' = [request EXCEPT ![r] = q] /\ events' = Append(events, e)
      /\ UNCHANGED <<disturbed, sessions, starting, set, rendered, generation, newest, chat, pending, queue, screen>>
      /\ sessions[request[r].session].stage # "live" \/ "refusal" \in disturbed
  BY <1>2 DEF Chat!Refused, Chat!Emitted, Chat!counted, Chat!May, Chat!Live
<1>6. Underway(r) /\ e.by = r /\ e.session = request[r].session /\ e.kind = "error" /\ e.gen = 0 /\ Final(e)
  BY <1>2 DEF Underway, Final
<1> HIDE DEF q, e
<1>7. QED
  BY <1>2, <1>3, <1>4, <1>5, <1>6, SaysInv

(* Being told to stop changes what a request does next, and nothing else.  *)
LEMMA StoppedIs ==
  ASSUME ChatTyped, NEW S, NEW p \in Requests, NEW q, q = Chat!Stopped(S)[p]
  PROVE  /\ q \in Chat!Request /\ q.session = request[p].session /\ q.gen = request[p].gen
         /\ q.reply = request[p].reply
         /\ q = request[p] \/ (request[p].at = "running" /\ q.at = "stopping")
         /\ q.at = "running" => \A s \in S : sessions[s].active # p
<1>1. request[p] \in Chat!Request
  BY DEF ChatTyped
<1>2. q = IF request[p].at = "running" /\ \E s \in S : sessions[s].active = p
          THEN [request[p] EXCEPT !.at = "stopping"] ELSE request[p]
  BY DEF Chat!Stopped
<1>3. QED
  BY <1>1, <1>2 DEF Chat!Request

(* Sessions that are closed leave no request running.                      *)
LEMMA StopsOK ==
  ASSUME ChatTyped, NEW S, NEW p \in Requests, request'[p] = Chat!Stopped(S)[p], RequestOK(p),
         \A s \in Sessions : \/ sessions'[s] = sessions[s]
                             \/ s \in S /\ sessions'[s].stage = "closed"
                             \/ sessions[s].stage = "new" /\ sessions'[s].stage # "new"
  PROVE  RequestOK(p)'
<1>1. PICK q : q = Chat!Stopped(S)[p]
  OBVIOUS
<1>2. /\ request'[p] = q /\ q.session = request[p].session /\ q.gen = request[p].gen /\ q.reply = request[p].reply
      /\ q = request[p] \/ (request[p].at = "running" /\ q.at = "stopping")
      /\ q.at = "running" => \A s \in S : sessions[s].active # p
  BY <1>1, StoppedIs
<1>3. CASE request[p].at = "unused"
  BY <1>2, <1>3 DEF RequestOK
<1>4. CASE request[p].at # "unused"
  <2>1. PICK s \in Sessions : s = request[p].session /\ sessions[s].stage # "new"
    BY <1>4 DEF RequestOK
  <2>2. sessions'[s] = sessions[s] \/ (s \in S /\ sessions'[s].stage = "closed")
    BY <2>1
  <2>3. QED
    BY <1>2, <1>4, <2>1, <2>2 DEF RequestOK
<1>5. QED
  BY <1>3, <1>4

(* A step that stops some requests changes nothing of what they still say. *)
LEMMA StopsKeep ==
  ASSUME ChatTyped, NEW S, request' = Chat!Stopped(S)
  PROVE  /\ request' \in [Requests -> Chat!Request]
         /\ \A p \in Requests :
              /\ request'[p].session = request[p].session /\ request'[p].gen = request[p].gen
              /\ request'[p].reply = request[p].reply
              /\ request'[p] = request[p] \/ (request[p].at = "running" /\ request'[p].at = "stopping")
              /\ Underway(p)' <=> Underway(p)
<1>1. \A p \in Requests :
        /\ request'[p] \in Chat!Request
        /\ request'[p].session = request[p].session /\ request'[p].gen = request[p].gen
        /\ request'[p].reply = request[p].reply
        /\ request'[p] = request[p] \/ (request[p].at = "running" /\ request'[p].at = "stopping")
  BY StoppedIs
<1>2. request' \in [Requests -> Chat!Request]
  BY <1>1 DEF Chat!Stopped
<1>3. QED
  BY <1>1, <1>2 DEF Underway

(* The session was found. *)
LEMMA LookupKeeps == ASSUME ChatInv, NEW r \in Requests, Chat!Lookup(r) PROVE ChatInv'
<1> USE ChatConstants
<1>0. ChatTyped /\ Rooted
  BY DEF ChatInv
<1>1. RequestOK(r) /\ request[r].at = "sent" /\ request[r] \in Chat!Request
  BY <1>0 DEF Rooted, ChatTyped, Chat!Lookup
<1>2. PICK s \in Sessions : s = request[r].session /\ sessions[s].stage = "live"
  BY <1>1 DEF RequestOK, Chat!Lookup, Chat!Live
<1>3. PICK q : q = [request[r] EXCEPT !.at = "found"]
  OBVIOUS
<1>4. /\ q \in Chat!Request /\ q.at = "found" /\ q.session = s /\ q.gen = request[r].gen /\ q.reply = request[r].reply
  BY <1>1, <1>2, <1>3 DEF Chat!Request
<1>5. /\ request' = [request EXCEPT ![r] = q]
      /\ UNCHANGED <<disturbed, sessions, events, starting, set, rendered, generation, newest, chat, pending, queue, screen>>
  BY <1>3 DEF Chat!Lookup, Chat!counted
<1>6. /\ request' \in [Requests -> Chat!Request] /\ request'[r] = q
      /\ \A p \in Requests \ {r} : request'[p] = request[p]
      /\ \A p \in Requests : request'[p].session = request[p].session /\ request'[p].gen = request[p].gen
                              /\ request'[p].reply = request[p].reply
  BY <1>0, <1>2, <1>4, <1>5 DEF ChatTyped
<1>7. /\ \A p \in Requests : Tells(p)' <=> Tells(p)
      /\ \A p \in Requests : Underway(p)' <=> Underway(p)
      /\ \A p \in Requests : Unanswered(p)' <=> Unanswered(p)
      /\ \A p \in Requests : EndComes(p) => EndComes(p)'
  BY <1>1, <1>4, <1>5, <1>6 DEF Tells, Underway, Unanswered, EndComes
<1>8. ChatTyped'
  BY <1>0, <1>5, <1>6 DEF ChatTyped
<1>9. Rooted'
  <2>1. ASSUME NEW p \in Requests PROVE RequestOK(p)'
    <3>1. RequestOK(p)
      BY <1>0 DEF Rooted
    <3>2. QED
      BY <1>1, <1>2, <1>4, <1>5, <1>6, <3>1 DEF RequestOK
  <2>2. ASSUME NEW i \in DOMAIN events PROVE EventOK(i)'
    <3>1. EventOK(i) /\ events[i].by \in Requests
      BY <1>0, EventOf DEF Rooted, ChatTyped
    <3>2. events[i].by # r
      BY <1>1, <3>1 DEF EventOK
    <3>3. QED
      BY <1>5, <1>6, <3>1, <3>2 DEF EventOK
  <2>3. QED
    BY <1>0, <1>1, <1>5, <1>6, <2>1, <2>2 DEF Rooted, Empty
<1>10. Without({"batch"}) => Exchanged' /\ set.session = s
  BY <1>1, <1>2, <1>4, <1>5, <1>6 DEF ChatInv, Exchanged, Short, Fresh
<1>11. Without({"batch", "haste"}) => OneAtATime'
  BY <1>6, <1>7 DEF ChatInv, OneAtATime
<1>12. ASSUME Without({"batch", "haste"}) PROVE Speaking'
  <2>1. \A p \in Requests : ~Speaker(p)
    BY <1>1, <1>2, <1>10, <1>12 DEF Speaker, Without
  <2>2. QED
    BY <1>5, <1>12, <2>1 DEF ChatInv, Speaking, Talks
<1>13. ASSUME Without({"batch", "haste", "refusal", "loss"}) PROVE Counting'
  <2>1. Counting /\ set.session = s
    BY <1>10, <1>13 DEF ChatInv, Without
  <2>2. \A p \in Requests : request[p].at \in {"sent", "found"} => request'[p].at \in {"sent", "found"}
    BY <1>4, <1>6
  <2>3. Counts(set.session)
    BY <1>2, <2>1 DEF Counts
  <2>4. QED
    BY <1>5, <1>6, <1>7, <2>1, <2>2, <2>3 DEF Counting
<1>14. Without({"batch", "delete", "loss"}) => Belonging'
  BY <1>5, <1>6, <1>7 DEF ChatInv, Belonging
<1>15. ASSUME Without({"batch", "haste", "refusal", "loss", "error", "lateness", "disconnect"}) PROVE Progress'
  <2>1. Progress /\ set.session = s
    BY <1>10, <1>15 DEF ChatInv, Without
  <2>2. \A p \in Requests : request'[p].at = "found" => request'[p].session = set.session
    BY <1>4, <1>6, <2>1 DEF Progress
  <2>3. ASSUME NEW i \in DOMAIN events
        PROVE  /\ events[i].kind # "warning"
               /\ events[i].kind = "error" => events[i].gen = 0 /\ request'[events[i].by].gen = 0
    <3>1. events[i].by \in Requests
      BY <1>0, EventOf DEF ChatTyped
    <3>2. QED
      BY <1>6, <2>1, <3>1 DEF Progress
  <2>4. QED
    BY <1>5, <1>6, <1>7, <2>1, <2>2, <2>3 DEF Progress
<1>16. QED
  BY <1>5, <1>8, <1>9, <1>10, <1>11, <1>12, <1>13, <1>14, <1>15 DEF ChatInv, Without

(* A message that does not arrive is never answered.                       *)
LEMMA LostKeeps == ASSUME ChatInv, NEW r \in Requests, Chat!Lost(r) PROVE ChatInv'
<1> USE ChatConstants
<1>0. ChatTyped /\ Rooted
  BY DEF ChatInv
<1>1. RequestOK(r) /\ request[r].at = "sent" /\ request[r] \in Chat!Request /\ "loss" \in disturbed
  BY <1>0 DEF Rooted, ChatTyped, Chat!Lost, Chat!May
<1>2. PICK q : q = [request[r] EXCEPT !.at = "over"]
  OBVIOUS
<1>3. /\ q \in Chat!Request /\ q.at = "over" /\ q.session = request[r].session /\ q.gen = request[r].gen
      /\ q.reply = request[r].reply
  BY <1>1, <1>2 DEF Chat!Request
<1>4. /\ request' = [request EXCEPT ![r] = q]
      /\ UNCHANGED <<disturbed, sessions, events, starting, set, rendered, generation, newest, chat, pending, queue, screen>>
  BY <1>2 DEF Chat!Lost, Chat!counted
<1>5. /\ request' \in [Requests -> Chat!Request] /\ request'[r] = q
      /\ \A p \in Requests \ {r} : request'[p] = request[p]
      /\ \A p \in Requests : request'[p].session = request[p].session /\ request'[p].gen = request[p].gen
  BY <1>0, <1>3, <1>4 DEF ChatTyped
<1>6. /\ \A p \in Requests : Unanswered(p)' => Unanswered(p)
      /\ \A p \in Requests : EndComes(p) => EndComes(p)'
  BY <1>1, <1>3, <1>4, <1>5 DEF Tells, Underway, Unanswered, EndComes
<1>7. ChatTyped'
  BY <1>0, <1>4, <1>5 DEF ChatTyped
<1>8. Rooted'
  <2>1. ASSUME NEW p \in Requests PROVE RequestOK(p)'
    <3>1. RequestOK(p)
      BY <1>0 DEF Rooted
    <3>2. QED
      BY <1>1, <1>3, <1>4, <1>5, <3>1 DEF RequestOK
  <2>2. ASSUME NEW i \in DOMAIN events PROVE EventOK(i)'
    <3>1. EventOK(i) /\ events[i].by \in Requests
      BY <1>0, EventOf DEF Rooted, ChatTyped
    <3>2. events[i].by # r
      BY <1>1, <3>1 DEF EventOK
    <3>3. QED
      BY <1>4, <1>5, <3>1, <3>2 DEF EventOK
  <2>3. QED
    BY <1>0, <1>1, <1>4, <1>5, <2>1, <2>2 DEF Rooted, Empty
<1>9. Without({"batch"}) => Exchanged'
  BY <1>3, <1>4, <1>5 DEF ChatInv, Exchanged, Short, Fresh
<1>10. Without({"batch", "haste"}) => OneAtATime'
  BY <1>5, <1>6 DEF ChatInv, OneAtATime
<1>11. ASSUME Without({"batch", "haste"}) PROVE Speaking'
  <2>1. ASSUME NEW p \in Requests, Speaker(p) PROVE Speaker(p)'
    <3>1. p # r
      BY <1>1, <2>1 DEF Speaker
    <3>2. QED
      BY <1>3, <1>4, <1>5, <1>6, <2>1, <3>1 DEF Speaker, Without
  <2>2. \A p \in Requests : Talks(p) => Talks(p)'
    BY <1>4, <2>1 DEF Talks
  <2>3. QED
    BY <1>4, <1>11, <2>2 DEF ChatInv, Speaking
<1>12. QED
  BY <1>1, <1>4, <1>7, <1>8, <1>9, <1>10, <1>11 DEF ChatInv, Without

LEMMA RegisterKeeps == ASSUME ChatInv, NEW r \in Requests, Chat!Register(r) PROVE ChatInv'
<1> USE ChatConstants
<1>0. ChatTyped /\ Rooted
  BY DEF ChatInv
<1>1. RequestOK(r) /\ request[r].at = "found"
  BY <1>0 DEF Rooted, Chat!Register
<1>2. PICK s \in Sessions : s = request[r].session
  BY <1>1 DEF RequestOK
<1>3. /\ sessions' = [sessions EXCEPT ![s].gen = @ + 1, ![s].active = r]
      /\ request' = [Chat!Stopped({s}) EXCEPT ![r] = Chat!Registered(@, s)]
      /\ UNCHANGED <<disturbed, events, starting, set, rendered, generation, newest, chat, pending, queue, screen>>
  BY <1>2 DEF Chat!Register, Chat!counted
<1>4. /\ sessions[s] \in Chat!Session /\ sessions \in [Sessions -> Chat!Session]
      /\ sessions[s].gen \in Nat /\ request[r] \in Chat!Request /\ request \in [Requests -> Chat!Request]
  BY <1>0 DEF ChatTyped, Chat!Session
<1>5. /\ sessions' \in [Sessions -> Chat!Session]
      /\ \A t \in Sessions : t # s => sessions'[t] = sessions[t]
      /\ \A t \in Sessions : sessions'[t].stage = sessions[t].stage
      /\ sessions'[s].gen = sessions[s].gen + 1 /\ sessions'[s].active = r
  <2>0. PICK g \in Nat : g = sessions[s].gen + 1
    BY <1>4
  <2>1. PICK t : t = [sessions[s] EXCEPT !.gen = g, !.active = r]
    OBVIOUS
  <2>2. t \in Chat!Session /\ t.stage = sessions[s].stage /\ t.gen = g /\ t.active = r
    BY <1>4, <2>1 DEF Chat!Session
  <2>3. sessions' = [sessions EXCEPT ![s] = t]
    BY <1>3, <1>4, <2>0, <2>1
  <2>4. QED
    BY <1>4, <2>0, <2>2, <2>3
<1>6. ASSUME NEW p \in Requests \ {r}
      PROVE  /\ request'[p] = Chat!Stopped({s})[p] /\ request'[p] \in Chat!Request
             /\ request'[p].session = request[p].session /\ request'[p].gen = request[p].gen
             /\ request'[p].reply = request[p].reply
             /\ request'[p] = request[p] \/ (request[p].at = "running" /\ request'[p].at = "stopping")
             /\ request'[p].at = "running" => sessions[s].active # p
  <2>1. request'[p] = Chat!Stopped({s})[p]
    BY <1>3 DEF Chat!Stopped
  <2>2. QED
    BY <1>0, <2>1, StoppedIs
<1>7. /\ request'[r].at = "running" /\ request'[r].session = s /\ request'[r].gen = sessions[s].gen + 1
      /\ request'[r].reply = "yes" /\ request'[r] \in Chat!Request
      /\ sessions[s].stage = "live" \/ request'[r].joined = "closed"
  <2>1. PICK f : f = Chat!Stopped({s})
    OBVIOUS
  <2>2. r \in DOMAIN f /\ f[r] = request[r]
    BY <1>1, <2>1 DEF Chat!Stopped
  <2>3. PICK g \in Nat : g = sessions[s].gen + 1
    BY <1>4
  <2>4. PICK d \in {"live", "closed"} : d = sessions[s].stage
    BY <1>1, <1>2, <1>4 DEF RequestOK, Chat!Session
  <2>5. request'[r] = [request[r] EXCEPT !.at = "running", !.gen = g, !.reply = "yes", !.joined = d]
    BY <1>3, <2>1, <2>2, <2>3, <2>4 DEF Chat!Registered
  <2>6. QED
    BY <1>2, <1>4, <2>3, <2>4, <2>5 DEF Chat!Request
<1>8. ChatTyped'
  <2>1. request' \in [Requests -> Chat!Request]
    <3>1. \A p \in Requests : request'[p] \in Chat!Request
      BY <1>6, <1>7
    <3>2. QED
      BY <1>3, <3>1 DEF Chat!Stopped
  <2>2. QED
    BY <1>0, <1>3, <1>5, <2>1 DEF ChatTyped
<1>9. \A i \in DOMAIN events : events[i].by \in Requests \ {r} /\ EventOK(i)
  <2> SUFFICES ASSUME NEW i \in DOMAIN events PROVE events[i].by \in Requests \ {r} /\ EventOK(i)
    OBVIOUS
  <2>1. EventOK(i) /\ events[i].by \in Requests
    BY <1>0, EventOf DEF Rooted, ChatTyped
  <2>2. QED
    BY <1>1, <2>1 DEF EventOK
<1>10. /\ \A p \in Requests : Tells(p)' <=> Tells(p)
       /\ \A p \in Requests : Underway(p)' <=> Underway(p)
       /\ \A p \in Requests : Unanswered(p)' <=> Unanswered(p)
       /\ \A p \in Requests : EndComes(p) => EndComes(p)'
       /\ \A p \in Requests : request'[p].session = request[p].session
       /\ ~Tells(r) /\ Unanswered(r) /\ EndComes(r)'
  <2>1. \A p \in Requests : Tells(p)' <=> Tells(p)
    BY <1>3 DEF Tells
  <2>2. \A p \in Requests : Underway(p)' <=> Underway(p)
    BY <1>1, <1>6, <1>7 DEF Underway
  <2>3. Unanswered(r) /\ Unanswered(r)' /\ EndComes(r)' /\ ~Tells(r)
    BY <1>1, <1>7, <1>9 DEF Unanswered, Underway, EndComes, Tells
  <2>4. ASSUME NEW p \in Requests, EndComes(p) PROVE EndComes(p)'
    <3>1. CASE p = r
      BY <2>3, <3>1
    <3>2. CASE p # r
      <4>1. request[p].at \in {"running", "stopping"} => request'[p].at \in {"running", "stopping"}
        BY <1>6, <3>2
      <4>2. QED
        BY <1>3, <2>4, <4>1 DEF EndComes
    <3>3. QED
      BY <3>1, <3>2
  <2>5. \A p \in Requests : Unanswered(p)' <=> Unanswered(p)
    BY <1>6, <2>1, <2>2, <2>3 DEF Unanswered
  <2>6. QED
    BY <1>2, <1>6, <1>7, <2>1, <2>2, <2>3, <2>4, <2>5
<1>11. Rooted'
  <2>1. ASSUME NEW p \in Requests PROVE RequestOK(p)'
    <3>1. CASE p = r
      <4>1. /\ request'[r].at = "running" /\ request'[r].gen > 0 /\ sessions'[s].active = r
            /\ sessions'[s].stage = sessions[s].stage /\ sessions[s].stage # "new"
        BY <1>1, <1>2, <1>4, <1>5, <1>7 DEF RequestOK
      <4>2. QED
        BY <1>2, <1>7, <3>1, <4>1 DEF RequestOK
    <3>2. CASE p # r /\ request[p].at = "unused"
      BY <1>0, <1>6, <3>2 DEF Rooted, RequestOK
    <3>3. CASE p # r /\ request[p].at # "unused"
      <4>1. RequestOK(p) /\ request[p].session \in Sessions
        BY <1>0, <3>3 DEF Rooted, RequestOK
      <4>2. QED
        BY <1>5, <1>6, <3>3, <4>1 DEF RequestOK
    <3>4. QED
      BY <3>1, <3>2, <3>3
  <2>2. ASSUME NEW i \in DOMAIN events PROVE EventOK(i)'
    <3>1. PICK p \in Requests \ {r} : p = events[i].by
      BY <1>9
    <3>2. /\ request'[p].session = request[p].session /\ request'[p].gen = request[p].gen
          /\ request[p].at \in {"running", "stopping"} => request'[p].at \in {"running", "stopping"}
          /\ request[p].at = "over" => request'[p].at = "over"
      BY <1>6
    <3>3. EventOK(i)
      BY <1>9
    <3>4. QED
      BY <1>3, <3>1, <3>2, <3>3 DEF EventOK
  <2>4. set.session \in Sessions \cup {NoSession} /\ rendered.session \in Sessions \cup {NoSession}
        /\ starting \in Sessions \cup {NoSession}
    BY <1>0 DEF ChatTyped, Chat!UI
  <2>5. set.session # NoSession
    BY <1>0, <1>1 DEF Rooted
  <2>6. starting # NoSession =>
          /\ sessions'[starting].stage # "new" /\ starting \notin {set.session, rendered.session}
          /\ \A p \in Requests : request'[p].session # starting
    BY <1>0, <1>5, <1>10, <2>4 DEF Rooted, Empty
  <2>7. \A t \in {set.session, rendered.session} \ {NoSession} : sessions'[t].stage # "new"
    BY <1>0, <1>5, <2>4 DEF Rooted
  <2>8. set.session # rendered.session => \A p \in Requests : request'[p].session # set.session
    BY <1>0, <1>10, <2>4, <2>5 DEF Rooted, Empty
  <2>9. QED
    BY <1>3, <2>1, <2>2, <2>5, <2>6, <2>7, <2>8 DEF Rooted, Empty
<1>12. ASSUME Without({"batch"}) PROVE Exchanged'
  <2>1. Exchanged
    BY <1>12 DEF ChatInv
  <2>2. \A p \in Requests : request'[p].at \in {"sent", "found"} => request'[p].at = request[p].at
    BY <1>6, <1>7
  <2>3. \A p \in Requests : request[p].at \in {"sent", "found"} => request[p].session \in Sessions
    BY <1>0 DEF Rooted, RequestOK
  <2>4. set.session \in Sessions
    BY <1>0, <1>1 DEF Rooted, ChatTyped, Chat!UI
  <2>5. starting # NoSession => sessions'[set.session].stage # "live"
    BY <1>5, <2>1, <2>4 DEF Exchanged
  <2>6. ASSUME NEW p \in Requests, request'[p].at \in {"sent", "found"},
               sessions'[request'[p].session].stage = "live"
        PROVE  request'[p].session = set.session
    BY <1>5, <1>10, <2>1, <2>2, <2>3, <2>6 DEF Exchanged
  <2>7. QED
    BY <1>3, <2>1, <2>4, <2>5, <2>6, ChatConstants DEF Exchanged, Short, Fresh
<1>13. Without({"batch", "haste"}) => OneAtATime'
  BY <1>10 DEF ChatInv, OneAtATime
<1>14. ASSUME Without({"batch", "haste"}) PROVE Speaking'
  <2>0. set.session \in Sessions
    BY <1>0, <1>1 DEF Rooted, ChatTyped, Chat!UI
  <2>1. ASSUME NEW p \in Requests, Speaker(p) PROVE Speaker(p)'
    <3>1. p # r /\ s # set.session
      BY <1>1, <1>2, <2>1 DEF Speaker
    <3>2. request'[p].at \in {"running", "stopping", "over"} /\ request'[p].gen > 0
      BY <1>6, <2>1, <3>1 DEF Speaker
    <3>3. ASSUME NEW q \in Requests \ {p}, request'[q].session = set.session
          PROVE  /\ request'[q].at \notin {"found", "running", "stopping"}
                 /\ request'[q].at = "sent" => sessions'[set.session].stage # "live"
                 /\ \A i \in DOMAIN events : events[i].by = q => events[i].kind # "chunk"
      <4>1. q # r /\ request[q].session = set.session
        BY <1>7, <1>10, <3>1, <3>3
      <4>2. request'[q] = request[q]
        BY <1>6, <2>1, <4>1 DEF Speaker
      <4>3. QED
        BY <1>5, <2>0, <2>1, <4>1, <4>2 DEF Speaker
    <3>4. sessions'[set.session].stage = "live" \/ Without({"disconnect"}) =>
            EndComes(p)' /\ request'[p].gen >= generation
      BY <1>5, <1>6, <1>10, <2>0, <2>1, <3>1 DEF Speaker
    <3>5. QED
      BY <1>3, <1>10, <2>1, <3>2, <3>3, <3>4 DEF Speaker, Without
  <2>2. \A p \in Requests : Talks(p) => Talks(p)'
    BY <1>3, <2>1 DEF Talks
  <2>3. QED
    BY <1>3, <1>14, <2>2 DEF ChatInv, Speaking
<1>15. ASSUME Without({"batch", "haste", "refusal", "loss"}) PROVE Counting'
  <2>1. Counting /\ generation \in Nat /\ set.session \in Sessions
    BY <1>0, <1>1, <1>15 DEF ChatInv, ChatTyped, Rooted, Chat!UI
  <2>2. CASE set.session = s
    <3>1. generation <= sessions'[s].gen
      BY <1>1, <1>2, <1>4, <1>5, <2>1, <2>2 DEF Counting, Counts
    <3>2. ASSUME NEW p \in Requests, request[p].session = s, Unanswered(p)
          PROVE  request'[p].gen = 0 \/ request'[p].gen >= generation
      <4>1. CASE p = r
        BY <1>5, <1>7, <3>1, <4>1
      <4>2. CASE p # r
        BY <1>6, <2>1, <2>2, <3>2, <4>2 DEF Counting
      <4>3. QED
        BY <4>1, <4>2
    <3>3. QED
      BY <1>3, <1>10, <2>2, <3>1, <3>2 DEF Counting
  <2>3. CASE set.session # s
    <3>1. sessions'[set.session] = sessions[set.session]
      BY <1>5, <2>1, <2>3
    <3>2. \A p \in Requests : request[p].session = set.session =>
            /\ p # r /\ request'[p].gen = request[p].gen
            /\ request'[p].at = "found" <=> request[p].at = "found"
            /\ request'[p].at \in {"sent", "found"} <=> request[p].at \in {"sent", "found"}
      BY <1>2, <1>6, <2>3
    <3>3. Counts(set.session)' => Counts(set.session)
      BY <1>3, <1>10, <3>1, <3>2 DEF Counts
    <3>4. QED
      BY <1>3, <1>10, <2>1, <3>1, <3>2, <3>3 DEF Counting
  <2>4. QED
    BY <2>2, <2>3
<1>16. Without({"batch", "delete", "loss"}) => Belonging'
  BY <1>3, <1>10 DEF ChatInv, Belonging
<1>17. ASSUME Without({"batch", "haste", "refusal", "loss", "error", "lateness", "disconnect"}) PROVE Progress'
  <2>1. Progress
    BY <1>17 DEF ChatInv
  <2>2. set.session = s
    BY <1>1, <1>2, <2>1 DEF Progress
  <2>3. ASSUME NEW i \in DOMAIN events
        PROVE  /\ events[i].kind # "warning"
               /\ events[i].kind = "error" => events[i].gen = 0 /\ request'[events[i].by].gen = 0
    BY <1>6, <1>9, <2>1, <2>3 DEF Progress
  <2>4. \A p \in Requests : request'[p].reply = "yes" => request'[p].session = s /\ EndComes(p)'
    BY <1>6, <1>7, <1>10, <2>1, <2>2 DEF Progress
  <2>5. set.streaming => request'[r].session = s /\ request'[r].gen > 0 /\ EndComes(r)'
    BY <1>4, <1>7, <1>10
  <2>6. \A p \in Requests : request'[p].at = "found" => request'[p].session = s
    BY <1>6, <1>7, <2>1, <2>2 DEF Progress
  <2>7. QED
    BY <1>3, <2>1, <2>2, <2>3, <2>4, <2>5, <2>6 DEF Progress
<1>18. QED
  BY <1>3, <1>8, <1>11, <1>12, <1>13, <1>14, <1>15, <1>16, <1>17 DEF ChatInv, Without

LEMMA DisconnectKeeps == ASSUME ChatInv, Chat!Disconnect PROVE ChatInv'
<1> USE ChatConstants
<1>0. ChatTyped /\ Rooted
  BY DEF ChatInv
<1> DEFINE live == {s \in Sessions : sessions[s].stage = "live"}
<1>1. /\ "disconnect" \in disturbed /\ sessions' = Chat!Closed(live) /\ request' = Chat!Stopped(live)
      /\ events' = <<>>
      /\ UNCHANGED <<disturbed, starting, set, rendered, generation, newest, chat, pending, queue, screen>>
  BY DEF Chat!Disconnect, Chat!May, Chat!counted, Chat!Live
<1>2. /\ sessions \in [Sessions -> Chat!Session] /\ sessions' \in [Sessions -> Chat!Session]
      /\ \A s \in Sessions : sessions'[s] = sessions[s] \/ (s \in live /\ sessions'[s].stage = "closed")
      /\ \A s \in Sessions : sessions'[s].stage # "live"
      /\ \A s \in Sessions : sessions'[s].gen = sessions[s].gen
      /\ \A s \in Sessions : sessions'[s].stage = "new" <=> sessions[s].stage = "new"
  <2>1. sessions \in [Sessions -> Chat!Session]
    BY <1>0 DEF ChatTyped
  <2>2. \A s \in Sessions : sessions'[s] = IF s \in live THEN [sessions[s] EXCEPT !.stage = "closed"] ELSE sessions[s]
    BY <1>1 DEF Chat!Closed
  <2>3. \A s \in Sessions : sessions[s] \in Chat!Session /\ sessions'[s] \in Chat!Session
    BY <2>1, <2>2 DEF Chat!Session
  <2>4. sessions' \in [Sessions -> Chat!Session]
    BY <1>1, <2>3 DEF Chat!Closed
  <2>5. \A s \in Sessions : sessions'[s].gen = sessions[s].gen /\ (s \in live => sessions'[s].stage = "closed")
    BY <2>2, <2>3 DEF Chat!Session
  <2>6. QED
    BY <2>1, <2>2, <2>3, <2>4, <2>5
<1>3. /\ request' \in [Requests -> Chat!Request]
      /\ \A p \in Requests :
           /\ request'[p].session = request[p].session /\ request'[p].gen = request[p].gen
           /\ request'[p].reply = request[p].reply
           /\ request'[p] = request[p] \/ (request[p].at = "running" /\ request'[p].at = "stopping")
           /\ Underway(p)' <=> Underway(p)
  BY <1>0, <1>1, StopsKeep
<1>4. ASSUME NEW p \in Requests PROVE RequestOK(p)'
  <2>1. request'[p] = Chat!Stopped(live)[p]
    BY <1>1
  <2>2. RequestOK(p)
    BY <1>0 DEF Rooted
  <2> HIDE DEF live
  <2>3. QED
    BY <1>0, <1>2, <2>1, <2>2, StopsOK
<1> HIDE DEF live
<1>5. \A p \in Requests : ~Tells(p)' /\ (Unanswered(p)' => Unanswered(p))
  BY <1>1, <1>3 DEF Tells, Unanswered
<1>6. ChatTyped'
  BY <1>0, <1>1, <1>2, <1>3 DEF ChatTyped
<1>7. /\ set.session \in Sessions \cup {NoSession} /\ rendered.session \in Sessions \cup {NoSession}
      /\ starting \in Sessions \cup {NoSession}
  BY <1>0 DEF ChatTyped, Chat!UI
<1>8. Rooted'
  <2>1. DOMAIN events' = {}
    BY <1>1
  <2>2. starting # NoSession =>
          /\ sessions'[starting].stage # "new" /\ starting \notin {set.session, rendered.session}
          /\ \A p \in Requests : request'[p].session # starting
    BY <1>0, <1>2, <1>3, <1>7 DEF Rooted, Empty
  <2>3. \A s \in {set.session, rendered.session} \ {NoSession} : sessions'[s].stage # "new"
    BY <1>0, <1>2, <1>7 DEF Rooted
  <2>4. set.session # rendered.session =>
          (\A p \in Requests : request'[p].session # set.session) \/ set.session = NoSession
    BY <1>0, <1>3, <1>7 DEF Rooted, Empty
  <2>5. set.session = NoSession => rendered.session = NoSession /\ \A p \in Requests : request'[p].at = "unused"
    BY <1>0, <1>3 DEF Rooted
  <2>6. QED
    BY <1>1, <1>4, <2>1, <2>2, <2>3, <2>4, <2>5 DEF Rooted, Empty
<1>9. ASSUME Without({"batch"}) PROVE Exchanged'
  <2>1. Exchanged
    BY <1>9 DEF ChatInv
  <2>2. starting # NoSession /\ set.session # NoSession => sessions'[set.session].stage # "live"
    BY <1>2, <1>7
  <2>3. ASSUME NEW p \in Requests, request'[p].at \in {"sent", "found"}
        PROVE  sessions'[request'[p].session].stage # "live"
    <3>1. request'[p].session \in Sessions
      BY <1>4, <2>3 DEF RequestOK
    <3>2. QED
      BY <1>2, <3>1
  <2>4. QED
    BY <1>1, <2>1, <2>2, <2>3 DEF Exchanged, Short, Fresh
<1>10. Without({"batch", "haste"}) => OneAtATime'
  BY <1>3, <1>5 DEF ChatInv, OneAtATime
<1>11. ASSUME NEW p \in Requests, Speaker(p) PROVE Speaker(p)'
  <2>1. set.session \in Sessions
    BY <1>0, <1>7, <1>11 DEF Speaker, Rooted
  <2>2. sessions'[set.session].stage # "live" /\ ~Without({"disconnect"})
    BY <1>1, <1>2, <2>1 DEF Without
  <2>3. request'[p].at \in {"running", "stopping", "over"} /\ request'[p].session = set.session /\ request'[p].gen > 0
    BY <1>3, <1>11 DEF Speaker
  <2>4. ASSUME NEW q \in Requests \ {p}, request'[q].session = set.session
        PROVE  request'[q].at \notin {"found", "running", "stopping"}
    BY <1>3, <1>11, <2>4 DEF Speaker
  <2>5. \A q \in Requests : \A i \in DOMAIN events' : events'[i].by = q => events'[i].kind # "chunk"
    BY <1>1
  <2>6. QED
    BY <1>1, <2>2, <2>3, <2>4, <2>5 DEF Speaker, Without
<1>12. ASSUME Without({"batch", "haste"}) PROVE Speaking'
  <2>1. \A p \in Requests : Talks(p) => Talks(p)'
    BY <1>1, <1>11 DEF Talks
  <2>2. QED
    BY <1>1, <1>12, <2>1 DEF ChatInv, Speaking
<1>13. ASSUME Without({"batch", "haste", "refusal", "loss"}) PROVE Counting'
  <2>1. Counting
    BY <1>13 DEF ChatInv
  <2>2. set.session # NoSession =>
          sessions'[set.session].stage # "live" /\ sessions'[set.session].gen = sessions[set.session].gen
    BY <1>2, <1>7
  <2>3. \A p \in Requests : /\ request'[p].at = "found" <=> request[p].at = "found"
                            /\ request'[p].at \in {"sent", "found"} <=> request[p].at \in {"sent", "found"}
    BY <1>3
  <2>4. set.session # NoSession /\ Counts(set.session)' => Counts(set.session)
    BY <1>1, <1>3, <2>2, <2>3 DEF Counts
  <2>5. QED
    BY <1>1, <1>3, <1>5, <2>1, <2>2, <2>3, <2>4 DEF Counting
<1>14. Without({"batch", "delete", "loss"}) => Belonging'
  BY <1>1, <1>3, <1>5 DEF ChatInv, Belonging
<1>15. QED
  BY <1>1, <1>6, <1>8, <1>9, <1>10, <1>12, <1>13, <1>14 DEF ChatInv, Without

LEMMA OpenKeeps == ASSUME ChatInv, NEW s \in Sessions, NEW asks \in BOOLEAN, Chat!Open(s, asks) PROVE ChatInv'
<1> USE ChatConstants
<1>0. ChatTyped /\ Rooted
  BY DEF ChatInv
<1>1. /\ set = rendered /\ queue = <<>> /\ set.session = NoSession /\ starting = NoSession /\ sessions[s].stage = "new"
      /\ sessions' = [sessions EXCEPT ![s].stage = "live"] /\ starting' = s /\ pending' \in BOOLEAN
      /\ UNCHANGED <<disturbed, request, events, set, rendered, generation, newest, chat, queue, screen>>
  BY DEF Chat!Open, Chat!Rendered, Chat!counted
<1>2. \A p \in Requests : request[p] = Chat!Unsent /\ request[p].at = "unused" /\ request[p].session = NoSession
  BY <1>0, <1>1 DEF Rooted, RequestOK, Chat!Unsent
<1>3. DOMAIN events = {}
  <2>1. ASSUME NEW i \in DOMAIN events PROVE FALSE
    BY <1>0, <1>2, EventOf DEF Rooted, EventOK, ChatTyped
  <2>2. QED
    BY <2>1
<1>4. sessions' \in [Sessions -> Chat!Session] /\ sessions'[s].stage = "live"
  BY <1>0, <1>1 DEF ChatTyped, Chat!Session
<1>5. ChatTyped'
  BY <1>0, <1>1, <1>4 DEF ChatTyped
<1>6. Rooted'
  <2>1. \A p \in Requests : RequestOK(p)'
    BY <1>1, <1>2 DEF RequestOK, Chat!Unsent
  <2>2. QED
    BY <1>1, <1>2, <1>3, <1>4, <2>1 DEF Rooted, Empty
<1>7. Without({"batch"}) => Exchanged'
  BY <1>1, <1>2 DEF ChatInv, Exchanged, Short, Fresh
<1>8. \A p \in Requests : /\ Unanswered(p)' <=> Unanswered(p)
                          /\ Underway(p)' <=> Underway(p)
                          /\ Tells(p)' <=> Tells(p)
                          /\ EndComes(p)' <=> EndComes(p)
  BY <1>1 DEF Unanswered, Underway, Tells, EndComes
<1>9. Without({"batch", "haste"}) => OneAtATime'
  BY <1>1, <1>8 DEF ChatInv, OneAtATime
<1>10. ASSUME Without({"batch", "haste"}) PROVE Speaking'
  <2>1. \A p \in Requests : ~Talks(p)
    BY <1>2 DEF Talks, Speaker
  <2>2. QED
    BY <1>1, <1>10, <2>1 DEF ChatInv, Speaking
<1>11. Without({"batch", "haste", "refusal", "loss"}) => Counting'
  BY <1>1, <1>8 DEF ChatInv, Counting, Counts
<1>12. Without({"batch", "delete", "loss"}) => Belonging'
  BY <1>1, <1>8 DEF ChatInv, Belonging
<1>13. Without({"batch", "haste", "refusal", "loss", "error", "lateness", "disconnect"}) => Progress'
  BY <1>1, <1>8 DEF ChatInv, Progress
<1>14. QED
  BY <1>1, <1>5, <1>6, <1>7, <1>9, <1>10, <1>11, <1>12, <1>13 DEF ChatInv, Without

LEMMA ClearSessionKeeps == ASSUME ChatInv, NEW s \in Sessions, Chat!ClearSession(s) PROVE ChatInv'
<1> USE ChatConstants
<1>0. ChatTyped /\ Rooted
  BY DEF ChatInv
<1>1. PICK old : old = rendered.session
  OBVIOUS
<1> DEFINE stop == {old} \cap Chat!Live
<1>2. /\ Without({"batch"}) => set = rendered /\ queue = <<>>
      /\ old # NoSession /\ starting = NoSession /\ sessions[s].stage = "new"
      /\ sessions' = [Chat!Closed({old}) EXCEPT ![s].stage = "live"] /\ request' = Chat!Stopped(stop)
      /\ starting' = s
      /\ UNCHANGED <<disturbed, events, set, rendered, generation, newest, chat, pending, queue, screen>>
  BY <1>1 DEF Chat!ClearSession, Chat!Turn, Chat!Rendered, Chat!May, Chat!counted, Without
<1>3. /\ set.session \in Sessions \cup {NoSession} /\ old \in Sessions
      /\ s # old /\ s # set.session /\ set.session # NoSession
  BY <1>0, <1>1, <1>2 DEF ChatTyped, Chat!UI, Rooted
<1>4. /\ sessions \in [Sessions -> Chat!Session] /\ sessions' \in [Sessions -> Chat!Session]
      /\ sessions'[s].stage = "live" /\ sessions'[old].stage = "closed"
      /\ sessions'[old].gen = sessions[old].gen
      /\ sessions'[old] = sessions[old] \/ old \in stop
      /\ \A t \in Sessions \ {s, old} : sessions'[t] = sessions[t]
  <2>1. sessions \in [Sessions -> Chat!Session]
    BY <1>0 DEF ChatTyped
  <2>2. PICK f : f = Chat!Closed({old})
    OBVIOUS
  <2>3. /\ DOMAIN f = Sessions /\ \A t \in Sessions \ {old} : f[t] = sessions[t]
        /\ f[old] = [sessions[old] EXCEPT !.stage = "closed"]
    BY <1>3, <2>2 DEF Chat!Closed
  <2>4. f[old] \in Chat!Session /\ f[old].stage = "closed" /\ f[old].gen = sessions[old].gen
    BY <1>3, <2>1, <2>3 DEF Chat!Session
  <2>9. sessions[old] = f[old] \/ old \in stop
    <3>1. sessions[old].stage # "new"
      BY <1>0, <1>1, <1>3 DEF Rooted
    <3>2. sessions[old].stage = "closed" => f[old] = sessions[old]
      BY <1>3, <2>1, <2>3 DEF Chat!Session
    <3>3. QED
      BY <1>3, <2>1, <3>1, <3>2 DEF Chat!Live, Chat!Session
  <2>5. PICK g : g = [sessions[s] EXCEPT !.stage = "live"]
    OBVIOUS
  <2>6. g \in Chat!Session /\ g.stage = "live"
    BY <2>1, <2>5 DEF Chat!Session
  <2>7. sessions' = [f EXCEPT ![s] = g]
    BY <1>2, <1>3, <2>2, <2>3, <2>5
  <2>8. QED
    BY <1>3, <2>1, <2>3, <2>4, <2>6, <2>7, <2>9
<1> HIDE DEF stop
<1>5. /\ request' \in [Requests -> Chat!Request]
      /\ \A p \in Requests :
           /\ request'[p].session = request[p].session /\ request'[p].gen = request[p].gen
           /\ request'[p].reply = request[p].reply
           /\ request'[p] = request[p] \/ (request[p].at = "running" /\ request'[p].at = "stopping")
           /\ Underway(p)' <=> Underway(p)
  BY <1>0, <1>2, StopsKeep
<1>6. ChatTyped'
  BY <1>0, <1>2, <1>4, <1>5 DEF ChatTyped
<1>7. \A p \in Requests : /\ Tells(p)' <=> Tells(p)
                          /\ Unanswered(p)' <=> Unanswered(p)
                          /\ EndComes(p) => EndComes(p)'
  BY <1>2, <1>5 DEF Tells, Unanswered, EndComes
<1>8. \A p \in Requests : request[p].session # s
  <2>1. \A p \in Requests : RequestOK(p)
    BY <1>0 DEF Rooted
  <2>2. QED
    BY <1>2, <2>1 DEF RequestOK, Chat!Unsent
<1>9. Rooted'
  <2>1. ASSUME NEW p \in Requests PROVE RequestOK(p)'
    <3>1. request'[p] = Chat!Stopped(stop)[p] /\ RequestOK(p)
      BY <1>0, <1>2 DEF Rooted
    <3>2. \A t \in Sessions : \/ sessions'[t] = sessions[t]
                              \/ t \in stop /\ sessions'[t].stage = "closed"
                              \/ sessions[t].stage = "new" /\ sessions'[t].stage # "new"
      BY <1>2, <1>4
    <3>3. QED
      BY <1>0, <3>1, <3>2, StopsOK
  <2>2. ASSUME NEW i \in DOMAIN events PROVE EventOK(i)'
    <3>1. events[i].by \in Requests /\ EventOK(i)
      BY <1>0, EventOf DEF ChatTyped, Rooted
    <3>2. PICK p \in Requests : p = events[i].by
      BY <3>1
    <3>3. /\ request'[p].session = request[p].session /\ request'[p].gen = request[p].gen
          /\ request[p].at \in {"running", "stopping"} => request'[p].at \in {"running", "stopping"}
          /\ request[p].at = "over" => request'[p].at = "over"
      BY <1>5
    <3>4. QED
      BY <1>2, <3>1, <3>2, <3>3 DEF EventOK
  <2>3. /\ sessions'[s].stage # "new" /\ s \notin {set.session, rendered.session}
        /\ \A p \in Requests : request'[p].session # s
    BY <1>1, <1>3, <1>4, <1>5, <1>8
  <2>4. \A t \in {set.session, rendered.session} \ {NoSession} : sessions'[t].stage # "new"
    BY <1>0, <1>1, <1>3, <1>4 DEF Rooted
  <2>5. set.session # rendered.session => \A p \in Requests : request'[p].session # set.session
    BY <1>0, <1>3, <1>5 DEF Rooted, Empty
  <2>6. QED
    BY <1>2, <1>3, <2>1, <2>2, <2>3, <2>4, <2>5 DEF Rooted, Empty
<1>10. ASSUME Without({"batch"}) PROVE Exchanged' /\ set.session = old
  <2>1. Exchanged /\ set.session = old
    BY <1>1, <1>2, <1>10 DEF ChatInv
  <2>2. ASSUME NEW p \in Requests, request'[p].at \in {"sent", "found"},
               sessions'[request'[p].session].stage = "live"
        PROVE  request'[p].session = set.session
    <3>1. PICK t \in Sessions : t = request[p].session
      BY <1>0, <1>5, <2>2 DEF Rooted, RequestOK
    <3>2. t # s /\ t # old
      BY <1>4, <1>5, <1>8, <2>2, <3>1
    <3>3. sessions[t].stage = "live" /\ request[p].at \in {"sent", "found"}
      BY <1>4, <1>5, <2>2, <3>1, <3>2
    <3>4. QED
      BY <1>5, <2>1, <3>1, <3>3 DEF Exchanged
  <2>3. sessions'[set.session].stage # "live"
    BY <1>4, <2>1
  <2>4. QED
    BY <1>2, <1>3, <2>1, <2>2, <2>3 DEF Exchanged, Short, Fresh
<1>11. Without({"batch", "haste"}) => OneAtATime'
  BY <1>5, <1>7 DEF ChatInv, OneAtATime
<1>12. ASSUME NEW p \in Requests, Without({"batch"}), Speaker(p) PROVE Speaker(p)'
  <2>1. sessions'[set.session].stage # "live"
    BY <1>4, <1>10, <1>12
  <2>2. request'[p].at \in {"running", "stopping", "over"} /\ request'[p].session = set.session /\ request'[p].gen > 0
    BY <1>5, <1>12 DEF Speaker
  <2>3. ASSUME NEW q \in Requests \ {p}, request'[q].session = set.session
        PROVE  request'[q].at \notin {"found", "running", "stopping"}
    BY <1>5, <1>12, <2>3 DEF Speaker
  <2>4. \A q \in Requests \ {p} : request'[q].session = set.session =>
          \A i \in DOMAIN events : events[i].by = q => events[i].kind # "chunk"
    BY <1>5, <1>12 DEF Speaker
  <2>5. Without({"disconnect"}) => EndComes(p)' /\ request'[p].gen >= generation
    BY <1>5, <1>7, <1>12 DEF Speaker
  <2>6. QED
    BY <1>2, <2>1, <2>2, <2>3, <2>4, <2>5 DEF Speaker, Without
<1>13. ASSUME Without({"batch", "haste"}) PROVE Speaking'
  <2>1. \A p \in Requests : Talks(p) => Talks(p)'
    BY <1>2, <1>12, <1>13 DEF Talks, Without
  <2>2. QED
    BY <1>2, <1>13, <2>1 DEF ChatInv, Speaking
<1>14. ASSUME Without({"batch", "haste", "refusal", "loss"}) PROVE Counting'
  <2>1. /\ Counting /\ sessions'[set.session].stage # "live"
        /\ sessions'[set.session].gen = sessions[set.session].gen
    BY <1>4, <1>10, <1>14 DEF ChatInv, Without
  <2>2. \A p \in Requests : /\ request'[p].at = "found" <=> request[p].at = "found"
                            /\ request'[p].at \in {"sent", "found"} <=> request[p].at \in {"sent", "found"}
    BY <1>5
  <2>3. Counts(set.session)' => Counts(set.session)
    BY <1>2, <1>5, <2>1, <2>2 DEF Counts
  <2>4. QED
    BY <1>2, <1>5, <1>7, <2>1, <2>2, <2>3 DEF Counting
<1>15. Without({"batch", "delete", "loss"}) => Belonging'
  BY <1>2, <1>5, <1>7 DEF ChatInv, Belonging
<1>16. ASSUME Without({"batch", "haste", "refusal", "loss", "error", "lateness", "disconnect"}) PROVE Progress'
  <2>1. Progress
    BY <1>16 DEF ChatInv
  <2>2. ASSUME NEW i \in DOMAIN events
        PROVE  /\ events[i].kind # "warning"
               /\ events[i].kind = "error" => events[i].gen = 0 /\ request'[events[i].by].gen = 0
    BY <1>0, <1>5, <2>1, <2>2, EventOf DEF Progress, ChatTyped
  <2>3. \A p \in Requests : request'[p].at = "found" => request'[p].session = set.session
    BY <1>5, <2>1 DEF Progress
  <2>4. QED
    BY <1>2, <1>5, <1>7, <2>1, <2>2, <2>3 DEF Progress
<1>17. QED
  BY <1>2, <1>6, <1>9, <1>10, <1>11, <1>13, <1>14, <1>15, <1>16 DEF ChatInv, Without

LEMMA UpdateTyped == \A u \in Updates : u \in Chat!Update /\ (u.op \in {"chunk", "error"} => u.by \in Requests)
BY DEF Updates, Chat!Update, Chat!Reset, Chat!Chunk, Chat!Error, Chat!Finish

LEMMA UpdatesTyped ==
  /\ Chat!Reset \in Updates /\ \A n \in Nat : Chat!Finish(n) \in Updates
  /\ \A r \in Requests : Chat!Chunk(r) \in Updates /\ Chat!Error(r) \in Updates
BY DEF Updates

LEMMA ShowReset ==
  ASSUME screen \in Chat!Screen, Numbered(screen), queue = <<>>, Chat!Show(Chat!Reset, TRUE)
  PROVE  /\ screen' \in Chat!Screen /\ Numbered(screen') /\ screen'.bubble = 0 /\ screen'.last = screen.last /\ screen'.bubble <= screen'.last
         /\ queue' \in Seq(Updates) /\ queue' \in {<<>>, <<Chat!Reset>>} /\ Len(queue') <= 1
         /\ \A r \in Requests : queue' # <<Chat!Chunk(r)>>
         /\ \A i \in DOMAIN queue' : queue'[i].op = "reset"
         /\ \A i \in DOMAIN screen'.messages :
              /\ queue' = <<Chat!Reset>>
              /\ i \in DOMAIN screen.messages /\ screen'.messages[i] = screen.messages[i]
<1>0. Chat!Reset.op = "reset" /\ \A r \in Requests : Chat!Chunk(r) # Chat!Reset
  BY DEF Chat!Reset, Chat!Chunk
<1>1. PICK scr : scr = Chat!Updated(screen, Chat!Reset)
  OBVIOUS
<1>2. scr = [screen EXCEPT !.messages = <<>>]
  BY <1>1 DEF Chat!Updated, Chat!Reset
<1>3. CASE screen' = [scr EXCEPT !.bubble = 0] /\ queue' = queue
  <2>1. <<>> \in Seq(Chat!Message)
    OBVIOUS
  <2>2. /\ screen' \in Chat!Screen /\ screen'.bubble = 0 /\ screen'.last = screen.last /\ screen'.bubble <= screen'.last
        /\ screen'.messages = <<>>
    <3>1. PICK l \in Nat : l = screen.last
      BY DEF Chat!Screen
    <3>2. screen' \in Chat!Screen /\ screen'.bubble = 0 /\ screen'.last = l /\ screen'.messages = <<>>
      BY <1>2, <1>3, <2>1, <3>1 DEF Chat!Screen
    <3>3. QED
      BY <3>1, <3>2
  <2>3. DOMAIN screen'.messages = {}
    BY <2>2
  <2>4. queue' = <<>> /\ queue' \in Seq(Updates) /\ Len(queue') = 0 /\ DOMAIN queue' = {} /\ \A r \in Requests : queue' # <<Chat!Chunk(r)>>
    BY <1>3
  <2>5. Numbered(screen')
    BY <2>2, <2>3 DEF Numbered
  <2>6. QED
    BY <2>2, <2>3, <2>4, <2>5
<1>4. CASE screen' = [screen EXCEPT !.bubble = 0] /\ queue' = Append(queue, Chat!Reset)
  <2>1. queue' = <<Chat!Reset>>
    BY <1>4
  <2>2. /\ screen' \in Chat!Screen /\ screen'.bubble = 0 /\ screen'.last = screen.last /\ screen'.bubble <= screen'.last
        /\ screen'.messages = screen.messages
    BY <1>4 DEF Chat!Screen
  <2>3. queue' \in Seq(Updates) /\ Len(queue') = 1 /\ DOMAIN queue' = {1} /\ queue'[1] = Chat!Reset
    BY <2>1, UpdatesTyped
  <2>4. \A r \in Requests : queue' # <<Chat!Chunk(r)>>
    BY <1>0, <2>3
  <2>5. Numbered(screen')
    BY <2>2 DEF Numbered
  <2>6. QED
    BY <1>0, <2>1, <2>2, <2>3, <2>4, <2>5
<1>5. QED
  BY <1>1, <1>3, <1>4 DEF Chat!Show

LEMMA SessionStartedKeeps == ASSUME ChatInv, Chat!SessionStarted PROVE ChatInv'
<1> USE ChatConstants
<1>0. ChatTyped /\ Rooted
  BY DEF ChatInv
<1>1. PICK s \in Sessions : s = starting
  BY <1>0 DEF ChatTyped, Chat!SessionStarted
<1>2. /\ Without({"batch"}) => set = rendered /\ queue = <<>>
      /\ Without({"lateness"}) => \A r \in Requests : request[r].at # "found" /\ request[r].reply = "none"
      /\ s # NoSession /\ starting' = NoSession
      /\ UNCHANGED <<disturbed, sessions, request, events, rendered, pending>>
  BY <1>1 DEF Chat!SessionStarted, Chat!Turn, Chat!Rendered, Chat!May, Chat!backend, Without
<1>3. /\ sessions[s].stage # "new" /\ s # set.session /\ s # rendered.session
      /\ \A p \in Requests : request[p].session # s
      /\ set \in Chat!UI /\ set.session \in Sessions \cup {NoSession}
      /\ rendered.session \in Sessions \cup {NoSession}
      /\ \A t \in {set.session, rendered.session} \ {NoSession} : sessions[t].stage # "new"
  BY <1>0, <1>1, <1>2 DEF ChatTyped, Chat!UI, Rooted, Empty
<1>4. Rooted' /\ set' \in Chat!UI /\ set'.session = s
  <2>1. set' \in Chat!UI /\ set'.session = s
    <3>1. set' = [set EXCEPT !.session = s] \/ set' = [session |-> s, streaming |-> FALSE]
      BY <1>1 DEF Chat!SessionStarted, Chat!ResetChat
    <3>2. CASE set' = [set EXCEPT !.session = s]
      BY <1>3, <3>2 DEF Chat!UI
    <3>3. CASE set' = [session |-> s, streaming |-> FALSE]
      BY <3>3 DEF Chat!UI
    <3>4. QED
      BY <3>1, <3>2, <3>3
  <2>2. (\A p \in Requests : RequestOK(p)') /\ (\A i \in DOMAIN events : EventOK(i)')
    BY <1>0, <1>2 DEF Rooted, RequestOK, EventOK
  <2>3. \A t \in {s, rendered.session} \ {NoSession} : sessions[t].stage # "new"
    BY <1>3
  <2>4. QED
    BY <1>2, <1>3, <2>1, <2>2, <2>3 DEF Rooted, Empty
<1>5. ASSUME NEW p \in Requests
      PROVE  /\ Unanswered(p)' <=> Unanswered(p)
             /\ EndComes(p)' <=> EndComes(p)
  BY <1>2 DEF Unanswered, Underway, Tells, EndComes
<1>6. Without({"batch", "haste"}) => OneAtATime'
  BY <1>2, <1>5 DEF ChatInv, OneAtATime
<1>7. CASE set.session = NoSession
  <2>1. set' = [set EXCEPT !.session = s] /\ UNCHANGED <<generation, newest, chat, queue, screen>>
    BY <1>1, <1>7 DEF Chat!SessionStarted, Chat!counted
  <2>2. set'.session = s /\ set'.streaming = set.streaming
    BY <1>3, <2>1 DEF Chat!UI
  <2>3. ChatTyped'
    BY <1>0, <1>2, <1>4, <2>1 DEF ChatTyped
  <2>4. /\ rendered.session = NoSession
        /\ \A p \in Requests : request[p] = Chat!Unsent /\ request[p].at = "unused" /\ request[p].gen = 0
                               /\ request[p].session = NoSession /\ request[p].reply = "none"
    BY <1>0, <1>7 DEF Rooted, RequestOK, Chat!Unsent
  <2>5. Without({"batch"}) => /\ screen \in Chat!Screen /\ Fresh /\ screen.messages = <<>> /\ queue = <<>>
                              /\ ~set.streaming /\ DOMAIN screen.messages = {} /\ DOMAIN queue = {} /\ Short
                              /\ Numbered(screen)
                              /\ screen.bubble <= screen.last
    <3>1. Without({"batch"}) => /\ screen \in Chat!Screen /\ Fresh /\ screen.messages = <<>> /\ queue = <<>>
                                /\ ~set.streaming /\ Short /\ Numbered(screen)
      BY <1>7 DEF ChatInv, Exchanged
    <3>2. DOMAIN <<>> = {}
      OBVIOUS
    <3>3. Without({"batch"}) => screen.bubble <= screen.last
      BY <3>1 DEF Fresh, Chat!Screen
    <3>4. QED
      BY <3>1, <3>2, <3>3
  <2>6. ASSUME Without({"batch"}) PROVE Exchanged'
    BY <1>2, <1>3, <2>1, <2>2, <2>4, <2>5, <2>6 DEF Exchanged, Short, Fresh
  <2>7. ASSUME Without({"batch", "haste"}) PROVE Speaking'
    <3>1. Without({"batch"})
      BY <2>7 DEF Without
    <3>2. /\ DOMAIN screen.messages = {} /\ screen.bubble = 0 /\ screen.bubble <= screen.last
          /\ queue = <<>> /\ DOMAIN queue = {}
      BY <2>5, <3>1 DEF Fresh
    <3>3. \A r \in Requests : queue # <<Chat!Chunk(r)>>
      BY <3>2
    <3>4. QED
      BY <2>1, <3>2, <3>3 DEF Speaking
  <2>8. Without({"batch", "haste", "refusal", "loss"}) => Counting'
    <3>1. sessions[s].gen \in Nat
      BY <1>0 DEF ChatTyped, Chat!Session
    <3>2. ASSUME Without({"batch", "haste", "refusal", "loss"}) PROVE Counting'
      <4>1. generation = 0
        BY <2>5, <3>2 DEF Without, Fresh
      <4>2. generation' <= sessions'[set'.session].gen
        <5>1. PICK g \in Nat : g = sessions[s].gen
          BY <3>1
        <5>2. sessions'[set'.session].gen = g /\ generation' = 0
          BY <1>2, <2>1, <2>2, <4>1, <5>1
        <5>3. QED
          BY <5>1, <5>2
      <4>3. \A p \in Requests : request'[p].session # set'.session
        BY <1>2, <1>3, <2>2
      <4>4. QED
        BY <4>2, <4>3 DEF Counting
    <3>3. QED
      BY <3>2
  <2>9. ASSUME Without({"batch", "delete", "loss"}) PROVE Belonging'
    <3>1. DOMAIN screen.messages = {} /\ DOMAIN queue = {}
      BY <2>5, <2>9 DEF Without
    <3>2. QED
      BY <1>2, <1>3, <2>1, <2>2, <3>1 DEF Belonging
  <2>10. ASSUME Without({"batch", "haste", "refusal", "loss", "error", "lateness", "disconnect"}) PROVE Progress'
    <3>1. Progress
      BY <2>10 DEF ChatInv
    <3>2. DOMAIN screen.messages = {} /\ ~set.streaming
      BY <2>5, <2>10 DEF Without
    <3>3. QED
      BY <1>2, <2>1, <2>2, <2>4, <3>1, <3>2 DEF Progress
  <2>11. QED
    BY <1>2, <1>4, <1>6, <2>3, <2>6, <2>7, <2>8, <2>9, <2>10 DEF ChatInv, Without
<1>8. CASE set.session # NoSession
  <2>1. /\ set' = [session |-> s, streaming |-> FALSE] /\ generation' = 0 /\ newest' = NoRequest /\ chat' = {}
        /\ Chat!Show(Chat!Reset, TRUE)
    BY <1>1, <1>8 DEF Chat!SessionStarted, Chat!ResetChat, Chat!ResetRefs
  <2>2. set'.session = s /\ set'.streaming = FALSE
    BY <2>1
  <2>3. ChatTyped'
    BY <1>0, <1>2, <1>4, <2>1 DEF ChatTyped
  <2>4. ASSUME Without({"batch"})
        PROVE  /\ screen' \in Chat!Screen /\ Numbered(screen') /\ screen'.bubble = 0 /\ screen'.last = screen.last /\ screen'.bubble <= screen'.last
               /\ queue' \in Seq(Updates) /\ queue' \in {<<>>, <<Chat!Reset>>} /\ Len(queue') <= 1
               /\ \A r \in Requests : queue' # <<Chat!Chunk(r)>>
               /\ \A i \in DOMAIN queue' : queue'[i].op = "reset"
               /\ \A i \in DOMAIN screen'.messages :
                    /\ queue' = <<Chat!Reset>>
                    /\ i \in DOMAIN screen.messages /\ screen'.messages[i] = screen.messages[i]
    BY <1>2, <2>1, <2>4, ShowReset DEF ChatInv, Exchanged
  <2>5. ASSUME Without({"batch"}) PROVE Exchanged'
    <3>1. Exchanged
      BY <2>5 DEF ChatInv
    <3>2. \A p \in Requests : request[p].at \in {"sent", "found"} => sessions[request[p].session].stage # "live"
      BY <1>1, <1>2, <1>8, <3>1 DEF Exchanged
    <3>3. QED
      BY <1>2, <1>3, <2>1, <2>2, <2>4, <2>5, <3>2 DEF Exchanged, Short, Fresh
  <2>6. ASSUME Without({"batch", "haste"}) PROVE Speaking'
    <3>1. Speaking /\ Without({"batch"})
      BY <2>6 DEF ChatInv, Without
    <3>2. QED
      BY <2>4, <3>1 DEF Speaking
  <2>7. Without({"batch", "haste", "refusal", "loss"}) => Counting'
    <3>1. sessions[s].gen \in Nat
      BY <1>0 DEF ChatTyped, Chat!Session
    <3>2. generation' <= sessions'[set'.session].gen
      <4>1. PICK g \in Nat : g = sessions[s].gen
        BY <3>1
      <4>2. sessions'[set'.session].gen = g /\ generation' = 0
        BY <1>2, <2>1, <2>2, <4>1
      <4>3. QED
        BY <4>1, <4>2
    <3>3. \A p \in Requests : request'[p].session # set'.session
      BY <1>2, <1>3, <2>2
    <3>4. QED
      BY <3>2, <3>3 DEF Counting
  <2>8. ASSUME Without({"batch", "delete", "loss"}) PROVE Belonging'
    <3>1. Without({"batch"})
      BY <2>8 DEF Without
    <3>2. QED
      BY <1>2, <1>3, <2>2, <2>4, <3>1 DEF Belonging
  <2>9. ASSUME Without({"batch", "haste", "refusal", "loss", "error", "lateness", "disconnect"}) PROVE Progress'
    <3>1. Progress /\ Without({"batch"}) /\ Without({"lateness"})
      BY <2>9 DEF ChatInv, Without
    <3>2. QED
      BY <1>2, <2>2, <2>4, <3>1 DEF Progress
  <2>10. QED
    BY <1>2, <1>4, <1>6, <2>3, <2>5, <2>6, <2>7, <2>8, <2>9 DEF ChatInv, Without
<1>9. QED
  BY <1>7, <1>8

(* The chat is reset, and its session is kept.                             *)
LEMMA ResetKeeps ==
  ASSUME ChatInv, starting' \in {starting, NoSession},
         set' = [session |-> set.session, streaming |-> FALSE],
         generation' = 0, newest' = NoRequest, chat' = {}, Chat!Show(Chat!Reset, TRUE),
         UNCHANGED <<disturbed, sessions, request, events, rendered, pending>>,
         Without({"batch"}) => set = rendered /\ queue = <<>> /\ set.session # NoSession,
         Without({"batch", "delete", "loss"}) => Belonging'
  PROVE  ChatInv'
<1> USE ChatConstants
<1>0. ChatTyped /\ Rooted
  BY DEF ChatInv
<1>1. /\ set' = [session |-> set.session, streaming |-> FALSE]
      /\ generation' = 0 /\ newest' = NoRequest /\ chat' = {} /\ Chat!Show(Chat!Reset, TRUE)
      /\ UNCHANGED <<disturbed, sessions, request, events, rendered, pending>>
      /\ starting' \in {starting, NoSession}
  OBVIOUS
<1>2. /\ set \in Chat!UI /\ set' \in Chat!UI /\ set'.session = set.session /\ set'.streaming = FALSE
      /\ set.session \in Sessions \cup {NoSession}
  BY <1>0, <1>1 DEF ChatTyped, Chat!UI
<1>3. ChatTyped'
  BY <1>0, <1>1, <1>2 DEF ChatTyped
<1>4. Rooted'
  <2>1. \A p \in Requests : RequestOK(p)'
    BY <1>0, <1>1 DEF Rooted, RequestOK
  <2>2. \A i \in DOMAIN events : EventOK(i)'
    BY <1>0, <1>1 DEF Rooted, EventOK
  <2>3. starting' # NoSession => starting' = starting
    OBVIOUS
  <2>4. QED
    BY <1>0, <1>1, <1>2, <2>1, <2>2, <2>3 DEF Rooted, Empty
<1>5. ASSUME NEW p \in Requests
      PROVE  /\ Unanswered(p)' <=> Unanswered(p)
             /\ Underway(p)' <=> Underway(p)
             /\ Tells(p)' <=> Tells(p)
             /\ EndComes(p)' <=> EndComes(p)
  BY <1>1 DEF Unanswered, Underway, Tells, EndComes
<1>6. ASSUME Without({"batch"})
      PROVE  /\ screen \in Chat!Screen /\ screen' \in Chat!Screen /\ Numbered(screen') /\ screen'.bubble = 0 /\ screen'.last = screen.last /\ screen'.bubble <= screen'.last
             /\ queue' \in Seq(Updates) /\ queue' \in {<<>>, <<Chat!Reset>>} /\ Len(queue') <= 1
             /\ \A r \in Requests : queue' # <<Chat!Chunk(r)>>
             /\ \A i \in DOMAIN queue' : queue'[i].op = "reset"
             /\ \A i \in DOMAIN screen'.messages :
                  /\ queue' = <<Chat!Reset>>
                  /\ i \in DOMAIN screen.messages /\ screen'.messages[i] = screen.messages[i]
  BY <1>1, <1>6, ShowReset DEF ChatInv, Exchanged
<1>7. ASSUME Without({"batch"}) PROVE Exchanged'
  <2>1. Exchanged
    BY <1>7 DEF ChatInv
  <2>2. starting' # NoSession => starting' = starting
    OBVIOUS
  <2>3. QED
    BY <1>1, <1>2, <1>6, <1>7, <2>1, <2>2 DEF Exchanged, Short
<1>8. Without({"batch", "haste"}) => OneAtATime'
  BY <1>1, <1>5 DEF ChatInv, OneAtATime
<1>9. ASSUME Without({"batch", "haste"}) PROVE Speaking'
  <2>1. Speaking /\ Without({"batch"})
    BY <1>9 DEF ChatInv, Without
  <2>2. QED
    BY <1>6, <2>1 DEF Speaking
<1>10. Without({"batch", "haste", "refusal", "loss"}) => Counting'
  <2>1. \A p \in Requests : request[p].gen \in Nat
    BY <1>0 DEF ChatTyped, Chat!Request
  <2>2. \A t \in Sessions : sessions[t].gen \in Nat
    BY <1>0 DEF ChatTyped, Chat!Session
  <2>3. set'.session # NoSession => generation' <= sessions'[set'.session].gen
    <3>1. ASSUME set.session # NoSession PROVE 0 <= sessions[set.session].gen
      <4>1. PICK g \in Nat : g = sessions[set.session].gen
        BY <1>2, <2>2, <3>1
      <4>2. QED
        BY <4>1
    <3>2. QED
      BY <1>1, <1>2, <3>1
  <2>4. \A p \in Requests : request'[p].gen \in Nat /\ generation' = 0
    BY <1>1, <2>1
  <2>5. QED
    BY <2>3, <2>4 DEF Counting
<1>12. ASSUME Without({"batch", "haste", "refusal", "loss", "error", "lateness", "disconnect"}) PROVE Progress'
  <2>1. Progress /\ Without({"batch"})
    BY <1>12 DEF ChatInv, Without
  <2>2. QED
    BY <1>1, <1>2, <1>5, <1>6, <2>1 DEF Progress
<1>13. QED
  BY <1>1, <1>3, <1>4, <1>7, <1>8, <1>9, <1>10, <1>12 DEF ChatInv, Without

LEMMA DeleteConversationKeeps == ASSUME ChatInv, Chat!DeleteConversation PROVE ChatInv'
<1> USE ChatConstants
<1>1. /\ Without({"batch"}) => set = rendered /\ queue = <<>>
      /\ set' = [session |-> set.session, streaming |-> FALSE]
      /\ generation' = 0 /\ newest' = NoRequest /\ chat' = {} /\ Chat!Show(Chat!Reset, TRUE)
      /\ "delete" \in disturbed \/ Chat!Answered(rendered.session)
      /\ UNCHANGED <<disturbed, sessions, request, events, starting, rendered, pending>>
  BY DEF Chat!DeleteConversation, Chat!Turn, Chat!Rendered, Chat!May, Chat!backend, Without,
         Chat!ResetChat, Chat!ResetRefs
<1>2. Without({"batch"}) => set.session # NoSession
  <2>1. chat # {}
    BY DEF Chat!DeleteConversation
  <2>2. QED
    BY <1>1, <2>1 DEF ChatInv, Exchanged, Fresh
<1>3. ASSUME Without({"batch", "delete", "loss"}), NEW p \in Requests, request[p].session = set.session
      PROVE  ~Underway(p) /\ ~Tells(p)
  <2>1. Chat!Answered(set.session)
    BY <1>1, <1>3 DEF Without
  <2>2. ~Underway(p)
    BY <1>3, <2>1 DEF Chat!Answered, Underway
  <2>3. ASSUME NEW i \in DOMAIN events, events[i].by = p PROVE FALSE
    BY <1>3, <2>1, <2>3 DEF ChatInv, Rooted, EventOK, Chat!Answered
  <2>4. QED
    BY <2>2, <2>3 DEF Tells
<1>4. ASSUME Without({"batch", "delete", "loss"}) PROVE Belonging'
  <2>1. Without({"batch"})
    BY <1>4 DEF Without
  <2>2. /\ \A i \in DOMAIN queue' : queue'[i].op = "reset"
        /\ \A i \in DOMAIN screen'.messages : queue' = <<Chat!Reset>>
    BY <1>1, <2>1, ShowReset DEF ChatInv, Exchanged
  <2>3. ASSUME NEW p \in Requests, request'[p].session = set'.session PROVE ~Underway(p)' /\ ~Tells(p)'
    <3>1. request' = request /\ events' = events /\ request[p].session = set.session
      BY <1>1, <2>3
    <3>2. ~Underway(p) /\ ~Tells(p)
      BY <1>3, <1>4, <3>1
    <3>3. QED
      BY <3>1, <3>2 DEF Underway, Tells
  <2>4. QED
    BY <2>2, <2>3 DEF Belonging
<1>5. QED
  BY <1>1, <1>2, <1>4, ResetKeeps

LEMMA ClearLostKeeps == ASSUME ChatInv, Chat!ClearLost PROVE ChatInv'
<1>1. /\ Without({"batch"}) => set = rendered /\ queue = <<>>
      /\ set' = [session |-> set.session, streaming |-> FALSE]
      /\ generation' = 0 /\ newest' = NoRequest /\ chat' = {} /\ Chat!Show(Chat!Reset, TRUE)
      /\ rendered.session # NoSession /\ "loss" \in disturbed
      /\ UNCHANGED <<disturbed, sessions, request, events, starting, rendered, pending>>
  BY DEF Chat!ClearLost, Chat!Turn, Chat!Rendered, Chat!May, Chat!backend, Without,
         Chat!ResetChat, Chat!ResetRefs
<1>2. ~Without({"batch", "delete", "loss"})
  BY <1>1 DEF Without
<1>3. QED
  BY <1>1, <1>2, ResetKeeps

LEMMA StartLostKeeps == ASSUME ChatInv, Chat!StartLost PROVE ChatInv'
<1>1. /\ Without({"batch"}) => set = rendered /\ queue = <<>>
      /\ "loss" \in disturbed /\ starting' = NoSession
      /\ UNCHANGED <<disturbed, sessions, request, events, rendered, pending>>
  BY DEF Chat!StartLost, Chat!Turn, Chat!Rendered, Chat!May, Chat!backend, Without
<1>2. ~Without({"batch", "delete", "loss"}) /\ ~Without({"batch", "haste", "refusal", "loss"})
      /\ ~Without({"batch", "haste", "refusal", "loss", "error", "lateness", "disconnect"})
  BY <1>1 DEF Without
<1>3. CASE set.session = NoSession
  <2>1. UNCHANGED <<set, generation, newest, chat, queue, screen>>
    BY <1>3 DEF Chat!StartLost, Chat!counted
  <2>2. ChatTyped'
    BY <1>1, <2>1 DEF ChatInv, ChatTyped
  <2>3. Rooted'
    <3>1. (\A p \in Requests : RequestOK(p)') /\ (\A i \in DOMAIN events : EventOK(i)')
      BY <1>1 DEF ChatInv, Rooted, RequestOK, EventOK
    <3>2. QED
      BY <1>1, <2>1, <3>1 DEF ChatInv, Rooted, Empty
  <2>4. Without({"batch"}) => Exchanged'
    BY <1>1, <2>1 DEF ChatInv, Exchanged, Short, Fresh
  <2>5. Without({"batch", "haste"}) => OneAtATime' /\ Speaking'
    <3>1. \A p \in Requests : /\ Unanswered(p)' <=> Unanswered(p)
                              /\ Talks(p)' <=> Talks(p)
      BY <1>1, <2>1 DEF Unanswered, Underway, Tells, Talks, Speaker, EndComes, Without
    <3>2. QED
      BY <1>1, <2>1, <3>1 DEF ChatInv, OneAtATime, Speaking
  <2>6. QED
    BY <1>1, <1>2, <2>2, <2>3, <2>4, <2>5 DEF ChatInv, Without
<1>4. CASE set.session # NoSession
  <2>1. /\ set' = [session |-> set.session, streaming |-> FALSE]
        /\ generation' = 0 /\ newest' = NoRequest /\ chat' = {} /\ Chat!Show(Chat!Reset, TRUE)
    BY <1>4 DEF Chat!StartLost, Chat!ResetChat, Chat!ResetRefs
  <2>2. QED
    BY <1>1, <1>2, <1>4, <2>1, ResetKeeps
<1>5. QED
  BY <1>3, <1>4

LEMMA MessageOf ==
  ASSUME NEW scr \in Chat!Screen, NEW i \in DOMAIN scr.messages
  PROVE  /\ scr.messages[i] \in Chat!Message /\ scr.messages[i].id \in Nat
         /\ scr.messages[i].from \subseteq Requests /\ scr.messages[i].streaming \in BOOLEAN
<1>1. scr.messages \in Seq(Chat!Message)
  BY DEF Chat!Screen
<1>2. scr.messages[i] \in Chat!Message
  BY <1>1
<1>3. QED
  BY <1>2 DEF Chat!Message

LEMMA ListOf ==
  ASSUME NEW list \in Seq(Chat!Message), NEW f, DOMAIN f = DOMAIN list, f = [i \in DOMAIN list |-> f[i]],
         \A i \in DOMAIN list : f[i] \in Chat!Message
  PROVE  f \in Seq(Chat!Message)
<1>1. PICK n \in Nat : DOMAIN list = 1 .. n
  OBVIOUS
<1>2. f \in [1 .. n -> Chat!Message]
  BY <1>1
<1>3. QED
  BY <1>2

(* A finished message is the same but for its indicator. *)
LEMMA FinishedIs ==
  ASSUME NEW scr \in Chat!Screen, NEW b \in Nat, NEW f, f = Chat!Finished(scr.messages, b)
  PROVE  /\ f \in Seq(Chat!Message) /\ DOMAIN f = DOMAIN scr.messages
         /\ \A i \in DOMAIN f : /\ f[i].id = scr.messages[i].id /\ f[i].from = scr.messages[i].from
                                /\ f[i].streaming => scr.messages[i].streaming /\ f[i].id # b
<1>1. /\ DOMAIN f = DOMAIN scr.messages /\ f = [i \in DOMAIN scr.messages |-> f[i]]
      /\ \A i \in DOMAIN f : f[i] = IF scr.messages[i].id = b THEN [scr.messages[i] EXCEPT !.streaming = FALSE]
                                    ELSE scr.messages[i]
  BY DEF Chat!Finished
<1>2. ASSUME NEW i \in DOMAIN f
      PROVE  /\ f[i] \in Chat!Message /\ f[i].id = scr.messages[i].id /\ f[i].from = scr.messages[i].from
             /\ f[i].streaming => scr.messages[i].streaming /\ f[i].id # b
  <2>1. PICK m : m = scr.messages[i]
    OBVIOUS
  <2>2. m \in Chat!Message
    BY <1>1, <2>1, MessageOf
  <2>3. CASE m.id = b
    <3>1. f[i] = [m EXCEPT !.streaming = FALSE]
      BY <1>1, <2>1, <2>3
    <3>2. f[i] \in Chat!Message /\ f[i].id = m.id /\ f[i].from = m.from /\ ~f[i].streaming
      BY <2>2, <3>1 DEF Chat!Message
    <3>3. QED
      BY <2>1, <3>2
  <2>4. CASE m.id # b
    <3>1. f[i] = m
      BY <1>1, <2>1, <2>4
    <3>2. QED
      BY <2>1, <2>2, <2>4, <3>1
  <2>5. QED
    BY <2>3, <2>4
<1>3. f \in Seq(Chat!Message)
  <2>1. scr.messages \in Seq(Chat!Message)
    BY DEF Chat!Screen
  <2>2. QED
    BY <1>1, <1>2, <2>1, ListOf
<1>4. QED
  BY <1>1, <1>2, <1>3

LEMMA AddedIs ==
  ASSUME NEW scr \in Chat!Screen, NEW m \in Chat!Message, NEW b \in Nat,
         NEW t, t = [messages |-> Append(scr.messages, m), bubble |-> b, last |-> scr.last + 1]
  PROVE  /\ t \in Chat!Screen /\ t.last = scr.last + 1 /\ t.bubble = b
         /\ \A i \in DOMAIN t.messages :
              t.messages[i] = m \/ (i \in DOMAIN scr.messages /\ t.messages[i] = scr.messages[i])
<1>1. scr.messages \in Seq(Chat!Message) /\ scr.last \in Nat /\ scr.last + 1 \in Nat
  BY DEF Chat!Screen
<1>2. PICK f : f = Append(scr.messages, m)
  OBVIOUS
<1>3. /\ f \in Seq(Chat!Message)
      /\ \A i \in DOMAIN f : f[i] = m \/ (i \in DOMAIN scr.messages /\ f[i] = scr.messages[i])
  BY <1>1, <1>2
<1>4. t = [messages |-> f, bubble |-> b, last |-> scr.last + 1]
  BY <1>2
<1>5. QED
  BY <1>1, <1>3, <1>4 DEF Chat!Screen

LEMMA ChunkUpdates ==
  ASSUME NEW scr \in Chat!Screen, NEW r \in Requests, NEW t, t = Chat!Updated(scr, Chat!Chunk(r)),
         Numbered(scr)
  PROVE  /\ t \in Chat!Screen /\ Numbered(t)
         /\ \A i \in DOMAIN t.messages :
              \/ t.messages[i].from = {r}
              \/ i \in DOMAIN scr.messages /\ t.messages[i].from \in {scr.messages[i].from, scr.messages[i].from \cup {r}}
         /\ OneOnly(scr, r) => OneOnly(t, r) /\ \A i \in DOMAIN t.messages :
              t.messages[i].from = {r} \/ (i \in DOMAIN scr.messages /\ t.messages[i].from = scr.messages[i].from)
         /\ Bubbles(scr) => Bubbles(t)
<1>0. Chat!Chunk(r).op = "chunk" /\ Chat!Chunk(r).by = r
  BY DEF Chat!Chunk
<1>1. CASE scr.bubble = 0
  <2>0. PICK m : m = [id |-> scr.last + 1, from |-> {r}, streaming |-> TRUE]
    OBVIOUS
  <2>1. t = [messages |-> Append(scr.messages, m), bubble |-> scr.last + 1, last |-> scr.last + 1]
    BY <1>0, <1>1, <2>0 DEF Chat!Updated, Chat!Added
  <2>2. /\ t \in Chat!Screen /\ t.last = scr.last + 1 /\ t.bubble = t.last
        /\ \A i \in DOMAIN t.messages :
             \/ i \in DOMAIN scr.messages /\ t.messages[i] = scr.messages[i]
             \/ t.messages[i].id = t.last /\ t.messages[i].from = {r}
    <3>1. scr.last + 1 \in Nat
      BY DEF Chat!Screen
    <3>2. m \in Chat!Message /\ m.id = scr.last + 1 /\ m.from = {r}
      BY <2>0, <3>1 DEF Chat!Message
    <3>3. QED
      BY <2>1, <3>1, <3>2, AddedIs
  <2>3. /\ scr.last \in Nat
        /\ \A i \in DOMAIN scr.messages : scr.messages[i].id \in Nat /\ scr.messages[i].id <= scr.last
    BY MessageOf DEF Numbered, Chat!Screen
  <2>4. t.last \in Nat /\ t.last > scr.last /\ t.bubble # 0
    BY <2>2, <2>3
  <2>5. \A i \in DOMAIN scr.messages : scr.messages[i].id # t.last /\ scr.messages[i].id <= t.last
    BY <2>3, <2>4
  <2>6. Numbered(t)
    BY <2>2, <2>4, <2>5 DEF Numbered
  <2>7. OneOnly(t, r)
    BY <2>2, <2>5 DEF OneOnly
  <2>8. Bubbles(scr) => Bubbles(t)
    BY <1>1, <2>2, <2>4 DEF Bubbles
  <2>9. QED
    BY <2>2, <2>6, <2>7, <2>8
<1>2. CASE scr.bubble # 0
  <2>0. PICK f : f = Chat!Continued(scr.messages, scr.bubble, r)
    OBVIOUS
  <2>1. f = [i \in DOMAIN scr.messages |->
                        IF scr.messages[i].id = scr.bubble
                        THEN [scr.messages[i] EXCEPT !.from = @ \cup {r}] ELSE scr.messages[i]]
    BY <2>0 DEF Chat!Continued
  <2>2. t = [scr EXCEPT !.messages = f]
    BY <1>0, <1>2, <2>0 DEF Chat!Updated
  <2>3. DOMAIN f = DOMAIN scr.messages /\ f = [i \in DOMAIN scr.messages |-> f[i]]
    BY <2>1
  <2>4. ASSUME NEW i \in DOMAIN scr.messages
        PROVE  /\ f[i] \in Chat!Message /\ f[i].id = scr.messages[i].id /\ f[i].streaming = scr.messages[i].streaming
               /\ f[i].from = IF scr.messages[i].id = scr.bubble THEN scr.messages[i].from \cup {r}
                              ELSE scr.messages[i].from
    <3>1. PICK m : m = scr.messages[i]
      OBVIOUS
    <3>2. m \in Chat!Message
      BY <3>1, MessageOf
    <3>3. CASE m.id # scr.bubble
      <4>1. f[i] = m
        BY <2>1, <3>1, <3>3
      <4>2. QED
        BY <3>1, <3>2, <3>3, <4>1
    <3>4. CASE m.id = scr.bubble
      <4>1. f[i] = [m EXCEPT !.from = @ \cup {r}]
        BY <2>1, <3>1, <3>4
      <4>2. /\ f[i] \in Chat!Message /\ f[i].id = m.id /\ f[i].streaming = m.streaming
            /\ f[i].from = m.from \cup {r}
        BY <3>2, <4>1 DEF Chat!Message
      <4>3. QED
        BY <3>1, <3>4, <4>2
    <3>5. QED
      BY <3>3, <3>4
  <2>5. scr.messages \in Seq(Chat!Message) /\ scr.last \in Nat /\ scr.bubble \in Nat
    BY DEF Chat!Screen
  <2>6. f \in Seq(Chat!Message)
    BY <2>3, <2>4, <2>5, ListOf
  <2>7. t \in Chat!Screen /\ t.messages = f /\ t.bubble = scr.bubble /\ t.last = scr.last
    BY <2>2, <2>6 DEF Chat!Screen
  <2>8. Numbered(t)
    BY <2>3, <2>4, <2>7 DEF Numbered
  <2>9. Bubbles(scr) => Bubbles(t)
    <3>1. \A i \in DOMAIN f : f[i].streaming => i \in DOMAIN scr.messages /\ scr.messages[i].streaming
                                                /\ f[i].id = scr.messages[i].id
      BY <2>3, <2>4
    <3>2. QED
      BY <2>7, <3>1 DEF Bubbles
  <2>10. ASSUME OneOnly(scr, r)
         PROVE  OneOnly(t, r) /\ \A i \in DOMAIN f : f[i].from = {r} \/ f[i].from = scr.messages[i].from
    <3>1. \A i \in DOMAIN f : f[i].id = scr.bubble => f[i].from = {r}
      BY <1>2, <2>3, <2>4, <2>10 DEF OneOnly
    <3>2. OneOnly(t, r)
      BY <2>7, <3>1 DEF OneOnly
    <3>3. \A i \in DOMAIN f : f[i].from = {r} \/ f[i].from = scr.messages[i].from
      BY <2>3, <2>4, <3>1
    <3>4. QED
      BY <3>2, <3>3
  <2>11. QED
    BY <2>3, <2>4, <2>7, <2>8, <2>9, <2>10
<1>3. QED
  BY <1>1, <1>2

LEMMA ErrorUpdates ==
  ASSUME NEW scr \in Chat!Screen, NEW r \in Requests, NEW t, t = Chat!Updated(scr, Chat!Error(r)), Numbered(scr)
  PROVE  /\ t \in Chat!Screen /\ Numbered(t)
         /\ \A i \in DOMAIN t.messages :
              /\ t.messages[i].from = {r} \/ (i \in DOMAIN scr.messages /\ t.messages[i].from = scr.messages[i].from)
              /\ t.messages[i].streaming => /\ i \in DOMAIN scr.messages /\ scr.messages[i].streaming
                                            /\ scr.bubble = 0 \/ scr.messages[i].id # scr.bubble
         /\ t.bubble = 0
<1>0. Chat!Error(r).op = "error" /\ Chat!Error(r).by = r
  BY DEF Chat!Error
<1>1. /\ scr.last \in Nat /\ scr.bubble \in Nat
      /\ \A i \in DOMAIN scr.messages : scr.messages[i].id \in Nat /\ scr.messages[i].id <= scr.last
  BY MessageOf DEF Numbered, Chat!Screen
<1>2. CASE scr.bubble = 0
  <2>0. PICK m : m = [id |-> scr.last + 1, from |-> {r}, streaming |-> FALSE]
    OBVIOUS
  <2>1. t = [messages |-> Append(scr.messages, m), bubble |-> scr.bubble, last |-> scr.last + 1]
    BY <1>0, <1>2, <2>0 DEF Chat!Updated, Chat!Added
  <2>2. /\ t \in Chat!Screen /\ t.last = scr.last + 1 /\ t.bubble = 0
        /\ \A i \in DOMAIN t.messages :
             \/ i \in DOMAIN scr.messages /\ t.messages[i] = scr.messages[i]
             \/ t.messages[i].id = t.last /\ t.messages[i].from = {r} /\ ~t.messages[i].streaming
    <3>1. scr.last + 1 \in Nat
      BY <1>1
    <3>2. m \in Chat!Message /\ m.id = scr.last + 1 /\ m.from = {r} /\ ~m.streaming
      BY <2>0, <3>1 DEF Chat!Message
    <3>3. /\ t \in Chat!Screen /\ t.last = scr.last + 1 /\ t.bubble = scr.bubble
          /\ \A i \in DOMAIN t.messages :
               t.messages[i] = m \/ (i \in DOMAIN scr.messages /\ t.messages[i] = scr.messages[i])
      BY <1>1, <2>1, <3>1, <3>2, AddedIs
    <3>4. QED
      BY <1>2, <3>2, <3>3
  <2>3. t.last \in Nat /\ t.bubble <= t.last /\ \A i \in DOMAIN scr.messages : scr.messages[i].id <= t.last
    BY <1>1, <2>2
  <2>4. Numbered(t)
    BY <2>2, <2>3 DEF Numbered
  <2>5. QED
    BY <1>2, <2>2, <2>4
<1>3. CASE scr.bubble # 0
  <2>1. PICK f : f = Chat!Finished(scr.messages, scr.bubble)
    OBVIOUS
  <2>2. t = [messages |-> f, bubble |-> 0, last |-> scr.last]
    <3>1. t = [scr EXCEPT !.messages = f, !.bubble = 0]
      BY <1>0, <1>3, <2>1 DEF Chat!Updated
    <3>2. QED
      BY <3>1 DEF Chat!Screen
  <2>3. /\ f \in Seq(Chat!Message) /\ DOMAIN f = DOMAIN scr.messages
        /\ \A i \in DOMAIN f : /\ f[i].id = scr.messages[i].id /\ f[i].from = scr.messages[i].from
                               /\ f[i].streaming => scr.messages[i].streaming /\ f[i].id # scr.bubble
    BY <1>1, <2>1, FinishedIs
  <2>4. t \in Chat!Screen /\ t.messages = f /\ t.bubble = 0 /\ t.last = scr.last
    BY <1>1, <2>2, <2>3 DEF Chat!Screen
  <2>5. Numbered(t)
    BY <1>1, <2>3, <2>4 DEF Numbered
  <2>6. QED
    BY <2>3, <2>4, <2>5
<1>4. QED
  BY <1>2, <1>3

LEMMA FinishUpdates ==
  ASSUME NEW scr \in Chat!Screen, NEW b \in Nat, NEW t, t = Chat!Updated(scr, Chat!Finish(b)), Numbered(scr)
  PROVE  /\ t \in Chat!Screen /\ Numbered(t) /\ t.bubble = scr.bubble /\ t.last = scr.last
         /\ DOMAIN t.messages = DOMAIN scr.messages
         /\ \A i \in DOMAIN t.messages :
              /\ t.messages[i].from = scr.messages[i].from /\ t.messages[i].id = scr.messages[i].id
              /\ t.messages[i].streaming => scr.messages[i].streaming /\ t.messages[i].id # b
<1>0. Chat!Finish(b).op = "finish" /\ Chat!Finish(b).id = b
  BY DEF Chat!Finish
<1>1. PICK f : f = Chat!Finished(scr.messages, b)
  OBVIOUS
<1>2. t = [scr EXCEPT !.messages = f]
  BY <1>0, <1>1 DEF Chat!Updated
<1>3. /\ f \in Seq(Chat!Message) /\ DOMAIN f = DOMAIN scr.messages
      /\ \A i \in DOMAIN f : /\ f[i].id = scr.messages[i].id /\ f[i].from = scr.messages[i].from
                             /\ f[i].streaming => scr.messages[i].streaming /\ f[i].id # b
  BY <1>1, FinishedIs
<1>4. t \in Chat!Screen /\ t.messages = f /\ t.bubble = scr.bubble /\ t.last = scr.last
  BY <1>2, <1>3 DEF Chat!Screen
<1>5. Numbered(t)
  BY <1>3, <1>4 DEF Numbered
<1>6. QED
  BY <1>3, <1>4, <1>5

(* A queue of one. *)
LEMMA Queued ==
  ASSUME NEW u, queue = <<>>
  PROVE  /\ queue \in Seq(Updates) /\ (u \in Updates => <<u>> \in Seq(Updates))
         /\ Append(queue, u) = <<u>> /\ Len(<<u>>) = 1 /\ DOMAIN <<u>> = {1} /\ <<u>>[1] = u
         /\ \A v : <<v>> = <<u>> => v = u
         /\ Len(queue) = 0 /\ DOMAIN queue = {} /\ \A v : queue # <<v>>
OBVIOUS

LEMMA ShowChunkIs ==
  ASSUME screen \in Chat!Screen, queue = <<>>, NEW r \in Requests, Numbered(screen),
         Chat!Show(Chat!Chunk(r), FALSE)
  PROVE  /\ screen' \in Chat!Screen /\ Numbered(screen')
         /\ \A i \in DOMAIN screen'.messages :
              \/ screen'.messages[i].from = {r}
              \/ /\ i \in DOMAIN screen.messages
                 /\ screen'.messages[i].from \in {screen.messages[i].from, screen.messages[i].from \cup {r}}
         /\ OneOnly(screen, r) => OneOnly(screen', r) /\ \A i \in DOMAIN screen'.messages :
              \/ screen'.messages[i].from = {r}
              \/ i \in DOMAIN screen.messages /\ screen'.messages[i].from = screen.messages[i].from
         /\ Bubbles(screen) => Bubbles(screen')
         /\ queue' \in Seq(Updates) /\ Len(queue') <= 1 /\ queue' # <<Chat!Reset>> /\ (queue' # <<>> => queue' = <<Chat!Chunk(r)>>)
         /\ \A q \in Requests : queue' = <<Chat!Chunk(q)>> => q = r
         /\ \A i \in DOMAIN queue' : queue'[i].by = r
<1>1. PICK u : u = Chat!Chunk(r)
  OBVIOUS
<1>2. /\ u.by = r /\ u # Chat!Reset /\ \A q \in Requests : u = Chat!Chunk(q) => q = r
      /\ u \in Updates
  BY <1>1, UpdatesTyped DEF Chat!Chunk, Chat!Reset
<1>3. PICK t : t = Chat!Updated(screen, u)
  OBVIOUS
<1>4. \/ screen' = t /\ queue' = queue
      \/ screen' = screen /\ queue' = Append(queue, u)
  BY <1>1, <1>3 DEF Chat!Show
<1>5. /\ t \in Chat!Screen /\ Numbered(t)
      /\ \A i \in DOMAIN t.messages :
           \/ t.messages[i].from = {r}
           \/ /\ i \in DOMAIN screen.messages
              /\ t.messages[i].from \in {screen.messages[i].from, screen.messages[i].from \cup {r}}
      /\ OneOnly(screen, r) => OneOnly(t, r) /\ \A i \in DOMAIN t.messages :
           t.messages[i].from = {r} \/ (i \in DOMAIN screen.messages /\ t.messages[i].from = screen.messages[i].from)
      /\ Bubbles(screen) => Bubbles(t)
  BY <1>1, <1>3, ChunkUpdates
<1>6. CASE screen' = t /\ queue' = queue
  <2>1. queue' \in Seq(Updates) /\ Len(queue') = 0 /\ DOMAIN queue' = {} /\ queue' = <<>> /\ \A v : queue' # <<v>>
    BY <1>6, Queued
  <2>2. QED
    BY <1>5, <1>6, <2>1
<1>7. CASE screen' = screen /\ queue' = Append(queue, u)
  <2>1. queue' \in Seq(Updates) /\ Len(queue') = 1 /\ DOMAIN queue' = {1} /\ queue'[1] = u /\ queue' = <<u>> /\ \A v : queue' = <<v>> => v = u
    BY <1>2, <1>7, Queued
  <2>2. QED
    BY <1>1, <1>2, <1>7, <2>1
<1>8. QED
  BY <1>4, <1>6, <1>7

LEMMA ShowErrorIs ==
  ASSUME screen \in Chat!Screen, queue = <<>>, NEW r \in Requests, Numbered(screen),
         Chat!Show(Chat!Error(r), TRUE)
  PROVE  /\ screen' \in Chat!Screen /\ Numbered(screen') /\ screen'.bubble = 0
         /\ \A i \in DOMAIN screen'.messages :
              /\ \/ screen'.messages[i].from = {r}
                 \/ i \in DOMAIN screen.messages /\ screen'.messages[i].from = screen.messages[i].from
              /\ screen'.messages[i].streaming => i \in DOMAIN screen.messages /\ screen.messages[i].streaming
         /\ queue' \in Seq(Updates) /\ Len(queue') <= 1 /\ queue' # <<Chat!Reset>>
         /\ \A q \in Requests : queue' # <<Chat!Chunk(q)>>
         /\ \A i \in DOMAIN queue' : queue'[i].by = r
<1>1. PICK u : u = Chat!Error(r)
  OBVIOUS
<1>2. /\ u.by = r /\ u # Chat!Reset /\ (\A q \in Requests : u # Chat!Chunk(q)) /\ u \in Updates
  BY <1>1, UpdatesTyped DEF Chat!Chunk, Chat!Reset, Chat!Error
<1>3. PICK t : t = Chat!Updated(screen, u)
  OBVIOUS
<1>4. \/ screen' = [t EXCEPT !.bubble = 0] /\ queue' = queue
      \/ screen' = [screen EXCEPT !.bubble = 0] /\ queue' = Append(queue, u)
  BY <1>1, <1>3 DEF Chat!Show
<1>5. /\ t \in Chat!Screen /\ Numbered(t) /\ t.bubble = 0
      /\ \A i \in DOMAIN t.messages :
           /\ t.messages[i].from = {r} \/ (i \in DOMAIN screen.messages /\ t.messages[i].from = screen.messages[i].from)
           /\ t.messages[i].streaming => i \in DOMAIN screen.messages /\ screen.messages[i].streaming
  BY <1>1, <1>3, ErrorUpdates
<1>6. CASE screen' = [t EXCEPT !.bubble = 0] /\ queue' = queue
  <2>1. queue' \in Seq(Updates) /\ Len(queue') = 0 /\ DOMAIN queue' = {} /\ queue' = <<>> /\ \A v : queue' # <<v>>
    BY <1>6, Queued
  <2>2. screen' = t
    BY <1>5, <1>6 DEF Chat!Screen
  <2>3. QED
    BY <1>5, <2>1, <2>2
<1>7. CASE screen' = [screen EXCEPT !.bubble = 0] /\ queue' = Append(queue, u)
  <2>1. queue' \in Seq(Updates) /\ Len(queue') = 1 /\ DOMAIN queue' = {1} /\ queue'[1] = u /\ \A v : queue' = <<v>> => v = u
    BY <1>2, <1>7, Queued
  <2>2. screen' \in Chat!Screen /\ screen'.bubble = 0 /\ screen'.last = screen.last /\ screen'.messages = screen.messages
    BY <1>7 DEF Chat!Screen
  <2>3. Numbered(screen')
    <3>1. screen.last \in Nat /\ 0 <= screen.last
      BY DEF Chat!Screen
    <3>2. QED
      BY <2>2, <3>1 DEF Numbered
  <2>4. QED
    BY <1>2, <2>1, <2>2, <2>3
<1>8. QED
  BY <1>4, <1>6, <1>7

(* So is an error on the way, which leaves the streaming message to the updater. *)
LEMMA ShowWarningIs ==
  ASSUME screen \in Chat!Screen, queue = <<>>, NEW r \in Requests, Numbered(screen),
         Chat!Show(Chat!Error(r), FALSE)
  PROVE  /\ screen' \in Chat!Screen /\ Numbered(screen')
         /\ (screen'.bubble = 0 /\ queue' = <<>>) \/ (screen' = screen /\ queue' = <<Chat!Error(r)>>)
         /\ \A i \in DOMAIN screen'.messages :
              \/ screen'.messages[i].from = {r}
              \/ i \in DOMAIN screen.messages /\ screen'.messages[i].from = screen.messages[i].from
         /\ queue' \in Seq(Updates) /\ Len(queue') <= 1 /\ queue' # <<Chat!Reset>>
         /\ \A q \in Requests : queue' # <<Chat!Chunk(q)>>
         /\ \A i \in DOMAIN queue' : queue'[i].by = r
<1>1. PICK u : u = Chat!Error(r)
  OBVIOUS
<1>2. /\ u.by = r /\ u # Chat!Reset /\ (\A q \in Requests : u # Chat!Chunk(q)) /\ u \in Updates
  BY <1>1, UpdatesTyped DEF Chat!Chunk, Chat!Reset, Chat!Error
<1>3. PICK t : t = Chat!Updated(screen, u)
  OBVIOUS
<1>4. (screen' = t /\ queue' = queue) \/ (screen' = screen /\ queue' = Append(queue, u))
  BY <1>1, <1>3 DEF Chat!Show
<1>5. /\ t \in Chat!Screen /\ Numbered(t) /\ t.bubble = 0
      /\ \A i \in DOMAIN t.messages :
           t.messages[i].from = {r} \/ (i \in DOMAIN screen.messages /\ t.messages[i].from = screen.messages[i].from)
  BY <1>1, <1>3, ErrorUpdates
<1>6. CASE screen' = t /\ queue' = queue
  <2>1. queue' \in Seq(Updates) /\ Len(queue') = 0 /\ DOMAIN queue' = {} /\ queue' = <<>> /\ \A v : queue' # <<v>>
    BY <1>6, Queued
  <2>2. QED
    BY <1>5, <1>6, <2>1
<1>7. CASE screen' = screen /\ queue' = Append(queue, u)
  <2>1. /\ queue' \in Seq(Updates) /\ Len(queue') = 1 /\ DOMAIN queue' = {1} /\ queue'[1] = u
        /\ queue' = <<u>> /\ \A v : queue' = <<v>> => v = u
    BY <1>2, <1>7, Queued
  <2>2. QED
    BY <1>1, <1>2, <1>7, <2>1
<1>8. QED
  BY <1>4, <1>6, <1>7

LEMMA EndBubbleIs ==
  ASSUME screen \in Chat!Screen, queue = <<>>, Numbered(screen), Chat!EndBubble
  PROVE  /\ screen' \in Chat!Screen /\ Numbered(screen') /\ screen'.bubble = 0
         /\ DOMAIN screen'.messages = DOMAIN screen.messages
         /\ \A i \in DOMAIN screen.messages : screen'.messages[i].from = screen.messages[i].from
         /\ queue' \in Seq(Updates) /\ Len(queue') <= 1 /\ queue' # <<Chat!Reset>>
         /\ \A q \in Requests : queue' # <<Chat!Chunk(q)>>
         /\ \A i \in DOMAIN queue' : queue'[i].op = "finish"
         /\ Bubbles(screen) => \A i \in DOMAIN screen'.messages :
              screen'.messages[i].streaming => queue' = <<Chat!Finish(screen'.messages[i].id)>>
<1>1. PICK b \in Nat : b = screen.bubble
  BY DEF Chat!Screen
<1>2. CASE b = 0
  <2>1. screen' = screen /\ queue' = queue
    BY <1>1, <1>2 DEF Chat!EndBubble
  <2>2. queue' \in Seq(Updates) /\ Len(queue') = 0 /\ DOMAIN queue' = {} /\ \A v : queue' # <<v>>
    BY <2>1, Queued
  <2>3. Bubbles(screen) => \A i \in DOMAIN screen.messages : ~screen.messages[i].streaming
    BY <1>1, <1>2 DEF Bubbles
  <2>4. Numbered(screen')
    BY <2>1
  <2>5. /\ queue' \in Seq(Updates) /\ Len(queue') <= 1 /\ queue' # <<Chat!Reset>>
        /\ \A q \in Requests : queue' # <<Chat!Chunk(q)>>
        /\ \A i \in DOMAIN queue' : queue'[i].op = "finish"
    BY <2>2
  <2>6. /\ screen' \in Chat!Screen /\ screen'.bubble = 0
        /\ DOMAIN screen'.messages = DOMAIN screen.messages
        /\ \A i \in DOMAIN screen.messages : screen'.messages[i].from = screen.messages[i].from
    BY <1>1, <1>2, <2>1
  <2>7. Bubbles(screen) => \A i \in DOMAIN screen'.messages : ~screen'.messages[i].streaming
    BY <2>1, <2>3
  <2>8. QED
    BY <2>4, <2>5, <2>6, <2>7
<1>3. CASE b # 0
  <2>1. PICK u : u = Chat!Finish(b)
    OBVIOUS
  <2>2. /\ u.op = "finish" /\ u # Chat!Reset /\ (\A q \in Requests : u # Chat!Chunk(q)) /\ u \in Updates
    BY <2>1, UpdatesTyped DEF Chat!Chunk, Chat!Reset, Chat!Finish
  <2>3. PICK t : t = Chat!Updated(screen, u)
    OBVIOUS
  <2>4. \/ screen' = [t EXCEPT !.bubble = 0] /\ queue' = queue
        \/ screen' = [screen EXCEPT !.bubble = 0] /\ queue' = Append(queue, u)
    BY <1>1, <1>3, <2>1, <2>3 DEF Chat!EndBubble, Chat!Show
  <2>5. /\ t \in Chat!Screen /\ Numbered(t) /\ t.last = screen.last
        /\ DOMAIN t.messages = DOMAIN screen.messages
        /\ \A i \in DOMAIN t.messages :
             /\ t.messages[i].from = screen.messages[i].from /\ t.messages[i].id = screen.messages[i].id
             /\ t.messages[i].streaming => screen.messages[i].streaming /\ t.messages[i].id # b
    BY <2>1, <2>3, FinishUpdates
  <2>6. ASSUME NEW scr \in Chat!Screen, Numbered(scr), screen' = [scr EXCEPT !.bubble = 0]
        PROVE  /\ screen' \in Chat!Screen /\ Numbered(screen') /\ screen'.bubble = 0
               /\ screen'.messages = scr.messages
    <3>1. /\ screen' \in Chat!Screen /\ screen'.bubble = 0
          /\ screen'.messages = scr.messages /\ screen'.last = scr.last
      BY <2>6 DEF Chat!Screen
    <3>2. scr.last \in Nat /\ 0 <= scr.last
      BY DEF Chat!Screen
    <3>3. Numbered(screen')
      BY <2>6, <3>1, <3>2 DEF Numbered
    <3>4. QED
      BY <3>1, <3>3
  <2>7. CASE screen' = [t EXCEPT !.bubble = 0] /\ queue' = queue
    <3>1. queue' \in Seq(Updates) /\ Len(queue') = 0 /\ DOMAIN queue' = {} /\ \A v : queue' # <<v>>
      BY <2>7, Queued
    <3>2. screen' \in Chat!Screen /\ Numbered(screen') /\ screen'.bubble = 0 /\ screen'.messages = t.messages
      BY <2>5, <2>6, <2>7
    <3>3. ASSUME Bubbles(screen), NEW i \in DOMAIN t.messages, t.messages[i].streaming PROVE FALSE
      BY <1>1, <2>5, <3>3 DEF Bubbles
    <3>4. QED
      BY <2>5, <3>1, <3>2, <3>3
  <2>8. CASE screen' = [screen EXCEPT !.bubble = 0] /\ queue' = Append(queue, u)
    <3>1. queue' \in Seq(Updates) /\ Len(queue') = 1 /\ DOMAIN queue' = {1} /\ queue'[1] = u /\ queue' = <<u>> /\ \A v : queue' = <<v>> => v = u
      BY <2>2, <2>8, Queued
    <3>2. screen' \in Chat!Screen /\ Numbered(screen') /\ screen'.bubble = 0 /\ screen'.messages = screen.messages
      BY <2>6, <2>8
    <3>3. ASSUME Bubbles(screen), NEW i \in DOMAIN screen.messages, screen.messages[i].streaming
          PROVE  queue' = <<Chat!Finish(screen.messages[i].id)>>
      BY <1>1, <2>1, <3>1, <3>3 DEF Bubbles
    <3>4. QED
      BY <2>2, <3>1, <3>2, <3>3
  <2>9. QED
    BY <2>4, <2>7, <2>8
<1>4. QED
  BY <1>2, <1>3

(* Nothing is left to say in an answered session. *)
LEMMA AnsweredIs ==
  ASSUME ChatTyped, Rooted, NEW s, Chat!Answered(s), NEW p \in Requests, request[p].session = s
  PROVE  /\ ~Unanswered(p) /\ ~Underway(p) /\ ~Tells(p) /\ request[p].at \in {"unused", "over"}
         /\ ~EndComes(p) /\ request[p].reply = "none"
<1>1. request[p].at \in {"unused", "over"} /\ request[p].reply = "none"
  BY DEF Chat!Answered
<1>2. ASSUME NEW i \in DOMAIN events, events[i].by = p PROVE FALSE
  BY <1>2 DEF Rooted, EventOK, Chat!Answered
<1>3. QED
  BY <1>1, <1>2 DEF Unanswered, Underway, Tells, EndComes

LEMMA SendKeeps == ASSUME ChatInv, NEW r \in Requests, Chat!Send(r) PROVE ChatInv'
<1> USE ChatConstants
<1>0. ChatTyped /\ Rooted
  BY DEF ChatInv
<1>1. PICK s : s = rendered.session
  OBVIOUS
<1>2. /\ Without({"batch"}) => set = rendered /\ queue = <<>>
      /\ Without({"haste"}) => Chat!Answered(s)
      /\ s # NoSession /\ ~rendered.streaming /\ request[r].at = "unused"
      /\ request' = [request EXCEPT ![r].at = "sent", ![r].session = s]
      /\ generation' = generation + 1 /\ newest' = r /\ chat' = chat \cup {r}
      /\ UNCHANGED <<disturbed, sessions, events, starting, set, rendered, pending, queue, screen>>
  BY <1>1 DEF Chat!Send, Chat!Sent, Chat!Turn, Chat!Rendered, Chat!May, Without
<1>3. s \in Sessions /\ generation \in Nat /\ request \in [Requests -> Chat!Request]
      /\ sessions[s].stage # "new" /\ s # starting
  BY <1>0, <1>1, <1>2 DEF ChatTyped, Chat!UI, Rooted
<1>4. request[r] = Chat!Unsent
  BY <1>0, <1>2 DEF Rooted, RequestOK
<1>5. /\ request' \in [Requests -> Chat!Request] /\ request'[r].at = "sent" /\ request'[r].session = s
      /\ request'[r].gen = 0 /\ request'[r].reply = "none"
      /\ \A p \in Requests \ {r} : request'[p] = request[p]
  <2>1. request'[r] = [request[r] EXCEPT !.at = "sent", !.session = s]
    BY <1>2, <1>3
  <2>2. /\ request'[r] \in Chat!Request /\ request'[r].at = "sent" /\ request'[r].session = s
        /\ request'[r].gen = 0 /\ request'[r].reply = "none"
    <3>1. request[r].gen = 0 /\ request[r].reply = "none"
      BY <1>4 DEF Chat!Unsent
    <3>2. QED
      BY <1>3, <2>1, <3>1 DEF Chat!Request
  <2>3. \A p \in Requests \ {r} : request'[p] = request[p]
    BY <1>2, <1>3
  <2>4. \A p \in Requests : request'[p] \in Chat!Request
    BY <1>3, <2>2, <2>3
  <2>5. QED
    BY <1>2, <1>3, <2>2, <2>3, <2>4
<1>6. ChatTyped'
  BY <1>0, <1>2, <1>3, <1>5 DEF ChatTyped
<1>7. ASSUME NEW i \in DOMAIN events PROVE events[i].by \in Requests \ {r} /\ EventOK(i)
  <2>1. events[i].by \in Requests /\ EventOK(i)
    BY <1>0, EventOf DEF ChatTyped, Rooted
  <2>2. QED
    BY <1>2, <2>1 DEF EventOK
<1>8. /\ ~Tells(r) /\ ~Tells(r)' /\ Unanswered(r)' /\ ~EndComes(r)
      /\ \A p \in Requests \ {r} : /\ Tells(p)' <=> Tells(p)
                                   /\ Underway(p)' <=> Underway(p)
                                   /\ Unanswered(p)' <=> Unanswered(p)
                                   /\ EndComes(p)' <=> EndComes(p)
  BY <1>2, <1>5, <1>7 DEF Tells, Underway, Unanswered, EndComes
<1>9. Rooted'
  <2>1. ASSUME NEW p \in Requests PROVE RequestOK(p)'
    <3>1. CASE p = r
      BY <1>2, <1>3, <1>5, <3>1 DEF RequestOK
    <3>2. CASE p # r
      BY <1>0, <1>2, <1>5, <3>2 DEF Rooted, RequestOK
    <3>3. QED
      BY <3>1, <3>2
  <2>2. \A i \in DOMAIN events : EventOK(i)'
    BY <1>2, <1>5, <1>7 DEF EventOK
  <2>3. starting # NoSession => \A p \in Requests : request'[p].session # starting
    BY <1>0, <1>3, <1>5 DEF Rooted, Empty
  <2>4. set.session # NoSession
    BY <1>0, <1>1, <1>2 DEF Rooted
  <2>5. set.session # rendered.session => \A p \in Requests : request'[p].session # set.session
    BY <1>0, <1>1, <1>5, <2>4 DEF Rooted, Empty
  <2>6. QED
    BY <1>0, <1>2, <2>1, <2>2, <2>3, <2>4, <2>5 DEF Rooted, Empty
<1>10. Without({"batch"}) => Exchanged' /\ set.session = s
  BY <1>1, <1>2, <1>5 DEF ChatInv, Exchanged, Short
<1>11. ASSUME Without({"batch", "haste"})
       PROVE  /\ set.session = s /\ Chat!Answered(s) /\ queue = <<>>
              /\ \A p \in Requests : request[p].session = s =>
                   /\ ~Unanswered(p) /\ ~Underway(p) /\ ~Tells(p) /\ request[p].at \in {"unused", "over"}
                   /\ ~EndComes(p) /\ request[p].reply = "none"
  <2>1. set.session = s /\ Chat!Answered(s) /\ queue = <<>>
    BY <1>2, <1>10, <1>11 DEF Without
  <2>2. QED
    BY <1>0, <2>1, AnsweredIs
<1>12. Without({"batch", "haste"}) => OneAtATime'
  BY <1>5, <1>8, <1>11 DEF ChatInv, OneAtATime
<1>13. ASSUME Without({"batch", "haste"}) PROVE Speaking'
  <2>1. ASSUME NEW p \in Requests, Speaker(p) PROVE Speaker(p)'
    <3>1. p # r /\ request'[p] = request[p] /\ ~EndComes(p)
      BY <1>2, <1>5, <1>11, <1>13, <2>1 DEF Speaker
    <3>2. sessions[set.session].stage # "live" /\ ~Without({"disconnect"})
      BY <2>1, <3>1 DEF Speaker
    <3>3. ASSUME NEW q \in Requests \ {p}, request'[q].session = set.session
          PROVE  request'[q].at \notin {"found", "running", "stopping"} /\ \A i \in DOMAIN events : events[i].by # q
      <4>1. CASE q = r
        BY <1>5, <1>7, <4>1
      <4>2. CASE q # r
        BY <1>5, <1>11, <1>13, <3>3, <4>2 DEF Tells
      <4>3. QED
        BY <4>1, <4>2
    <3>4. QED
      BY <1>2, <2>1, <3>1, <3>2, <3>3 DEF Speaker, Without
  <2>2. \A p \in Requests : Talks(p) => Talks(p)'
    BY <1>2, <2>1 DEF Talks
  <2>3. QED
    BY <1>2, <1>13, <2>2 DEF ChatInv, Speaking
<1>14. ASSUME Without({"batch", "haste", "refusal", "loss"}) PROVE Counting'
  <2>1. Counting /\ Without({"batch", "haste"})
    BY <1>14 DEF ChatInv, Without
  <2>2. \A p \in Requests : request[p].session = s => request[p].at \notin {"sent", "found"}
    BY <1>11, <2>1
  <2>3. sessions[s].stage = "live" => generation <= sessions[s].gen
    BY <1>2, <1>11, <2>1, <2>2 DEF Counting, Counts
  <2>4. sessions[s].gen \in Nat
    BY <1>0, <1>3 DEF ChatTyped, Chat!Session
  <2>5. sessions[s].stage = "live" => generation + 1 <= sessions[s].gen \/ generation + 1 = sessions[s].gen + 1
    BY <1>3, <2>3, <2>4
  <2>6. request'[r].session = s /\ request'[r].at = "sent" /\ request'[r].gen = 0
    BY <1>5
  <2>7. \A p \in Requests : request'[p].session = s /\ Unanswered(p)' => p = r
    BY <1>5, <1>8, <1>11, <2>1
  <2>8. ASSUME Counts(s)' PROVE sessions[s].stage = "live"
    <3>1. \A p \in Requests : request'[p].session = s => request'[p].at # "found"
      BY <1>5, <2>2
    <3>2. QED
      BY <1>2, <2>8, <3>1 DEF Counts
  <2>9. QED
    BY <1>2, <1>11, <2>1, <2>5, <2>6, <2>7, <2>8 DEF Counting
<1>15. ASSUME Without({"batch", "delete", "loss"}) PROVE Belonging'
  <2>1. Belonging /\ queue = <<>> /\ set.session = s
    BY <1>2, <1>10, <1>15 DEF ChatInv, Without
  <2>2. QED
    BY <1>2, <1>5, <1>8, <2>1 DEF Belonging
<1>16. ASSUME Without({"batch", "haste", "refusal", "loss", "error", "lateness", "disconnect"}) PROVE Progress'
  <2>1. Progress /\ set = rendered
    BY <1>2, <1>16 DEF ChatInv, Without
  <2>2. \A i \in DOMAIN events :
          events[i].kind # "warning" /\ (events[i].kind = "error" => events[i].gen = 0 /\ request'[events[i].by].gen = 0)
    BY <1>5, <1>7, <2>1 DEF Progress
  <2>3. ASSUME NEW p \in Requests, request'[p].reply = "yes"
        PROVE  request'[p].session = set.session /\ EndComes(p)'
    BY <1>5, <1>8, <2>1, <2>3 DEF Progress
  <2>4. ~set.streaming
    BY <1>2, <2>1
  <2>5. \A p \in Requests : request'[p].at = "found" => request'[p].session = set.session
    BY <1>5, <2>1 DEF Progress
  <2>6. QED
    BY <1>2, <2>1, <2>2, <2>3, <2>4, <2>5 DEF Progress
<1>17. QED
  BY <1>2, <1>6, <1>9, <1>10, <1>12, <1>13, <1>14, <1>15, <1>16 DEF ChatInv, Without

LEMMA ReplyKeeps == ASSUME ChatInv, NEW r \in Requests, Chat!Reply(r) PROVE ChatInv'
<1> USE ChatConstants
<1>0. ChatTyped /\ Rooted
  BY DEF ChatInv
<1>1. /\ Without({"batch"}) => set = rendered /\ queue = <<>>
      /\ request[r].reply # "none"
      /\ request' = [request EXCEPT ![r].reply = "none"]
      /\ set' \in {set, [set EXCEPT !.streaming = @ \/ request[r].reply = "yes"]}
      /\ UNCHANGED <<disturbed, sessions, events, starting, rendered, generation, newest, chat, pending, queue, screen>>
  BY DEF Chat!Reply, Chat!Turn, Chat!Rendered, Chat!May, Chat!counted, Without
<1>2. /\ request \in [Requests -> Chat!Request] /\ request' \in [Requests -> Chat!Request]
      /\ request'[r].reply = "none" /\ request'[r].at = request[r].at /\ request'[r].session = request[r].session
      /\ request'[r].gen = request[r].gen
      /\ \A p \in Requests \ {r} : request'[p] = request[p]
  <2>1. request \in [Requests -> Chat!Request] /\ request[r] \in Chat!Request
    BY <1>0 DEF ChatTyped
  <2>2. PICK q : q = [request[r] EXCEPT !.reply = "none"]
    OBVIOUS
  <2>3. q \in Chat!Request /\ q.reply = "none" /\ q.at = request[r].at /\ q.session = request[r].session /\ q.gen = request[r].gen
    BY <2>1, <2>2 DEF Chat!Request
  <2>4. request' = [request EXCEPT ![r] = q]
    BY <1>1, <2>1, <2>2
  <2>5. QED
    BY <2>1, <2>3, <2>4
<1>3. /\ set \in Chat!UI /\ set' \in Chat!UI /\ set'.session = set.session
      /\ set'.streaming => set.streaming \/ request[r].reply = "yes"
  BY <1>0, <1>1 DEF ChatTyped, Chat!UI
<1>4. ChatTyped'
  BY <1>0, <1>1, <1>2, <1>3 DEF ChatTyped
<1>5. RequestOK(r) /\ request[r].at # "unused"
  BY <1>0, <1>1 DEF Rooted, RequestOK, Chat!Unsent
<1>6. /\ \A p \in Requests : /\ request'[p].session = request[p].session /\ request'[p].gen = request[p].gen
                             /\ request'[p].at = request[p].at
                             /\ Tells(p)' <=> Tells(p)
                             /\ Underway(p)' <=> Underway(p)
                             /\ Unanswered(p)' => Unanswered(p)
                             /\ EndComes(p)' <=> EndComes(p)
  <2>1. \A p \in Requests : /\ request'[p].session = request[p].session /\ request'[p].gen = request[p].gen
                            /\ request'[p].at = request[p].at
                            /\ request'[p].reply # "none" => request'[p].reply = request[p].reply
    BY <1>2
  <2>2. QED
    BY <1>1, <2>1 DEF Tells, Underway, Unanswered, EndComes
<1>7. Rooted'
  <2>1. ASSUME NEW p \in Requests PROVE RequestOK(p)'
    <3>1. CASE p = r
      BY <1>1, <1>2, <1>5, <3>1 DEF RequestOK
    <3>2. CASE p # r
      BY <1>0, <1>1, <1>2, <3>2 DEF Rooted, RequestOK
    <3>3. QED
      BY <3>1, <3>2
  <2>2. ASSUME NEW i \in DOMAIN events PROVE EventOK(i)'
    <3>1. events[i].by \in Requests /\ EventOK(i)
      BY <1>0, EventOf DEF ChatTyped, Rooted
    <3>2. QED
      BY <1>1, <1>6, <3>1 DEF EventOK
  <2>3. QED
    BY <1>0, <1>1, <1>3, <1>6, <2>1, <2>2 DEF Rooted, Empty
<1>8. ASSUME Without({"batch"}) PROVE Exchanged'
  <2>1. Exchanged /\ set = rendered /\ set.session # NoSession
    BY <1>0, <1>1, <1>5, <1>8 DEF ChatInv, Rooted
  <2>2. QED
    BY <1>1, <1>3, <1>6, <2>1 DEF Exchanged, Short
<1>9. Without({"batch", "haste"}) => OneAtATime'
  BY <1>6 DEF ChatInv, OneAtATime
<1>10. ASSUME Without({"batch", "haste"}) PROVE Speaking'
  <2>1. \A p \in Requests : Speaker(p) => Speaker(p)'
    BY <1>1, <1>3, <1>6 DEF Speaker, Without
  <2>2. \A p \in Requests : Talks(p) => Talks(p)'
    BY <1>1, <2>1 DEF Talks
  <2>3. QED
    BY <1>1, <1>10, <2>2 DEF ChatInv, Speaking
<1>11. Without({"batch", "haste", "refusal", "loss"}) => Counting'
  BY <1>1, <1>3, <1>6 DEF ChatInv, Counting, Counts
<1>12. Without({"batch", "delete", "loss"}) => Belonging'
  BY <1>1, <1>3, <1>6 DEF ChatInv, Belonging
<1>13. ASSUME Without({"batch", "haste", "refusal", "loss", "error", "lateness", "disconnect"}) PROVE Progress'
  <2>1. Progress
    BY <1>13 DEF ChatInv
  <2>2. ASSUME NEW i \in DOMAIN events
        PROVE  events[i].kind # "warning" /\ (events[i].kind = "error" => events[i].gen = 0 /\ request'[events[i].by].gen = 0)
    BY <1>0, <1>6, <2>1, <2>2, EventOf DEF Progress, ChatTyped
  <2>3. ASSUME NEW p \in Requests, request'[p].reply = "yes"
        PROVE  request'[p].session = set.session /\ EndComes(p)'
    <3>1. request[p].reply = "yes"
      BY <1>2, <2>3
    <3>2. QED
      BY <1>6, <2>1, <3>1 DEF Progress
  <2>4. ASSUME set'.streaming
        PROVE  \E p \in Requests : request'[p].session = set.session /\ request'[p].gen > 0 /\ EndComes(p)'
    <3>1. CASE set.streaming
      BY <1>6, <2>1, <3>1 DEF Progress
    <3>2. CASE request[r].reply = "yes"
      BY <1>5, <1>6, <2>1, <3>2 DEF Progress, RequestOK
    <3>3. QED
      BY <1>3, <2>4, <3>1, <3>2
  <2>5. \A p \in Requests : request'[p].at = "found" => request'[p].session = set.session
    BY <1>6, <2>1 DEF Progress
  <2>6. QED
    BY <1>1, <1>3, <2>1, <2>2, <2>3, <2>4, <2>5 DEF Progress
<1>14. QED
  BY <1>1, <1>4, <1>7, <1>8, <1>9, <1>10, <1>11, <1>12, <1>13 DEF ChatInv, Without

(* When nothing waits for the next render, only the streaming message has  *)
(* an indicator.                                                           *)
LEMMA ScreenKept ==
  ASSUME ChatInv, queue = <<>>,
         Without({"batch", "haste", "refusal", "loss", "error", "lateness", "disconnect"})
  PROVE  Bubbles(screen)
<1>1. Progress /\ queue # <<Chat!Reset>> /\ \A n : queue # <<Chat!Finish(n)>>
  BY Queued DEF ChatInv
<1>2. QED
  BY <1>1 DEF Progress, Bubbles

LEMMA CancelRequestKeeps == ASSUME ChatInv, Chat!CancelRequest PROVE ChatInv'
<1> USE ChatConstants
<1>0. ChatTyped /\ Rooted
  BY DEF ChatInv
<1>1. PICK S : S = {rendered.session} \cap Chat!Live
  OBVIOUS
<1>2. /\ Without({"batch"}) => set = rendered /\ queue = <<>>
      /\ rendered.streaming /\ request' \in {request, Chat!Stopped(S)} /\ set' = [set EXCEPT !.streaming = FALSE]
      /\ Chat!EndBubble
      /\ UNCHANGED <<disturbed, sessions, events, starting, rendered, generation, newest, chat, pending>>
  BY <1>1 DEF Chat!CancelRequest, Chat!Turn, Chat!Rendered, Chat!May, Chat!counted, Without
<1>3. /\ set \in Chat!UI /\ set' \in Chat!UI /\ set'.session = set.session /\ ~set'.streaming
  BY <1>0, <1>2 DEF ChatTyped, Chat!UI
<1>4. /\ request' \in [Requests -> Chat!Request]
      /\ \A p \in Requests :
           /\ request'[p].session = request[p].session /\ request'[p].gen = request[p].gen
           /\ request'[p].reply = request[p].reply
           /\ request'[p] = request[p] \/ (request[p].at = "running" /\ request'[p].at = "stopping")
           /\ Underway(p)' <=> Underway(p)
  <2>1. CASE request' = request
    BY <1>0, <2>1 DEF ChatTyped, Underway
  <2>2. CASE request' = Chat!Stopped(S)
    BY <1>0, <2>2, StopsKeep
  <2>3. QED
    BY <1>2, <2>1, <2>2
<1>6. ChatTyped'
  BY <1>0, <1>2, <1>3, <1>4 DEF ChatTyped
<1>7. \A p \in Requests : /\ Tells(p)' <=> Tells(p)
                          /\ Unanswered(p)' <=> Unanswered(p)
                          /\ EndComes(p) => EndComes(p)'
  BY <1>2, <1>4 DEF Tells, Unanswered, EndComes
<1>8. Rooted'
  <2>1. ASSUME NEW p \in Requests PROVE RequestOK(p)'
    <3>1. request'[p] \in {request[p], Chat!Stopped(S)[p]} /\ RequestOK(p)
      BY <1>0, <1>2 DEF Rooted
    <3>2. \A t \in Sessions : sessions'[t] = sessions[t]
      BY <1>2
    <3>3. CASE request'[p] = request[p]
      BY <1>2, <3>1, <3>3 DEF RequestOK
    <3>4. CASE request'[p] = Chat!Stopped(S)[p]
      BY <1>0, <3>1, <3>2, <3>4, StopsOK
    <3>5. QED
      BY <3>1, <3>3, <3>4
  <2>2. ASSUME NEW i \in DOMAIN events PROVE EventOK(i)'
    <3>1. events[i].by \in Requests /\ EventOK(i)
      BY <1>0, EventOf DEF ChatTyped, Rooted
    <3>2. PICK p \in Requests : p = events[i].by
      BY <3>1
    <3>3. /\ request'[p].session = request[p].session /\ request'[p].gen = request[p].gen
          /\ request[p].at \in {"running", "stopping"} => request'[p].at \in {"running", "stopping"}
          /\ request[p].at = "over" => request'[p].at = "over"
      BY <1>4
    <3>4. QED
      BY <1>2, <3>1, <3>2, <3>3 DEF EventOK
  <2>3. \A p \in Requests : request[p].at = "unused" => request'[p].at = "unused"
    BY <1>4
  <2>4. QED
    BY <1>0, <1>2, <1>3, <1>4, <2>1, <2>2, <2>3 DEF Rooted, Empty
<1>9. \A p \in Requests : /\ request'[p].at = "sent" <=> request[p].at = "sent"
                          /\ request'[p].at = "found" <=> request[p].at = "found"
  BY <1>4
<1>10. Without({"batch", "haste"}) => OneAtATime'
  BY <1>4, <1>7 DEF ChatInv, OneAtATime
<1>11. ASSUME Without({"batch", "haste", "refusal", "loss"}) PROVE Counting'
  <2>1. Counting
    BY <1>11 DEF ChatInv
  <2>2. \A p \in Requests : request[p].session = set.session /\ request[p].at \in {"sent", "found"} =>
          request'[p].session = set.session /\ request'[p].at \in {"sent", "found"}
    BY <1>4, <1>9
  <2>3. \A p \in Requests : request'[p].session = set.session /\ Unanswered(p)' =>
          request[p].session = set.session /\ Unanswered(p) /\ request'[p].gen = request[p].gen
    BY <1>4, <1>7
  <2>4. Counts(set.session)' => Counts(set.session)
    BY <1>2, <1>3, <1>4, <1>9 DEF Counts
  <2>5. QED
    BY <1>2, <1>3, <2>1, <2>2, <2>3, <2>4 DEF Counting
<1>12. ASSUME Without({"batch"})
       PROVE  /\ screen' \in Chat!Screen /\ Numbered(screen') /\ screen'.bubble = 0
              /\ DOMAIN screen'.messages = DOMAIN screen.messages
              /\ \A i \in DOMAIN screen.messages : screen'.messages[i].from = screen.messages[i].from
              /\ queue' \in Seq(Updates) /\ Len(queue') <= 1 /\ queue' # <<Chat!Reset>>
              /\ \A q \in Requests : queue' # <<Chat!Chunk(q)>>
              /\ \A i \in DOMAIN queue' : queue'[i].op = "finish"
              /\ Bubbles(screen) => \A i \in DOMAIN screen'.messages :
                   screen'.messages[i].streaming => queue' = <<Chat!Finish(screen'.messages[i].id)>>
  BY <1>2, <1>12, EndBubbleIs DEF ChatInv, Exchanged
<1>13. ASSUME Without({"batch"}) PROVE Exchanged'
  <2>1. Exchanged /\ set = rendered /\ set.session # NoSession
    BY <1>2, <1>13 DEF ChatInv, Exchanged
  <2>2. QED
    BY <1>2, <1>3, <1>4, <1>9, <1>12, <1>13, <2>1 DEF Exchanged, Short
<1>14. ASSUME Without({"batch", "haste"}) PROVE Speaking'
  <2>1. Speaking /\ Without({"batch"})
    BY <1>14 DEF ChatInv, Without
  <2>2. QED
    BY <1>12, <2>1 DEF Speaking
<1>15. ASSUME Without({"batch", "delete", "loss"}) PROVE Belonging'
  <2>1. Belonging /\ Without({"batch"}) /\ queue # <<Chat!Reset>>
    BY <1>2, <1>15, Queued DEF ChatInv, Without
  <2>2. QED
    BY <1>2, <1>3, <1>4, <1>7, <1>12, <2>1 DEF Belonging
<1>16. ASSUME Without({"batch", "haste", "refusal", "loss", "error", "lateness", "disconnect"}) PROVE Progress'
  <2>1. Progress /\ Without({"batch"}) /\ queue = <<>>
    BY <1>2, <1>16 DEF ChatInv, Without
  <2>2. Bubbles(screen)
    BY <1>16, <2>1, ScreenKept
  <2>3. ASSUME NEW i \in DOMAIN events
        PROVE  events[i].kind # "warning" /\ (events[i].kind = "error" => events[i].gen = 0 /\ request'[events[i].by].gen = 0)
    BY <1>0, <1>4, <2>1, <2>3, EventOf DEF Progress, ChatTyped
  <2>4. \A p \in Requests : request'[p].reply = "yes" => request'[p].session = set.session /\ EndComes(p)'
    BY <1>4, <1>7, <2>1 DEF Progress
  <2>5. \A i \in DOMAIN screen'.messages :
          screen'.messages[i].streaming => queue' = <<Chat!Finish(screen'.messages[i].id)>>
    BY <1>12, <2>1, <2>2
  <2>6. \A p \in Requests : request'[p].at = "found" => request'[p].session = set.session
    BY <1>4, <1>9, <2>1 DEF Progress
  <2>7. QED
    BY <1>2, <1>3, <2>3, <2>4, <2>5, <2>6 DEF Progress
<1>17. QED
  BY <1>2, <1>6, <1>8, <1>10, <1>11, <1>13, <1>14, <1>15, <1>16 DEF ChatInv, Without

(* The events that are left when the first one has come.                   *)
LEMMA EventTaken ==
  ASSUME ChatTyped, Rooted, events # <<>>, events' = Tail(events), request' = request
  PROVE  /\ events' \in Seq(Chat!Event) /\ 1 \in DOMAIN events /\ events[1] = Head(events)
         /\ \A i \in DOMAIN events' : i + 1 \in DOMAIN events /\ events'[i] = events[i + 1] /\ i \in Nat
         /\ \A i \in DOMAIN events : i \in Nat /\ (i # 1 => i - 1 \in DOMAIN events')
         /\ \A i \in DOMAIN events' : EventOK(i)'
         /\ \A p \in Requests : /\ Tells(p)' => Tells(p)
                                /\ Underway(p)' <=> Underway(p)
                                /\ Unanswered(p)' => Unanswered(p)
                                /\ EndComes(p) => EndComes(p)' \/ (events[1].by = p /\ Final(events[1]))
<1>1. events \in Seq(Chat!Event)
  BY DEF ChatTyped
<1>2. PICK n \in Nat : n = Len(events) /\ n # 0 /\ DOMAIN events = 1 .. n
  BY <1>1
<1>3. /\ events' \in Seq(Chat!Event) /\ DOMAIN events' = 1 .. (n - 1) /\ events[1] = Head(events)
      /\ \A i \in 1 .. (n - 1) : events'[i] = events[i + 1]
  BY <1>1, <1>2
<1>4. /\ 1 \in DOMAIN events
      /\ \A i \in DOMAIN events' : i + 1 \in DOMAIN events /\ events'[i] = events[i + 1] /\ i \in Nat
      /\ \A i \in DOMAIN events : i \in Nat /\ (i # 1 => i - 1 \in DOMAIN events' /\ (i - 1) + 1 = i)
  BY <1>2, <1>3
<1>5. ASSUME NEW i \in DOMAIN events' PROVE EventOK(i)'
  <2>1. EventOK(i + 1) /\ events'[i] = events[i + 1]
    BY <1>4 DEF Rooted
  <2>2. ASSUME NEW j \in DOMAIN events, j > i + 1
        PROVE  j - 1 \in DOMAIN events' /\ j - 1 > i /\ events'[j - 1] = events[j]
    BY <1>4, <2>2
  <2>3. QED
    BY <2>1, <2>2 DEF EventOK, Final
<1>6. ASSUME NEW p \in Requests
      PROVE  /\ Tells(p)' => Tells(p)
             /\ Underway(p)' <=> Underway(p)
             /\ EndComes(p) => EndComes(p)' \/ (events[1].by = p /\ Final(events[1]))
  <2>1. Tells(p)' => Tells(p)
    BY <1>4 DEF Tells
  <2>2. Underway(p)' <=> Underway(p)
    BY DEF Underway
  <2>3. ASSUME EndComes(p), ~(events[1].by = p /\ Final(events[1])) PROVE EndComes(p)'
    <3>1. CASE request[p].at \in {"running", "stopping"}
      BY <3>1 DEF EndComes
    <3>2. CASE \E i \in DOMAIN events : events[i].by = p /\ Final(events[i])
      <4>1. PICK i \in DOMAIN events : events[i].by = p /\ Final(events[i])
        BY <3>2
      <4>2. i - 1 \in DOMAIN events' /\ events'[i - 1] = events[i]
        BY <1>4, <2>3, <4>1
      <4>3. QED
        BY <4>1, <4>2 DEF EndComes, Final
    <3>3. QED
      BY <2>3, <3>1, <3>2 DEF EndComes
  <2>4. QED
    BY <2>1, <2>2, <2>3
<1>7. \A p \in Requests : Unanswered(p)' => Unanswered(p)
  BY <1>6 DEF Unanswered
<1>8. QED
  BY <1>3, <1>4, <1>5, <1>6, <1>7

LEMMA HandleKeeps == ASSUME ChatInv, Chat!Handle PROVE ChatInv'
<1> USE ChatConstants
<1>0. ChatTyped /\ Rooted
  BY DEF ChatInv
<1>1. PICK e : e = Head(events)
  OBVIOUS
<1>2. /\ Without({"batch"}) => set = rendered /\ queue = <<>>
      /\ events # <<>> /\ events' = Tail(events) /\ (Without({"lateness"}) => request[e.by].reply = "none")
      /\ UNCHANGED <<disturbed, sessions, request, starting, rendered, generation, newest, chat, pending>>
  BY <1>1 DEF Chat!Handle, Chat!Turn, Chat!Rendered, Chat!May, Chat!counted, Without
<1>3. /\ events' \in Seq(Chat!Event) /\ 1 \in DOMAIN events /\ events[1] = e
      /\ \A i \in DOMAIN events' : i + 1 \in DOMAIN events /\ events'[i] = events[i + 1]
      /\ \A i \in DOMAIN events' : EventOK(i)'
      /\ \A p \in Requests : /\ Tells(p)' => Tells(p)
                             /\ Underway(p)' <=> Underway(p)
                             /\ Unanswered(p)' => Unanswered(p)
                             /\ EndComes(p) => EndComes(p)' \/ (e.by = p /\ Final(e))
  BY <1>0, <1>1, <1>2, EventTaken
<1>4. e \in Chat!Event /\ e.by \in Requests /\ e.gen \in Nat /\ e.session \in Sessions /\ EventOK(1)
  BY <1>0, <1>3, EventOf DEF ChatTyped, Rooted
<1>5. PICK r \in Requests : r = e.by
  BY <1>4
<1>6. /\ request[r].at \in {"running", "stopping", "over"} /\ e.session = request[r].session
      /\ e.gen \in {0, request[r].gen} /\ (e.kind # "error" => e.gen > 0)
      /\ e.kind = "chunk" => EndComes(r)
      /\ Tells(r) /\ Unanswered(r) /\ set.session # NoSession
  <2>1. /\ request[r].at \in {"running", "stopping", "over"} /\ e.session = request[r].session
        /\ e.gen \in {0, request[r].gen} /\ (e.kind # "error" => e.gen > 0)
        /\ e.kind = "chunk" => EndComes(r)
    BY <1>3, <1>4, <1>5 DEF EventOK, EndComes
  <2>2. Tells(r) /\ Unanswered(r)
    BY <1>3, <1>5 DEF Tells, Unanswered
  <2>3. set.session # NoSession
    BY <1>0, <2>1 DEF Rooted
  <2>4. QED
    BY <2>1, <2>2, <2>3
<1>7. /\ set \in Chat!UI /\ set' \in Chat!UI /\ set'.session = set.session
      /\ set' = set \/ ~set'.streaming
  <2>1. set \in Chat!UI
    BY <1>0 DEF ChatTyped
  <2>2. set' = set \/ set' = [set EXCEPT !.streaming = FALSE]
    BY DEF Chat!Handle
  <2>3. QED
    BY <2>1, <2>2 DEF Chat!UI
<1>8. ChatTyped'
  BY <1>0, <1>2, <1>3, <1>7 DEF ChatTyped
<1>9. Rooted'
  <2>1. \A p \in Requests : RequestOK(p)'
    BY <1>0, <1>2 DEF Rooted, RequestOK
  <2>2. QED
    BY <1>0, <1>2, <1>3, <1>7, <2>1 DEF Rooted, Empty
<1>10. Without({"batch", "haste"}) => OneAtATime'
  BY <1>2, <1>3 DEF ChatInv, OneAtATime
<1>11. Without({"batch", "haste", "refusal", "loss"}) => Counting'
  BY <1>2, <1>3, <1>7 DEF ChatInv, Counting, Counts
<1>12. ASSUME NEW p \in Requests, Speaker(p), e.by = p => ~Final(e) PROVE Speaker(p)'
  <2>1. EndComes(p) => EndComes(p)'
    BY <1>3, <1>12
  <2>2. ASSUME NEW q \in Requests \ {p}, request[q].session = set.session, NEW i \in DOMAIN events', events'[i].by = q
        PROVE  events'[i].kind # "chunk"
    BY <1>3, <1>12, <2>2 DEF Speaker
  <2>3. QED
    BY <1>2, <1>7, <1>12, <2>1, <2>2 DEF Speaker, Without
<1>13. ASSUME NEW i \in DOMAIN events', Progress
       PROVE  events'[i].kind # "warning" /\ (events'[i].kind = "error" => events'[i].gen = 0 /\ request[events'[i].by].gen = 0)
  BY <1>3, <1>13 DEF Progress
<1>14. ASSUME NEW p \in Requests, Progress, Without({"lateness"}), request[p].reply = "yes"
       PROVE  request[p].session = set.session /\ EndComes(p)'
  <2>1. p # r
    BY <1>2, <1>5, <1>14
  <2>2. QED
    BY <1>3, <1>5, <1>14, <2>1 DEF Progress
<1>15. Without({"batch", "delete", "loss"}) /\ r \in chat /\ queue' # <<Chat!Reset>>
         /\ (\A i \in DOMAIN screen'.messages :
               \/ screen'.messages[i].from = {r}
               \/ /\ i \in DOMAIN screen.messages
                  /\ screen'.messages[i].from \in {screen.messages[i].from, screen.messages[i].from \cup {r}})
         /\ (\A i \in DOMAIN queue' : queue'[i].op = "finish" \/ queue'[i].by = r)
       => Belonging'
  <2> SUFFICES ASSUME Without({"batch", "delete", "loss"}), r \in chat, queue' # <<Chat!Reset>>,
                      \A i \in DOMAIN screen'.messages :
                        \/ screen'.messages[i].from = {r}
                        \/ /\ i \in DOMAIN screen.messages
                           /\ screen'.messages[i].from \in {screen.messages[i].from, screen.messages[i].from \cup {r}},
                      \A i \in DOMAIN queue' : queue'[i].op = "finish" \/ queue'[i].by = r
               PROVE  Belonging'
    OBVIOUS
  <2>1. Belonging /\ queue # <<Chat!Reset>>
    BY <1>2, Queued DEF ChatInv, Without
  <2>2. \A i \in DOMAIN screen'.messages : screen'.messages[i].from \subseteq chat
    BY <2>1 DEF Belonging
  <2>3. QED
    BY <1>2, <1>3, <1>7, <2>1, <2>2 DEF Belonging
<1>16. ASSUME Without({"batch", "delete", "loss"}), e.session = rendered.session PROVE r \in chat
  BY <1>2, <1>6, <1>16 DEF ChatInv, Belonging, Without
<1>17. ASSUME Without({"batch"}) PROVE Exchanged /\ set = rendered /\ queue = <<>> /\ screen \in Chat!Screen /\ Numbered(screen)
  BY <1>2, <1>17 DEF ChatInv, Exchanged
<1>18. ASSUME Without({"batch"}), screen' \in Chat!Screen, Numbered(screen'), queue' \in Seq(Updates), Len(queue') <= 1
       PROVE  Exchanged'
  BY <1>2, <1>6, <1>7, <1>17, <1>18 DEF Exchanged, Short
<1>19. CASE ~Chat!Heard(e) /\ UNCHANGED <<set, queue, screen>>
  <2>1. Without({"batch"}) => Exchanged'
    BY <1>17, <1>18, <1>19 DEF Exchanged, Short
  <2>2. ASSUME Without({"batch", "haste"}) PROVE Speaking'
    <3>1. ASSUME NEW p \in Requests, Speaker(p) PROVE Speaker(p)'
      <4>1. CASE e.by = p
        <5>1. set = rendered /\ e.session = rendered.session
          BY <1>2, <1>5, <1>6, <2>2, <3>1, <4>1 DEF Speaker, Without
        <5>2. ~(e.gen = 0 \/ e.gen >= generation)
          BY <1>19, <5>1 DEF Chat!Heard
        <5>3. ~(request[p].gen >= generation)
          BY <1>5, <1>6, <4>1, <5>2
        <5>4. ~(sessions[set.session].stage = "live" \/ Without({"disconnect"}))
          BY <3>1, <5>3 DEF Speaker
        <5>5. ASSUME NEW q \in Requests \ {p}, request[q].session = set.session, NEW i \in DOMAIN events', events'[i].by = q
              PROVE  events'[i].kind # "chunk"
          BY <1>3, <3>1, <5>5 DEF Speaker
        <5>6. QED
          BY <1>2, <1>19, <3>1, <5>4, <5>5 DEF Speaker, Without
      <4>2. CASE e.by # p
        BY <1>12, <3>1, <4>2
      <4>3. QED
        BY <4>1, <4>2
    <3>2. \A p \in Requests : Talks(p) => Talks(p)'
      BY <1>19, <3>1 DEF Talks
    <3>3. QED
      BY <1>19, <2>2, <3>2 DEF ChatInv, Speaking
  <2>3. Without({"batch", "delete", "loss"}) => Belonging'
    BY <1>2, <1>3, <1>19 DEF ChatInv, Belonging
  <2>4. ASSUME Without({"batch", "haste", "refusal", "loss", "error", "lateness", "disconnect"}) PROVE Progress'
    <3>1. Progress /\ Counting /\ Without({"lateness"}) /\ set = rendered
      BY <1>2, <2>4 DEF ChatInv, Without
    <3>2. ASSUME NEW p \in Requests, request[p].session = set.session, request[p].gen > 0, EndComes(p)
          PROVE  EndComes(p)'
      <4>1. CASE p # r
        BY <1>3, <1>5, <3>2, <4>1
      <4>2. CASE p = r
        <5>1. request[r].gen >= generation
          <6>1. request[r].gen \in Nat /\ request[r].gen # 0
            BY <1>0, <3>2, <4>2 DEF ChatTyped, Chat!Request
          <6>2. QED
            BY <1>6, <3>1, <3>2, <4>2, <6>1 DEF Counting
        <5>2. Chat!Heard(e)
          BY <1>6, <3>1, <3>2, <4>2, <5>1 DEF Chat!Heard
        <5>3. QED
          BY <1>19, <5>2
      <4>3. QED
        BY <4>1, <4>2
    <3>3. QED
      BY <1>2, <1>13, <1>14, <1>19, <3>1, <3>2 DEF Progress
  <2>5. QED
    BY <1>2, <1>8, <1>9, <1>10, <1>11, <2>1, <2>2, <2>3, <2>4 DEF ChatInv, Without
<1>20. CASE Chat!Heard(e) /\ e.kind = "chunk" /\ Chat!Show(Chat!Chunk(e.by), FALSE) /\ UNCHANGED set
  <2>1. /\ e.session = rendered.session /\ request[r].gen = e.gen /\ e.gen > 0 /\ request[r].gen >= generation
        /\ Chat!Show(Chat!Chunk(r), FALSE)
    <3>1. e.session = rendered.session /\ (e.gen = 0 \/ e.gen >= generation)
      BY <1>20 DEF Chat!Heard
    <3>2. e.gen > 0 /\ request[r].gen = e.gen
      BY <1>4, <1>6, <1>20
    <3>3. request[r].gen >= generation
      BY <1>4, <3>1, <3>2
    <3>4. Chat!Show(Chat!Chunk(r), FALSE)
      BY <1>5, <1>20
    <3>5. QED
      BY <3>1, <3>2, <3>3, <3>4
  <2>2. ASSUME Without({"batch"})
        PROVE  /\ screen' \in Chat!Screen /\ Numbered(screen')
               /\ \A i \in DOMAIN screen'.messages :
                    \/ screen'.messages[i].from = {r}
                    \/ /\ i \in DOMAIN screen.messages
                       /\ screen'.messages[i].from \in {screen.messages[i].from, screen.messages[i].from \cup {r}}
               /\ OneOnly(screen, r) => OneOnly(screen', r) /\ \A i \in DOMAIN screen'.messages :
                    \/ screen'.messages[i].from = {r}
                    \/ i \in DOMAIN screen.messages /\ screen'.messages[i].from = screen.messages[i].from
               /\ Bubbles(screen) => Bubbles(screen')
               /\ queue' \in Seq(Updates) /\ Len(queue') <= 1 /\ queue' # <<Chat!Reset>>
               /\ queue' # <<>> => queue' = <<Chat!Chunk(r)>>
               /\ \A q \in Requests : queue' = <<Chat!Chunk(q)>> => q = r
               /\ \A i \in DOMAIN queue' : queue'[i].by = r
    BY <1>17, <2>1, <2>2, ShowChunkIs
  <2>3. ASSUME Without({"batch", "haste"}) PROVE Speaking'
    <3>1. Speaking /\ OneAtATime /\ set = rendered /\ Without({"batch"})
      BY <1>2, <2>3 DEF ChatInv, Without
    <3>2. Speaker(r)
      <4>1. ASSUME NEW q \in Requests \ {r}, request[q].session = set.session PROVE ~Unanswered(q)
        BY <1>6, <2>1, <3>1, <4>1 DEF OneAtATime
      <4>2. ASSUME NEW q \in Requests \ {r}, request[q].session = set.session
            PROVE  /\ request[q].at \notin {"found", "running", "stopping", "sent"}
                   /\ \A i \in DOMAIN events : events[i].by # q
        BY <4>1, <4>2 DEF Unanswered, Underway, Tells
      <4>3. QED
        BY <1>6, <1>20, <2>1, <3>1, <4>2 DEF Speaker
    <3>3. Speaker(r)'
      BY <1>12, <1>20, <3>2 DEF Final
    <3>4. OneOnly(screen, r)
      <4>1. ASSUME screen.bubble # 0 PROVE OneOnly(screen, r)
        <5>1. PICK p \in Requests : Speaker(p) /\ OneOnly(screen, p)
          BY <3>1, <4>1 DEF Speaking, Talks
        <5>2. p = r
          BY <1>3, <1>5, <1>6, <1>20, <2>1, <3>1, <5>1 DEF Speaker
        <5>3. QED
          BY <5>1, <5>2
      <4>2. QED
        BY <4>1 DEF OneOnly
    <3>5. OneOnly(screen', r)
      BY <2>2, <3>1, <3>4
    <3>6. Talks(r)'
      BY <3>3, <3>5 DEF Talks
    <3>7. \A i \in DOMAIN screen'.messages : \E q \in Requests : screen'.messages[i].from = {q}
      BY <2>2, <3>1, <3>4 DEF Speaking
    <3>8. QED
      BY <2>2, <3>1, <3>6, <3>7 DEF Speaking
  <2>4. Without({"batch"}) => Exchanged'
    BY <1>18, <2>2
  <2>5. ASSUME Without({"batch", "delete", "loss"}) PROVE Belonging'
    <3>1. r \in chat /\ Without({"batch"})
      BY <1>16, <2>1, <2>5 DEF Without
    <3>2. QED
      BY <1>15, <2>2, <2>5, <3>1
  <2>6. ASSUME Without({"batch", "haste", "refusal", "loss", "error", "lateness", "disconnect"}) PROVE Progress'
    <3>1. Progress /\ Without({"lateness"}) /\ Without({"batch"}) /\ queue = <<>>
      BY <1>2, <2>6 DEF ChatInv, Without
    <3>2. Bubbles(screen')
      BY <2>2, <2>6, <3>1, ScreenKept
    <3>3. \A p \in Requests : EndComes(p) => EndComes(p)'
      BY <1>3, <1>20 DEF Final
    <3>4. set.streaming => \E p \in Requests :
            request[p].session = set.session /\ request[p].gen > 0 /\ EndComes(p)'
      BY <3>1, <3>3 DEF Progress
    <3>5. QED
      BY <1>2, <1>13, <1>14, <1>20, <3>1, <3>2, <3>4 DEF Progress, Bubbles
  <2>7. QED
    BY <1>2, <1>8, <1>9, <1>10, <1>11, <2>3, <2>4, <2>5, <2>6 DEF ChatInv, Without
<1>21. CASE Chat!Heard(e) /\ e.kind = "error" /\ Chat!Show(Chat!Error(e.by), TRUE) /\ set' = [set EXCEPT !.streaming = FALSE]
  <2>1. e.session = rendered.session /\ Chat!Show(Chat!Error(r), TRUE) /\ ~set'.streaming
    BY <1>5, <1>7, <1>21 DEF Chat!Heard, Chat!UI
  <2>2. ASSUME Without({"batch"})
        PROVE  /\ screen' \in Chat!Screen /\ Numbered(screen') /\ screen'.bubble = 0
               /\ \A i \in DOMAIN screen'.messages :
                    /\ \/ screen'.messages[i].from = {r}
                       \/ i \in DOMAIN screen.messages /\ screen'.messages[i].from = screen.messages[i].from
                    /\ screen'.messages[i].streaming => i \in DOMAIN screen.messages /\ screen.messages[i].streaming
               /\ queue' \in Seq(Updates) /\ Len(queue') <= 1 /\ queue' # <<Chat!Reset>>
               /\ \A q \in Requests : queue' # <<Chat!Chunk(q)>>
               /\ \A i \in DOMAIN queue' : queue'[i].by = r
    BY <1>17, <2>1, <2>2, ShowErrorIs
  <2>3. ASSUME Without({"batch", "haste"}) PROVE Speaking'
    <3>1. Speaking /\ Without({"batch"})
      BY <2>3 DEF ChatInv, Without
    <3>2. \A i \in DOMAIN screen'.messages : \E q \in Requests : screen'.messages[i].from = {q}
      BY <2>2, <3>1 DEF Speaking
    <3>3. QED
      BY <2>2, <3>1, <3>2 DEF Speaking
  <2>4. Without({"batch"}) => Exchanged'
    BY <1>18, <2>2
  <2>5. ASSUME Without({"batch", "delete", "loss"}) PROVE Belonging'
    <3>1. r \in chat /\ Without({"batch"})
      BY <1>16, <2>1, <2>5 DEF Without
    <3>2. QED
      BY <1>15, <2>2, <2>5, <3>1
  <2>6. ASSUME Without({"batch", "haste", "refusal", "loss", "error", "lateness", "disconnect"}) PROVE Progress'
    <3>1. /\ Progress /\ Speaking /\ OneAtATime /\ Without({"lateness"}) /\ Without({"batch"}) /\ Without({"disconnect"})
          /\ queue = <<>> /\ set = rendered
      BY <1>2, <2>6 DEF ChatInv, Without
    <3>2. request[r].gen = 0
      BY <1>3, <1>5, <1>21, <3>1 DEF Progress
    <3>3. screen.bubble = 0
      <4>1. ASSUME screen.bubble # 0 PROVE FALSE
        <5>1. PICK p \in Requests : Speaker(p)
          BY <3>1, <4>1 DEF Speaking, Talks
        <5>2. request[p].gen > 0 /\ EndComes(p) /\ request[p].session = set.session
          BY <3>1, <5>1 DEF Speaker
        <5>3. Unanswered(p)
          BY <5>2 DEF EndComes, Unanswered, Underway, Tells
        <5>4. p = r
          BY <1>6, <2>1, <3>1, <5>2, <5>3 DEF OneAtATime
        <5>5. QED
          BY <3>2, <5>2, <5>4
      <4>2. QED
        BY <4>1
    <3>4. Bubbles(screen)
      BY <2>6, <3>1, ScreenKept
    <3>5. \A i \in DOMAIN screen'.messages : ~screen'.messages[i].streaming
      BY <2>2, <3>1, <3>3, <3>4 DEF Bubbles
    <3>6. QED
      BY <1>2, <1>7, <1>13, <1>14, <2>1, <3>1, <3>5 DEF Progress
  <2>7. QED
    BY <1>2, <1>8, <1>9, <1>10, <1>11, <2>3, <2>4, <2>5, <2>6 DEF ChatInv, Without
<1>22. CASE Chat!Heard(e) /\ e.kind = "done" /\ Chat!EndBubble /\ set' = [set EXCEPT !.streaming = FALSE]
  <2>1. e.session = rendered.session /\ ~set'.streaming
    BY <1>7, <1>22 DEF Chat!Heard, Chat!UI
  <2>2. ASSUME Without({"batch"})
        PROVE  /\ screen' \in Chat!Screen /\ Numbered(screen') /\ screen'.bubble = 0
               /\ DOMAIN screen'.messages = DOMAIN screen.messages
               /\ \A i \in DOMAIN screen.messages : screen'.messages[i].from = screen.messages[i].from
               /\ queue' \in Seq(Updates) /\ Len(queue') <= 1 /\ queue' # <<Chat!Reset>>
               /\ \A q \in Requests : queue' # <<Chat!Chunk(q)>>
               /\ \A i \in DOMAIN queue' : queue'[i].op = "finish"
               /\ Bubbles(screen) => \A i \in DOMAIN screen'.messages :
                    screen'.messages[i].streaming => queue' = <<Chat!Finish(screen'.messages[i].id)>>
    BY <1>17, <1>22, <2>2, EndBubbleIs
  <2>3. ASSUME Without({"batch", "haste"}) PROVE Speaking'
    <3>1. Speaking /\ Without({"batch"})
      BY <2>3 DEF ChatInv, Without
    <3>2. QED
      BY <2>2, <3>1 DEF Speaking
  <2>4. Without({"batch"}) => Exchanged'
    BY <1>18, <2>2
  <2>5. ASSUME Without({"batch", "delete", "loss"}) PROVE Belonging'
    <3>1. r \in chat /\ Without({"batch"})
      BY <1>16, <2>1, <2>5 DEF Without
    <3>2. QED
      BY <1>15, <2>2, <2>5, <3>1
  <2>6. ASSUME Without({"batch", "haste", "refusal", "loss", "error", "lateness", "disconnect"}) PROVE Progress'
    <3>1. Progress /\ Without({"lateness"}) /\ Without({"batch"}) /\ queue = <<>>
      BY <1>2, <2>6 DEF ChatInv, Without
    <3>2. Bubbles(screen)
      BY <2>6, <3>1, ScreenKept
    <3>3. \A i \in DOMAIN screen'.messages :
            screen'.messages[i].streaming => queue' = <<Chat!Finish(screen'.messages[i].id)>>
      BY <2>2, <3>1, <3>2
    <3>4. QED
      BY <1>2, <1>7, <1>13, <1>14, <2>1, <3>1, <3>3 DEF Progress
  <2>7. QED
    BY <1>2, <1>8, <1>9, <1>10, <1>11, <2>3, <2>4, <2>5, <2>6 DEF ChatInv, Without
<1>23. CASE Chat!Heard(e) /\ e.kind = "warning" /\ Chat!Show(Chat!Error(e.by), FALSE) /\ UNCHANGED set
  <2>1. e.session = rendered.session /\ Chat!Show(Chat!Error(r), FALSE)
    BY <1>5, <1>23 DEF Chat!Heard
  <2>2. ASSUME Without({"batch"})
        PROVE  /\ screen' \in Chat!Screen /\ Numbered(screen')
               /\ (screen'.bubble = 0 /\ queue' = <<>>) \/ (screen' = screen /\ queue' = <<Chat!Error(r)>>)
               /\ \A i \in DOMAIN screen'.messages :
                    \/ screen'.messages[i].from = {r}
                    \/ i \in DOMAIN screen.messages /\ screen'.messages[i].from = screen.messages[i].from
               /\ queue' \in Seq(Updates) /\ Len(queue') <= 1 /\ queue' # <<Chat!Reset>>
               /\ \A q \in Requests : queue' # <<Chat!Chunk(q)>>
               /\ \A i \in DOMAIN queue' : queue'[i].by = r
    BY <1>17, <2>1, <2>2, ShowWarningIs
  <2>3. ASSUME Without({"batch", "haste"}) PROVE Speaking'
    <3>1. Speaking /\ Without({"batch"})
      BY <2>3 DEF ChatInv, Without
    <3>2. \A i \in DOMAIN screen'.messages : \E q \in Requests : screen'.messages[i].from = {q}
      BY <2>2, <3>1 DEF Speaking
    <3>3. CASE screen'.bubble = 0 /\ queue' = <<>>
      BY <2>2, <3>1, <3>2, <3>3 DEF Speaking
    <3>4. CASE screen' = screen /\ queue' = <<Chat!Error(r)>>
      <4>1. ~Final(e)
        BY <1>23 DEF Final
      <4>2. \A p \in Requests : Talks(p) => Talks(p)'
        BY <1>12, <3>4, <4>1 DEF Talks
      <4>3. QED
        BY <2>2, <3>1, <3>2, <3>4, <4>2 DEF Speaking
    <3>5. QED
      BY <2>2, <3>1, <3>3, <3>4
  <2>4. Without({"batch"}) => Exchanged'
    BY <1>18, <2>2
  <2>5. ASSUME Without({"batch", "delete", "loss"}) PROVE Belonging'
    <3>1. r \in chat /\ Without({"batch"})
      BY <1>16, <2>1, <2>5 DEF Without
    <3>2. QED
      BY <1>15, <2>2, <2>5, <3>1
  <2>6. ~Without({"batch", "haste", "refusal", "loss", "error", "lateness", "disconnect"})
    BY <1>3, <1>23 DEF ChatInv, Progress
  <2>7. QED
    BY <1>2, <1>8, <1>9, <1>10, <1>11, <2>3, <2>4, <2>5, <2>6 DEF ChatInv, Without
<1>24. QED
  BY <1>1, <1>19, <1>20, <1>21, <1>22, <1>23 DEF Chat!Handle

(* What updaters make of the messages, one after the other: the recursion   *)
(* has a solution.                                                         *)
LEMMA AppliedSteps ==
  ASSUME NEW scr, NEW q, NEW n \in Nat, n = Len(q)
  PROVE  \E after : /\ Chat!Applied(scr, q) = after[n]
                    /\ \A k \in 0 .. n : after[k] = IF k = 0 THEN scr ELSE Chat!Updated(after[k - 1], q[k])
<1> DEFINE Folded(f) == [i \in 0 .. Len(q) |-> IF i = 0 THEN scr ELSE Chat!Updated(f[i - 1], q[i])]
           Follows(f, k) == \A i \in 0 .. k : f[i] = IF i = 0 THEN scr ELSE Chat!Updated(f[i - 1], q[i])
<1>1. n \in Nat /\ n = Len(q)
  OBVIOUS
<1>2. \A k \in 0 .. n : \E f : f = [i \in 0 .. k |-> f[i]] /\ Follows(f, k)
  <2>1. PICK T : T = {k \in 0 .. n : ~\E f : f = [i \in 0 .. k |-> f[i]] /\ Follows(f, k)}
    OBVIOUS
  <2>2. SUFFICES ASSUME T # {} PROVE FALSE
    BY <2>1
  <2>3. T \in SUBSET Nat
    BY <2>1
  <2>4. PICK k \in T : \A j \in T : k <= j
    BY <2>2, <2>3, LeastNumber
  <2>5. k \in 0 .. n /\ k \in Nat
    BY <2>1
  <2>6. CASE k = 0
    <3>1. PICK f : f = [i \in 0 .. 0 |-> scr]
      OBVIOUS
    <3>2. f = [i \in 0 .. 0 |-> f[i]] /\ Follows(f, 0)
      BY <3>1
    <3>3. QED
      BY <2>1, <2>6, <3>2
  <2>7. CASE k # 0
    <3>1. k - 1 \in 0 .. n /\ ~(k <= k - 1) /\ (\A i \in 0 .. k : i \in 0 .. (k - 1) \/ i = k)
          /\ \A i \in 0 .. k : i # 0 => i - 1 \in 0 .. (k - 1)
      BY <1>1, <2>5, <2>7
    <3>2. PICK f : f = [i \in 0 .. (k - 1) |-> f[i]] /\ Follows(f, k - 1)
      BY <2>1, <2>4, <3>1
    <3>3. PICK g : g = [i \in 0 .. k |-> IF i = k THEN Chat!Updated(f[k - 1], q[k]) ELSE f[i]]
      OBVIOUS
    <3>4. g = [i \in 0 .. k |-> g[i]]
      BY <3>3
    <3>5. \A i \in 0 .. (k - 1) : g[i] = f[i]
      <4>1. \A i \in 0 .. (k - 1) : i \in 0 .. k /\ i # k
        BY <2>5
      <4>2. QED
        BY <3>3, <4>1
    <3>6. ASSUME NEW i \in 0 .. k PROVE g[i] = IF i = 0 THEN scr ELSE Chat!Updated(g[i - 1], q[i])
      <4>1. CASE i = k
        <5>1. i # 0 /\ i - 1 \in 0 .. (k - 1) /\ g[i] = Chat!Updated(f[k - 1], q[k])
          BY <2>7, <3>1, <3>3, <4>1
        <5>2. QED
          BY <3>5, <4>1, <5>1
      <4>2. CASE i # k
        <5>1. i \in 0 .. (k - 1) /\ (i # 0 => i - 1 \in 0 .. (k - 1))
          BY <3>1, <4>2
        <5>2. f[i] = IF i = 0 THEN scr ELSE Chat!Updated(f[i - 1], q[i])
          BY <3>2, <5>1
        <5>3. QED
          BY <3>5, <5>1, <5>2
      <4>3. QED
        BY <4>1, <4>2
    <3>7. QED
      BY <2>1, <3>4, <3>6
  <2>8. QED
    BY <2>6, <2>7
<1>3. \E f : f = Folded(f)
  <2>1. n \in 0 .. n
    BY <1>1
  <2>2. PICK f : f = [i \in 0 .. n |-> f[i]] /\ Follows(f, n)
    BY <1>2, <2>1
  <2>3. f = Folded(f)
    BY <1>1, <2>2
  <2>4. QED
    BY <2>3
<1>4. PICK after : after = CHOOSE f : f = Folded(f)
  OBVIOUS
<1>5. after = Folded(after)
  <2> HIDE DEF Folded
  <2>1. QED
    BY <1>3, <1>4
<1>6. Chat!Applied(scr, q) = after[n]
  BY <1>1, <1>4 DEF Chat!Applied
<1>7. \A k \in 0 .. n : after[k] = IF k = 0 THEN scr ELSE Chat!Updated(after[k - 1], q[k])
  BY <1>1, <1>5
<1>8. QED
  BY <1>6, <1>7

(* What at most one updater makes of them. *)
LEMMA AppliedIs ==
  ASSUME NEW scr, NEW q, NEW u, q = <<>> \/ q = <<u>>
  PROVE  Chat!Applied(scr, q) = IF q = <<>> THEN scr ELSE Chat!Updated(scr, u)
<1>1. PICK n : n = Len(q) /\ n \in {0, 1} /\ (n = 0 <=> q = <<>>) /\ (n = 1 => q[1] = u)
  <2>1. CASE q = <<>>
    BY <2>1
  <2>2. CASE q = <<u>>
    <3>1. Len(q) = 1 /\ q[1] = u /\ q # <<>>
      BY <2>2
    <3>2. QED
      BY <3>1
  <2>3. QED
    BY <2>1, <2>2
<1>2. PICK after : /\ Chat!Applied(scr, q) = after[n]
                   /\ \A k \in 0 .. n : after[k] = IF k = 0 THEN scr ELSE Chat!Updated(after[k - 1], q[k])
  BY <1>1, AppliedSteps
<1>3. 0 \in 0 .. n /\ (n = 1 => 1 \in 0 .. n /\ 1 - 1 = 0 /\ 1 # 0)
  BY <1>1
<1>4. QED
  BY <1>1, <1>2, <1>3

LEMMA RenderScreen ==
  ASSUME ChatInv, Without({"batch"}), screen' = Chat!Applied(screen, queue)
  PROVE  /\ screen' \in Chat!Screen /\ Numbered(screen')
         /\ queue = <<>> => screen' = screen
         /\ queue = <<Chat!Reset>> => screen'.bubble = screen.bubble /\ DOMAIN screen'.messages = {}
         /\ Without({"batch", "delete", "loss"}) => \A i \in DOMAIN screen'.messages : screen'.messages[i].from \subseteq chat
         /\ Without({"batch", "haste"}) =>
              /\ \A i \in DOMAIN screen'.messages : \E r \in Requests : screen'.messages[i].from = {r}
              /\ screen'.bubble # 0 => \E r \in Requests : Speaker(r) /\ OneOnly(screen', r)
         /\ Without({"batch", "haste", "refusal", "loss", "error", "lateness", "disconnect"}) => Bubbles(screen')
<1>1. Exchanged /\ screen \in Chat!Screen /\ Numbered(screen) /\ Short
  BY DEF ChatInv, Exchanged
<1>2. /\ Without({"batch", "delete", "loss"}) => Belonging
      /\ Without({"batch", "haste"}) => Speaking
      /\ Without({"batch", "haste", "refusal", "loss", "error", "lateness", "disconnect"}) => Progress /\ Speaking
  BY DEF ChatInv, Without
<1>3. CASE queue = <<>>
  <2>1. screen' = screen
    BY <1>3, AppliedIs
  <2>2. queue # <<Chat!Reset>>
    BY <1>3, Queued
  <2>3. Without({"batch", "haste", "refusal", "loss", "error", "lateness", "disconnect"}) => Bubbles(screen')
    BY <1>3, <2>1, ScreenKept
  <2>4. Without({"batch", "delete", "loss"}) => \A i \in DOMAIN screen'.messages : screen'.messages[i].from \subseteq chat
    BY <1>2, <2>1, <2>2 DEF Belonging
  <2>5. Without({"batch", "haste"}) =>
              /\ \A i \in DOMAIN screen'.messages : \E r \in Requests : screen'.messages[i].from = {r}
              /\ screen'.bubble # 0 => \E r \in Requests : Speaker(r) /\ OneOnly(screen', r)
    BY <1>2, <2>1 DEF Speaking, Talks
  <2>6. QED
    BY <1>1, <2>1, <2>2, <2>3, <2>4, <2>5
<1>4. CASE queue # <<>>
  <2>1. PICK u \in Updates : queue = <<u>>
    <3>1. PICK q \in Seq(Updates) : q = queue /\ Len(q) <= 1 /\ q # <<>>
      BY <1>1, <1>4 DEF Short
    <3>2. PICK n \in Nat : n = Len(q) /\ n <= 1 /\ n # 0
      BY <3>1
    <3>3. Len(q) = 1
      <4>1. n = 1
        BY <3>2
      <4>2. QED
        BY <3>2, <4>1
    <3>4. PICK v \in Updates : v = q[1]
      BY <3>3
    <3>5. q = <<v>>
      BY <3>3, <3>4
    <3>6. QED
      BY <3>1, <3>4, <3>5
  <2>2. /\ \A v : queue = <<v>> => v = u
        /\ DOMAIN queue = {1} /\ queue[1] = u
    BY <2>1
  <2>3. PICK t : t = screen' /\ t = Chat!Updated(screen, u)
    BY <1>4, <2>1, AppliedIs
  <2>4. /\ Without({"batch", "haste"}) /\ (\A r \in Requests : u # Chat!Chunk(r) /\ u # Chat!Error(r)) => screen.bubble = 0
        /\ Without({"batch", "haste"}) => \A r \in Requests : u = Chat!Chunk(r) => Talks(r)
        /\ Without({"batch", "haste"}) =>
             \A i \in DOMAIN screen.messages : \E r \in Requests : screen.messages[i].from = {r}
    BY <1>2, <1>4, <2>1, <2>2 DEF Speaking
  <2>5. ASSUME Without({"batch", "delete", "loss"}), u # Chat!Reset
        PROVE  /\ \A i \in DOMAIN screen.messages : screen.messages[i].from \subseteq chat
               /\ u.op \in {"chunk", "error"} => u.by \in chat
    BY <1>2, <2>2, <2>5 DEF Belonging
  <2>6. ASSUME Without({"batch", "haste", "refusal", "loss", "error", "lateness", "disconnect"}), u # Chat!Reset,
               NEW i \in DOMAIN screen.messages, screen.messages[i].streaming
        PROVE  (screen.messages[i].id = screen.bubble /\ screen.bubble # 0) \/ u = Chat!Finish(screen.messages[i].id)
    BY <1>2, <2>1, <2>2, <2>6 DEF Progress
  <2>7. Without({"batch", "haste", "refusal", "loss", "error", "lateness", "disconnect"}) => Without({"batch", "haste"})
    BY DEF Without
  <2>8. CASE u = Chat!Reset
    <3>1. t = [screen EXCEPT !.messages = <<>>]
      BY <2>3, <2>8 DEF Chat!Updated, Chat!Reset
    <3>2. /\ t \in Chat!Screen /\ t.bubble = screen.bubble /\ t.last = screen.last /\ t.messages = <<>>
      <4>1. <<>> \in Seq(Chat!Message)
        OBVIOUS
      <4>2. QED
        BY <1>1, <3>1, <4>1 DEF Chat!Screen
    <3>3. DOMAIN t.messages = {}
      BY <3>2
    <3>4. Numbered(t) /\ Bubbles(t)
      BY <1>1, <3>2, <3>3 DEF Numbered, Bubbles
    <3>5. \A r \in Requests : u # Chat!Chunk(r) /\ u # Chat!Error(r)
      BY <2>8 DEF Chat!Reset, Chat!Chunk, Chat!Error
    <3>6. Without({"batch", "haste"}) => t.bubble = 0
      BY <2>4, <3>2, <3>5
    <3>7. QED
      BY <1>4, <2>3, <3>2, <3>3, <3>4, <3>6
  <2>9. CASE \E r \in Requests : u = Chat!Chunk(r)
    <3>1. PICK r \in Requests : u = Chat!Chunk(r)
      BY <2>9
    <3>2. u # Chat!Reset /\ u.op = "chunk" /\ u.by = r /\ (\A n : u # Chat!Finish(n)) /\ queue # <<Chat!Reset>>
      BY <2>2, <3>1 DEF Chat!Reset, Chat!Chunk, Chat!Finish
    <3>3. /\ t \in Chat!Screen /\ Numbered(t)
          /\ \A i \in DOMAIN t.messages :
               \/ t.messages[i].from = {r}
               \/ i \in DOMAIN screen.messages /\ t.messages[i].from \in {screen.messages[i].from, screen.messages[i].from \cup {r}}
          /\ OneOnly(screen, r) => OneOnly(t, r) /\ \A i \in DOMAIN t.messages :
               t.messages[i].from = {r} \/ (i \in DOMAIN screen.messages /\ t.messages[i].from = screen.messages[i].from)
          /\ Bubbles(screen) => Bubbles(t)
      BY <1>1, <2>3, <3>1, ChunkUpdates
    <3>4. Without({"batch", "delete", "loss"}) => \A i \in DOMAIN t.messages : t.messages[i].from \subseteq chat
      BY <2>5, <3>2, <3>3
    <3>5. Without({"batch", "haste"}) => Speaker(r) /\ OneOnly(screen, r)
      BY <2>4, <3>1 DEF Talks
    <3>6. Without({"batch", "haste"}) =>
            \A i \in DOMAIN t.messages : \E q \in Requests : t.messages[i].from = {q}
      BY <2>4, <3>3, <3>5
    <3>7. Without({"batch", "haste", "refusal", "loss", "error", "lateness", "disconnect"}) => Bubbles(screen)
      BY <2>6, <3>2 DEF Bubbles
    <3>8. QED
      BY <1>4, <2>3, <3>2, <3>3, <3>4, <3>5, <3>6, <3>7
  <2>10. CASE \E r \in Requests : u = Chat!Error(r)
    <3>1. PICK r \in Requests : u = Chat!Error(r)
      BY <2>10
    <3>2. /\ u # Chat!Reset /\ u.op = "error" /\ u.by = r /\ (\A n : u # Chat!Finish(n)) /\ queue # <<Chat!Reset>>
          /\ \A q \in Requests : u # Chat!Chunk(q)
      BY <2>2, <3>1 DEF Chat!Reset, Chat!Chunk, Chat!Error, Chat!Finish
    <3>3. /\ t \in Chat!Screen /\ Numbered(t)
          /\ \A i \in DOMAIN t.messages :
               /\ t.messages[i].from = {r} \/ (i \in DOMAIN screen.messages /\ t.messages[i].from = screen.messages[i].from)
               /\ t.messages[i].streaming => /\ i \in DOMAIN screen.messages /\ screen.messages[i].streaming
                                             /\ screen.bubble = 0 \/ screen.messages[i].id # screen.bubble
          /\ t.bubble = 0
      BY <1>1, <2>3, <3>1, ErrorUpdates
    <3>4. Without({"batch", "delete", "loss"}) => \A i \in DOMAIN t.messages : t.messages[i].from \subseteq chat
      BY <2>5, <3>2, <3>3
    <3>5. Without({"batch", "haste"}) =>
            \A i \in DOMAIN t.messages : \E q \in Requests : t.messages[i].from = {q}
      BY <2>4, <3>3
    <3>6. Without({"batch", "haste", "refusal", "loss", "error", "lateness", "disconnect"}) =>
            \A i \in DOMAIN screen.messages :
              screen.messages[i].streaming => screen.messages[i].id = screen.bubble /\ screen.bubble # 0
      BY <2>6, <3>2
    <3>7. Without({"batch", "haste", "refusal", "loss", "error", "lateness", "disconnect"}) => Bubbles(t)
      BY <3>3, <3>6 DEF Bubbles
    <3>8. QED
      BY <1>4, <2>3, <3>2, <3>3, <3>4, <3>5, <3>7
  <2>11. CASE \E n \in Nat : u = Chat!Finish(n)
    <3>1. PICK n \in Nat : u = Chat!Finish(n)
      BY <2>11
    <3>2. /\ u # Chat!Reset /\ (\A m : u = Chat!Finish(m) => m = n) /\ queue # <<Chat!Reset>>
          /\ \A q \in Requests : u # Chat!Chunk(q) /\ u # Chat!Error(q)
      BY <2>2, <3>1 DEF Chat!Reset, Chat!Chunk, Chat!Error, Chat!Finish
    <3>3. /\ t \in Chat!Screen /\ Numbered(t) /\ t.bubble = screen.bubble
          /\ DOMAIN t.messages = DOMAIN screen.messages
          /\ \A i \in DOMAIN t.messages :
               /\ t.messages[i].from = screen.messages[i].from /\ t.messages[i].id = screen.messages[i].id
               /\ t.messages[i].streaming => screen.messages[i].streaming /\ t.messages[i].id # n
      BY <1>1, <2>3, <3>1, FinishUpdates
    <3>4. Without({"batch", "delete", "loss"}) => \A i \in DOMAIN t.messages : t.messages[i].from \subseteq chat
      BY <2>5, <3>2, <3>3
    <3>5. Without({"batch", "haste"}) => t.bubble = 0 /\
            \A i \in DOMAIN t.messages : \E q \in Requests : t.messages[i].from = {q}
      BY <2>4, <3>2, <3>3
    <3>6. ASSUME Without({"batch", "haste", "refusal", "loss", "error", "lateness", "disconnect"}),
                 NEW i \in DOMAIN t.messages, t.messages[i].streaming
          PROVE  FALSE
      BY <2>6, <2>7, <3>2, <3>3, <3>5, <3>6
    <3>7. Without({"batch", "haste", "refusal", "loss", "error", "lateness", "disconnect"}) => Bubbles(t)
      BY <3>6 DEF Bubbles
    <3>8. QED
      BY <1>4, <2>3, <3>2, <3>3, <3>4, <3>5, <3>7
  <2>12. QED
    BY <2>8, <2>9, <2>10, <2>11 DEF Updates
<1>5. QED
  BY <1>3, <1>4

LEMMA RenderKeeps == ASSUME ChatInv, Chat!Render PROVE ChatInv'
<1> USE ChatConstants
<1>0. ChatTyped /\ Rooted
  BY DEF ChatInv
<1>1. PICK S : S = Chat!Left
  OBVIOUS
<1> DEFINE stop == S \cap Chat!Live
<1>2. PICK told : told = Chat!Stopped(stop)
  OBVIOUS
<1>3. /\ screen' = Chat!Applied(screen, queue) /\ queue' = <<>> /\ rendered' = set
      /\ sessions' = Chat!Closed(S)
      /\ UNCHANGED <<disturbed, events, starting, set>>
  BY <1>1 DEF Chat!Render
<1>4. \/ request' = told /\ UNCHANGED <<pending, generation, newest, chat>>
      \/ /\ set.session # rendered.session /\ ~set.streaming /\ pending' = FALSE
         /\ \E r \in Requests : /\ request[r].at = "unused"
                                /\ request' = [told EXCEPT ![r].at = "sent", ![r].session = set.session]
                                /\ generation' = generation + 1 /\ newest' = r /\ chat' = chat \cup {r}
  BY <1>1, <1>2 DEF Chat!Render, Chat!Sent, Chat!counted
<1>5. /\ set \in Chat!UI /\ rendered \in Chat!UI /\ set.session \in Sessions \cup {NoSession}
      /\ starting \in Sessions \cup {NoSession} /\ generation \in Nat
      /\ sessions \in [Sessions -> Chat!Session] /\ request \in [Requests -> Chat!Request]
      /\ S \subseteq Sessions \cup {NoSession} /\ set.session \notin S
  BY <1>0, <1>1 DEF ChatTyped, Chat!UI, Chat!Left
<1>6. /\ sessions' \in [Sessions -> Chat!Session]
      /\ \A s \in Sessions : sessions'[s] = sessions[s] \/ (s \in stop /\ sessions'[s].stage = "closed")
      /\ \A s \in Sessions : s \notin S => sessions'[s] = sessions[s]
      /\ \A s \in Sessions : sessions[s].stage # "new" => sessions'[s].stage # "new"
  <2>1. \A s \in Sessions : sessions'[s] = IF s \in S THEN [sessions[s] EXCEPT !.stage = "closed"] ELSE sessions[s]
    BY <1>3 DEF Chat!Closed
  <2>2. \A s \in Sessions : sessions[s] \in Chat!Session /\ sessions'[s] \in Chat!Session
    BY <1>5, <2>1 DEF Chat!Session
  <2>3. sessions' \in [Sessions -> Chat!Session]
    BY <1>3, <2>2 DEF Chat!Closed
  <2>4. \A s \in Sessions : s \in S => sessions'[s].stage = "closed"
    BY <2>1, <2>2 DEF Chat!Session
  <2>5. \A s \in Sessions : s \in S => sessions[s].stage # "new"
    BY <1>0, <1>1 DEF Rooted, Chat!Left
  <2>6. \A s \in Sessions : s \in S /\ sessions[s].stage = "closed" => sessions'[s] = sessions[s]
    BY <2>1, <2>2 DEF Chat!Session
  <2>7. ASSUME NEW s \in Sessions PROVE sessions'[s] = sessions[s] \/ (s \in stop /\ sessions'[s].stage = "closed")
    BY <2>1, <2>2, <2>4, <2>5, <2>6 DEF Chat!Session, Chat!Live
  <2>8. QED
    BY <2>1, <2>3, <2>4, <2>7
<1> HIDE DEF stop
<1>7. DOMAIN told = Requests
  BY <1>2 DEF Chat!Stopped
<1>8. ASSUME NEW p \in Requests
      PROVE  /\ told[p] \in Chat!Request
             /\ told[p].session = request[p].session /\ told[p].gen = request[p].gen
             /\ told[p].reply = request[p].reply
             /\ told[p] = request[p] \/ (request[p].at = "running" /\ told[p].at = "stopping")
             /\ told[p].at = "running" => \A s \in stop : sessions[s].active # p
  BY <1>0, <1>2, StoppedIs
<1>9. told \in [Requests -> Chat!Request]
  BY <1>2, <1>8 DEF Chat!Stopped
<1>10. ASSUME NEW p \in Requests, request'[p] = told[p] PROVE RequestOK(p)'
  <2>1. RequestOK(p)
    BY <1>0 DEF Rooted
  <2>2. QED
    BY <1>0, <1>2, <1>6, <1>10, <2>1, StopsOK
<1>11. ASSUME NEW i \in DOMAIN events
       PROVE  /\ events[i].by \in Requests /\ EventOK(i) /\ request[events[i].by].at # "unused"
              /\ request'[events[i].by] = told[events[i].by] => EventOK(i)'
  <2>1. events[i].by \in Requests /\ EventOK(i)
    BY <1>0, EventOf DEF ChatTyped, Rooted
  <2>2. PICK p \in Requests : p = events[i].by
    BY <2>1
  <2>3. request[p].at \in {"running", "stopping", "over"}
    BY <2>1, <2>2 DEF EventOK
  <2>4. /\ told[p].session = request[p].session /\ told[p].gen = request[p].gen
        /\ request[p].at \in {"running", "stopping"} => told[p].at \in {"running", "stopping"}
        /\ request[p].at = "over" => told[p].at = "over"
    BY <1>8
  <2>5. request'[p] = told[p] => EventOK(i)'
    BY <1>3, <2>1, <2>2, <2>4 DEF EventOK
  <2>6. QED
    BY <2>1, <2>2, <2>3, <2>5
<1>12. ASSUME NEW p \in Requests, request'[p] = told[p]
       PROVE  /\ Tells(p)' <=> Tells(p)
              /\ Underway(p)' <=> Underway(p)
              /\ Unanswered(p)' <=> Unanswered(p)
              /\ EndComes(p) => EndComes(p)'
  <2>1. /\ request'[p].reply = request[p].reply
        /\ request'[p] = request[p] \/ (request[p].at = "running" /\ request'[p].at = "stopping")
    BY <1>8, <1>12
  <2>2. QED
    BY <1>3, <2>1 DEF Tells, Underway, Unanswered, EndComes
<1>13. ASSUME Without({"batch"})
       PROVE  /\ screen' \in Chat!Screen /\ Numbered(screen')
              /\ queue = <<>> => screen' = screen
              /\ queue = <<Chat!Reset>> => screen'.bubble = screen.bubble /\ DOMAIN screen'.messages = {}
              /\ Without({"batch", "delete", "loss"}) => \A i \in DOMAIN screen'.messages : screen'.messages[i].from \subseteq chat
              /\ Without({"batch", "haste"}) =>
                   /\ \A i \in DOMAIN screen'.messages : \E r \in Requests : screen'.messages[i].from = {r}
                   /\ screen'.bubble # 0 => \E r \in Requests : Speaker(r) /\ OneOnly(screen', r)
              /\ Without({"batch", "haste", "refusal", "loss", "error", "lateness", "disconnect"}) => Bubbles(screen')
  BY <1>3, <1>13, RenderScreen
<1>14. /\ queue' \in Seq(Updates) /\ Len(queue') = 0 /\ DOMAIN queue' = {} /\ queue' # <<Chat!Reset>>
       /\ \A r \in Requests : queue' # <<Chat!Chunk(r)>>
  BY <1>3
<1>15. /\ starting # NoSession =>
            /\ sessions'[starting].stage # "new" /\ starting \notin {set.session, rendered.session}
            /\ \A p \in Requests : request[p].session # starting
       /\ set.session # NoSession => sessions'[set.session].stage # "new" /\ sessions'[set.session] = sessions[set.session]
       /\ set.session = NoSession => \A p \in Requests : request[p].at = "unused"
  BY <1>0, <1>5, <1>6 DEF Rooted, Empty
<1>16. ASSUME Without({"batch"})
       PROVE  /\ Exchanged
              /\ set.session = NoSession => screen' = screen /\ Fresh /\ screen.messages = <<>> /\ ~set.streaming
              /\ starting # NoSession /\ set.session # NoSession => sessions'[set.session].stage # "live"
              /\ \A p \in Requests : request[p].at \in {"sent", "found"} /\ sessions'[request[p].session].stage = "live" =>
                   request[p].session = set.session
  <2>1. Exchanged
    BY <1>16 DEF ChatInv
  <2>2. set.session = NoSession => screen' = screen /\ Fresh /\ screen.messages = <<>> /\ ~set.streaming
    BY <1>13, <1>16, <2>1 DEF Exchanged
  <2>3. starting # NoSession /\ set.session # NoSession => sessions'[set.session].stage # "live"
    BY <1>15, <2>1 DEF Exchanged
  <2>4. ASSUME NEW p \in Requests, request[p].at \in {"sent", "found"}, sessions'[request[p].session].stage = "live"
        PROVE  request[p].session = set.session
    <3>1. request[p].session \in Sessions
      BY <1>0, <2>4 DEF Rooted, RequestOK
    <3>2. sessions[request[p].session].stage = "live"
      BY <1>6, <2>4, <3>1
    <3>3. QED
      BY <2>1, <2>4, <3>2 DEF Exchanged
  <2>5. QED
    BY <2>1, <2>2, <2>3, <2>4
<1>17. CASE request' = told /\ UNCHANGED <<pending, generation, newest, chat>>
  <2>1. \A p \in Requests :
          /\ request'[p] = told[p] /\ request'[p].session = request[p].session /\ request'[p].gen = request[p].gen
          /\ request'[p].reply = request[p].reply
          /\ (request'[p].at = "sent" <=> request[p].at = "sent") /\ (request'[p].at = "found" <=> request[p].at = "found")
          /\ request[p].at = "unused" => request'[p].at = "unused"
    BY <1>8, <1>17
  <2>2. ChatTyped'
    BY <1>0, <1>3, <1>5, <1>6, <1>9, <1>17 DEF ChatTyped
  <2>3. Rooted'
    <3>1. (\A p \in Requests : RequestOK(p)') /\ (\A i \in DOMAIN events : EventOK(i)')
      BY <1>10, <1>11, <2>1
    <3>2. QED
      BY <1>3, <1>15, <2>1, <3>1 DEF Rooted, Empty
  <2>4. ASSUME Without({"batch"}) PROVE Exchanged'
    <3>1. screen' \in Chat!Screen /\ Numbered(screen') /\ Short'
      <4>1. Short'
        BY ONLY <1>14 DEF Short
      <4>2. QED
        BY <1>13, <2>4, <4>1
    <3>2. set'.session = rendered'.session
      BY <1>3
    <3>3. set'.session = NoSession => Fresh' /\ screen'.messages = <<>> /\ queue' = <<>> /\ ~set'.streaming
      BY <1>3, <1>16, <1>17, <2>4 DEF Fresh
    <3>4. starting' # NoSession /\ set'.session # NoSession => sessions'[set'.session].stage # "live"
      BY <1>3, <1>16, <2>4
    <3>5. \A p \in Requests : request'[p].at \in {"sent", "found"} /\ sessions'[request'[p].session].stage = "live" =>
            request'[p].session = set'.session
      BY <1>3, <1>16, <2>1, <2>4
    <3>6. QED
      BY <3>1, <3>2, <3>3, <3>4, <3>5 DEF Exchanged
  <2>5. Without({"batch", "haste"}) => OneAtATime'
    BY <1>12, <2>1 DEF ChatInv, OneAtATime
  <2>6. ASSUME NEW p \in Requests, Speaker(p) PROVE Speaker(p)'
    <3>1. set.session # NoSession
      BY <1>0, <2>6 DEF Speaker, Rooted
    <3>2. /\ request'[p].at \in {"running", "stopping", "over"} /\ request'[p].session = set.session
          /\ request'[p].gen > 0 /\ request'[p].gen = request[p].gen /\ (EndComes(p) => EndComes(p)')
      BY <1>8, <1>12, <2>1, <2>6 DEF Speaker
    <3>3. ASSUME NEW q \in Requests \ {p}, request'[q].session = set.session
          PROVE  /\ request'[q].at \notin {"found", "running", "stopping"}
                 /\ request'[q].at = "sent" => sessions'[set.session].stage # "live"
                 /\ \A i \in DOMAIN events : events[i].by = q => events[i].kind # "chunk"
      BY <1>8, <1>15, <2>1, <2>6, <3>1, <3>3 DEF Speaker
    <3>4. QED
      BY <1>3, <1>15, <1>17, <2>6, <3>1, <3>2, <3>3 DEF Speaker, Without
  <2>7. ASSUME Without({"batch", "haste"}) PROVE Speaking'
    <3>1. Without({"batch"})
      BY <2>7 DEF Without
    <3>2. screen'.bubble # 0 => \E r \in Requests : Talks(r)'
      BY <1>13, <2>6, <2>7, <3>1 DEF Talks
    <3>3. QED
      BY <1>3, <1>13, <1>14, <2>7, <3>1, <3>2 DEF Speaking
  <2>8. ASSUME Without({"batch", "haste", "refusal", "loss"}) PROVE Counting'
    <3>1. Counting
      BY <2>8 DEF ChatInv
    <3>2. \A p \in Requests : Unanswered(p)' <=> Unanswered(p)
      BY <1>12, <2>1
    <3>3. Counts(set.session)' /\ set.session # NoSession => Counts(set.session)
      BY <1>3, <1>15, <2>1 DEF Counts
    <3>4. \A p \in Requests : request[p].at \in {"sent", "found"} => request'[p].at \in {"sent", "found"}
      BY <2>1
    <3>5. QED
      BY <1>3, <1>15, <1>17, <2>1, <3>1, <3>2, <3>3, <3>4 DEF Counting
  <2>9. ASSUME Without({"batch", "delete", "loss"}) PROVE Belonging'
    <3>1. Belonging /\ Without({"batch"})
      BY <2>9 DEF ChatInv, Without
    <3>2. \A i \in DOMAIN screen'.messages : screen'.messages[i].from \subseteq chat
      BY <1>13, <2>9, <3>1
    <3>3. \A p \in Requests : (Tells(p)' <=> Tells(p)) /\ (Underway(p)' <=> Underway(p))
      BY <1>12, <2>1
    <3>4. QED
      BY <1>3, <1>14, <1>17, <2>1, <3>1, <3>2, <3>3 DEF Belonging
  <2>10. ASSUME Without({"batch", "haste", "refusal", "loss", "error", "lateness", "disconnect"}) PROVE Progress'
    <3>1. Progress /\ Without({"batch"})
      BY <2>10 DEF ChatInv, Without
    <3>2. ASSUME NEW i \in DOMAIN events
          PROVE  events[i].kind # "warning" /\ (events[i].kind = "error" => events[i].gen = 0 /\ request'[events[i].by].gen = 0)
      BY <1>11, <2>1, <3>1, <3>2 DEF Progress
    <3>3. Bubbles(screen')
      BY <1>13, <2>10, <3>1
    <3>4. \A p \in Requests : EndComes(p) => EndComes(p)'
      BY <1>12, <2>1
    <3>5. \A p \in Requests : request'[p].at = "found" => request'[p].session = set.session
      BY <2>1, <3>1 DEF Progress
    <3>6. QED
      BY <1>3, <2>1, <3>1, <3>2, <3>3, <3>4, <3>5 DEF Progress, Bubbles
  <2>11. QED
    BY <1>3, <2>2, <2>3, <2>4, <2>5, <2>7, <2>8, <2>9, <2>10 DEF ChatInv, Without
<1>18. ASSUME set.session # rendered.session, ~set.streaming, pending' = FALSE,
              NEW r \in Requests, request[r].at = "unused",
              request' = [told EXCEPT ![r].at = "sent", ![r].session = set.session],
              generation' = generation + 1, newest' = r, chat' = chat \cup {r}
       PROVE  ChatInv'
  <2>1. set.session \in Sessions /\ \A p \in Requests : request[p].session # set.session
    BY <1>0, <1>5, <1>18 DEF Rooted, Empty
  <2>2. request[r] = Chat!Unsent /\ request[r].gen = 0 /\ request[r].reply = "none"
    BY <1>0, <1>18 DEF Rooted, RequestOK, Chat!Unsent
  <2>3. /\ request'[r] \in Chat!Request /\ request'[r].at = "sent" /\ request'[r].session = set.session
        /\ request'[r].gen = 0 /\ request'[r].reply = "none"
    <3>1. told[r] = request[r]
      BY <1>8, <1>18
    <3>2. request'[r] = [request[r] EXCEPT !.at = "sent", !.session = set.session]
      BY <1>7, <1>18, <3>1
    <3>3. QED
      BY <1>5, <2>1, <2>2, <3>2 DEF Chat!Request
  <2>4. ASSUME NEW p \in Requests \ {r}
        PROVE  /\ request'[p] = told[p] /\ request'[p].session = request[p].session /\ request'[p].gen = request[p].gen
               /\ request'[p].reply = request[p].reply
               /\ (request'[p].at = "sent" <=> request[p].at = "sent") /\ (request'[p].at = "found" <=> request[p].at = "found")
               /\ request'[p] \in Chat!Request
    <3>1. request'[p] = told[p]
      BY <1>7, <1>18
    <3>2. QED
      BY <1>8, <3>1
  <2>5. request' \in [Requests -> Chat!Request]
    <3>1. \A p \in Requests : request'[p] \in Chat!Request
      BY <2>3, <2>4
    <3>2. QED
      BY <1>7, <1>18, <3>1
  <2>6. ChatTyped'
    <3>1. generation' \in Nat /\ newest' \in Requests \cup {NoRequest} /\ pending' \in BOOLEAN
      <4>1. generation' \in Nat /\ newest' \in Requests \cup {NoRequest}
        BY <1>5, <1>18
      <4>2. pending' = FALSE
        BY ONLY <1>18, Zenon
      <4>3. QED
        BY <4>1, <4>2
    <3>2. chat' \subseteq Requests
      BY <1>0, <1>18 DEF ChatTyped
    <3>3. QED
      BY <1>0, <1>3, <1>5, <1>6, <2>5, <3>1, <3>2 DEF ChatTyped
  <2>7. ASSUME NEW i \in DOMAIN events PROVE events[i].by \in Requests \ {r} /\ EventOK(i)'
    BY <1>11, <1>18, <2>4
  <2>8. ~Tells(r)' /\ ~Tells(r)
    BY <1>3, <2>7 DEF Tells
  <2>9. Rooted'
    <3>1. ASSUME NEW p \in Requests PROVE RequestOK(p)'
      <4>1. CASE p = r
        BY <1>15, <2>1, <2>3, <4>1 DEF RequestOK
      <4>2. CASE p # r
        BY <1>10, <2>4, <4>2
      <4>3. QED
        BY <4>1, <4>2
    <3>2. starting # NoSession => \A p \in Requests : request'[p].session # starting
      BY <1>15, <2>3, <2>4
    <3>3. set.session # NoSession
      BY <2>1
    <3>4. QED
      BY <1>3, <1>15, <2>7, <3>1, <3>2, <3>3 DEF Rooted, Empty
  <2>10. ASSUME Without({"batch"}) PROVE Exchanged'
    <3>1. ASSUME NEW p \in Requests, request'[p].at \in {"sent", "found"}, sessions'[request'[p].session].stage = "live"
          PROVE  request'[p].session = set.session
      <4>1. CASE p = r
        BY <2>3, <4>1
      <4>2. CASE p # r
        BY <1>16, <2>4, <2>10, <3>1, <4>2
      <4>3. QED
        BY <4>1, <4>2
    <3>2. set.session # NoSession
      BY <2>1
    <3>3. screen' \in Chat!Screen /\ Numbered(screen') /\ Short'
      <4>1. Short'
        BY ONLY <1>14 DEF Short
      <4>2. QED
        BY <1>13, <2>10, <4>1
    <3>4. set'.session = rendered'.session /\ set'.session # NoSession
      BY <1>3, <3>2
    <3>5. starting' # NoSession /\ set'.session # NoSession => sessions'[set'.session].stage # "live"
      BY <1>3, <1>16, <2>10
    <3>6. \A p \in Requests : request'[p].at \in {"sent", "found"} /\ sessions'[request'[p].session].stage = "live" =>
            request'[p].session = set'.session
      BY <1>3, <3>1
    <3>7. QED
      BY <3>3, <3>4, <3>5, <3>6 DEF Exchanged
  <2>11. ASSUME Without({"batch"})
         PROVE  Fresh /\ screen'.bubble = 0 /\ screen' \in Chat!Screen
    <3>1. Fresh /\ queue \in {<<>>, <<Chat!Reset>>}
      BY <1>16, <1>18, <2>11 DEF Exchanged
    <3>2. QED
      BY <1>13, <2>11, <3>1 DEF Fresh
  <2>12. ASSUME Without({"batch", "haste"}) PROVE OneAtATime'
    <3>1. OneAtATime
      BY <2>12 DEF ChatInv
    <3>2. ASSUME NEW p \in Requests, NEW q \in Requests, Unanswered(p)', Unanswered(q)',
                 request'[p].session = request'[q].session
          PROVE  p = q
      <4>1. CASE p = r \/ q = r
        BY <2>1, <2>3, <2>4, <3>2, <4>1
      <4>2. CASE p # r /\ q # r
        BY <1>12, <2>4, <3>1, <3>2, <4>2 DEF OneAtATime
      <4>3. QED
        BY <4>1, <4>2
    <3>3. QED
      BY <3>2 DEF OneAtATime
  <2>13. ASSUME Without({"batch", "haste"}) PROVE Speaking'
    <3>1. Without({"batch"})
      BY <2>13 DEF Without
    <3>2. QED
      BY <1>3, <1>13, <1>14, <2>11, <2>13, <3>1 DEF Speaking
  <2>14. ASSUME Without({"batch", "haste", "refusal", "loss"}) PROVE Counting'
    <3>1. generation = 0
      BY <2>11, <2>14 DEF Without, Fresh
    <3>2. PICK g \in Nat : g = sessions'[set.session].gen
      BY <1>6, <2>1 DEF Chat!Session
    <3>3. generation' <= g \/ generation' = g + 1
      BY <1>18, <3>1, <3>2
    <3>4. \A p \in Requests : request'[p].session = set.session => request'[p].gen = 0
      BY <2>1, <2>3, <2>4
    <3>5. request'[r].session = set.session /\ request'[r].at = "sent"
      BY <2>3
    <3>6. QED
      BY <1>3, <3>2, <3>3, <3>4, <3>5 DEF Counting
  <2>15. ASSUME Without({"batch", "delete", "loss"}) PROVE Belonging'
    <3>1. Without({"batch"})
      BY <2>15 DEF Without
    <3>2. \A i \in DOMAIN screen'.messages : screen'.messages[i].from \subseteq chat \cup {r}
      BY <1>13, <2>15, <3>1
    <3>3. \A p \in Requests : request'[p].session = set.session => p = r
      BY <2>1, <2>4
    <3>4. QED
      BY <1>3, <1>14, <1>18, <3>2, <3>3 DEF Belonging
  <2>16. ASSUME Without({"batch", "haste", "refusal", "loss", "error", "lateness", "disconnect"}) PROVE Progress'
    <3>1. Progress /\ Without({"batch"})
      BY <2>16 DEF ChatInv, Without
    <3>2. ASSUME NEW i \in DOMAIN events
          PROVE  events[i].kind # "warning" /\ (events[i].kind = "error" => events[i].gen = 0 /\ request'[events[i].by].gen = 0)
      BY <2>4, <2>7, <3>1, <3>2 DEF Progress
    <3>3. Bubbles(screen')
      BY <1>13, <2>16, <3>1
    <3>4. ASSUME NEW p \in Requests, request'[p].reply = "yes"
          PROVE  request'[p].session = set.session /\ EndComes(p)'
      <4>1. p # r
        BY <2>3, <3>4
      <4>2. QED
        BY <1>12, <2>4, <3>1, <3>4, <4>1 DEF Progress
    <3>5. \A p \in Requests : request'[p].at = "found" => request'[p].session = set.session
      BY <2>3, <2>4, <3>1 DEF Progress
    <3>6. QED
      BY <1>3, <1>18, <3>1, <3>2, <3>3, <3>4, <3>5 DEF Progress, Bubbles
  <2>17. QED
    BY <1>3, <2>6, <2>9, <2>10, <2>12, <2>13, <2>14, <2>15, <2>16 DEF ChatInv, Without
<1>19. QED
  BY <1>4, <1>17, <1>18

LEMMA ChatStutters == ASSUME ChatInv, UNCHANGED chatVars PROVE ChatInv'
<1>1. UNCHANGED <<disturbed, sessions, request, events, starting, set, rendered, generation, newest, chat,
                  pending, queue, screen>>
  BY DEF chatVars
<1>2. ChatTyped' /\ Rooted'
  BY <1>1 DEF ChatInv, ChatTyped, Rooted, RequestOK, EventOK, Empty
<1>3. \A r \in Requests :
        /\ Underway(r)' <=> Underway(r)
        /\ Tells(r)' <=> Tells(r)
        /\ Unanswered(r)' <=> Unanswered(r)
        /\ EndComes(r)' <=> EndComes(r)
  BY <1>1 DEF Underway, Tells, Unanswered, EndComes
<1>4. Without({"batch"}) => Exchanged'
  BY <1>1 DEF ChatInv, Exchanged, Short, Fresh
<1>5. Without({"batch", "haste"}) => OneAtATime' /\ Speaking'
  <2>1. \A r \in Requests : Talks(r)' <=> Talks(r)
    BY <1>1, <1>3 DEF Talks, Speaker, Without
  <2>2. QED
    BY <1>1, <1>3, <2>1 DEF ChatInv, OneAtATime, Speaking
<1>6. Without({"batch", "haste", "refusal", "loss"}) => Counting'
  BY <1>1, <1>3 DEF ChatInv, Counting, Counts
<1>7. Without({"batch", "delete", "loss"}) => Belonging'
  BY <1>1, <1>3 DEF ChatInv, Belonging
<1>8. Without({"batch", "haste", "refusal", "loss", "error", "lateness", "disconnect"}) => Progress'
  BY <1>1, <1>3 DEF ChatInv, Progress
<1>9. QED
  BY <1>1, <1>2, <1>4, <1>5, <1>6, <1>7, <1>8 DEF ChatInv, Without

LEMMA ChatNextInv == ChatInv /\ (Chat!Next \/ UNCHANGED chatVars) => ChatInv'
<1> SUFFICES ASSUME ChatInv, Chat!Next \/ UNCHANGED chatVars PROVE ChatInv'
  OBVIOUS
<1>1. CASE UNCHANGED chatVars
  BY <1>1, ChatStutters
<1>2. CASE \E s \in Sessions : Chat!ClearSession(s) \/ \E asks \in BOOLEAN : Chat!Open(s, asks)
  BY <1>2, ClearSessionKeeps, OpenKeeps
<1>3. CASE \/ Chat!SessionStarted \/ Chat!StartLost \/ Chat!ClearLost \/ Chat!DeleteConversation
           \/ Chat!CancelRequest \/ Chat!Handle \/ Chat!Render \/ Chat!Disconnect
  BY <1>3, SessionStartedKeeps, StartLostKeeps, ClearLostKeeps, DeleteConversationKeeps,
     CancelRequestKeeps, HandleKeeps, RenderKeeps, DisconnectKeeps
<1>4. ASSUME NEW r \in Requests,
             \/ Chat!Send(r) \/ Chat!Lookup(r) \/ Chat!Refused(r) \/ Chat!Register(r) \/ Chat!Lost(r)
             \/ Chat!Emit(r) \/ Chat!End(r) \/ Chat!Reply(r)
      PROVE  ChatInv'
  BY <1>4, SendKeeps, LookupKeeps, RefusedKeeps, RegisterKeeps, LostKeeps, EmitKeeps, EndKeeps, ReplyKeeps
<1>5. QED
  BY <1>1, <1>2, <1>3, <1>4 DEF Chat!Next

LEMMA ChatInvSound == ChatInv => Chat!ChatSound
<1> SUFFICES ASSUME ChatInv PROVE Chat!ChatSound
  OBVIOUS
<1> USE ChatConstants
<1>0. ChatTyped /\ Rooted
  BY DEF ChatInv
<1>1. Chat!RunningIsCancelable
  BY <1>0 DEF Rooted, RequestOK, Chat!RunningIsCancelable, Chat!Live
<1>2. Chat!NewestIsHeardUnlessRefused
  <2>1. SUFFICES ASSUME disturbed \cap {"refusal", "loss", "batch", "haste"} = {}, NEW i \in DOMAIN events,
                        events[i].by = newest, events[i].session = rendered.session
                 PROVE  Chat!Heard(events[i])
    BY DEF Chat!NewestIsHeardUnlessRefused, Chat!NewestIsHeard
  <2>2. Counting /\ Exchanged
    BY <2>1 DEF ChatInv, Without
  <2>3. PICK p \in Requests : p = events[i].by /\ EventOK(i)
    BY <1>0, EventOf DEF ChatTyped, Rooted
  <2>4. set.session = rendered.session
    BY <2>1, <2>2, <2>3 DEF Exchanged, Fresh
  <2>5. request[p].session = set.session /\ events[i].gen \in {0, request[p].gen}
    BY <2>1, <2>3, <2>4 DEF EventOK
  <2>6. Unanswered(p)
    BY <2>3 DEF Unanswered, Tells
  <2>7. request[p].gen = 0 \/ request[p].gen >= generation
    BY <2>2, <2>5, <2>6 DEF Counting
  <2>8. events[i].gen = 0 \/ events[i].gen >= generation
    BY <2>5, <2>7
  <2>9. QED
    BY <2>1, <2>8 DEF Chat!Heard
<1>3. Chat!AnswersApart
  <2>1. SUFFICES ASSUME disturbed \cap {"haste", "batch"} = {}, NEW i \in DOMAIN screen.messages
                 PROVE  Chat!Cardinality(screen.messages[i].from) = 1
    BY DEF Chat!AnswersApart
  <2>2. PICK r \in Requests : screen.messages[i].from = {r}
    BY <2>1 DEF ChatInv, Without, Speaking
  <2>3. Cardinality({r}) = 1
    BY FS_Singleton
  <2>4. QED
    BY <2>2, <2>3 DEF Chat!Cardinality, Cardinality
<1>4. Chat!AnswersBelong
  BY Queued DEF ChatInv, Without, Belonging, Chat!AnswersBelong
<1>5. Chat!QuietIsIdle
  <2>1. SUFFICES ASSUME disturbed \cap {"refusal", "loss", "error", "lateness", "batch", "haste", "disconnect"} = {},
                        Chat!Quiet
                 PROVE  /\ ~rendered.streaming
                        /\ \A i \in DOMAIN screen.messages : ~screen.messages[i].streaming
    BY DEF Chat!QuietIsIdle
  <2>2. Without({"batch", "haste", "refusal", "loss", "error", "lateness", "disconnect"})
    BY <2>1 DEF Without
  <2>3. Progress /\ Speaking /\ Without({"disconnect"})
    BY <2>2 DEF ChatInv, Without
  <2>4. /\ set = rendered /\ queue = <<>> /\ events = <<>>
        /\ \A r \in Requests : request[r].at \in {"unused", "over"}
    BY <2>1 DEF Chat!Quiet, Chat!Rendered
  <2>5. \A r \in Requests : ~EndComes(r)
    BY <2>4 DEF EndComes
  <2>6. ~rendered.streaming
    BY <2>3, <2>4, <2>5 DEF Progress
  <2>7. Bubbles(screen)
    BY <2>2, <2>4, ScreenKept
  <2>8. screen.bubble = 0
    BY <2>3, <2>5 DEF Speaking, Talks, Speaker
  <2>9. QED
    BY <2>6, <2>7, <2>8 DEF Bubbles
<1>6. QED
  BY <1>1, <1>2, <1>3, <1>4, <1>5 DEF Chat!ChatSound

-----------------------------------------------------------------------------
(* Any number of updaters, batched or not, keeps the types of the chat.     *)
LEMMA UpdatedTyped ==
  ASSUME NEW scr \in Chat!Screen, NEW u \in Chat!Update, u.op \in {"chunk", "error"} => u.by \in Requests
  PROVE  Chat!Updated(scr, u) \in Chat!Screen
<1>1. /\ scr.messages \in Seq(Chat!Message) /\ scr.bubble \in Nat /\ scr.last \in Nat /\ scr.last + 1 \in Nat
      /\ 0 \in Nat /\ u.op \in {"chunk", "error", "finish", "reset"} /\ u.id \in Nat
  BY DEF Chat!Screen, Chat!Update
<1>2. /\ \A list \in Seq(Chat!Message) : [scr EXCEPT !.messages = list] \in Chat!Screen
      /\ \A list \in Seq(Chat!Message) : [scr EXCEPT !.messages = list, !.bubble = 0] \in Chat!Screen
  BY DEF Chat!Screen
<1>3. \A b \in Nat : Chat!Finished(scr.messages, b) \in Seq(Chat!Message)
  BY FinishedIs
<1>4. CASE u.op \in {"chunk", "error"}
  <2>1. PICK r \in Requests : r = u.by
    BY <1>4
  <2>2. ASSUME NEW streams \in BOOLEAN PROVE Chat!Added(scr, r, streams) \in Chat!Screen
    <3>1. PICK m : m = [id |-> scr.last + 1, from |-> {r}, streaming |-> streams]
      OBVIOUS
    <3>2. PICK b \in Nat : b = IF streams THEN scr.last + 1 ELSE scr.bubble
      BY <1>1
    <3>3. m \in Chat!Message
      BY <1>1, <3>1 DEF Chat!Message
    <3>4. PICK t : t = [messages |-> Append(scr.messages, m), bubble |-> b, last |-> scr.last + 1]
      OBVIOUS
    <3>5. t \in Chat!Screen
      BY <3>3, <3>4, AddedIs
    <3>6. QED
      BY <3>1, <3>2, <3>4, <3>5 DEF Chat!Added
  <2>3. PICK f : f = Chat!Continued(scr.messages, scr.bubble, r)
    OBVIOUS
  <2>4. f \in Seq(Chat!Message)
    <3>1. /\ DOMAIN f = DOMAIN scr.messages /\ f = [i \in DOMAIN scr.messages |-> f[i]]
          /\ \A i \in DOMAIN f : f[i] = IF scr.messages[i].id = scr.bubble
                                        THEN [scr.messages[i] EXCEPT !.from = @ \cup {r}] ELSE scr.messages[i]
      BY <2>3 DEF Chat!Continued
    <3>2. ASSUME NEW i \in DOMAIN f PROVE f[i] \in Chat!Message
      <4>1. PICK m \in Chat!Message : m = scr.messages[i]
        BY <3>1, MessageOf
      <4>2. [m EXCEPT !.from = @ \cup {r}] \in Chat!Message
        BY DEF Chat!Message
      <4>3. QED
        BY <3>1, <4>1, <4>2
    <3>3. QED
      BY <1>1, <3>1, <3>2, ListOf
  <2>5. CASE u.op = "chunk"
    <3>1. CASE scr.bubble # 0
      <4>1. Chat!Updated(scr, u) = [scr EXCEPT !.messages = f]
        BY <2>1, <2>3, <2>5, <3>1 DEF Chat!Updated
      <4>2. QED
        BY <1>2, <2>4, <4>1
    <3>2. CASE scr.bubble = 0
      <4>1. Chat!Updated(scr, u) = Chat!Added(scr, r, TRUE)
        BY <2>1, <2>5, <3>2 DEF Chat!Updated
      <4>2. QED
        BY <2>2, <4>1
    <3>3. QED
      BY <3>1, <3>2
  <2>6. CASE u.op = "error"
    <3>1. CASE scr.bubble # 0
      <4>1. Chat!Updated(scr, u) = [scr EXCEPT !.messages = Chat!Finished(scr.messages, scr.bubble), !.bubble = 0]
        BY <2>6, <3>1 DEF Chat!Updated
      <4>2. QED
        BY <1>1, <1>2, <1>3, <4>1
    <3>2. CASE scr.bubble = 0
      <4>1. Chat!Updated(scr, u) = Chat!Added(scr, r, FALSE)
        BY <2>1, <2>6, <3>2 DEF Chat!Updated
      <4>2. QED
        BY <2>2, <4>1
    <3>3. QED
      BY <3>1, <3>2
  <2>7. QED
    BY <1>4, <2>5, <2>6
<1>5. CASE u.op = "finish"
  <2>1. Chat!Updated(scr, u) = [scr EXCEPT !.messages = Chat!Finished(scr.messages, u.id)]
    BY <1>5 DEF Chat!Updated
  <2>2. QED
    BY <1>1, <1>2, <1>3, <2>1
<1>6. CASE u.op = "reset"
  <2>1. Chat!Updated(scr, u) = [scr EXCEPT !.messages = <<>>]
    BY <1>6 DEF Chat!Updated
  <2>2. <<>> \in Seq(Chat!Message)
    OBVIOUS
  <2>3. QED
    BY <1>2, <2>1, <2>2
<1>7. QED
  BY <1>1, <1>4, <1>5, <1>6

LEMMA AppliedTyped ==
  ASSUME NEW scr \in Chat!Screen, NEW q \in Seq(Updates)
  PROVE  Chat!Applied(scr, q) \in Chat!Screen
<1>1. PICK n \in Nat : n = Len(q) /\ DOMAIN q = 1 .. n
  OBVIOUS
<1>2. PICK after : /\ Chat!Applied(scr, q) = after[n]
                   /\ \A k \in 0 .. n : after[k] = IF k = 0 THEN scr ELSE Chat!Updated(after[k - 1], q[k])
  BY <1>1, AppliedSteps
<1>3. \A k \in 0 .. n : after[k] \in Chat!Screen
  <2>1. PICK T : T = {k \in 0 .. n : after[k] \notin Chat!Screen}
    OBVIOUS
  <2>2. SUFFICES ASSUME T # {} PROVE FALSE
    BY <2>1
  <2>3. T \in SUBSET Nat
    BY <2>1
  <2>4. PICK k \in T : \A j \in T : k <= j
    BY <2>2, <2>3, LeastNumber
  <2>5. k \in 0 .. n /\ after[k] \notin Chat!Screen
    BY <2>1
  <2>6. k # 0
    BY <1>2, <2>5
  <2>7. k - 1 \in 0 .. n /\ ~(k <= k - 1) /\ k \in 1 .. n
    BY <1>1, <2>5, <2>6
  <2>8. after[k - 1] \in Chat!Screen
    BY <2>1, <2>4, <2>7
  <2>9. PICK u \in Updates : u = q[k]
    BY <1>1, <2>7
  <2>10. u \in Chat!Update /\ (u.op \in {"chunk", "error"} => u.by \in Requests)
    BY UpdateTyped
  <2>11. Chat!Updated(after[k - 1], u) \in Chat!Screen
    BY <2>8, <2>10, UpdatedTyped
  <2>12. QED
    BY <1>2, <2>5, <2>6, <2>9, <2>11
<1>4. n \in 0 .. n
  BY <1>1
<1>5. QED
  BY <1>2, <1>3, <1>4

LEMMA ChatListsInit == Chat!Init => ChatLists
<1>1. <<>> \in Seq(Updates) /\ <<>> \in Seq(Chat!Message) /\ 0 \in Nat
  OBVIOUS
<1>2. QED
  BY <1>1 DEF Chat!Init, ChatLists, Chat!Screen

LEMMA ChatListsNext ==
  ASSUME ChatTyped, ChatLists, Chat!Next \/ UNCHANGED chatVars
  PROVE  ChatLists'
<1> USE DEF ChatLists
<1>1. screen.bubble \in Nat /\ [screen EXCEPT !.bubble = 0] \in Chat!Screen
  BY DEF Chat!Screen
<1>2. ASSUME NEW u \in Updates, NEW clears \in BOOLEAN, Chat!Show(u, clears) PROVE ChatLists'
  <2>1. u \in Chat!Update /\ (u.op \in {"chunk", "error"} => u.by \in Requests)
    BY UpdateTyped
  <2>2. PICK s \in Chat!Screen : s = Chat!Updated(screen, u)
    BY <2>1, UpdatedTyped
  <2>3. [s EXCEPT !.bubble = 0] \in Chat!Screen
    BY DEF Chat!Screen
  <2>4. Append(queue, u) \in Seq(Updates)
    OBVIOUS
  <2>5. \/ queue' = queue /\ screen' = IF clears THEN [s EXCEPT !.bubble = 0] ELSE s
        \/ queue' = Append(queue, u) /\ screen' = IF clears THEN [screen EXCEPT !.bubble = 0] ELSE screen
    BY <1>2, <2>2 DEF Chat!Show
  <2>6. QED
    BY <1>1, <2>3, <2>4, <2>5
<1>3. UNCHANGED <<queue, screen>> => ChatLists'
  OBVIOUS
<1>4. Chat!EndBubble => ChatLists'
  BY <1>1, <1>2, <1>3, UpdatesTyped DEF Chat!EndBubble
<1>5. CASE Chat!Handle
  <2>1. PICK e \in Chat!Event : e = Head(events)
    <3>1. events \in Seq(Chat!Event) /\ events # <<>>
      BY <1>5 DEF ChatTyped, Chat!Handle
    <3>2. Head(events) \in Chat!Event
      BY <3>1
    <3>3. QED
      BY <3>2
  <2>2. e.by \in Requests
    BY DEF Chat!Event
  <2>3. Chat!Chunk(e.by) \in Updates /\ Chat!Error(e.by) \in Updates
    BY <2>2, UpdatesTyped
  <2>4. \/ UNCHANGED <<queue, screen>> \/ Chat!Show(Chat!Chunk(e.by), FALSE)
        \/ Chat!Show(Chat!Error(e.by), TRUE) \/ Chat!Show(Chat!Error(e.by), FALSE) \/ Chat!EndBubble
    BY <1>5, <2>1 DEF Chat!Handle
  <2>5. QED
    BY <1>2, <1>3, <1>4, <2>3, <2>4
<1>6. CASE Chat!Render
  <2>1. queue' = <<>> /\ screen' = Chat!Applied(screen, queue)
    BY <1>6 DEF Chat!Render
  <2>2. <<>> \in Seq(Updates)
    OBVIOUS
  <2>3. QED
    BY <2>1, <2>2, AppliedTyped
<1>7. CASE \/ Chat!SessionStarted \/ Chat!StartLost \/ Chat!ClearLost \/ Chat!DeleteConversation
           \/ Chat!CancelRequest
  <2>1. UNCHANGED <<queue, screen>> \/ Chat!Show(Chat!Reset, TRUE) \/ Chat!EndBubble
    BY <1>7 DEF Chat!SessionStarted, Chat!StartLost, Chat!ClearLost, Chat!ResetChat,
       Chat!DeleteConversation, Chat!CancelRequest
  <2>2. QED
    BY <1>2, <1>3, <1>4, <2>1, UpdatesTyped
<1>8. CASE \/ UNCHANGED chatVars \/ Chat!Disconnect
           \/ \E s \in Sessions : Chat!ClearSession(s) \/ \E asks \in BOOLEAN : Chat!Open(s, asks)
           \/ \E r \in Requests : \/ Chat!Send(r) \/ Chat!Lookup(r) \/ Chat!Refused(r) \/ Chat!Register(r)
                                  \/ Chat!Lost(r) \/ Chat!Emit(r) \/ Chat!End(r) \/ Chat!Reply(r)
  BY <1>3, <1>8 DEF chatVars, Chat!Disconnect, Chat!ClearSession, Chat!Open, Chat!Send, Chat!Lookup,
     Chat!Refused, Chat!Register, Chat!Lost, Chat!Emit, Chat!End, Chat!Reply
<1>9. QED
  BY <1>5, <1>6, <1>7, <1>8 DEF Chat!Next

LEMMA ChatTypesHold == ChatTyped /\ ChatLists => Chat!TypeOK
<1> SUFFICES ASSUME ChatTyped, ChatLists PROVE Chat!TypeOK
  OBVIOUS
<1>1. queue \in Seq(Chat!Update)
  <2>1. PICK n \in Nat : n = Len(queue) /\ queue \in [1 .. n -> Updates]
    BY DEF ChatLists
  <2>2. Updates \subseteq Chat!Update
    BY UpdateTyped
  <2>3. queue \in [1 .. n -> Chat!Update]
    BY <2>1, <2>2
  <2>4. QED
    BY <2>3
<1>2. QED
  BY <1>1 DEF ChatTyped, ChatLists, Chat!TypeOK

-----------------------------------------------------------------------------
(***************************************************************************)
(* The parts of the frontend together.                                     *)
(***************************************************************************)

(* A step keeps the invariant of its part, and is as its part demands. *)
LEMMA FrontendNextInv ==
  FrontendInv /\ [FrontendNext]_frontendVars =>
    /\ FrontendInv'
    /\ part = "panel" => Panel!ShowsNoLateAnswer
    /\ part = "monitor" => Monitor!FallsBackNow
<1> SUFFICES ASSUME FrontendInv, [FrontendNext]_frontendVars
             PROVE  /\ FrontendInv'
                    /\ part = "panel" => Panel!ShowsNoLateAnswer
                    /\ part = "monitor" => Monitor!FallsBackNow
  OBVIOUS
<1>1. /\ part' = part
      /\ part = "chat" => Chat!Next \/ UNCHANGED chatVars
      /\ part = "panel" => Panel!Next \/ UNCHANGED panelVars
      /\ part = "monitor" => Monitor!Next \/ UNCHANGED monitorVars
      /\ [Next]_vars
      /\ part = "merge" => Merge!Next \/ UNCHANGED mergeVars
      /\ part = "paging" => Paging!Next \/ UNCHANGED pagingVars
  BY DEF FrontendNext, frontendVars
<1>2. part = "panel" => PanelInv' /\ Panel!ShowsNoLateAnswer
  BY <1>1, PanelNextInv DEF FrontendInv
<1>3. part = "monitor" => MonitorInv' /\ Monitor!FallsBackNow
  BY <1>1, MonitorNextInv DEF FrontendInv
<1>4. part = "chat" => ChatInv'
  BY <1>1, ChatNextInv DEF FrontendInv
<1>5. part = "merge" => MergeInv'
  BY <1>1, MergeNextInv DEF FrontendInv
<1>6. Orderly /\ part = "paging" => PagingInv'
  BY <1>1, PagingNextInv DEF FrontendInv
<1>7. part = "chat" => ChatLists'
  BY <1>1, ChatListsNext DEF FrontendInv, ChatInv
<1>8. Inv'
  BY <1>1, NextInv DEF FrontendInv
<1>9. QED
  BY <1>1, <1>2, <1>3, <1>4, <1>5, <1>6, <1>7, <1>8 DEF FrontendInv

(* The invariants hold in every reachable state. *)
LEMMA FrontendAlwaysInv == FrontendSpec => []FrontendInv
<1>1. FrontendInit => FrontendInv
  BY InitInv, ChatListsInit, MergeInitInv, PagingInitInv, ChatInitInv, PanelInitInv, MonitorInitInv DEF FrontendInit, FrontendInv
<1>2. QED
  BY <1>1, FrontendNextInv, PTL DEF FrontendSpec

(* Every variable of every part keeps to its values, also of a chat whose   *)
(* updaters are batched; of pages if a fetch is alone.                      *)
THEOREM PartsAlwaysTyped == ASSUME Orderly PROVE FrontendSpec => []PartsTyped
<1>1. FrontendInv => PartsTyped
  BY ChatTypesHold, MergeInvSound, PagingInvSound
  DEF FrontendInv, PartsTyped, Inv, ChatInv, PanelInv, MonitorInv
<1>2. QED
  BY <1>1, FrontendAlwaysInv, PTL

(* A question is answered by its own answer, is stopped when the user stops *)
(* it, and ends (AIChatContext.tsx, pkg/ai/manager.go): a request that runs *)
(* is the only one of its session and can be cancelled, unless the session  *)
(* was closed between the two critical sections of SendMessage; the answer  *)
(* to the newest message is never dropped as a stale one; no message mixes  *)
(* two answers or answers a chat that was left; and once all has been said  *)
(* nothing is still in progress.  The first part holds in every behaviour,  *)
(* the others in those without the disturbances that they name.             *)
THEOREM ChatAlwaysSound == FrontendSpec => []ChatSound
<1>1. FrontendInv => ChatSound
  BY ChatInvSound DEF FrontendInv, ChatSound
<1>2. QED
  BY <1>1, FrontendAlwaysInv, PTL

(* What is on the screen, once nothing is under way, is the newest data: of *)
(* a panel that guards its fetches (the effects with a cancelled flag), and *)
(* of the views after a watch began again from now and said that it did, if *)
(* its type is watched in one place (K8sContext.tsx).  Of a watch that an   *)
(* event ERROR makes begin again without a word (app_watchers.go:269) it    *)
(* says nothing.                                                            *)
THEOREM QuietIsAlwaysCurrent == FrontendSpec => []QuietIsCurrent
<1>1. FrontendInv => QuietIsCurrent
  BY PanelInvSound, MonitorInvSound DEF FrontendInv, QuietIsCurrent
<1>2. QED
  BY <1>1, FrontendAlwaysInv, PTL

(* The stream of several containers loses no line and shows those it keeps  *)
(* in order (podlogs.go); and what the log viewer shows of pages has no     *)
(* gap, its polls get on, and it knows where the log ends (useLogStream.ts) *)
(* if a fetch is alone, and polls and newer chunks take turns.              *)
THEOREM LinesAlwaysExact == ASSUME Orderly PROVE FrontendSpec => []LinesExact
<1>1. FrontendInv => LinesExact
  BY MergeInvSound, PagingInvSound DEF FrontendInv, LinesExact
<1>2. QED
  BY <1>1, FrontendAlwaysInv, PTL

(* A guarded panel shows no overtaken answer; the views go on streaming as  *)
(* long as no single watch reaches the threshold of failures within the     *)
(* window, and poll at the failure that does (streamingCompatibility.ts).   *)
THEOREM StepsAlwaysSound == FrontendSpec => StepsSound
<1>1. FrontendInv /\ [FrontendNext]_frontendVars =>
        [/\ part = "panel" => Panel!ShowsNoLateAnswer
         /\ part = "monitor" => Monitor!FallsBackNow]_frontendVars
  BY FrontendNextInv
<1>2. QED
  BY <1>1, FrontendAlwaysInv, PTL DEF FrontendSpec, StepsSound
=============================================================================
