---------------------------- MODULE Calls_proofs ----------------------------
(***************************************************************************)
(* Proofs about what views ask of the backend and may cancel: requests and *)
(* log streams.                                                            *)
(***************************************************************************)
EXTENDS RequestManager, LogStream, FiniteSetTheorems, WellFoundedInduction, TLAPS

-----------------------------------------------------------------------------
(***************************************************************************)
(* RequestManager, for every set of clients and requests.  That the        *)
(* pending counter never becomes negative is part of type correctness, so  *)
(* the types, the map and the counters are one invariant.                  *)
(***************************************************************************)

ReqType == [at : {"unused", "sent", "running", "returned", "over"},
            client : Clients \cup {NoClient},
            ctx : {"open", "canceled", "released", "expired"},
            answer : Answers \cup {"none"}, unwanted : BOOLEAN]

(* A request of the type, with a client and an answer where it needs them. *)
ReqOK(x) ==
  /\ x \in ReqType
  /\ x.at # "unused" => x.client \in Clients
  /\ x.at \in {"returned", "over"} => x.answer \in Answers
  /\ x.at \in {"unused", "sent"} => x.ctx = "open"

StatType == [total : Nat, pending : Nat, completed : Nat, canceled : Nat]

ReqTyped ==
  /\ enabled \in BOOLEAN
  /\ entry \in [Ids -> Requests \cup {NoRequest}]
  /\ stats \in [Managers -> StatType]
  /\ req \in [Requests -> ReqType] /\ \A r \in Requests : ReqOK(req[r])
  /\ current \in [Clients -> Requests \cup {NoRequest}]
  /\ shown \in [Clients -> Answers \cup {"nothing", "loading"}]

ReqCounted ==
  \A m \in Managers :
    /\ stats[m].total = stats[m].pending + stats[m].completed + stats[m].canceled
    /\ IsFiniteSet(Tracked(m)) /\ stats[m].pending = Cardinality(Tracked(m))

(* The map refers to requests under their own ID. *)
Placed ==
  \A i \in Ids : entry[i] # NoRequest =>
    req[entry[i]].client # NoClient /\ IdOf(entry[i]) = i

ReqInv == ReqTyped /\ ReqCounted /\ Placed /\ EntryExact

(* The form of RequestsTyped that the proofs use. *)
LEMMA ReqTypedIsTyped == ReqTyped => RequestsTyped
BY DEF ReqTyped, RequestsTyped, ReqOK, ReqType, StatType

(* A request has an ID. *)
LEMMA IdType == ASSUME ReqTyped, NEW r \in Requests PROVE IdOf(r) \in Ids
BY DEF IdOf, Ids

(* An ID belongs to a manager. *)
LEMMA ManagerType == ASSUME NEW i \in Ids PROVE ManagerOf(i) \in Managers
BY DEF ManagerOf, Managers

(* No request and no count at first. *)
LEMMA ReqInitInv == RequestsInit => ReqInv
<1> SUFFICES ASSUME RequestsInit PROVE ReqInv
  OBVIOUS
<1>1. ReqTyped
  BY DEF RequestsInit, ReqTyped, ReqOK, ReqType, StatType, Blank
<1>2. \A m \in Managers : Tracked(m) = {}
  BY DEF RequestsInit, Tracked
<1>3. ReqCounted
  BY <1>2, FS_EmptySet DEF RequestsInit, ReqCounted
<1>4. Placed /\ EntryExact
  BY DEF RequestsInit, Placed, EntryExact, Blank
<1>5. QED
  BY <1>1, <1>3, <1>4 DEF ReqInv

-----------------------------------------------------------------------------
(* Counting. *)

(* Counting changes the numbers of one manager by what was given. *)
LEMMA CountEffect ==
  ASSUME stats \in [Managers -> StatType], NEW m \in Managers,
         NEW a \in Int, NEW b \in Int, NEW c \in Int, NEW d \in Int, Count(m, a, b, c, d)
  PROVE  /\ \A n \in Managers \ {m} : stats'[n] = stats[n]
         /\ stats'[m].total = stats[m].total + a /\ stats'[m].pending = stats[m].pending + b
         /\ stats'[m].completed = stats[m].completed + c /\ stats'[m].canceled = stats[m].canceled + d
         /\ stats' = [stats EXCEPT ![m] = [total |-> stats'[m].total, pending |-> stats'[m].pending,
                        completed |-> stats'[m].completed, canceled |-> stats'[m].canceled]]
BY DEF Count

(* A request leaves the map. *)
LEMMA RemoveCounts ==
  ASSUME ReqTyped, ReqCounted, NEW i \in Ids, entry[i] # NoRequest, NEW c \in {0, 1},
         entry' = [entry EXCEPT ![i] = NoRequest], Count(ManagerOf(i), 0, -1, c, 1 - c)
  PROVE  ReqCounted' /\ stats' \in [Managers -> StatType]
<1> DEFINE m == ManagerOf(i)
<1>1. m \in Managers
  BY ManagerType
<1>2. \A n \in Managers : Tracked(n)' = IF n = m THEN Tracked(n) \ {i} ELSE Tracked(n)
  BY DEF Tracked, ReqTyped
<1>3. i \in Tracked(m)
  BY DEF Tracked
<1>4. /\ IsFiniteSet(Tracked(m)) /\ stats[m].pending = Cardinality(Tracked(m))
      /\ stats[m].total = stats[m].pending + stats[m].completed + stats[m].canceled
      /\ stats[m] \in StatType
  BY <1>1 DEF ReqCounted, ReqTyped
<1>5. /\ IsFiniteSet(Tracked(m) \ {i}) /\ Cardinality(Tracked(m) \ {i}) = Cardinality(Tracked(m)) - 1
      /\ Cardinality(Tracked(m) \ {i}) \in Nat
  BY <1>3, <1>4, FS_RemoveElement, FS_CardinalityType
<1> HIDE DEF m
<1>6. /\ \A n \in Managers \ {m} : stats'[n] = stats[n]
      /\ stats'[m].total = stats[m].total + 0 /\ stats'[m].pending = stats[m].pending + -1
      /\ stats'[m].completed = stats[m].completed + c /\ stats'[m].canceled = stats[m].canceled + (1 - c)
      /\ stats' = [stats EXCEPT ![m] = [total |-> stats'[m].total, pending |-> stats'[m].pending,
                     completed |-> stats'[m].completed, canceled |-> stats'[m].canceled]]
  <2>1. Count(m, 0, -1, c, 1 - c) /\ c \in Int /\ 1 - c \in Int
    BY DEF m
  <2>2. QED
    BY <1>1, <2>1, CountEffect DEF ReqTyped
<1>7. stats' \in [Managers -> StatType]
  <2>1. /\ stats'[m].total \in Nat /\ stats'[m].pending \in Nat
        /\ stats'[m].completed \in Nat /\ stats'[m].canceled \in Nat
    BY <1>4, <1>5, <1>6 DEF StatType
  <2>2. QED
    BY <1>1, <1>6, <2>1 DEF ReqTyped, StatType
<1>8. ASSUME NEW n \in Managers
      PROVE  /\ stats'[n].total = stats'[n].pending + stats'[n].completed + stats'[n].canceled
             /\ IsFiniteSet(Tracked(n)') /\ stats'[n].pending = Cardinality(Tracked(n)')
  <2>1. CASE n = m
    <3>1. Tracked(m)' = Tracked(m) \ {i}
      BY <1>1, <1>2
    <3>2. stats'[m].total = stats'[m].pending + stats'[m].completed + stats'[m].canceled
      BY <1>4, <1>6 DEF StatType
    <3>3. stats'[m].pending = Cardinality(Tracked(m) \ {i})
      BY <1>4, <1>5, <1>6
    <3>4. QED
      BY <1>5, <2>1, <3>1, <3>2, <3>3
  <2>2. CASE n # m
    BY <1>2, <1>6, <2>2 DEF ReqCounted
  <2>3. QED
    BY <2>1, <2>2
<1>9. QED
  BY <1>7, <1>8 DEF ReqCounted

(* A request enters the map. *)
LEMMA AddCounts ==
  ASSUME ReqTyped, ReqCounted, NEW i \in Ids, NEW r \in Requests, entry' = [entry EXCEPT ![i] = r],
         IF entry[i] = NoRequest THEN Count(ManagerOf(i), 1, 1, 0, 0) ELSE Count(ManagerOf(i), 1, 0, 0, 1)
  PROVE  ReqCounted' /\ stats' \in [Managers -> StatType]
<1> DEFINE m == ManagerOf(i)
<1>1. m \in Managers
  BY ManagerType
<1>2. \A n \in Managers : Tracked(n)' = IF n = m THEN Tracked(n) \cup {i} ELSE Tracked(n)
  BY RequestAssumption DEF Tracked, ReqTyped
<1>3. i \in Tracked(m) <=> entry[i] # NoRequest
  BY DEF Tracked
<1>4. /\ IsFiniteSet(Tracked(m)) /\ stats[m].pending = Cardinality(Tracked(m))
      /\ stats[m].total = stats[m].pending + stats[m].completed + stats[m].canceled
      /\ stats[m] \in StatType
  BY <1>1 DEF ReqCounted, ReqTyped
<1>5. /\ IsFiniteSet(Tracked(m) \cup {i})
      /\ Cardinality(Tracked(m) \cup {i}) =
           IF entry[i] = NoRequest THEN Cardinality(Tracked(m)) + 1 ELSE Cardinality(Tracked(m))
  BY <1>3, <1>4, FS_AddElement
<1> HIDE DEF m
<1>6. PICK b \in {0, 1} :
        /\ b = (IF entry[i] = NoRequest THEN 1 ELSE 0) /\ Count(m, 1, b, 0, 1 - b)
  BY DEF m
<1>7. /\ \A n \in Managers \ {m} : stats'[n] = stats[n]
      /\ stats'[m].total = stats[m].total + 1 /\ stats'[m].pending = stats[m].pending + b
      /\ stats'[m].completed = stats[m].completed + 0 /\ stats'[m].canceled = stats[m].canceled + (1 - b)
      /\ stats' = [stats EXCEPT ![m] = [total |-> stats'[m].total, pending |-> stats'[m].pending,
                     completed |-> stats'[m].completed, canceled |-> stats'[m].canceled]]
  BY <1>1, <1>6, CountEffect DEF ReqTyped
<1>8. stats' \in [Managers -> StatType]
  <2>1. /\ stats'[m].total \in Nat /\ stats'[m].pending \in Nat
        /\ stats'[m].completed \in Nat /\ stats'[m].canceled \in Nat
    BY <1>4, <1>7 DEF StatType
  <2>2. QED
    BY <1>1, <1>7, <2>1 DEF ReqTyped, StatType
<1>9. ASSUME NEW n \in Managers
      PROVE  /\ stats'[n].total = stats'[n].pending + stats'[n].completed + stats'[n].canceled
             /\ IsFiniteSet(Tracked(n)') /\ stats'[n].pending = Cardinality(Tracked(n)')
  <2>1. CASE n = m
    <3>1. Tracked(m)' = Tracked(m) \cup {i}
      BY <1>1, <1>2
    <3>2. stats'[m].total = stats'[m].pending + stats'[m].completed + stats'[m].canceled
      BY <1>4, <1>6, <1>7 DEF StatType
    <3>3. stats[m].pending \in Nat
      BY <1>4 DEF StatType
    <3>4. stats'[m].pending = Cardinality(Tracked(m) \cup {i})
      BY <1>4, <1>5, <1>6, <1>7, <3>3
    <3>5. QED
      BY <1>5, <2>1, <3>1, <3>2, <3>4
  <2>2. CASE n # m
    BY <1>2, <1>7, <2>2 DEF ReqCounted
  <2>3. QED
    BY <2>1, <2>2
<1>10. QED
  BY <1>8, <1>9 DEF ReqCounted

-----------------------------------------------------------------------------
(* Requests. *)

(* Replacing the record of one request leaves the others alone. *)
LEMMA SetReq ==
  ASSUME ReqTyped, NEW r \in Requests, NEW x, ReqOK(x), req' = [req EXCEPT ![r] = x]
  PROVE  /\ req' \in [Requests -> ReqType] /\ \A s \in Requests : ReqOK(req'[s])
         /\ req'[r] = x /\ \A s \in Requests \ {r} : req'[s] = req[s]
BY DEF ReqTyped, ReqOK

(* Giving up a request changes its context only. *)
LEMMA GiveUpEffect ==
  ASSUME NEW x, ReqOK(x), x.at = "running"
  PROVE  /\ ReqOK(GiveUp(x)) /\ GiveUp(x).at = x.at /\ GiveUp(x).client = x.client
         /\ GiveUp(x).unwanted = x.unwanted /\ GiveUp(x).ctx \in {"canceled", "released"}
         /\ GiveUp(x).answer = x.answer
<1>1. PICK k \in {"canceled", "released"} : GiveUp(x) = [x EXCEPT !.ctx = k]
  BY DEF GiveUp
<1>2. /\ [x EXCEPT !.ctx = k] \in ReqType /\ [x EXCEPT !.ctx = k].at = x.at
      /\ [x EXCEPT !.ctx = k].client = x.client /\ [x EXCEPT !.ctx = k].unwanted = x.unwanted
      /\ [x EXCEPT !.ctx = k].ctx = k /\ [x EXCEPT !.ctx = k].answer = x.answer
  BY DEF ReqOK, ReqType
<1>3. QED
  BY <1>1, <1>2 DEF ReqOK

(* The request an ID refers to runs, and is not one that was only sent. *)
LEMMA OldRuns ==
  ASSUME ReqInv, NEW i \in Ids, entry[i] # NoRequest
  PROVE  /\ entry[i] \in Requests /\ IdOf(entry[i]) = i /\ req[entry[i]].client # NoClient
         /\ req[entry[i]].at = "running" /\ req[entry[i]].ctx \in {"open", "expired"}
<1>1. entry[i] \in Requests /\ IdOf(entry[i]) = i /\ req[entry[i]].client # NoClient
  BY DEF ReqInv, ReqTyped, Placed
<1>2. QED
  BY <1>1 DEF ReqInv, EntryExact

(* The map and the counters only depend on where the requests are. *)
LEMMA SameMap ==
  ASSUME ReqInv, UNCHANGED <<entry, stats>>, NEW r \in Requests,
         \A s \in Requests \ {r} : req'[s] = req[s], req'[r].client = req[r].client,
         (req'[r].at = "running" /\ req'[r].ctx \in {"open", "expired"})
           <=> (req[r].at = "running" /\ req[r].ctx \in {"open", "expired"})
  PROVE  ReqCounted' /\ Placed' /\ EntryExact'
<1>1. ReqCounted'
  BY DEF ReqInv, ReqCounted, Tracked
<1>2. \A s \in Requests : req'[s].client = req[s].client /\ IdOf(s)' = IdOf(s)
  BY DEF IdOf
<1>3. Placed'
  BY <1>2 DEF ReqInv, Placed, ReqTyped
<1>4. EntryExact'
  BY <1>2 DEF ReqInv, EntryExact
<1>5. QED
  BY <1>1, <1>3, <1>4

(* A request sent is not in the map yet. *)
LEMMA OpenKeeps ==
  ASSUME ReqInv, NEW c \in Clients, NEW r \in Requests, Open(c, r) PROVE ReqInv'
<1>1. PICK x : /\ x = [Blank EXCEPT !.at = "sent", !.client = c] /\ req' = [req EXCEPT ![r] = x]
               /\ req[r] = Blank /\ UNCHANGED <<enabled, entry, stats>>
  BY DEF Open
<1>2. x.at = "sent" /\ x.client = c /\ x.ctx = "open" /\ ReqOK(x)
  BY <1>1 DEF Blank, ReqOK, ReqType
<1>3. /\ req' \in [Requests -> ReqType] /\ \A s \in Requests : ReqOK(req'[s])
      /\ req'[r] = x /\ \A s \in Requests \ {r} : req'[s] = req[s]
  BY <1>1, <1>2, SetReq DEF ReqInv
<1>4. ReqTyped'
  BY <1>1, <1>3 DEF ReqInv, ReqTyped, Open
<1>5. \A i \in Ids : entry[i] # r
  BY <1>1, RequestAssumption DEF ReqInv, Placed, Blank
<1>6. \A s \in Requests \ {r} : IdOf(s)' = IdOf(s)
  BY <1>3 DEF IdOf
<1>7. Placed'
  BY <1>1, <1>3, <1>5, <1>6 DEF ReqInv, Placed, ReqTyped
<1>8. EntryExact'
  <2>1. ASSUME NEW s \in Requests, s # r, req'[s].client # NoClient
        PROVE  entry'[IdOf(s)'] = s <=> req'[s].at = "running" /\ req'[s].ctx \in {"open", "expired"}
    BY <1>1, <1>3, <1>6, <2>1 DEF ReqInv, EntryExact
  <2>2. IdOf(r)' \in Ids
    BY <1>4, IdType DEF ReqTyped, IdOf, Ids
  <2>3. entry'[IdOf(r)'] # r /\ req'[r].at # "running"
    BY <1>1, <1>2, <1>3, <1>5, <2>2
  <2>4. QED
    BY <2>1, <2>3 DEF EntryExact
<1>9. ReqCounted'
  BY <1>1 DEF ReqInv, ReqCounted, Tracked
<1>10. QED
  BY <1>4, <1>7, <1>8, <1>9 DEF ReqInv

(* A view that closes changes no manager; it sends a cancellation. *)
LEMMA CloseKeeps ==
  ASSUME ReqInv, NEW c \in Clients, Close(c) PROVE ReqInv'
<1>1. PICK r \in Requests, b \in BOOLEAN : req' = [req EXCEPT ![r] = [req[r] EXCEPT !.unwanted = b]]
  BY DEF Close, ReqInv, ReqTyped
<1>2. PICK x : x = [req[r] EXCEPT !.unwanted = b]
  OBVIOUS
<1>3. /\ ReqOK(x) /\ x.at = req[r].at /\ x.client = req[r].client /\ x.ctx = req[r].ctx
  BY <1>2 DEF ReqInv, ReqTyped, ReqOK, ReqType
<1>4. /\ req' \in [Requests -> ReqType] /\ \A s \in Requests : ReqOK(req'[s])
      /\ req'[r] = x /\ \A s \in Requests \ {r} : req'[s] = req[s]
  BY <1>1, <1>2, <1>3, SetReq DEF ReqInv
<1>5. ReqTyped'
  BY <1>4 DEF ReqInv, ReqTyped, Close
<1>6. QED
  BY <1>3, <1>4, <1>5, SameMap DEF ReqInv, Close

(* An answer handled changes no manager. *)
LEMMA DeliverKeeps ==
  ASSUME ReqInv, NEW r \in Requests, Deliver(r) PROVE ReqInv'
<1>1. PICK x : x = [req[r] EXCEPT !.at = "over"] /\ req' = [req EXCEPT ![r] = x]
  BY DEF Deliver
<1>2. /\ req[r].at = "returned" /\ ReqOK(req[r])
  BY DEF Deliver, ReqInv, ReqTyped
<1>3. /\ ReqOK(x) /\ x.at = "over" /\ x.client = req[r].client /\ req[r].answer \in Answers
  BY <1>1, <1>2 DEF ReqOK, ReqType
<1>4. /\ req' \in [Requests -> ReqType] /\ \A s \in Requests : ReqOK(req'[s])
      /\ req'[r] = x /\ \A s \in Requests \ {r} : req'[s] = req[s]
  BY <1>1, <1>3, SetReq DEF ReqInv
<1>5. ReqTyped'
  BY <1>3, <1>4 DEF ReqInv, ReqTyped, Deliver
<1>6. QED
  BY <1>2, <1>3, <1>4, <1>5, SameMap DEF ReqInv, Deliver

(* A timeout leaves the entry in its place, and counted. *)
LEMMA ExpireKeeps ==
  ASSUME ReqInv, NEW r \in Requests, Expire(r) PROVE ReqInv'
<1>1. PICK k \in {"expired", "canceled"} :
        /\ k = IF req[r].ctx = "open" THEN "expired" ELSE "canceled"
        /\ req' = [req EXCEPT ![r] = [req[r] EXCEPT !.ctx = k]]
  BY DEF Expire
<1>2. req[r].at = "running" /\ ReqOK(req[r]) /\ req[r].ctx \in {"open", "released"}
  BY DEF Expire, ReqInv, ReqTyped
<1>3. PICK x : x = [req[r] EXCEPT !.ctx = k]
  OBVIOUS
<1>4. /\ ReqOK(x) /\ x.at = "running" /\ x.client = req[r].client /\ x.ctx = k
  BY <1>2, <1>3 DEF ReqOK, ReqType
<1>5. /\ req' \in [Requests -> ReqType] /\ \A s \in Requests : ReqOK(req'[s])
      /\ req'[r] = x /\ \A s \in Requests \ {r} : req'[s] = req[s]
  BY <1>1, <1>3, <1>4, SetReq DEF ReqInv
<1>6. ReqTyped'
  BY <1>5 DEF ReqInv, ReqTyped, Expire
<1>7. QED
  BY <1>1, <1>2, <1>4, <1>5, <1>6, SameMap DEF ReqInv, Expire

(* What StartRequest does to the requests. *)
LEMMA StartEffect ==
  ASSUME ReqInv, NEW r \in Requests, StartRequest(r)
  PROVE  /\ req' \in [Requests -> ReqType] /\ \A s \in Requests : ReqOK(req'[s])
         /\ req[r].at = "sent" /\ entry[IdOf(r)] # r
         /\ req'[r].at = "running" /\ req'[r].ctx = "open"
         /\ \A s \in Requests : req'[s].client = req[s].client /\ req'[s].unwanted = req[s].unwanted
         /\ \A s \in Requests \ {r} : req'[s].at = req[s].at /\ req'[s].answer = req[s].answer
         /\ \A s \in Requests \ {r} : s # entry[IdOf(r)] => req'[s] = req[s]
         /\ \A s \in Requests : s = entry[IdOf(r)] => req'[s].ctx \in {"canceled", "released"}
<1>1. /\ req[r].at = "sent" /\ IdOf(r) \in Ids /\ ReqOK(req[r])
  BY IdType DEF StartRequest, ReqInv, ReqTyped
<1>2. req[r].client # NoClient
  BY <1>1, RequestAssumption DEF ReqOK, Clients
<1>3. PICK old : old = entry[IdOf(r)]
  OBVIOUS
<1>4. old # r
  BY <1>1, <1>2, <1>3 DEF ReqInv, EntryExact
<1>5. PICK x : x = [req[r] EXCEPT !.at = "running"]
  OBVIOUS
<1>6. /\ ReqOK(x) /\ x.at = "running" /\ x.client = req[r].client /\ x.ctx = "open"
      /\ x.unwanted = req[r].unwanted
  BY <1>1, <1>5 DEF ReqOK, ReqType
<1>7. req' = [s \in Requests |-> IF s = r THEN x ELSE IF s = old THEN GiveUp(req[s]) ELSE req[s]]
  BY <1>3, <1>5 DEF StartRequest
<1>8. ASSUME NEW s \in Requests, s = old
      PROVE  /\ req'[s] = GiveUp(req[s]) /\ ReqOK(req'[s]) /\ req'[s].at = req[s].at
             /\ req'[s].client = req[s].client /\ req'[s].unwanted = req[s].unwanted
             /\ req'[s].ctx \in {"canceled", "released"} /\ req'[s].answer = req[s].answer
  <2>1. req[s].at = "running" /\ ReqOK(req[s])
    BY <1>1, <1>3, <1>8, OldRuns, RequestAssumption DEF ReqInv, ReqTyped
  <2>2. req'[s] = GiveUp(req[s])
    BY <1>4, <1>7, <1>8
  <2>3. QED
    BY <2>1, <2>2, GiveUpEffect
<1>9. req'[r] = x /\ \A s \in Requests \ {r} : s # old => req'[s] = req[s]
  BY <1>7
<1>10. \A s \in Requests : ReqOK(req'[s])
  BY <1>6, <1>8, <1>9 DEF ReqInv, ReqTyped
<1>11. req' \in [Requests -> ReqType]
  BY <1>7, <1>10 DEF ReqOK
<1>12. QED
  BY <1>1, <1>3, <1>4, <1>6, <1>8, <1>9, <1>10, <1>11

(* StartRequest gives up the entry it replaces and counts both. *)
LEMMA StartKeeps ==
  ASSUME ReqInv, NEW r \in Requests, StartRequest(r) PROVE ReqInv'
<1> DEFINE i == IdOf(r)
<1>1. /\ i \in Ids /\ entry' = [entry EXCEPT ![i] = r]
      /\ IF entry[i] = NoRequest THEN Count(ManagerOf(i), 1, 1, 0, 0) ELSE Count(ManagerOf(i), 1, 0, 0, 1)
  BY IdType DEF StartRequest, ReqInv
<1>2. ReqCounted' /\ stats' \in [Managers -> StatType]
  BY <1>1, AddCounts DEF ReqInv
<1>3. ReqTyped'
  <2>1. req' \in [Requests -> ReqType] /\ \A s \in Requests : ReqOK(req'[s])
    BY StartEffect
  <2>2. entry' \in [Ids -> Requests \cup {NoRequest}]
    BY <1>1 DEF ReqInv, ReqTyped
  <2>3. QED
    BY <1>2, <2>1, <2>2 DEF ReqInv, ReqTyped, StartRequest
<1>4. \A s \in Requests : IdOf(s)' = IdOf(s)
  BY StartEffect DEF IdOf
<1>5. entry'[i] = r /\ \A j \in Ids \ {i} : entry'[j] = entry[j]
  BY <1>1 DEF ReqInv, ReqTyped
<1>6. /\ req[r].client # NoClient
  BY StartEffect, RequestAssumption DEF ReqInv, ReqTyped, ReqOK, Clients
<1>7. Placed'
  <2>1. \A s \in Requests : req'[s].client = req[s].client
    BY StartEffect
  <2>2. ASSUME NEW j \in Ids, j # i, entry[j] # NoRequest
        PROVE  entry[j] \in Requests /\ req[entry[j]].client # NoClient /\ IdOf(entry[j]) = j
    BY <2>2 DEF ReqInv, Placed, ReqTyped
  <2>3. ASSUME NEW j \in Ids, (entry[j] # NoRequest)'
        PROVE  (req[entry[j]].client # NoClient /\ IdOf(entry[j]) = j)'
    <3>1. CASE j = i
      BY <1>4, <1>5, <1>6, <2>1, <3>1
    <3>2. CASE j # i
      BY <1>4, <1>5, <2>1, <2>2, <2>3, <3>2
    <3>3. QED
      BY <3>1, <3>2
  <2>4. QED
    BY <2>3 DEF Placed
<1>8. EntryExact'
  <2> SUFFICES ASSUME NEW s \in Requests, req'[s].client # NoClient
               PROVE  entry'[IdOf(s)] = s <=> req'[s].at = "running" /\ req'[s].ctx \in {"open", "expired"}
    BY <1>4 DEF EntryExact
  <2>1. CASE s = r
    BY <1>5, <2>1, StartEffect
  <2>2. CASE s # r /\ s = entry[i]
    <3>1. IdOf(s) = i
      BY <1>1, <2>2, OldRuns, RequestAssumption DEF ReqInv
    <3>2. QED
      BY <1>5, <2>2, <3>1, StartEffect
  <2>3. CASE s # r /\ s # entry[i]
    <3>1. entry[IdOf(s)] = s <=> req[s].at = "running" /\ req[s].ctx \in {"open", "expired"}
      BY StartEffect DEF ReqInv, EntryExact
    <3>2. req'[s] = req[s] /\ IdOf(s) \in Ids
      BY <2>3, StartEffect, IdType DEF ReqInv
    <3>3. entry'[IdOf(s)] = s <=> entry[IdOf(s)] = s
      BY <1>5, <2>3, <3>2
    <3>4. QED
      BY <3>1, <3>2, <3>3
  <2>4. QED
    BY <2>1, <2>2, <2>3
<1>9. QED
  BY <1>2, <1>3, <1>7, <1>8 DEF ReqInv

(* CancelRequest changes at most the request that its ID names now. *)
LEMMA CancelEffect ==
  ASSUME ReqInv, NEW r \in Requests, CancelRequest(r)
  PROVE  /\ req' \in [Requests -> ReqType] /\ \A s \in Requests : ReqOK(req'[s])
         /\ req[r].unwanted /\ ~req'[r].unwanted
         /\ \A s \in Requests \ {r} : req'[s].unwanted = req[s].unwanted
         /\ \A s \in Requests : /\ req'[s].client = req[s].client /\ req'[s].at = req[s].at
                                 /\ req'[s].answer = req[s].answer
         /\ \A s \in Requests : s # entry[IdOf(r)] => req'[s].ctx = req[s].ctx
         /\ \A s \in Requests : s = entry[IdOf(r)] => req'[s].ctx \in {"canceled", "released"}
<1>1. req[r].unwanted /\ IdOf(r) \in Ids
  BY IdType DEF CancelRequest, ReqInv
<1>2. PICK old : old = entry[IdOf(r)]
  OBVIOUS
<1>3. PICK y : y = [s \in Requests |-> IF s = old THEN GiveUp(req[s]) ELSE req[s]]
  OBVIOUS
<1>4. req' = [s \in Requests |-> IF s = r THEN [y[s] EXCEPT !.unwanted = FALSE] ELSE y[s]]
  BY <1>2, <1>3 DEF CancelRequest
<1>5. ASSUME NEW s \in Requests
      PROVE  /\ ReqOK(y[s]) /\ y[s].client = req[s].client /\ y[s].at = req[s].at
             /\ y[s].answer = req[s].answer /\ y[s].unwanted = req[s].unwanted
             /\ s # old => y[s].ctx = req[s].ctx
             /\ s = old => y[s].ctx \in {"canceled", "released"}
  <2>1. CASE s = old
    <3>1. req[s].at = "running" /\ ReqOK(req[s])
      BY <1>1, <1>2, <2>1, OldRuns, RequestAssumption DEF ReqInv, ReqTyped
    <3>2. QED
      BY <1>3, <2>1, <3>1, GiveUpEffect
  <2>2. CASE s # old
    BY <1>3, <2>2 DEF ReqInv, ReqTyped
  <2>3. QED
    BY <2>1, <2>2
<1>6. PICK x : x = [y[r] EXCEPT !.unwanted = FALSE]
  OBVIOUS
<1>7. /\ ReqOK(x) /\ x.client = req[r].client /\ x.at = req[r].at /\ x.ctx = y[r].ctx
      /\ x.answer = req[r].answer /\ x.unwanted = FALSE
  BY <1>5, <1>6 DEF ReqOK, ReqType
<1>8. req'[r] = x /\ \A s \in Requests \ {r} : req'[s] = y[s]
  BY <1>4, <1>6
<1>9. \A s \in Requests : ReqOK(req'[s])
  BY <1>5, <1>7, <1>8
<1>10. req' \in [Requests -> ReqType]
  BY <1>4, <1>9 DEF ReqOK
<1>11. QED
  BY <1>1, <1>2, <1>5, <1>7, <1>8, <1>9, <1>10

(* An ID that loses its entry, with the requests of other IDs untouched. *)
LEMMA CancelKeeps ==
  ASSUME ReqInv, NEW r \in Requests, CancelRequest(r) PROVE ReqInv'
<1> DEFINE i == IdOf(r)
<1>1. /\ i \in Ids /\ entry' = [entry EXCEPT ![i] = NoRequest]
      /\ IF entry[i] = NoRequest THEN UNCHANGED stats ELSE Count(ManagerOf(i), 0, -1, 0, 1)
  BY IdType DEF CancelRequest, ReqInv
<1>2. entry'[i] = NoRequest /\ \A j \in Ids \ {i} : entry'[j] = entry[j]
  BY <1>1 DEF ReqInv, ReqTyped
<1>3. ReqCounted' /\ stats' \in [Managers -> StatType]
  <2>1. CASE entry[i] = NoRequest
    <3>1. UNCHANGED <<entry, stats>>
      BY <1>1, <2>1 DEF ReqInv, ReqTyped
    <3>2. QED
      BY <3>1 DEF ReqInv, ReqTyped, ReqCounted, Tracked
  <2>2. CASE entry[i] # NoRequest
    <3>1. Count(ManagerOf(i), 0, -1, 0, 1 - 0)
      BY <1>1, <2>2
    <3>2. QED
      BY <1>1, <2>2, <3>1, RemoveCounts DEF ReqInv
  <2>3. QED
    BY <2>1, <2>2
<1>4. \A s \in Requests : req'[s].client = req[s].client /\ IdOf(s)' = IdOf(s)
  BY CancelEffect DEF IdOf
<1>5. ReqTyped'
  <2>1. req' \in [Requests -> ReqType] /\ \A s \in Requests : ReqOK(req'[s])
    BY CancelEffect
  <2>2. entry' \in [Ids -> Requests \cup {NoRequest}]
    BY <1>1 DEF ReqInv, ReqTyped
  <2>3. QED
    BY <1>3, <2>1, <2>2 DEF ReqInv, ReqTyped, CancelRequest
<1>6. Placed'
  <2>1. ASSUME NEW j \in Ids, (entry[j] # NoRequest)'
        PROVE  (req[entry[j]].client # NoClient /\ IdOf(entry[j]) = j)'
    <3>1. j # i /\ entry'[j] = entry[j] /\ entry[j] \in Requests
      BY <1>2, <2>1 DEF ReqInv, ReqTyped
    <3>2. req[entry[j]].client # NoClient /\ IdOf(entry[j]) = j
      BY <2>1, <3>1 DEF ReqInv, Placed
    <3>3. QED
      BY <1>4, <3>1, <3>2
  <2>2. QED
    BY <2>1 DEF Placed
<1>7. EntryExact'
  <2> SUFFICES ASSUME NEW s \in Requests, req'[s].client # NoClient
               PROVE  entry'[IdOf(s)] = s <=> req'[s].at = "running" /\ req'[s].ctx \in {"open", "expired"}
    BY <1>4 DEF EntryExact
  <2>1. CASE s = entry[i]
    <3>1. IdOf(s) = i
      BY <1>1, <2>1, OldRuns, RequestAssumption DEF ReqInv
    <3>2. QED
      BY <1>2, <2>1, <3>1, CancelEffect, RequestAssumption
  <2>2. CASE s # entry[i]
    <3>1. entry[IdOf(s)] = s <=> req[s].at = "running" /\ req[s].ctx \in {"open", "expired"}
      BY <1>4 DEF ReqInv, EntryExact
    <3>2. req'[s].at = req[s].at /\ req'[s].ctx = req[s].ctx /\ IdOf(s) \in Ids
      BY <2>2, CancelEffect, IdType DEF ReqInv
    <3>3. entry'[IdOf(s)] = s <=> entry[IdOf(s)] = s
      BY <1>2, <2>2, <3>2, RequestAssumption
    <3>4. QED
      BY <3>1, <3>2, <3>3
  <2>3. QED
    BY <2>1, <2>2
<1>8. QED
  BY <1>3, <1>5, <1>6, <1>7 DEF ReqInv

(* CompleteRequest returns one request. *)
LEMMA CompleteEffect ==
  ASSUME ReqInv, NEW r \in Requests, CompleteRequest(r)
  PROVE  /\ req' \in [Requests -> ReqType] /\ \A s \in Requests : ReqOK(req'[s])
         /\ req[r].at = "running" /\ req'[r].at = "returned"
         /\ req'[r].client = req[r].client /\ req'[r].ctx = req[r].ctx
         /\ req'[r].unwanted = req[r].unwanted
         /\ \A s \in Requests \ {r} : req'[s] = req[s]
<1>1. PICK a \in Answers : req' = [req EXCEPT ![r] = [req[r] EXCEPT !.at = "returned", !.answer = a]]
  BY DEF CompleteRequest, AnswersOf, Answers
<1>2. PICK x : x = [req[r] EXCEPT !.at = "returned", !.answer = a]
  OBVIOUS
<1>3. req[r].at = "running" /\ ReqOK(req[r])
  BY DEF CompleteRequest, ReqInv, ReqTyped
<1>4. /\ ReqOK(x) /\ x.at = "returned" /\ x.client = req[r].client /\ x.ctx = req[r].ctx
      /\ x.unwanted = req[r].unwanted
  BY <1>2, <1>3 DEF ReqOK, ReqType
<1>5. QED
  BY <1>1, <1>2, <1>3, <1>4, SetReq DEF ReqInv

(* CompleteRequest removes and counts an entry only if it is its own. *)
LEMMA CompleteKeeps ==
  ASSUME ReqInv, NEW r \in Requests, CompleteRequest(r) PROVE ReqInv'
<1> DEFINE i == IdOf(r)
<1>1. i \in Ids /\ req[r].client # NoClient
  BY CompleteEffect, IdType, RequestAssumption DEF ReqInv, ReqTyped, ReqOK, Clients
<1>2. \A s \in Requests : req'[s].client = req[s].client /\ IdOf(s)' = IdOf(s)
  BY CompleteEffect DEF IdOf
<1>3. req' \in [Requests -> ReqType] /\ \A s \in Requests : ReqOK(req'[s])
  BY CompleteEffect
<1>4. CASE entry[i] = r
  <2>1. entry' = [entry EXCEPT ![i] = NoRequest] /\ Count(ManagerOf(i), 0, -1, 1, 1 - 1)
    BY <1>4 DEF CompleteRequest
  <2>2. ReqCounted' /\ stats' \in [Managers -> StatType]
    BY <1>1, <1>4, <2>1, RemoveCounts, RequestAssumption DEF ReqInv
  <2>3. entry'[i] = NoRequest /\ \A j \in Ids \ {i} : entry'[j] = entry[j]
    BY <1>1, <2>1 DEF ReqInv, ReqTyped
  <2>4. ReqTyped'
    <3>1. entry' \in [Ids -> Requests \cup {NoRequest}]
      BY <2>1 DEF ReqInv, ReqTyped
    <3>2. QED
      BY <1>3, <2>2, <3>1 DEF ReqInv, ReqTyped, CompleteRequest
  <2>5. Placed'
    <3>1. ASSUME NEW j \in Ids, (entry[j] # NoRequest)'
          PROVE  (req[entry[j]].client # NoClient /\ IdOf(entry[j]) = j)'
      <4>1. j # i /\ entry'[j] = entry[j] /\ entry[j] \in Requests
        BY <2>3, <3>1 DEF ReqInv, ReqTyped
      <4>2. req[entry[j]].client # NoClient /\ IdOf(entry[j]) = j
        BY <3>1, <4>1 DEF ReqInv, Placed
      <4>3. QED
        BY <1>2, <4>1, <4>2
    <3>2. QED
      BY <3>1 DEF Placed
  <2>6. EntryExact'
    <3> SUFFICES ASSUME NEW s \in Requests, req'[s].client # NoClient
                 PROVE  entry'[IdOf(s)] = s <=> req'[s].at = "running" /\ req'[s].ctx \in {"open", "expired"}
      BY <1>2 DEF EntryExact
    <3>1. CASE s = r
      BY <2>3, <3>1, CompleteEffect, RequestAssumption
    <3>2. CASE s # r
      <4>1. entry[IdOf(s)] = s <=> req[s].at = "running" /\ req[s].ctx \in {"open", "expired"}
        BY <1>2 DEF ReqInv, EntryExact
      <4>2. req'[s] = req[s] /\ IdOf(s) \in Ids
        BY <3>2, CompleteEffect, IdType DEF ReqInv
      <4>3. entry'[IdOf(s)] = s <=> entry[IdOf(s)] = s
        BY <1>4, <2>3, <3>2, <4>2, RequestAssumption
      <4>4. QED
        BY <4>1, <4>2, <4>3
    <3>3. QED
      BY <3>1, <3>2
  <2>7. QED
    BY <2>2, <2>4, <2>5, <2>6 DEF ReqInv
<1>5. CASE entry[i] # r
  <2>1. UNCHANGED <<entry, stats>>
    BY <1>5 DEF CompleteRequest
  <2>2. ~(req[r].at = "running" /\ req[r].ctx \in {"open", "expired"})
    BY <1>1, <1>5 DEF ReqInv, EntryExact
  <2>3. ReqCounted' /\ Placed' /\ EntryExact'
    BY <2>1, <2>2, CompleteEffect, SameMap
  <2>4. ReqTyped'
    BY <1>3, <2>1 DEF ReqInv, ReqTyped, CompleteRequest
  <2>5. QED
    BY <2>3, <2>4 DEF ReqInv
<1>6. QED
  BY <1>4, <1>5

(* Every step keeps entries and counters exact. *)
LEMMA ReqNextInv == ReqInv /\ [RequestsNext]_requestVars => ReqInv'
<1> SUFFICES ASSUME ReqInv, [RequestsNext]_requestVars PROVE ReqInv'
  OBVIOUS
<1>1. CASE SetCancellationEnabled \/ UNCHANGED requestVars
  <2>1. UNCHANGED <<entry, stats, req, current, shown>> /\ enabled' \in BOOLEAN
    <3>1. CASE SetCancellationEnabled
      BY <3>1 DEF SetCancellationEnabled
    <3>2. CASE UNCHANGED requestVars
      BY <3>2 DEF requestVars, ReqInv, ReqTyped
    <3>3. QED
      BY <1>1, <3>1, <3>2
  <2>2. ReqTyped'
    BY <2>1 DEF ReqInv, ReqTyped
  <2>3. ReqCounted'
    BY <2>1 DEF ReqInv, ReqCounted, Tracked, Ids, Clients, ManagerOf
  <2>4. Placed'
    BY <2>1 DEF ReqInv, Placed, IdOf
  <2>5. EntryExact'
    BY <2>1 DEF ReqInv, EntryExact, IdOf
  <2>6. QED
    BY <2>2, <2>3, <2>4, <2>5 DEF ReqInv
<1>2. QED
  BY <1>1, OpenKeeps, CloseKeeps, DeliverKeeps, ExpireKeeps, StartKeeps, CancelKeeps, CompleteKeeps
     DEF RequestsNext

(* So they always are. *)
LEMMA ReqAlwaysInv == RequestsSpec => []ReqInv
BY ReqInitInv, ReqNextInv, PTL DEF RequestsSpec

(* Type correctness; no counter becomes negative. *)
THEOREM RequestsAlwaysTyped == RequestsSpec => []RequestsTyped
<1>1. ReqInv => RequestsTyped
  BY ReqTypedIsTyped DEF ReqInv
<1>2. QED
  BY <1>1, ReqAlwaysInv, PTL

(* The counters of both managers add up in every order of calls. *)
THEOREM StatsAlwaysExact == RequestsSpec => []StatsExact
<1>1. ReqInv => StatsExact
  BY DEF ReqInv, ReqCounted, StatsExact
<1>2. QED
  BY <1>1, ReqAlwaysInv, PTL

(* The map holds exactly the running requests that were not given up. *)
THEOREM EntryAlwaysExact == RequestsSpec => []EntryExact
<1>1. ReqInv => EntryExact
  BY DEF ReqInv
<1>2. QED
  BY <1>1, ReqAlwaysInv, PTL

(* Counters and map agree with the requests that run, in every order. *)
THEOREM AccountsAlwaysExact == RequestsSpec => []AccountsExact
<1>1. StatsExact /\ EntryExact => AccountsExact
  BY DEF AccountsExact
<1>2. QED
  BY <1>1, StatsAlwaysExact, EntryAlwaysExact, PTL

-----------------------------------------------------------------------------
(* What clients show. *)

(* The request of a running effect is its own, and not to be cancelled. *)
Owned ==
  \A c \in Clients : current[c] # NoRequest =>
    /\ req[current[c]].client = c /\ req[current[c]].at # "unused"
    /\ ~req[current[c]].unwanted

(* Once it has been served, no call for its ID is on its way any more. *)
Alone(r) == \A s \in Requests \ {r} : IdOf(s) = IdOf(r) => ~req[s].unwanted /\ req[s].at # "sent"

LastServed ==
  Orderly => \A c \in Clients : current[c] # NoRequest =>
    /\ req[current[c]].ctx \in {"open", "expired"}
    /\ req[current[c]].at # "sent" => Alone(current[c])

AnswerInv == ReqInv /\ Owned /\ LastServed /\ ShowsCurrent

(* What the frontend and the managers know of a request is all that counts. *)
LEMMA SameAnswers ==
  ASSUME AnswerInv, UNCHANGED <<current, shown>>,
         \A s \in Requests :
           /\ req'[s].client = req[s].client /\ (req'[s].at = "over" <=> req[s].at = "over")
           /\ req'[s].at = "unused" <=> req[s].at = "unused"
           /\ req[s].at = "over" => req'[s].answer = req[s].answer
           /\ req'[s].unwanted => req[s].unwanted
           /\ req'[s].at = "sent" => req[s].at = "sent",
         Orderly => \A c \in Clients : current[c] # NoRequest =>
           /\ req'[current[c]].ctx \in {"open", "expired"}
           /\ req'[current[c]].at # "sent" /\ req[current[c]].at = "sent" => Alone(current[c])
  PROVE  Owned' /\ LastServed' /\ ShowsCurrent'
<1>1. \A s \in Requests : IdOf(s)' = IdOf(s)
  BY DEF IdOf
<1>2. \A c \in Clients : current[c] # NoRequest => current[c] \in Requests
  BY DEF AnswerInv, ReqInv, ReqTyped
<1>3. Owned'
  BY <1>2 DEF AnswerInv, Owned
<1>4. ShowsCurrent'
  BY <1>2 DEF AnswerInv, ShowsCurrent
<1>5. LastServed'
  <2> SUFFICES ASSUME Orderly, NEW c \in Clients, current[c] # NoRequest
               PROVE  /\ req'[current[c]].ctx \in {"open", "expired"}
                      /\ req'[current[c]].at # "sent" => Alone(current[c])'
    BY DEF LastServed
  <2>1. req'[current[c]].at # "sent" => Alone(current[c])
    BY DEF AnswerInv, LastServed
  <2>2. Alone(current[c]) => Alone(current[c])'
    BY <1>1, <1>2 DEF Alone
  <2>3. QED
    BY <2>1, <2>2
<1>6. QED
  BY <1>3, <1>4, <1>5

(* Nothing is asked for at first. *)
LEMMA AnswerInit == RequestsInit => AnswerInv
<1> SUFFICES ASSUME RequestsInit PROVE AnswerInv
  OBVIOUS
<1>1. Owned /\ LastServed /\ ShowsCurrent
  BY DEF RequestsInit, Owned, LastServed, ShowsCurrent
<1>2. QED
  BY <1>1, ReqInitInv DEF AnswerInv

(* A new request is of its client alone, and has not been served. *)
LEMMA OpenAnswers ==
  ASSUME AnswerInv, NEW c \in Clients, NEW r \in Requests, Open(c, r)
  PROVE  Owned' /\ LastServed' /\ ShowsCurrent'
<1>1. ReqInv' /\ ReqTyped'
  BY OpenKeeps DEF AnswerInv, ReqInv
<1>2. PICK x : x = [Blank EXCEPT !.at = "sent", !.client = c]
  OBVIOUS
<1>3. /\ x.at = "sent" /\ x.client = c /\ x.ctx = "open" /\ ~x.unwanted
      /\ req[r] = Blank /\ req'[r] = x /\ \A s \in Requests \ {r} : req'[s] = req[s]
      /\ current'[c] = r /\ \A d \in Clients \ {c} : current'[d] = current[d]
      /\ shown'[c] = "loading" /\ \A d \in Clients \ {c} : shown'[d] = shown[d]
  BY <1>2 DEF Open, Blank, AnswerInv, ReqInv, ReqTyped
<1>4. ASSUME NEW d \in Clients \ {c}, current[d] # NoRequest
      PROVE  /\ current[d] \in Requests \ {r} /\ req'[current[d]] = req[current[d]]
             /\ req[current[d]].client = d
  BY <1>3, <1>4 DEF AnswerInv, ReqInv, ReqTyped, Owned, Blank
<1>5. Owned'
  BY <1>3, <1>4, RequestAssumption DEF AnswerInv, Owned
<1>6. ShowsCurrent'
  <2>1. ASSUME NEW d \in Clients
        PROVE  shown'[d] = IF current'[d] = NoRequest THEN "nothing"
                           ELSE IF req'[current'[d]].at = "over" THEN req'[current'[d]].answer
                           ELSE "loading"
    <3>1. CASE d = c
      BY <1>3, <3>1, RequestAssumption
    <3>2. CASE d # c
      BY <1>3, <1>4, <3>2 DEF AnswerInv, ShowsCurrent
    <3>3. QED
      BY <3>1, <3>2
  <2>2. QED
    BY <2>1 DEF ShowsCurrent
<1>7. LastServed'
  <2> SUFFICES ASSUME Orderly, NEW d \in Clients, current'[d] # NoRequest
               PROVE  /\ req'[current'[d]].ctx \in {"open", "expired"}
                      /\ req'[current'[d]].at # "sent" => Alone(current[d])'
    BY DEF LastServed
  <2>1. CASE d = c
    BY <1>3, <2>1
  <2>2. CASE d # c
    <3>1. PICK q \in Requests \ {r} : q = current[d] /\ req'[q] = req[q] /\ req[q].client = d
      BY <1>3, <1>4, <2>2
    <3>2. current'[d] = q
      BY <1>3, <2>2, <3>1
    <3>3. req[q].ctx \in {"open", "expired"} /\ (req[q].at # "sent" => Alone(q))
      BY <1>3, <2>2, <3>1 DEF AnswerInv, LastServed
    <3>4. ASSUME Alone(q), NEW s \in Requests \ {q}, (IdOf(s) = IdOf(q))'
          PROVE  ~req'[s].unwanted /\ req'[s].at # "sent"
      <4>1. s # r
        <5>1. SUFFICES ASSUME s = r PROVE FALSE
          OBVIOUS
        <5>2. (req[r].client = req[q].client)'
          BY <1>1, <3>1, <3>4, <5>1, RequestAssumption DEF IdOf, ReqTyped
        <5>3. QED
          BY <1>3, <2>2, <3>1, <5>2
      <4>2. req'[s] = req[s] /\ IdOf(s)' = IdOf(s) /\ IdOf(q)' = IdOf(q)
        BY <1>3, <3>1, <4>1 DEF IdOf
      <4>3. QED
        BY <3>4, <4>2 DEF Alone
    <3>5. Alone(q) => Alone(q)'
      BY <3>4 DEF Alone
    <3>6. QED
      BY <3>1, <3>2, <3>3, <3>5
  <2>3. QED
    BY <2>1, <2>2
<1>8. QED
  BY <1>5, <1>6, <1>7

(* A cleanup forgets its request; no other effect has that ID. *)
LEMMA CloseAnswers ==
  ASSUME AnswerInv, NEW c \in Clients, Close(c)
  PROVE  Owned' /\ LastServed' /\ ShowsCurrent'
<1>1. ReqInv' /\ ReqTyped'
  BY CloseKeeps DEF AnswerInv, ReqInv
<1>2. PICK r \in Requests : r = current[c]
  BY DEF Close, AnswerInv, ReqInv, ReqTyped
<1>3. PICK b \in BOOLEAN : req' = [req EXCEPT ![r] = [req[r] EXCEPT !.unwanted = b]]
  BY <1>2 DEF Close
<1>4. ReqOK(req[r]) /\ req[r].client = c
  BY <1>2 DEF AnswerInv, ReqInv, ReqTyped, Owned, Close
<1>5. PICK x : x = [req[r] EXCEPT !.unwanted = b]
  OBVIOUS
<1>6. /\ x.client = c /\ x.at = req[r].at
      /\ req'[r] = x /\ \A s \in Requests \ {r} : req'[s] = req[s]
      /\ current'[c] = NoRequest /\ \A d \in Clients \ {c} : current'[d] = current[d]
      /\ shown'[c] = "nothing" /\ \A d \in Clients \ {c} : shown'[d] = shown[d]
  BY <1>2, <1>3, <1>4, <1>5 DEF Close, AnswerInv, ReqInv, ReqTyped, ReqOK, ReqType
<1>7. ASSUME NEW d \in Clients \ {c}, current[d] # NoRequest
      PROVE  /\ current[d] \in Requests \ {r} /\ req'[current[d]] = req[current[d]]
             /\ req[current[d]].client = d
  BY <1>4, <1>6, <1>7 DEF AnswerInv, ReqInv, ReqTyped, Owned
<1>8. Owned'
  BY <1>6, <1>7 DEF AnswerInv, Owned
<1>9. ShowsCurrent'
  <2>1. ASSUME NEW d \in Clients
        PROVE  shown'[d] = IF current'[d] = NoRequest THEN "nothing"
                           ELSE IF req'[current'[d]].at = "over" THEN req'[current'[d]].answer
                           ELSE "loading"
    <3>1. CASE d = c
      BY <1>6, <3>1
    <3>2. CASE d # c
      BY <1>6, <1>7, <3>2 DEF AnswerInv, ShowsCurrent
    <3>3. QED
      BY <3>1, <3>2
  <2>2. QED
    BY <2>1 DEF ShowsCurrent
<1>10. LastServed'
  <2> SUFFICES ASSUME Orderly, NEW d \in Clients, current'[d] # NoRequest
               PROVE  /\ req'[current'[d]].ctx \in {"open", "expired"}
                      /\ req'[current'[d]].at # "sent" => Alone(current[d])'
    BY DEF LastServed
  <2>1. PICK q \in Requests \ {r} :
          q = current[d] /\ q = current'[d] /\ req'[q] = req[q] /\ req[q].client = d /\ d # c
    BY <1>6, <1>7
  <2>2. req[q].ctx \in {"open", "expired"} /\ (req[q].at # "sent" => Alone(q))
    BY <1>6, <2>1 DEF AnswerInv, LastServed
  <2>3. ASSUME Alone(q), NEW s \in Requests \ {q}, (IdOf(s) = IdOf(q))'
        PROVE  ~req'[s].unwanted /\ req'[s].at # "sent"
    <3>1. s # r
      <4>1. SUFFICES ASSUME s = r PROVE FALSE
        OBVIOUS
      <4>2. (req[r].client = req[q].client)'
        BY <1>1, <2>1, <2>3, <4>1, RequestAssumption DEF IdOf, ReqTyped
      <4>3. QED
        BY <1>6, <2>1, <4>2
    <3>2. req'[s] = req[s] /\ IdOf(s)' = IdOf(s) /\ IdOf(q)' = IdOf(q)
      BY <1>6, <2>1, <3>1 DEF IdOf
    <3>3. QED
      BY <2>3, <3>2 DEF Alone
  <2>4. Alone(q) => Alone(q)'
    BY <2>3 DEF Alone
  <2>5. QED
    BY <2>1, <2>2, <2>4
<1>11. QED
  BY <1>8, <1>9, <1>10

(* An answer is shown by the client that waits for it. *)
LEMMA DeliverAnswers ==
  ASSUME AnswerInv, NEW r \in Requests, Deliver(r)
  PROVE  Owned' /\ LastServed' /\ ShowsCurrent'
<1>1. /\ req[r].at = "returned" /\ ReqOK(req[r]) /\ current' = current
  BY DEF Deliver, AnswerInv, ReqInv, ReqTyped
<1>2. PICK x : x = [req[r] EXCEPT !.at = "over"]
  OBVIOUS
<1>3. /\ x.at = "over" /\ x.client = req[r].client /\ x.ctx = req[r].ctx /\ x.answer = req[r].answer
      /\ x.unwanted = req[r].unwanted
      /\ req'[r] = x /\ \A s \in Requests \ {r} : req'[s] = req[s]
  BY <1>1, <1>2 DEF Deliver, AnswerInv, ReqInv, ReqTyped, ReqOK, ReqType
<1>4. req[r].client \in Clients
  BY <1>1 DEF ReqOK
<1>5. \A s \in Requests : IdOf(s)' = IdOf(s)
  BY <1>3 DEF IdOf
<1>6. \A c \in Clients : current[c] # NoRequest => current[c] \in Requests /\ req[current[c]].client = c
  BY DEF AnswerInv, ReqInv, ReqTyped, Owned
<1>7. Owned'
  BY <1>1, <1>3, <1>6 DEF AnswerInv, Owned
<1>8. ShowsCurrent'
  <2>1. ASSUME NEW c \in Clients
        PROVE  shown'[c] = IF current[c] = NoRequest THEN "nothing"
                           ELSE IF req'[current[c]].at = "over" THEN req'[current[c]].answer
                           ELSE "loading"
    <3>1. CASE current[c] = r
      <4>1. req[r].client = c /\ current[c] # NoRequest
        BY <1>6, <3>1, RequestAssumption
      <4>2. shown'[c] = req[r].answer
        BY <3>1, <4>1 DEF Deliver, AnswerInv, ReqInv, ReqTyped
      <4>3. QED
        BY <1>3, <3>1, <4>1, <4>2
    <3>2. CASE current[c] # r
      <4>1. shown'[c] = shown[c]
        BY <1>4, <3>2 DEF Deliver, AnswerInv, ReqInv, ReqTyped
      <4>2. QED
        BY <1>3, <1>6, <3>2, <4>1 DEF AnswerInv, ShowsCurrent
    <3>3. QED
      BY <3>1, <3>2
  <2>2. QED
    BY <1>1, <2>1 DEF ShowsCurrent
<1>9. LastServed'
  <2> SUFFICES ASSUME Orderly, NEW c \in Clients, current[c] # NoRequest
               PROVE  /\ req'[current[c]].ctx \in {"open", "expired"}
                      /\ req'[current[c]].at # "sent" => Alone(current[c])'
    BY <1>1 DEF LastServed
  <2>1. /\ req[current[c]].ctx \in {"open", "expired"}
        /\ req[current[c]].at # "sent" => Alone(current[c])
    BY DEF AnswerInv, LastServed
  <2>2. req'[current[c]].ctx = req[current[c]].ctx
        /\ (req'[current[c]].at # "sent" => req[current[c]].at # "sent")
    BY <1>1, <1>3, <1>6
  <2>3. Alone(current[c]) => Alone(current[c])'
    BY <1>1, <1>3, <1>5, <1>6 DEF Alone
  <2>4. QED
    BY <2>1, <2>2, <2>3
<1>10. QED
  BY <1>7, <1>8, <1>9

(* The request that is replaced is not the one of a running effect: that is *)
(* served last.                                                            *)
LEMMA StartAnswers ==
  ASSUME AnswerInv, NEW r \in Requests, StartRequest(r)
  PROVE  Owned' /\ LastServed' /\ ShowsCurrent'
<1>1. /\ req[r].at = "sent" /\ InTurn(r) /\ UNCHANGED <<current, shown>> /\ IdOf(r) \in Ids
  BY IdType DEF StartRequest, AnswerInv, ReqInv
<1>2. /\ req'[r].at = "running" /\ req'[r].ctx = "open"
      /\ \A s \in Requests : req'[s].client = req[s].client /\ req'[s].unwanted = req[s].unwanted
      /\ \A s \in Requests \ {r} : req'[s].at = req[s].at /\ req'[s].answer = req[s].answer
      /\ \A s \in Requests \ {r} : s # entry[IdOf(r)] => req'[s] = req[s]
  BY StartEffect DEF AnswerInv
<1>3. ASSUME Orderly, NEW c \in Clients, current[c] # NoRequest
      PROVE  /\ req'[current[c]].ctx \in {"open", "expired"}
             /\ req'[current[c]].at # "sent" /\ req[current[c]].at = "sent" => Alone(current[c])
  <2>1. PICK q \in Requests : q = current[c] /\ req[q].client = c
    BY <1>3 DEF AnswerInv, ReqInv, ReqTyped, Owned
  <2>2. req[q].ctx \in {"open", "expired"} /\ (req[q].at # "sent" => Alone(q))
    BY <1>3, <2>1 DEF AnswerInv, LastServed
  <2>3. CASE q = r
    BY <1>1, <1>2, <1>3, <2>1, <2>3 DEF InTurn, Alone
  <2>4. CASE q # r
    <3>1. q # entry[IdOf(r)]
      <4>1. SUFFICES ASSUME q = entry[IdOf(r)] PROVE FALSE
        OBVIOUS
      <4>2. req[q].at = "running" /\ IdOf(q) = IdOf(r)
        BY <1>1, <4>1, OldRuns, RequestAssumption DEF AnswerInv
      <4>3. QED
        BY <1>1, <2>2, <2>4, <4>2 DEF Alone
    <3>2. QED
      BY <1>2, <2>1, <2>2, <2>4, <3>1
  <2>5. QED
    BY <2>3, <2>4
<1>4. \A s \in Requests :
        /\ req'[s].client = req[s].client /\ (req'[s].at = "over" <=> req[s].at = "over")
        /\ req'[s].at = "unused" <=> req[s].at = "unused"
        /\ req[s].at = "over" => req'[s].answer = req[s].answer
        /\ req'[s].unwanted => req[s].unwanted
        /\ req'[s].at = "sent" => req[s].at = "sent"
  BY <1>1, <1>2
<1>5. QED
  BY <1>1, <1>3, <1>4, SameAnswers

(* A cancellation that comes late does not find the request of a running    *)
(* effect.                                                                 *)
LEMMA CancelAnswers ==
  ASSUME AnswerInv, NEW r \in Requests, CancelRequest(r)
  PROVE  Owned' /\ LastServed' /\ ShowsCurrent'
<1>1. /\ UNCHANGED <<current, shown>> /\ IdOf(r) \in Ids
  BY IdType DEF CancelRequest, AnswerInv, ReqInv
<1>2. /\ req[r].unwanted /\ ~req'[r].unwanted
      /\ \A s \in Requests \ {r} : req'[s].unwanted = req[s].unwanted
      /\ \A s \in Requests : /\ req'[s].client = req[s].client /\ req'[s].at = req[s].at
                              /\ req'[s].answer = req[s].answer
      /\ \A s \in Requests : s # entry[IdOf(r)] => req'[s].ctx = req[s].ctx
  BY CancelEffect DEF AnswerInv
<1>3. ASSUME Orderly, NEW c \in Clients, current[c] # NoRequest
      PROVE  /\ req'[current[c]].ctx \in {"open", "expired"}
             /\ req'[current[c]].at # "sent" /\ req[current[c]].at = "sent" => Alone(current[c])
  <2>1. PICK q \in Requests : q = current[c] /\ ~req[q].unwanted
    BY <1>3 DEF AnswerInv, ReqInv, ReqTyped, Owned
  <2>2. req[q].ctx \in {"open", "expired"} /\ (req[q].at # "sent" => Alone(q))
    BY <1>3, <2>1 DEF AnswerInv, LastServed
  <2>3. q # entry[IdOf(r)]
    <3>1. SUFFICES ASSUME q = entry[IdOf(r)] PROVE FALSE
      OBVIOUS
    <3>2. req[q].at = "running" /\ IdOf(q) = IdOf(r)
      BY <1>1, <3>1, OldRuns, RequestAssumption DEF AnswerInv
    <3>3. QED
      BY <1>2, <2>1, <2>2, <3>2 DEF Alone
  <2>4. QED
    BY <1>2, <2>1, <2>2, <2>3
<1>4. \A s \in Requests :
        /\ req'[s].client = req[s].client /\ (req'[s].at = "over" <=> req[s].at = "over")
        /\ req'[s].at = "unused" <=> req[s].at = "unused"
        /\ req[s].at = "over" => req'[s].answer = req[s].answer
        /\ req'[s].unwanted => req[s].unwanted
        /\ req'[s].at = "sent" => req[s].at = "sent"
  BY <1>2
<1>5. QED
  BY <1>1, <1>3, <1>4, SameAnswers

(* A call that returns has not been handled yet. *)
LEMMA CompleteAnswers ==
  ASSUME AnswerInv, NEW r \in Requests, CompleteRequest(r)
  PROVE  Owned' /\ LastServed' /\ ShowsCurrent'
<1>1. /\ req[r].at = "running" /\ req'[r].at = "returned"
      /\ req'[r].client = req[r].client /\ req'[r].ctx = req[r].ctx
      /\ req'[r].unwanted = req[r].unwanted
      /\ \A s \in Requests \ {r} : req'[s] = req[s]
  BY CompleteEffect DEF AnswerInv
<1>2. UNCHANGED <<current, shown>>
  BY DEF CompleteRequest
<1>3. ASSUME Orderly, NEW c \in Clients, current[c] # NoRequest
      PROVE  /\ req'[current[c]].ctx \in {"open", "expired"}
             /\ ~(req'[current[c]].at # "sent" /\ req[current[c]].at = "sent")
  <2>1. PICK q \in Requests : q = current[c] /\ req[q].ctx \in {"open", "expired"}
    BY <1>3 DEF AnswerInv, ReqInv, ReqTyped, LastServed
  <2>2. QED
    BY <1>1, <2>1
<1>4. \A s \in Requests :
        /\ req'[s].client = req[s].client /\ (req'[s].at = "over" <=> req[s].at = "over")
        /\ req'[s].at = "unused" <=> req[s].at = "unused"
        /\ req[s].at = "over" => req'[s].answer = req[s].answer
        /\ req'[s].unwanted => req[s].unwanted
        /\ req'[s].at = "sent" => req[s].at = "sent"
  BY <1>1
<1>5. QED
  BY <1>2, <1>3, <1>4, SameAnswers

(* The timeout of a request that nobody gave up is not a cancellation. *)
LEMMA ExpireAnswers ==
  ASSUME AnswerInv, NEW r \in Requests, Expire(r)
  PROVE  Owned' /\ LastServed' /\ ShowsCurrent'
<1>1. PICK x : /\ x = [req[r] EXCEPT !.ctx = IF req[r].ctx = "open" THEN "expired" ELSE "canceled"]
               /\ req' = [req EXCEPT ![r] = x]
  BY DEF Expire
<1>2. /\ req[r].at = "running" /\ ReqOK(req[r]) /\ req[r].ctx \in {"open", "released"}
      /\ UNCHANGED <<current, shown>>
  BY DEF Expire, AnswerInv, ReqInv, ReqTyped
<1>3. /\ x.at = "running" /\ x.client = req[r].client /\ x.unwanted = req[r].unwanted
      /\ req[r].ctx = "open" => x.ctx = "expired"
  BY <1>1, <1>2 DEF ReqOK, ReqType
<1>4. req'[r] = x /\ \A s \in Requests \ {r} : req'[s] = req[s]
  BY <1>1 DEF AnswerInv, ReqInv, ReqTyped
<1>5. ASSUME Orderly, NEW c \in Clients, current[c] # NoRequest
      PROVE  /\ req'[current[c]].ctx \in {"open", "expired"}
             /\ ~(req'[current[c]].at # "sent" /\ req[current[c]].at = "sent")
  <2>1. PICK q \in Requests : q = current[c] /\ req[q].ctx \in {"open", "expired"}
    BY <1>5 DEF AnswerInv, ReqInv, ReqTyped, LastServed
  <2>2. QED
    BY <1>2, <1>3, <1>4, <2>1
<1>6. \A s \in Requests :
        /\ req'[s].client = req[s].client /\ (req'[s].at = "over" <=> req[s].at = "over")
        /\ req'[s].at = "unused" <=> req[s].at = "unused"
        /\ req[s].at = "over" => req'[s].answer = req[s].answer
        /\ req'[s].unwanted => req[s].unwanted
        /\ req'[s].at = "sent" => req[s].at = "sent"
  BY <1>2, <1>3, <1>4
<1>7. QED
  BY <1>2, <1>5, <1>6, SameAnswers

(* Every step keeps what clients show. *)
LEMMA AnswerNext == AnswerInv /\ [RequestsNext]_requestVars => AnswerInv'
<1> SUFFICES ASSUME AnswerInv, [RequestsNext]_requestVars PROVE AnswerInv'
  OBVIOUS
<1>1. ReqInv'
  BY ReqNextInv DEF AnswerInv
<1>2. CASE SetCancellationEnabled \/ UNCHANGED requestVars
  <2>1. UNCHANGED <<req, current, shown>>
    BY <1>2 DEF SetCancellationEnabled, requestVars
  <2>2. Owned' /\ LastServed' /\ ShowsCurrent'
    BY <2>1 DEF AnswerInv, Owned, LastServed, Alone, IdOf, ShowsCurrent
  <2>3. QED
    BY <1>1, <2>2 DEF AnswerInv
<1>3. QED
  BY <1>1, <1>2, OpenAnswers, CloseAnswers, DeliverAnswers, StartAnswers, CancelAnswers,
     CompleteAnswers, ExpireAnswers DEF RequestsNext, AnswerInv

(* A client shows the answer to what it asked last, and, if the calls of an *)
(* ID are served in turn, none of its earlier requests cancels that.       *)
THEOREM AnswersAlwaysCurrent == RequestsSpec => []AnswersCurrent
<1>1. AnswerInv => AnswersCurrent
  BY DEF AnswerInv, LastServed, AnswersCurrent, CurrentNotCanceled
<1>2. QED
  BY <1>1, AnswerInit, AnswerNext, PTL DEF RequestsSpec

-----------------------------------------------------------------------------
(***************************************************************************)
(* LogStream, for any streams, logs and interruptions: lines never wait    *)
(* for a frame that does not come, and a viewer that left a stream stops   *)
(* it.                                                                     *)
(***************************************************************************)

USE DEF vars, backend, viewer

-----------------------------------------------------------------------------
(* Types of what the proofs look at. *)

Places == {"none", "reading", "failed", "reporting", "closing", "draining", "over"}
Calls == {"unused", "asked", "answering", "answered"}
ReaderType == [at : Places, next : Nat, own : Seq(Nat), canceled : BOOLEAN]
BufferType == [exists : BOOLEAN, lines : Seq(Nat), pending : BOOLEAN, armed : BOOLEAN]
LineEvent == [kind : {"lines"}, lines : Seq(Nat)]
AnyEvent == [kind : {"lines"} \cup Ends, lines : Seq(Nat)]

Typed ==
  /\ call \in [Streams -> Calls]
  /\ stopping \subseteq Streams /\ running \subseteq Streams
  /\ reader \in [Streams -> ReaderType]
  /\ buffer \in [Streams -> BufferType]
  /\ due \in [Streams -> {0, 1}]
  /\ taken \in [Streams -> Seq(Seq(Nat))]
  /\ events \in [Streams -> Seq(AnyEvent)]
  /\ want \in Streams \cup {NoStream} /\ ref \in Streams \cup {NoStream}

(* A callback is on its way or a timer is armed, not both; while lines may  *)
(* be added, the flag says which.                                           *)
TimerOK(s) ==
  /\ buffer[s].armed => due[s] = 0 /\ buffer[s].pending
  /\ buffer[s].pending => buffer[s].armed \/ due[s] = 1
  /\ buffer[s].lines # <<>> => buffer[s].pending
  /\ reader[s].at \in {"none", "reading"} => (due[s] = 1 => buffer[s].pending)

(* A stream that was not started has no goroutine. *)
NotStarted(s) == call[s] \in {"unused", "asked"} => reader[s].at = "none"

TimerInv == Typed /\ \A s \in Streams : TimerOK(s) /\ NotStarted(s)

(* A batch of lines becomes at most one event with lines. *)
LEMMA BatchType ==
  ASSUME NEW lines \in Seq(Nat)
  PROVE  Batch(lines) \in Seq(LineEvent) /\ Batch(lines) \in Seq(AnyEvent)
<1>1. [kind |-> "lines", lines |-> lines] \in LineEvent \cap AnyEvent
  BY DEF LineEvent, AnyEvent
<1>2. QED
  BY <1>1 DEF Batch

(* The event of an end is an event. *)
LEMMA EndType ==
  ASSUME NEW kind \in Ends
  PROVE  End(kind) \in Seq(AnyEvent)
<1>1. <<>> \in Seq(Nat)
  OBVIOUS
<1>2. [kind |-> kind, lines |-> <<>>] \in AnyEvent
  BY <1>1 DEF AnyEvent
<1>3. QED
  BY <1>2 DEF End

(* Posting keeps the events typed. *)
LEMMA PostType ==
  ASSUME Typed, NEW s \in Streams, NEW lines \in Seq(Nat), NEW last \in Seq(AnyEvent),
         Post(s, lines, last)
  PROVE  events' \in [Streams -> Seq(AnyEvent)]
<1>1. events[s] \o Batch(lines) \o last \in Seq(AnyEvent)
  BY BatchType DEF Typed
<1>2. QED
  BY <1>1 DEF Post, Typed

(* A callback that hands its batch over keeps the events and batches typed. *)
LEMMA HandOverType ==
  ASSUME Typed, NEW s \in Streams, HandOver(s)
  PROVE  events' \in [Streams -> Seq(AnyEvent)] /\ taken' \in [Streams -> Seq(Seq(Nat))]
<1>1. buffer[s].lines \in Seq(Nat) /\ taken[s] \in Seq(Seq(Nat)) /\ <<>> \in Seq(AnyEvent)
  BY DEF Typed, BufferType
<1>2. Append(taken[s], buffer[s].lines) \in Seq(Seq(Nat))
  BY <1>1
<1>3. QED
  BY <1>1, <1>2, PostType DEF HandOver, Typed

(* An action that changes the goroutine of a stream to x and its buffer to  *)
(* b keeps their types.                                                     *)
LEMMA SetReader ==
  ASSUME Typed, NEW s \in Streams, NEW x \in ReaderType, reader' = [reader EXCEPT ![s] = x]
  PROVE  reader' \in [Streams -> ReaderType] /\ reader'[s] = x
         /\ \A t \in Streams \ {s} : reader'[t] = reader[t]
BY DEF Typed

(* The same for its buffer. *)
LEMMA SetBuffer ==
  ASSUME Typed, NEW s \in Streams, NEW b \in BufferType, buffer' = [buffer EXCEPT ![s] = b]
  PROVE  buffer' \in [Streams -> BufferType] /\ buffer'[s] = b
         /\ \A t \in Streams \ {s} : buffer'[t] = buffer[t]
BY DEF Typed

(* Nothing is buffered and no timer armed at first. *)
LEMMA InitTimer == Init => TimerInv
<1> SUFFICES ASSUME Init PROVE TimerInv
  OBVIOUS
<1>1. <<>> \in Seq(Nat) /\ <<>> \in Seq(Seq(Nat)) /\ <<>> \in Seq(AnyEvent)
  OBVIOUS
<1>2. Typed
  BY <1>1 DEF Init, Typed, ReaderType, Places, Calls, BufferType, NoBuffer
<1>3. QED
  BY <1>2 DEF Init, TimerInv, TimerOK, NotStarted, NoBuffer

(* The steps of the viewer and of the calls leave the timers alone. *)
LEMMA ViewerTimer ==
  ASSUME TimerInv, NEW s \in Streams,
         Leave \/ (\E h \in 0 .. Length[s] - 1 : StartStreaming(s, h)) \/ Answer(s) \/ Handle(s)
  PROVE  TimerInv'
<1>1. CASE Leave
  BY <1>1 DEF Leave, StopStreaming, TimerInv, Typed, TimerOK, NotStarted
<1>2. CASE \E h \in 0 .. Length[s] - 1 : StartStreaming(s, h)
  BY <1>2 DEF StartStreaming, StopStreaming, TimerInv, Typed, TimerOK, Calls, NotStarted
<1>3. CASE Answer(s)
  BY <1>3 DEF Answer, TimerInv, Typed, TimerOK, Calls, NotStarted
<1>4. CASE Handle(s)
  <2>1. Tail(events[s]) \in Seq(AnyEvent)
    BY <1>4 DEF Handle, TimerInv, Typed
  <2>2. Typed'
    BY <1>4, <2>1 DEF Handle, TimerInv, Typed
  <2>3. QED
    BY <1>4, <2>2 DEF Handle, TimerInv, TimerOK, NotStarted
<1>5. QED
  BY <1>1, <1>2, <1>3, <1>4

(* Neither do StartLogStream and StopLogStream. *)
LEMMA CallTimer ==
  ASSUME TimerInv, NEW s \in Streams,
         (\E n \in 1 .. Length[s] + 1 : StartLogStream(s, n) \/ Reconnect(s, n))
           \/ StopLogStream(s) \/ ReadEnds(s)
  PROVE  TimerInv'
<1>0. reader[s] \in ReaderType /\ Typed
  BY DEF TimerInv, Typed
<1>1. CASE \E n \in 1 .. Length[s] + 1 : StartLogStream(s, n)
  <2>1. PICK n \in 1 .. Length[s] + 1 : StartLogStream(s, n)
    BY <1>1
  <2> DEFINE x == [reader[s] EXCEPT !.at = "reading", !.next = n]
  <2>0. n \in Nat
    BY LogAssumption
  <2>2. x \in ReaderType /\ x.at = "reading"
    BY <1>0, <2>0 DEF ReaderType, Places
  <2>3. reader' = [reader EXCEPT ![s] = x]
    BY <2>1 DEF StartLogStream
  <2> HIDE DEF x
  <2>4. Typed'
    BY <1>0, <2>1, <2>2, <2>3, SetReader DEF StartLogStream, Typed, Calls
  <2>5. reader[s].at = "none"
    BY <2>1 DEF StartLogStream, TimerInv, NotStarted
  <2>6. /\ reader'[s] = x /\ \A t \in Streams \ {s} : reader'[t] = reader[t]
        /\ call'[s] = "answering" /\ \A t \in Streams \ {s} : call'[t] = call[t]
        /\ buffer' = buffer /\ due' = due
    BY <1>0, <2>1, <2>2, <2>3, SetReader DEF StartLogStream, Typed
  <2>7. TimerOK(s)' /\ NotStarted(s)'
    BY <2>2, <2>5, <2>6 DEF TimerInv, TimerOK, NotStarted
  <2>8. \A t \in Streams \ {s} : TimerOK(t)' /\ NotStarted(t)'
    BY <2>6 DEF TimerInv, TimerOK, NotStarted
  <2>9. QED
    BY <2>4, <2>7, <2>8 DEF TimerInv
<1>2. CASE \E n \in 1 .. Length[s] + 1 : Reconnect(s, n)
  <2>1. PICK n \in 1 .. Length[s] + 1 : Reconnect(s, n)
    BY <1>2
  <2> DEFINE x == [reader[s] EXCEPT !.next = n]
  <2>0. n \in Nat
    BY LogAssumption
  <2>2. x \in ReaderType /\ x.at = reader[s].at
    BY <1>0, <2>0 DEF ReaderType, Places
  <2>3. reader' = [reader EXCEPT ![s] = x]
    BY <2>1 DEF Reconnect
  <2> HIDE DEF x
  <2>4. Typed'
    BY <1>0, <2>1, <2>2, <2>3, SetReader DEF Reconnect, Typed
  <2>5. QED
    BY <1>0, <2>1, <2>2, <2>3, <2>4, SetReader DEF Reconnect, TimerInv, TimerOK, NotStarted
<1>3. CASE StopLogStream(s)
  <2> DEFINE x == [reader[s] EXCEPT !.canceled = reader[s].canceled \/ s \in running]
  <2>2. x \in ReaderType /\ x.at = reader[s].at
    BY <1>0 DEF ReaderType, Places
  <2>3. reader' = [reader EXCEPT ![s] = x]
    BY <1>3 DEF StopLogStream
  <2> HIDE DEF x
  <2>4. Typed'
    BY <1>0, <1>3, <2>2, <2>3, SetReader DEF StopLogStream, Typed
  <2>5. QED
    BY <1>0, <1>3, <2>2, <2>3, <2>4, SetReader DEF StopLogStream, TimerInv, TimerOK, NotStarted
<1>4. CASE ReadEnds(s)
  <2>1. PICK a \in {"failed", "closing"} : reader' = [reader EXCEPT ![s] = [@ EXCEPT !.at = a]]
    BY <1>4 DEF ReadEnds
  <2> DEFINE x == [reader[s] EXCEPT !.at = a]
  <2>2. x \in ReaderType /\ x.at = a
    BY <1>0 DEF ReaderType, Places
  <2>3. reader' = [reader EXCEPT ![s] = x]
    BY <2>1
  <2> HIDE DEF x
  <2>4. Typed'
    BY <1>0, <1>4, <2>2, <2>3, SetReader DEF ReadEnds, Typed
  <2>5. QED
    BY <1>0, <1>4, <2>2, <2>3, <2>4, SetReader DEF ReadEnds, TimerInv, TimerOK, NotStarted
<1>5. QED
  BY <1>1, <1>2, <1>3, <1>4

(* A line that is buffered finds a timer armed or arms one. *)
LEMMA EmitLineTimer ==
  ASSUME TimerInv, NEW s \in Streams, EmitLine(s)
  PROVE  TimerInv'
<1>0. reader[s] \in ReaderType /\ buffer[s] \in BufferType /\ Typed
  BY DEF TimerInv, Typed
<1> DEFINE x == [reader[s] EXCEPT !.next = reader[s].next + 1]
           b == [exists |-> TRUE, lines |-> Append(buffer[s].lines, reader[s].next),
                 pending |-> TRUE, armed |-> buffer[s].armed \/ ~buffer[s].pending]
<1>1. x \in ReaderType /\ x.at = reader[s].at
  BY <1>0 DEF ReaderType
<1>2. b \in BufferType /\ b.pending /\ b.armed = (buffer[s].armed \/ ~buffer[s].pending)
  BY <1>0 DEF BufferType, ReaderType
<1>3. reader' = [reader EXCEPT ![s] = x] /\ buffer' = [buffer EXCEPT ![s] = b]
  BY DEF EmitLine
<1>4. reader[s].at = "reading"
  BY DEF EmitLine
<1> HIDE DEF x, b
<1>5. reader' \in [Streams -> ReaderType] /\ reader'[s] = x
      /\ \A t \in Streams \ {s} : reader'[t] = reader[t]
  BY <1>0, <1>1, <1>3, SetReader
<1>6. buffer' \in [Streams -> BufferType] /\ buffer'[s] = b
      /\ \A t \in Streams \ {s} : buffer'[t] = buffer[t]
  BY <1>0, <1>2, <1>3, SetBuffer
<1>7. Typed' /\ due' = due
  BY <1>0, <1>5, <1>6 DEF EmitLine, Typed
<1>8. TimerOK(s)' /\ NotStarted(s)'
  <2>1. TimerOK(s) /\ NotStarted(s) /\ due[s] \in {0, 1} /\ call' = call
    BY <1>0 DEF EmitLine, TimerInv, Typed
  <2>2. CASE buffer[s].pending
    BY <1>1, <1>2, <1>4, <1>5, <1>6, <1>7, <2>1, <2>2 DEF TimerOK, NotStarted
  <2>3. CASE ~buffer[s].pending
    <3>1. due[s] = 0 /\ b.armed
      BY <1>2, <1>4, <2>1, <2>3 DEF TimerOK
    <3>2. QED
      BY <1>1, <1>2, <1>4, <1>5, <1>6, <1>7, <2>1, <3>1 DEF TimerOK, NotStarted
  <2>4. QED
    BY <2>2, <2>3
<1>9. \A t \in Streams \ {s} : TimerOK(t)' /\ NotStarted(t)'
  BY <1>5, <1>6, <1>7 DEF EmitLine, TimerInv, TimerOK, NotStarted
<1>10. QED
  BY <1>7, <1>8, <1>9 DEF TimerInv

(* The callback side: the timer and its callback. *)
LEMMA FrameTimer ==
  ASSUME TimerInv, NEW s \in Streams, TimerFires(s) \/ FlushStream(s)
  PROVE  TimerInv'
<1>0. buffer[s] \in BufferType /\ Typed /\ TimerOK(s) /\ <<>> \in Seq(Nat) /\ due[s] \in {0, 1}
  BY DEF TimerInv, Typed
<1>1. CASE TimerFires(s)
  <2> DEFINE b == [buffer[s] EXCEPT !.armed = FALSE]
  <2>1. b \in BufferType /\ ~b.armed /\ b.pending = buffer[s].pending /\ b.lines = buffer[s].lines
    BY <1>0 DEF BufferType
  <2>2. buffer' = [buffer EXCEPT ![s] = b]
    BY <1>1 DEF TimerFires
  <2>3. due[s] = 0 /\ buffer[s].pending
    BY <1>0, <1>1 DEF TimerFires, TimerOK
  <2>4. due' \in [Streams -> {0, 1}] /\ due'[s] = 1 /\ \A t \in Streams \ {s} : due'[t] = due[t]
    BY <1>0, <1>1, <2>3 DEF TimerFires, Typed
  <2> HIDE DEF b
  <2>a. /\ buffer' \in [Streams -> BufferType] /\ buffer'[s] = b
        /\ \A t \in Streams \ {s} : buffer'[t] = buffer[t]
    BY <1>0, <2>1, <2>2, SetBuffer
  <2>5. Typed'
    BY <1>0, <1>1, <2>a, <2>4 DEF TimerFires, Typed
  <2>6. TimerOK(s)' /\ NotStarted(s)'
    <3>1. TimerOK(s)'
      BY <1>0, <1>1, <2>1, <2>a, <2>3, <2>4 DEF TimerFires, TimerOK
    <3>2. NotStarted(s)'
      BY <1>1 DEF TimerFires, TimerInv, NotStarted
    <3>3. QED
      BY <3>1, <3>2
  <2>7. \A t \in Streams \ {s} : TimerOK(t)' /\ NotStarted(t)'
    BY <1>0, <1>1, <2>1, <2>2, <2>4, SetBuffer DEF TimerFires, TimerInv, TimerOK, NotStarted
  <2>8. QED
    BY <2>5, <2>6, <2>7 DEF TimerInv
<1>2. CASE FlushStream(s)
  <2> DEFINE b == [buffer[s] EXCEPT !.lines = <<>>, !.pending = FALSE]
  <2>1. b \in BufferType /\ b.armed = buffer[s].armed /\ ~b.pending /\ b.lines = <<>>
    BY <1>0 DEF BufferType
  <2>2. buffer' = [buffer EXCEPT ![s] = b]
    BY <1>2 DEF FlushStream
  <2>3. due[s] = 1 /\ ~buffer[s].armed
    BY <1>0, <1>2 DEF FlushStream, TimerOK
  <2>4. due' \in [Streams -> {0, 1}] /\ due'[s] = 0 /\ \A t \in Streams \ {s} : due'[t] = due[t]
    BY <1>0, <1>2, <2>3 DEF FlushStream, Typed
  <2> HIDE DEF b
  <2>5. Typed'
    BY <1>0, <1>2, <2>1, <2>2, <2>4, SetBuffer, HandOverType DEF FlushStream, Typed
  <2>6. TimerOK(s)' /\ NotStarted(s)'
    <3>1. ~buffer'[s].armed /\ ~buffer'[s].pending /\ buffer'[s].lines = <<>>
      BY <1>0, <2>1, <2>2, <2>3, SetBuffer
    <3>2. NotStarted(s)'
      BY <1>2 DEF FlushStream, TimerInv, NotStarted
    <3>3. QED
      BY <2>4, <3>1, <3>2 DEF TimerOK
  <2>7. \A t \in Streams \ {s} : TimerOK(t)' /\ NotStarted(t)'
    BY <1>0, <1>2, <2>1, <2>2, <2>4, SetBuffer DEF FlushStream, TimerInv, TimerOK, NotStarted
  <2>8. QED
    BY <2>5, <2>6, <2>7 DEF TimerInv
<1>3. QED
  BY <1>1, <1>2

(* A callback that emits what it took leaves the timers alone. *)
LEMMA BatchTimer ==
  ASSUME TimerInv, NEW s \in Streams, EmitBatch(s)
  PROVE  TimerInv'
<1>0. Typed
  BY DEF TimerInv
<1>1. PICK i \in 1 .. Len(taken[s]) :
        /\ Post(s, taken[s][i], <<>>)
        /\ taken' = [taken EXCEPT ![s] = SubSeq(@, 1, i - 1) \o SubSeq(@, i + 1, Len(taken[s]))]
  BY DEF EmitBatch
<1>2. taken[s] \in Seq(Seq(Nat)) /\ taken[s][i] \in Seq(Nat) /\ <<>> \in Seq(AnyEvent)
  BY <1>0 DEF Typed
<1>3. SubSeq(taken[s], 1, i - 1) \in Seq(Seq(Nat)) /\ SubSeq(taken[s], i + 1, Len(taken[s])) \in Seq(Seq(Nat))
  BY <1>2
<1>4. SubSeq(taken[s], 1, i - 1) \o SubSeq(taken[s], i + 1, Len(taken[s])) \in Seq(Seq(Nat))
  BY <1>3
<1>5. taken' \in [Streams -> Seq(Seq(Nat))] /\ events' \in [Streams -> Seq(AnyEvent)]
  BY <1>0, <1>1, <1>2, <1>4, PostType DEF Typed
<1>6. Typed'
  BY <1>0, <1>5 DEF EmitBatch, Typed
<1>7. QED
  BY <1>6 DEF EmitBatch, TimerInv, TimerOK, NotStarted

(* The goroutine flushes: what it takes is its own, and nothing is left in  *)
(* the buffer.                                                              *)
LEMMA TakeTimer ==
  ASSUME TimerInv, NEW s \in Streams, NEW at \in {"reporting", "draining"}, NEW b \in BufferType,
         b.lines = <<>>, ~b.pending, ~b.armed,
         reader[s].at \in {"failed", "closing"},
         buffer' = [buffer EXCEPT ![s] = b],
         reader' = [reader EXCEPT ![s] = [reader[s] EXCEPT !.at = at, !.own = buffer[s].lines]],
         running' \subseteq running,
         UNCHANGED <<call, stopping, due, taken, events, viewer>>
  PROVE  TimerInv'
<1>0. Typed /\ reader[s] \in ReaderType /\ buffer[s].lines \in Seq(Nat)
  BY DEF TimerInv, Typed, BufferType
<1> DEFINE x == [reader[s] EXCEPT !.at = at, !.own = buffer[s].lines]
<1>1. x \in ReaderType /\ x.at = at
  BY <1>0 DEF ReaderType, Places
<1>2. reader' = [reader EXCEPT ![s] = x]
  OBVIOUS
<1> HIDE DEF x
<1>3. reader' \in [Streams -> ReaderType] /\ reader'[s] = x
      /\ \A t \in Streams \ {s} : reader'[t] = reader[t]
  BY <1>0, <1>1, <1>2, SetReader
<1>4. buffer' \in [Streams -> BufferType] /\ buffer'[s] = b
      /\ \A t \in Streams \ {s} : buffer'[t] = buffer[t]
  BY <1>0, SetBuffer
<1>5. Typed'
  BY <1>0, <1>3, <1>4 DEF Typed
<1>6. TimerOK(s)' /\ NotStarted(s)'
  BY <1>1, <1>3, <1>4 DEF TimerInv, TimerOK, NotStarted
<1>7. \A t \in Streams \ {s} : TimerOK(t)' /\ NotStarted(t)'
  BY <1>3, <1>4 DEF TimerInv, TimerOK, NotStarted
<1>8. QED
  BY <1>5, <1>6, <1>7 DEF TimerInv

(* So does the goroutine that reports an error or the end. *)
LEMMA ReportTimer ==
  ASSUME TimerInv, NEW s \in Streams, NEW at \in {"closing", "over"}, NEW kind \in Ends,
         reader[s].at \in {"reporting", "draining"},
         Post(s, reader[s].own, End(kind)),
         reader' = [reader EXCEPT ![s] = [reader[s] EXCEPT !.at = at, !.own = <<>>]],
         UNCHANGED <<call, stopping, running, buffer, due, taken, viewer>>
  PROVE  TimerInv'
<1>0. Typed /\ reader[s] \in ReaderType /\ <<>> \in Seq(Nat)
  BY DEF TimerInv, Typed
<1> DEFINE x == [reader[s] EXCEPT !.at = at, !.own = <<>>]
<1>1. x \in ReaderType /\ x.at = at
  BY <1>0 DEF ReaderType, Places
<1>2. reader' = [reader EXCEPT ![s] = x]
  OBVIOUS
<1> HIDE DEF x
<1>3. reader' \in [Streams -> ReaderType] /\ reader'[s] = x
      /\ \A t \in Streams \ {s} : reader'[t] = reader[t]
  BY <1>0, <1>1, <1>2, SetReader
<1>4. events' \in [Streams -> Seq(AnyEvent)]
  BY <1>0, EndType, PostType DEF ReaderType
<1>5. Typed'
  BY <1>0, <1>3, <1>4 DEF Typed
<1>6. TimerOK(s)' /\ NotStarted(s)'
  BY <1>1, <1>3 DEF TimerInv, TimerOK, NotStarted
<1>7. \A t \in Streams \ {s} : TimerOK(t)' /\ NotStarted(t)'
  BY <1>3 DEF TimerInv, TimerOK, NotStarted
<1>8. QED
  BY <1>5, <1>6, <1>7 DEF TimerInv

(* Every step keeps the flag true to the timer. *)
LEMMA NextTimer == TimerInv /\ [Next]_vars => TimerInv'
<1> SUFFICES ASSUME TimerInv, [Next]_vars PROVE TimerInv'
  OBVIOUS
<1>0. CASE UNCHANGED vars
  BY <1>0 DEF TimerInv, Typed, TimerOK, NotStarted
<1>1. CASE Leave
  BY <1>1 DEF Leave, StopStreaming, TimerInv, Typed, TimerOK, NotStarted
<1>2. ASSUME NEW s \in Streams, EmitError(s)
      PROVE  TimerInv'
  <2> DEFINE b == [buffer[s] EXCEPT !.lines = <<>>, !.pending = FALSE, !.armed = FALSE]
  <2>1. buffer[s] \in BufferType /\ <<>> \in Seq(Nat)
    BY DEF TimerInv, Typed
  <2>2. b \in BufferType /\ b.lines = <<>> /\ ~b.pending /\ ~b.armed
    BY <2>1 DEF BufferType
  <2>3. QED
    BY <1>2, <2>2, TakeTimer DEF EmitError
<1>3. ASSUME NEW s \in Streams, EmitDone(s)
      PROVE  TimerInv'
  <2>1. NoBuffer \in BufferType /\ NoBuffer.lines = <<>> /\ ~NoBuffer.pending /\ ~NoBuffer.armed
    BY DEF NoBuffer, BufferType
  <2>2. QED
    BY <1>3, <2>1, TakeTimer DEF EmitDone
<1>4. ASSUME NEW s \in Streams, ReportError(s) \/ ReportDone(s)
      PROVE  TimerInv'
  BY <1>4, ReportTimer DEF ReportError, ReportDone, Ends
<1>5. QED
  BY <1>0, <1>1, <1>2, <1>3, <1>4, ViewerTimer, CallTimer, EmitLineTimer, FrameTimer, BatchTimer DEF Next

(* A line that was read is never left in the buffer without a timer or a    *)
(* callback that will send it, whatever ends the stream.                    *)
THEOREM LinesScheduled == Spec => []NothingWaits
<1>1. TimerInv => NothingWaits
  BY DEF TimerInv, TimerOK, NothingWaits
<1>2. QED
  BY <1>1, InitTimer, NextTimer, PTL DEF Spec

-----------------------------------------------------------------------------
(* Streams that were left.  If answers come first, a stream that was asked  *)
(* for is the one the viewer wants, and the reference names the wanted      *)
(* stream as long as it is read: nothing but its end takes the reference    *)
(* away, and a stream that is read has not announced its end.               *)

AskedIsWanted(s) == Settled /\ call[s] \in {"asked", "answering"} => want = s
WantedIsAsked(s) == want = s => call[s] # "unused"
WantedIsKnown(s) ==
  Settled /\ want = s /\ call[s] = "answered" /\ reader[s].at = "reading" => ref = s
Reachable(s) == reader[s].at = "reading" => s \in running \/ reader[s].canceled
NoEndYet(s) ==
  reader[s].at \in {"none", "reading", "failed", "reporting"} => events[s] \in Seq(LineEvent)
LeftIsStopped(s) ==
  Settled /\ reader[s].at = "reading" /\ s # want => s \in stopping \/ reader[s].canceled

StreamOK(s) ==
  /\ AskedIsWanted(s) /\ WantedIsAsked(s) /\ WantedIsKnown(s)
  /\ Reachable(s) /\ NoEndYet(s) /\ LeftIsStopped(s)

LeftInv == TimerInv /\ \A s \in Streams : StreamOK(s)

USE DEF AskedIsWanted, WantedIsAsked, WantedIsKnown, Reachable, LeftIsStopped

(* No stream was asked for at first. *)
LEMMA InitLeft == Init => \A s \in Streams : StreamOK(s)
<1> SUFFICES ASSUME Init, NEW s \in Streams PROVE StreamOK(s)
  OBVIOUS
<1>1. <<>> \in Seq(LineEvent)
  OBVIOUS
<1>2. QED
  BY <1>1, LogAssumption DEF Init, StreamOK, NoEndYet

(* The viewer. *)
LEMMA LeaveLeft == LeftInv /\ Leave => \A t \in Streams : StreamOK(t)'
<1> SUFFICES ASSUME LeftInv, Leave, NEW t \in Streams PROVE StreamOK(t)'
  OBVIOUS
<1>1. StreamOK(t) /\ want \in Streams /\ StreamOK(want) /\ call[want] \in Calls
  BY DEF LeftInv, TimerInv, Typed, Leave
<1>2. UNCHANGED <<call, backend>> /\ want' = NoStream /\ want' # t
  BY LogAssumption DEF Leave
<1>3. NoEndYet(t)'
  BY <1>1, <1>2 DEF StreamOK, NoEndYet
<1>4. Settled => call[want] = "answered"
  BY <1>1 DEF Leave, StopStreaming, AnswerAwaited, Calls, StreamOK
<1>5. AskedIsWanted(t)'
  BY <1>1, <1>2, <1>4 DEF StreamOK
<1>6. LeftIsStopped(t)'
  <2>1. CASE t = want
    BY <1>1, <1>2, <1>4, <2>1 DEF StreamOK, Leave, StopStreaming
  <2>2. CASE t # want
    BY <1>1, <1>2, <2>2 DEF StreamOK, Leave, StopStreaming
  <2>3. QED
    BY <2>1, <2>2
<1>7. QED
  BY <1>1, <1>2, <1>3, <1>5, <1>6 DEF StreamOK

(* The stream asked for is the one wanted. *)
LEMMA StartLeft ==
  ASSUME LeftInv, NEW s \in Streams, NEW h, StartStreaming(s, h), NEW t \in Streams
  PROVE  StreamOK(t)'
<1>1. StreamOK(t) /\ StreamOK(s) /\ reader[s].at = "none"
  BY DEF LeftInv, TimerInv, NotStarted, StartStreaming
<1>2. /\ UNCHANGED backend /\ want = NoStream /\ want' = s /\ stopping \subseteq stopping'
      /\ call'[s] = "asked" /\ \A u \in Streams \ {s} : call'[u] = call[u]
  BY DEF StartStreaming, StopStreaming, LeftInv, TimerInv, Typed
<1>3. NoEndYet(t)'
  BY <1>1, <1>2 DEF StreamOK, NoEndYet
<1>4. want # t
  BY <1>2, LogAssumption
<1>5. QED
  BY <1>1, <1>2, <1>3, <1>4 DEF StreamOK

(* The answer puts the stream that is wanted into the reference. *)
LEMMA AnswerLeft ==
  ASSUME LeftInv, NEW s \in Streams, Answer(s), NEW t \in Streams
  PROVE  StreamOK(t)'
<1>1. StreamOK(t) /\ StreamOK(s)
  BY DEF LeftInv
<1>2. /\ UNCHANGED <<stopping, backend, want>> /\ ref' = s /\ call[s] = "answering"
      /\ call'[s] = "answered" /\ \A u \in Streams \ {s} : call'[u] = call[u]
  BY DEF Answer, LeftInv, TimerInv, Typed
<1>3. NoEndYet(t)'
  BY <1>1, <1>2 DEF StreamOK, NoEndYet
<1>4. QED
  BY <1>1, <1>2, <1>3 DEF StreamOK

(* Only the end of a stream that no longer reads clears the reference. *)
LEMMA HandleLeft ==
  ASSUME LeftInv, NEW s \in Streams, Handle(s), NEW t \in Streams
  PROVE  StreamOK(t)'
<1>1. StreamOK(t) /\ StreamOK(s) /\ events \in [Streams -> Seq(AnyEvent)]
  BY DEF LeftInv, TimerInv, Typed
<1>2. UNCHANGED <<call, stopping, running, reader, want>>
  BY DEF Handle
<1>3. events[s] # <<>> /\ events' = [events EXCEPT ![s] = Tail(@)]
  BY DEF Handle
<1>4. NoEndYet(t)'
  <2>1. events[s] \in Seq(LineEvent) => Tail(events[s]) \in Seq(LineEvent)
    BY <1>3
  <2>2. CASE t = s
    BY <1>1, <1>2, <1>3, <2>1, <2>2 DEF StreamOK, NoEndYet
  <2>3. CASE t # s
    BY <1>1, <1>2, <1>3, <2>3 DEF StreamOK, NoEndYet
  <2>4. QED
    BY <2>2, <2>3
<1>5. events[s] \in Seq(LineEvent) => Head(events[s]).kind \notin Ends
  <2>1. events[s] \in Seq(LineEvent) => Head(events[s]) \in LineEvent
    BY <1>3
  <2>2. QED
    BY <2>1 DEF LineEvent, Ends
<1>6. ref = t /\ reader[t].at = "reading" => ref' = t
  BY <1>1, <1>5 DEF Handle, StreamOK, NoEndYet
<1>7. QED
  BY <1>1, <1>2, <1>4, <1>6 DEF StreamOK

(* The calls and the goroutine. *)
LEMMA OpenLeft ==
  ASSUME LeftInv, NEW s \in Streams, NEW n, StartLogStream(s, n), NEW t \in Streams
  PROVE  StreamOK(t)'
<1>1. StreamOK(t) /\ StreamOK(s) /\ reader[s].at = "none" /\ reader[s] \in ReaderType
  BY DEF LeftInv, TimerInv, Typed, NotStarted, StartLogStream
<1>2. /\ UNCHANGED <<stopping, events, viewer>> /\ running' = running \cup {s}
      /\ call[s] = "asked" /\ call'[s] = "answering" /\ \A u \in Streams \ {s} : call'[u] = call[u]
      /\ reader'[s].at = "reading" /\ \A u \in Streams \ {s} : reader'[u] = reader[u]
  BY <1>1 DEF StartLogStream, LeftInv, TimerInv, Typed, ReaderType
<1>3. NoEndYet(t)'
  BY <1>1, <1>2 DEF StreamOK, NoEndYet
<1>4. QED
  BY <1>1, <1>2, <1>3 DEF StreamOK

(* StopLogStream finds the stream, so that it is canceled. *)
LEMMA StopLeft ==
  ASSUME LeftInv, NEW s \in Streams, StopLogStream(s), NEW t \in Streams
  PROVE  StreamOK(t)'
<1>1. StreamOK(t) /\ StreamOK(s) /\ reader[s] \in ReaderType
  BY DEF LeftInv, TimerInv, Typed
<1>2. /\ UNCHANGED <<call, events, viewer>> /\ running' = running \ {s} /\ stopping' = stopping \ {s}
      /\ reader'[s].at = reader[s].at /\ (reader'[s].canceled <=> reader[s].canceled \/ s \in running)
      /\ \A u \in Streams \ {s} : reader'[u] = reader[u]
  BY <1>1 DEF StopLogStream, LeftInv, TimerInv, Typed, ReaderType
<1>3. NoEndYet(t)'
  BY <1>1, <1>2 DEF StreamOK, NoEndYet
<1>4. QED
  BY <1>1, <1>2, <1>3 DEF StreamOK

(* A step of the goroutine or the callbacks of s that touches neither the   *)
(* calls nor the viewer, and does not begin to read.                        *)
LEMMA OtherLeft ==
  ASSUME LeftInv, NEW s \in Streams, NEW t \in Streams,
         UNCHANGED <<call, stopping, viewer>>, running \ {s} \subseteq running',
         \A u \in Streams \ {s} : reader'[u] = reader[u] /\ events'[u] = events[u],
         reader'[s].at = "reading" =>
           reader[s].at = "reading" /\ running' = running /\ (reader'[s].canceled <=> reader[s].canceled),
         NoEndYet(s)'
  PROVE  StreamOK(t)'
<1>1. StreamOK(t) /\ StreamOK(s)
  BY DEF LeftInv
<1>2. NoEndYet(t)'
  BY <1>1 DEF StreamOK, NoEndYet
<1>3. QED
  BY <1>1, <1>2 DEF StreamOK

(* Posting lines announces no end. *)
LEMMA PostLines ==
  ASSUME LeftInv, NEW s \in Streams, NEW lines \in Seq(Nat), Post(s, lines, <<>>)
  PROVE  /\ events[s] \in Seq(LineEvent) => events'[s] \in Seq(LineEvent)
         /\ \A u \in Streams \ {s} : events'[u] = events[u]
<1>1. events' = [events EXCEPT ![s] = events[s] \o Batch(lines) \o <<>>] /\ <<>> \in Seq(LineEvent)
  BY DEF Post
<1>2. events[s] \in Seq(LineEvent) => events[s] \o Batch(lines) \o <<>> \in Seq(LineEvent)
  BY <1>1, BatchType
<1>3. QED
  BY <1>1, <1>2 DEF LeftInv, TimerInv, Typed

(* The goroutine of a stream that goes to another place. *)
LEMMA MoveLeft ==
  ASSUME LeftInv, NEW s \in Streams, NEW t \in Streams,
         EmitLine(s) \/ (\E n \in 1 .. Length[s] + 1 : Reconnect(s, n)) \/ ReadEnds(s)
           \/ EmitError(s) \/ ReportError(s) \/ EmitDone(s) \/ ReportDone(s)
  PROVE  StreamOK(t)'
<1>1. StreamOK(s) /\ reader[s] \in ReaderType /\ reader \in [Streams -> ReaderType]
      /\ events \in [Streams -> Seq(AnyEvent)]
  BY DEF LeftInv, TimerInv, Typed
<1>2. CASE EmitLine(s) \/ (\E n \in 1 .. Length[s] + 1 : Reconnect(s, n))
  <2>1. /\ UNCHANGED <<call, stopping, viewer, running, events>>
        /\ reader'[s].at = reader[s].at /\ reader'[s].canceled = reader[s].canceled
        /\ \A u \in Streams \ {s} : reader'[u] = reader[u]
    BY <1>1, <1>2 DEF EmitLine, Reconnect, ReaderType
  <2>2. NoEndYet(s)'
    BY <1>1, <2>1 DEF StreamOK, NoEndYet
  <2>3. QED
    BY <2>1, <2>2, OtherLeft
<1>3. CASE ReadEnds(s)
  <2>1. /\ UNCHANGED <<call, stopping, viewer, running, events>> /\ reader[s].at = "reading"
        /\ reader'[s].at \in {"failed", "closing"}
        /\ \A u \in Streams \ {s} : reader'[u] = reader[u]
    BY <1>1, <1>3 DEF ReadEnds, ReaderType
  <2>2. NoEndYet(s)'
    BY <1>1, <2>1 DEF StreamOK, NoEndYet
  <2>3. QED
    BY <2>1, <2>2, OtherLeft
<1>4. CASE EmitError(s)
  <2>1. /\ UNCHANGED <<call, stopping, viewer, running, events>> /\ reader[s].at = "failed"
        /\ reader'[s].at = "reporting"
        /\ \A u \in Streams \ {s} : reader'[u] = reader[u]
    BY <1>1, <1>4 DEF EmitError, ReaderType
  <2>2. NoEndYet(s)'
    BY <1>1, <2>1 DEF StreamOK, NoEndYet
  <2>3. QED
    BY <2>1, <2>2, OtherLeft
<1>5. CASE EmitDone(s)
  <2>1. /\ UNCHANGED <<call, stopping, viewer, events>> /\ running' = running \ {s}
        /\ reader'[s].at = "draining"
        /\ \A u \in Streams \ {s} : reader'[u] = reader[u]
    BY <1>1, <1>5 DEF EmitDone, ReaderType
  <2>2. NoEndYet(s)'
    BY <2>1 DEF NoEndYet
  <2>3. QED
    BY <2>1, <2>2, OtherLeft
<1>6. CASE ReportError(s) \/ ReportDone(s)
  <2>1. /\ UNCHANGED <<call, stopping, viewer, running>>
        /\ reader'[s].at \in {"closing", "over"}
        /\ \A u \in Streams \ {s} : reader'[u] = reader[u] /\ events'[u] = events[u]
    <3>1. CASE ReportError(s)
      BY <1>1, <3>1 DEF ReportError, Post, ReaderType
    <3>2. CASE ReportDone(s)
      BY <1>1, <3>2 DEF ReportDone, Post, ReaderType
    <3>3. QED
      BY <1>6, <3>1, <3>2
  <2>2. NoEndYet(s)'
    BY <2>1 DEF NoEndYet
  <2>3. QED
    BY <2>1, <2>2, OtherLeft
<1>7. QED
  BY <1>2, <1>3, <1>4, <1>5, <1>6

(* The timer and its callbacks. *)
LEMMA FlushLeft ==
  ASSUME LeftInv, NEW s \in Streams, NEW t \in Streams,
         TimerFires(s) \/ FlushStream(s) \/ EmitBatch(s)
  PROVE  StreamOK(t)'
<1>1. StreamOK(s) /\ buffer[s].lines \in Seq(Nat) /\ taken[s] \in Seq(Seq(Nat))
  BY DEF LeftInv, TimerInv, Typed, BufferType
<1>2. UNCHANGED <<call, stopping, viewer, running, reader>>
  BY DEF TimerFires, FlushStream, EmitBatch
<1>3. /\ events[s] \in Seq(LineEvent) => events'[s] \in Seq(LineEvent)
      /\ \A u \in Streams \ {s} : events'[u] = events[u]
  <2>1. CASE TimerFires(s)
    BY <2>1 DEF TimerFires
  <2>2. CASE FlushStream(s)
    BY <1>1, <2>2, PostLines DEF FlushStream, HandOver
  <2>3. CASE EmitBatch(s)
    <3>1. PICK i \in 1 .. Len(taken[s]) : Post(s, taken[s][i], <<>>)
      BY <2>3 DEF EmitBatch
    <3>2. taken[s][i] \in Seq(Nat)
      BY <1>1
    <3>3. QED
      BY <3>1, <3>2, PostLines
  <2>4. QED
    BY <2>1, <2>2, <2>3
<1>4. NoEndYet(s)'
  BY <1>1, <1>2, <1>3 DEF StreamOK, NoEndYet
<1>5. QED
  BY <1>2, <1>3, <1>4, OtherLeft

(* Every step keeps the streams that were left stopped. *)
LEMMA NextLeft == LeftInv /\ [Next]_vars => LeftInv'
<1> SUFFICES ASSUME LeftInv, [Next]_vars, NEW t \in Streams PROVE StreamOK(t)'
  BY NextTimer DEF LeftInv
<1>1. CASE UNCHANGED vars
  BY <1>1 DEF LeftInv, StreamOK, NoEndYet
<1>2. QED
  BY <1>1, LeaveLeft, StartLeft, AnswerLeft, HandleLeft, OpenLeft, StopLeft, MoveLeft, FlushLeft DEF Next

(* If Starts are answered before the viewer goes on, every stream it left   *)
(* was told to stop, and was found in logStreams: none runs until its pod   *)
(* ends.                                                                    *)
THEOREM OthersAlwaysStop == Spec => []OthersStop
<1>1. Init => LeftInv
  BY InitTimer, InitLeft DEF LeftInv
<1>2. LeftInv => OthersStop
  BY DEF LeftInv, StreamOK, OthersStop
<1>3. QED
  BY <1>1, <1>2, NextLeft, PTL DEF Spec

(* Nothing is left behind: no line in a buffer, no stream that was left.    *)
THEOREM NothingIsLeftBehind == Spec => []NothingLeftBehind
<1>1. NothingWaits /\ OthersStop => NothingLeftBehind
  BY DEF NothingLeftBehind
<1>2. QED
  BY <1>1, LinesScheduled, OthersAlwaysStop, PTL
-----------------------------------------------------------------------------
(* Induction over the natural numbers, for sets instead of predicates.     *)

LEMMA LeastNumber ==
  ASSUME NEW T \in SUBSET Nat, T # {}
  PROVE  \E m \in T : \A k \in T : m <= k
<1>1. IsWellFoundedOn(OpToRel(<,Nat), Nat)
  BY NatLessThanWellFounded, Zenon
<1>2. PICK m \in T : \A k \in T : ~(<<k, m>> \in OpToRel(<,Nat))
  BY <1>1, WFMin, Zenon
<1>3. \A k \in T : ~(k < m)
  BY <1>2 DEF OpToRel
<1>4. QED
  BY <1>3

LEMMA SetInduction ==
  ASSUME NEW T \in SUBSET Nat, 0 \in T, \A n \in T : n + 1 \in T
  PROVE  T = Nat
<1>1. SUFFICES ASSUME Nat \ T # {} PROVE FALSE
  OBVIOUS
<1>2. PICK m \in Nat \ T : \A k \in Nat \ T : m <= k
  BY <1>1, LeastNumber
<1>3. m # 0 /\ m - 1 \in Nat
  BY <1>2
<1>4. m - 1 \in T
  BY <1>2, <1>3
<1>5. QED
  BY <1>2, <1>4

-----------------------------------------------------------------------------
(* The lines of a sequence of batches.                                     *)

(* The lines of each of its beginnings, up to the n-th. *)
Stages(g, batches, n) ==
  g = [i \in 0 .. n |-> IF i = 0 THEN <<>> ELSE g[i - 1] \o batches[i]]

LEMMA StagesExist ==
  ASSUME NEW batches, NEW n \in Nat
  PROVE  \E g : Stages(g, batches, n)
<1> DEFINE T == {k \in Nat : \E g : Stages(g, batches, k)}
<1>1. 0 \in T
  <2> DEFINE g == [i \in 0 .. 0 |-> <<>>]
  <2>1. Stages(g, batches, 0)
    BY DEF Stages
  <2>2. QED
    BY <2>1
<1>2. ASSUME NEW k \in T PROVE k + 1 \in T
  <2>1. PICK g : Stages(g, batches, k)
    OBVIOUS
  <2> DEFINE h == [i \in 0 .. (k + 1) |-> IF i = k + 1 THEN g[k] \o batches[k + 1] ELSE g[i]]
  <2>2. \A i \in 0 .. k : h[i] = g[i]
    OBVIOUS
  <2>3. \A i \in 0 .. k : g[i] = IF i = 0 THEN <<>> ELSE g[i - 1] \o batches[i]
    BY <2>1 DEF Stages
  <2>4. ASSUME NEW i \in 0 .. (k + 1)
        PROVE  h[i] = IF i = 0 THEN <<>> ELSE h[i - 1] \o batches[i]
    <3>1. CASE i = k + 1
      <4>1. h[i] = g[k] \o batches[i] /\ i # 0 /\ i - 1 = k /\ h[k] = g[k]
        BY <2>2, <3>1
      <4>2. QED
        BY <4>1
    <3>2. CASE i \in 0 .. k /\ i # 0
      <4>1. i - 1 \in 0 .. k
        BY <3>2
      <4>2. h[i] = g[i] /\ h[i - 1] = g[i - 1]
        BY <2>2, <3>2, <4>1
      <4>3. g[i] = g[i - 1] \o batches[i]
        BY <2>3, <3>2
      <4>4. QED
        BY <3>2, <4>2, <4>3
    <3>3. CASE i = 0
      BY <2>2, <2>3, <3>3
    <3>4. QED
      BY <3>1, <3>2, <3>3
  <2>5. Stages(h, batches, k + 1)
    BY <2>4, Zenon DEF Stages
  <2>6. QED
    BY <2>5
<1>3. T = Nat
  BY <1>1, <1>2, SetInduction
<1>4. QED
  BY <1>3

(* The lines of each beginning are a sequence, the longer by its batch. *)
LEMMA Unfold ==
  ASSUME NEW batches \in Seq(Seq(Nat))
  PROVE  \E g : /\ Flat(batches) = g[Len(batches)] /\ g[0] = <<>>
                /\ \A i \in 0 .. Len(batches) : g[i] \in Seq(Nat)
                /\ \A i \in 1 .. Len(batches) : g[i] = g[i - 1] \o batches[i]
<1> DEFINE n == Len(batches)
           f == CHOOSE f : f = [i \in 0 .. Len(batches) |-> IF i = 0 THEN <<>> ELSE f[i - 1] \o batches[i]]
<1>0. n \in Nat
  OBVIOUS
<1>1. \E g : Stages(g, batches, n)
  BY <1>0, StagesExist
<1>2. Stages(f, batches, n)
  BY <1>1 DEF Stages
<1>3. Flat(batches) = f[n]
  BY Zenon DEF Flat
<1> HIDE DEF f
<1>4. \A i \in 0 .. n : f[i] = IF i = 0 THEN <<>> ELSE f[i - 1] \o batches[i]
  BY <1>2 DEF Stages
<1> DEFINE T == {i \in Nat : i <= n => f[i] \in Seq(Nat)}
<1>5. 0 \in T
  <2>1. f[0] = <<>> /\ <<>> \in Seq(Nat)
    BY <1>0, <1>4
  <2>2. QED
    BY <2>1
<1>6. ASSUME NEW i \in T PROVE i + 1 \in T
  <2>1. CASE i + 1 <= n
    <3>1. f[i] \in Seq(Nat) /\ i + 1 \in 0 .. n /\ (i + 1) - 1 = i /\ i + 1 # 0 /\ batches[i + 1] \in Seq(Nat)
      BY <1>0, <2>1
    <3> HIDE DEF n
    <3>2. f[i + 1] = f[i] \o batches[i + 1]
      BY <1>4, <3>1
    <3>3. f[i + 1] \in Seq(Nat) /\ i + 1 \in Nat
      BY <3>1, <3>2
    <3>4. QED
      BY <3>3
  <2>2. QED
    BY <2>1
<1>7. T = Nat
  BY <1>5, <1>6, SetInduction
<1>8. \A i \in 0 .. n : f[i] \in Seq(Nat)
  BY <1>0, <1>7
<1>9. f[0] = <<>> /\ \A i \in 1 .. n : f[i] = f[i - 1] \o batches[i]
  <2>1. \A i \in 1 .. n : i \in 0 .. n /\ i # 0
    BY <1>0
  <2>2. 0 \in 0 .. n
    BY <1>0
  <2>3. QED
    BY <1>4, <2>1, <2>2, Zenon
<1>10. QED
  BY <1>3, <1>8, <1>9, Zenon

(* Two journeys through the same batches meet. *)
LEMMA FlatNothing == Flat(<<>>) = <<>>
<1>1. <<>> \in Seq(Seq(Nat)) /\ Len(<<>>) = 0
  OBVIOUS
<1>2. QED
  BY <1>1, Unfold

LEMMA FlatType ==
  ASSUME NEW batches \in Seq(Seq(Nat))
  PROVE  Flat(batches) \in Seq(Nat)
<1>1. Len(batches) \in 0 .. Len(batches)
  OBVIOUS
<1>2. QED
  BY <1>1, Unfold

(* The number of lines, when a batch comes last. *)
LEMMA FlatMore ==
  ASSUME NEW J \in Seq(Seq(Nat)), NEW b \in Seq(Nat)
  PROVE  Len(Flat(Append(J, b))) = Len(Flat(J)) + Len(b)
<1> DEFINE n == Len(J)  K == Append(J, b)
<1>1. n \in Nat /\ K \in Seq(Seq(Nat)) /\ Len(K) = n + 1 /\ K[n + 1] = b /\ \A i \in 1 .. n : K[i] = J[i]
  OBVIOUS
<1>2. PICK g : /\ Flat(J) = g[n] /\ g[0] = <<>> /\ \A i \in 0 .. n : g[i] \in Seq(Nat)
               /\ \A i \in 1 .. n : g[i] = g[i - 1] \o J[i]
  BY Unfold
<1>3. PICK h : /\ Flat(K) = h[Len(K)] /\ h[0] = <<>> /\ \A i \in 0 .. Len(K) : h[i] \in Seq(Nat)
               /\ \A i \in 1 .. Len(K) : h[i] = h[i - 1] \o K[i]
  BY <1>1, Unfold
<1> HIDE DEF n, K
<1> DEFINE T == {i \in Nat : i <= n => g[i] = h[i]}
<1>4. 0 \in T
  BY <1>2, <1>3
<1>5. ASSUME NEW i \in T PROVE i + 1 \in T
  <2>1. CASE i + 1 <= n
    <3>0. i \in Nat /\ i <= n
      BY <1>1, <2>1
    <3>1. g[i] = h[i] /\ i + 1 \in 1 .. n /\ i + 1 \in 1 .. Len(K) /\ (i + 1) - 1 = i
      <4>1. g[i] = h[i]
        BY <3>0
      <4>2. QED
        BY <1>1, <2>1, <3>0, <4>1
    <3>2. g[i + 1] = g[i] \o J[i + 1] /\ h[i + 1] = h[i] \o K[i + 1] /\ K[i + 1] = J[i + 1]
      BY <1>1, <1>2, <1>3, <3>1
    <3>3. g[i + 1] = h[i + 1] /\ i + 1 \in Nat
      BY <3>1, <3>2
    <3>4. QED
      BY <3>3
  <2>2. QED
    BY <2>1
<1>6. T = Nat
  BY <1>4, <1>5, SetInduction
<1>7. h[n] = g[n] /\ h[n] \in Seq(Nat)
  <2>1. n \in T /\ n \in 0 .. n
    BY <1>1, <1>6
  <2>2. QED
    BY <1>2, <2>1
<1>8. Flat(K) = h[n] \o b
  <2>1. n + 1 \in 1 .. Len(K) /\ (n + 1) - 1 = n
    BY <1>1
  <2>2. QED
    BY <1>1, <1>3, <2>1
<1>9. QED
  BY <1>2, <1>7, <1>8 DEF K

(* The number of lines of each beginning. *)
LEMMA UnfoldLengths ==
  ASSUME NEW J \in Seq(Seq(Nat))
  PROVE  \E G : /\ Len(Flat(J)) = G[Len(J)] /\ G[0] = 0
                /\ \A i \in 0 .. Len(J) : G[i] \in Nat
                /\ \A i \in 1 .. Len(J) : G[i] = G[i - 1] + Len(J[i])
<1> DEFINE n == Len(J)
<1>0. n \in Nat /\ \A i \in 1 .. n : J[i] \in Seq(Nat)
  OBVIOUS
<1>1. PICK g : /\ Flat(J) = g[n] /\ g[0] = <<>> /\ \A i \in 0 .. n : g[i] \in Seq(Nat)
               /\ \A i \in 1 .. n : g[i] = g[i - 1] \o J[i]
  BY Unfold
<1> HIDE DEF n
<1> DEFINE G == [i \in 0 .. n |-> Len(g[i])]
<1>2. G[0] = 0 /\ Len(Flat(J)) = G[n] /\ \A i \in 0 .. n : G[i] \in Nat
  BY <1>0, <1>1
<1>3. ASSUME NEW i \in 1 .. n PROVE G[i] = G[i - 1] + Len(J[i])
  <2>1. i \in 0 .. n /\ i - 1 \in 0 .. n
    BY <1>0
  <2>2. g[i - 1] \in Seq(Nat) /\ J[i] \in Seq(Nat) /\ g[i] = g[i - 1] \o J[i]
    BY <1>0, <1>1, <2>1
  <2>3. Len(g[i]) = Len(g[i - 1]) + Len(J[i])
    BY <2>2
  <2>4. QED
    BY <2>1, <2>3
<1> HIDE DEF G
<1>4. QED
  BY <1>2, <1>3 DEF n

(* What a concatenation holds. *)
LEMMA Concat ==
  ASSUME NEW S, NEW a \in Seq(S), NEW b \in Seq(S)
  PROVE  /\ a \o b \in Seq(S) /\ Len(a \o b) = Len(a) + Len(b) /\ Len(a) \in Nat /\ Len(b) \in Nat
         /\ \A j \in 1 .. Len(a) + Len(b) : (a \o b)[j] = IF j <= Len(a) THEN a[j] ELSE b[j - Len(a)]
OBVIOUS

(* Two sequences with the same elements are the same. *)
LEMMA SameSeq ==
  ASSUME NEW S, NEW T, NEW a \in Seq(S), NEW b \in Seq(T), Len(a) = Len(b),
         \A j \in 1 .. Len(a) : a[j] = b[j]
  PROVE  a = b
OBVIOUS

(* Appending to the second sequence appends to both. *)
LEMMA AppendLater ==
  ASSUME NEW a \in Seq(Nat), NEW b \in Seq(Nat), NEW n \in Nat
  PROVE  Append(a \o b, n) = a \o Append(b, n)
<1> DEFINE x == Append(a \o b, n)  c == Append(b, n)
<1>1. c \in Seq(Nat) /\ Len(c) = Len(b) + 1 /\ Len(b) \in Nat /\ Len(a) \in Nat
      /\ c[Len(b) + 1] = n /\ \A j \in 1 .. Len(b) : c[j] = b[j]
  OBVIOUS
<1>2. x \in Seq(Nat) /\ Len(x) = Len(a) + Len(b) + 1 /\ x[Len(a) + Len(b) + 1] = n
      /\ \A j \in 1 .. Len(a) + Len(b) : x[j] = (a \o b)[j]
  <2> DEFINE y == a \o b
  <2>1. y \in Seq(Nat) /\ Len(y) = Len(a) + Len(b)
    BY Concat
  <2> HIDE DEF y
  <2>2. Append(y, n) \in Seq(Nat) /\ Len(Append(y, n)) = Len(y) + 1 /\ Append(y, n)[Len(y) + 1] = n
        /\ \A j \in 1 .. Len(y) : Append(y, n)[j] = y[j]
    BY <2>1
  <2>3. QED
    BY <2>1, <2>2 DEF y
<1> HIDE DEF x, c
<1>3. a \o c \in Seq(Nat) /\ Len(a \o c) = Len(a) + Len(b) + 1
      /\ \A j \in 1 .. Len(a) + Len(b) + 1 : (a \o c)[j] = IF j <= Len(a) THEN a[j] ELSE c[j - Len(a)]
  <2>1. /\ a \o c \in Seq(Nat) /\ Len(a \o c) = Len(a) + Len(c)
        /\ \A j \in 1 .. Len(a) + Len(c) : (a \o c)[j] = IF j <= Len(a) THEN a[j] ELSE c[j - Len(a)]
    BY <1>1, Concat
  <2>2. Len(a) + Len(c) = Len(a) + Len(b) + 1
    BY <1>1
  <2>3. QED
    BY <2>1, <2>2
<1>4. ASSUME NEW j \in 1 .. Len(x)
      PROVE  x[j] = (a \o c)[j]
  <2>1. CASE j = Len(a) + Len(b) + 1
    <3>1. j - Len(a) = Len(b) + 1 /\ ~(j <= Len(a))
      BY <1>1, <2>1
    <3>2. QED
      BY <1>1, <1>2, <1>3, <2>1, <3>1
  <2>2. CASE j # Len(a) + Len(b) + 1
    <3>0. Len(a) \in Nat /\ Len(b) \in Nat /\ j \in 1 .. Len(a) + Len(b) + 1
      BY <1>1, <1>2
    <3>1. j \in 1 .. Len(a) + Len(b) /\ (~(j <= Len(a)) => j - Len(a) \in 1 .. Len(b))
      BY <2>2, <3>0
    <3>2. x[j] = IF j <= Len(a) THEN a[j] ELSE b[j - Len(a)]
      BY <1>2, <3>1, Concat
    <3>3. QED
      BY <1>1, <1>2, <1>3, <3>1, <3>2
  <2>3. QED
    BY <2>1, <2>2
<1>5. x = a \o c
  BY <1>2, <1>3, <1>4, SameSeq
<1>6. QED
  BY <1>5 DEF x, c

(* The number of lines, when a batch is taken out. *)
LEMMA FlatLess ==
  ASSUME NEW J \in Seq(Seq(Nat)), NEW i \in 1 .. Len(J)
  PROVE  LET K == SubSeq(J, 1, i - 1) \o SubSeq(J, i + 1, Len(J))
         IN  K \in Seq(Seq(Nat)) /\ Len(Flat(J)) = Len(Flat(K)) + Len(J[i])
<1> DEFINE n == Len(J)  K == SubSeq(J, 1, i - 1) \o SubSeq(J, i + 1, Len(J))
<1>1. /\ n \in Nat /\ i \in 1 .. n
      /\ SubSeq(J, 1, i - 1) \in Seq(Seq(Nat)) /\ Len(SubSeq(J, 1, i - 1)) = i - 1
      /\ SubSeq(J, i + 1, n) \in Seq(Seq(Nat)) /\ Len(SubSeq(J, i + 1, n)) = n - i
  OBVIOUS
<1>2. /\ \A j \in 1 .. i - 1 : SubSeq(J, 1, i - 1)[j] = J[j]
      /\ \A j \in 1 .. n - i : SubSeq(J, i + 1, n)[j] = J[j + i]
  OBVIOUS
<1> DEFINE a == SubSeq(J, 1, i - 1)  b == SubSeq(J, i + 1, n)
<1>3. a \in Seq(Seq(Nat)) /\ Len(a) = i - 1 /\ b \in Seq(Seq(Nat)) /\ Len(b) = n - i /\ K = a \o b
      /\ (\A j \in 1 .. i - 1 : a[j] = J[j]) /\ (\A j \in 1 .. n - i : b[j] = J[j + i])
  BY <1>1, <1>2
<1> HIDE DEF a, b, K
<1>0. n \in Nat /\ i \in 1 .. n
  BY <1>1
<1> HIDE DEF n
<1>4. K \in Seq(Seq(Nat)) /\ Len(K) = n - 1
  <2>1. K \in Seq(Seq(Nat)) /\ Len(K) = Len(a) + Len(b)
    BY <1>3, Concat
  <2>2. QED
    BY <1>0, <1>3, <2>1
<1>5. ASSUME NEW j \in 1 .. n - 1
      PROVE  K[j] = IF j < i THEN J[j] ELSE J[j + 1]
  <2>1. CASE j < i
    <3>1. j \in 1 .. Len(a) /\ j \in 1 .. i - 1
      BY <1>0, <1>3, <2>1
    <3>2. K[j] = a[j]
      BY <1>3, <3>1
    <3>3. QED
      BY <1>3, <2>1, <3>1, <3>2
  <2>2. CASE ~(j < i)
    <3>0. Len(a) = i - 1 /\ Len(b) = n - i
      BY <1>3
    <3>1. j - (i - 1) \in 1 .. n - i /\ (j - (i - 1)) + i = j + 1 /\ j > Len(a) /\ j <= Len(a) + Len(b)
      <4> HIDE DEF a, b
      <4>1. j \in 1 .. n - 1 /\ j >= i
        BY <1>0, <1>5, <2>2
      <4>2. QED
        BY <1>0, <3>0, <4>1
    <3>2. K[j] = b[j - (i - 1)]
      <4>1. j \in 1 .. Len(a) + Len(b) /\ ~(j <= Len(a)) /\ Len(a) = i - 1
        BY <1>0, <1>3, <3>1
      <4>2. K[j] = IF j <= Len(a) THEN a[j] ELSE b[j - Len(a)]
        BY <1>3, <4>1, Concat
      <4>3. QED
        BY <4>1, <4>2
    <3>3. QED
      BY <1>3, <2>2, <3>1, <3>2
  <2>3. QED
    BY <2>1, <2>2
<1>6. PICK G : /\ Len(Flat(J)) = G[n] /\ G[0] = 0 /\ \A j \in 0 .. n : G[j] \in Nat
               /\ \A j \in 1 .. n : G[j] = G[j - 1] + Len(J[j])
  BY UnfoldLengths DEF n
<1>7. PICK H : /\ Len(Flat(K)) = H[n - 1] /\ H[0] = 0 /\ \A j \in 0 .. n - 1 : H[j] \in Nat
               /\ \A j \in 1 .. n - 1 : H[j] = H[j - 1] + Len(K[j])
  <2>1. PICK H : /\ Len(Flat(K)) = H[Len(K)] /\ H[0] = 0 /\ \A j \in 0 .. Len(K) : H[j] \in Nat
                 /\ \A j \in 1 .. Len(K) : H[j] = H[j - 1] + Len(K[j])
    BY <1>4, UnfoldLengths
  <2>2. QED
    BY <1>4, <2>1
<1>8. \A j \in 1 .. n : Len(J[j]) \in Nat
  BY <1>1
<1> DEFINE W == [j \in 1 .. n |-> Len(J[j])]
<1>9. /\ \A j \in 1 .. n : W[j] \in Nat /\ G[j] = G[j - 1] + W[j]
      /\ \A j \in 1 .. n - 1 : H[j] = H[j - 1] + (IF j < i THEN W[j] ELSE W[j + 1])
      /\ W[i] = Len(J[i])
  <2>1. \A j \in 1 .. n - 1 : Len(K[j]) = IF j < i THEN W[j] ELSE W[j + 1]
    BY <1>1, <1>5
  <2>2. QED
    BY <1>1, <1>6, <1>7, <1>8, <2>1
<1> HIDE DEF W
<1> DEFINE T == {j \in Nat : j <= n - 1 => H[j] = IF j < i THEN G[j] ELSE G[j + 1] - W[i]}
<1>10. 0 \in T
  BY <1>1, <1>6, <1>7
<1>11. ASSUME NEW j \in T PROVE j + 1 \in T
  <2>1. CASE j + 1 <= n - 1
    <3>1. /\ j + 1 \in 1 .. n - 1 /\ j \in 0 .. n - 1 /\ j + 2 \in 1 .. n /\ j + 1 \in 1 .. n
          /\ (j + 1) - 1 = j /\ (j + 2) - 1 = j + 1 /\ (j + 1) + 1 = j + 2
      BY <1>1, <2>1
    <3>2. /\ H[j] = IF j < i THEN G[j] ELSE G[j + 1] - W[i]
          /\ H[j + 1] = H[j] + (IF j + 1 < i THEN W[j + 1] ELSE W[j + 2])
          /\ G[j + 1] = G[j] + W[j + 1] /\ G[j + 2] = G[j + 1] + W[j + 2]
          /\ G[j] \in Nat /\ W[j + 1] \in Nat /\ W[j + 2] \in Nat /\ W[i] \in Nat
      BY <1>1, <1>6, <1>9, <2>1, <3>1
    <3>3. H[j + 1] = IF j + 1 < i THEN G[j + 1] ELSE G[j + 2] - W[i]
      <4>0. j \in Nat /\ i \in Nat
        BY <1>0, <3>1
      <4>2. CASE j + 1 < i
        BY <3>2, <4>0, <4>2
      <4>3. CASE j + 1 = i
        <5>1. j < i /\ ~(j + 1 < i) /\ W[j + 1] = W[i]
          BY <4>0, <4>3
        <5>2. H[j + 1] = G[j] + W[j + 2] /\ G[j + 2] = (G[j] + W[i]) + W[j + 2]
          BY <3>2, <5>1
        <5>3. \A u, v, w \in Nat : u + v = ((u + w) + v) - w
          OBVIOUS
        <5>4. H[j + 1] = G[j + 2] - W[i]
          BY <3>2, <5>2, <5>3
        <5>5. QED
          BY <5>1, <5>4
      <4>4. CASE j + 1 > i
        <5>1. ~(j < i) /\ ~(j + 1 < i)
          BY <4>0, <4>4
        <5>2. H[j + 1] = (G[j + 1] - W[i]) + W[j + 2] /\ G[j + 2] = G[j + 1] + W[j + 2] /\ G[j + 1] \in Nat
          BY <3>2, <5>1
        <5>3. \A u, v, w \in Nat : (u - w) + v = (u + v) - w
          OBVIOUS
        <5>4. H[j + 1] = G[j + 2] - W[i]
          BY <3>2, <5>2, <5>3, SMTT(20)
        <5>5. QED
          BY <5>1, <5>4
      <4>5. QED
        BY <4>0, <4>2, <4>3, <4>4
    <3>4. QED
      BY <3>1, <3>3
  <2>2. QED
    BY <2>1
<1>12. T = Nat
  BY <1>10, <1>11, SetInduction
<1>13. H[n - 1] = IF n - 1 < i THEN G[n - 1] ELSE G[n] - W[i]
  <2>1. n - 1 \in T /\ (n - 1) + 1 = n /\ n - 1 <= n - 1
    BY <1>0, <1>12
  <2>2. QED
    BY <2>1
<1>14. G[n] = G[n - 1] + W[n] /\ G[n] \in Nat /\ G[n - 1] \in Nat /\ W[i] \in Nat
  BY <1>1, <1>6, <1>9
<1>15. Len(Flat(J)) = Len(Flat(K)) + Len(J[i])
  <2>0. Len(Flat(J)) = G[n] /\ Len(Flat(K)) = H[n - 1] /\ W[i] = Len(J[i])
    BY <1>6, <1>7, <1>9
  <2>1. CASE n - 1 < i
    <3>1. i = n
      BY <1>0, <2>1
    <3>2. G[n] = H[n - 1] + W[i]
      BY <1>13, <1>14, <2>1, <3>1
    <3>3. QED
      BY <2>0, <3>2
  <2>2. CASE ~(n - 1 < i)
    <3>1. H[n - 1] = G[n] - W[i]
      BY <1>13, <2>2
    <3>2. G[n] = H[n - 1] + W[i]
      BY <1>14, <3>1
    <3>3. QED
      BY <2>0, <3>2
  <2>3. QED
    BY <2>1, <2>2
<1>16. QED
  BY <1>4, <1>15 DEF K, n
-----------------------------------------------------------------------------
(* What the viewer shows.                                                  *)

(* A batch that is a piece of the log. *)
Run(lines) == \A i \in 1 .. Len(lines) : lines[i] > 0 /\ lines[i] = lines[1] + i - 1

(* The lines that are newer, each alone. *)
NewOnes(lines) ==
  [i \in 1 .. Len(lines) |-> IF logs = <<>> \/ lines[i] > logs[Len(logs)] THEN <<lines[i]>> ELSE <<>>]

LEMMA ShownAs ==
  ASSUME logs \in Seq(Nat), NEW lines \in Seq(Nat)
  PROVE  /\ Shown(lines) = logs \o Flat(NewOnes(lines))
         /\ NewOnes(lines) \in Seq(Seq(Nat)) /\ Len(NewOnes(lines)) = Len(lines)
         /\ Shown(lines) \in Seq(Nat)
<1>1. Shown(lines) = logs \o Flat(NewOnes(lines))
  BY Zenon DEF Shown, NewOnes
<1>2. NewOnes(lines) \in Seq(Seq(Nat)) /\ Len(NewOnes(lines)) = Len(lines)
  <2>1. \A i \in 1 .. Len(lines) : <<lines[i]>> \in Seq(Nat) /\ <<>> \in Seq(Nat)
    OBVIOUS
  <2>2. Len(lines) \in Nat /\ \A i \in 1 .. Len(lines) : NewOnes(lines)[i] \in Seq(Nat)
    BY <2>1 DEF NewOnes
  <2>3. QED
    BY <2>2 DEF NewOnes
<1>3. Flat(NewOnes(lines)) \in Seq(Nat)
  BY <1>2, FlatType
<1>4. QED
  BY <1>1, <1>2, <1>3

(* A run that begins on the screen or right behind it continues the screen. *)
LEMMA ShownRun ==
  ASSUME logs \in Seq(Nat), \A i \in 1 .. Len(logs) : logs[i] = i,
         NEW lines \in Seq(Nat), Run(lines), lines # <<>> => lines[1] <= Len(logs) + 1
  PROVE  /\ \A i \in 1 .. Len(Shown(lines)) : Shown(lines)[i] = i
         /\ Shown(lines) \in Seq(Nat) /\ Len(Shown(lines)) >= Len(logs)
         /\ \A i \in 1 .. Len(lines) : lines[i] <= Len(Shown(lines))
<1> DEFINE B == NewOnes(lines)  n == Len(lines)  L == Len(logs)
<1>0. n \in Nat /\ L \in Nat
  OBVIOUS
<1>1. /\ Shown(lines) = logs \o Flat(B) /\ B \in Seq(Seq(Nat)) /\ Len(B) = n
      /\ Shown(lines) \in Seq(Nat) /\ n \in Nat /\ L \in Nat
  BY <1>0, ShownAs, Zenon
<1>2. CASE n = 0
  <2>1. lines = <<>> /\ B = <<>>
    BY <1>1, <1>2
  <2>2. Shown(lines) = logs
    BY <1>1, <2>1, FlatNothing
  <2>3. QED
    BY <1>1, <1>2, <2>2
<1>3. CASE n # 0
  <2> DEFINE a == lines[1]
  <2>1. a \in 1 .. L + 1 /\ \A i \in 1 .. n : lines[i] = a + i - 1
    BY <1>1, <1>3 DEF Run
  <2>2. PICK g : /\ Flat(B) = g[n] /\ g[0] = <<>> /\ \A i \in 0 .. n : g[i] \in Seq(Nat)
                 /\ \A i \in 1 .. n : g[i] = g[i - 1] \o B[i]
    <3>1. PICK g : /\ Flat(B) = g[Len(B)] /\ g[0] = <<>> /\ \A i \in 0 .. Len(B) : g[i] \in Seq(Nat)
                   /\ \A i \in 1 .. Len(B) : g[i] = g[i - 1] \o B[i]
      BY <1>1, Unfold
    <3>2. QED
      BY <1>1, <3>1
  <2>3. \A i \in 1 .. n : B[i] = IF a + i - 1 > L THEN <<a + i - 1>> ELSE <<>>
    <3>1. \A i \in 1 .. n : B[i] = IF logs = <<>> \/ lines[i] > logs[Len(logs)] THEN <<lines[i]>> ELSE <<>>
      BY DEF NewOnes
    <3>2. CASE L = 0
      <4>1. logs = <<>> /\ \A i \in 1 .. n : a + i - 1 > L
        BY <1>1, <2>1, <3>2
      <4>2. QED
        BY <2>1, <3>1, <4>1
    <3>3. CASE L # 0
      <4>1. logs # <<>> /\ L \in 1 .. Len(logs)
        BY <1>0, <3>3
      <4>3. logs[Len(logs)] = L
        BY <4>1
      <4>2. QED
        BY <2>1, <3>1, <4>1, <4>3
    <3>4. QED
      BY <3>2, <3>3
  <2> DEFINE Size(i) == IF a + i - 1 > L THEN a + i - 1 - L ELSE 0
             Counts(i) == Len(g[i]) = Size(i) /\ \A j \in 1 .. Size(i) : g[i][j] = L + j
             T == {i \in Nat : i <= n => Counts(i)}
  <2> HIDE DEF B, n, L, a
  <2>4. 0 \in T
    BY <1>1, <2>1, <2>2
  <2>5. ASSUME NEW i \in T PROVE i + 1 \in T
    <3>1. CASE i + 1 <= n
      <4>0. i \in Nat
        OBVIOUS
      <4>1. i \in Nat /\ i + 1 \in 1 .. n /\ (i + 1) - 1 = i /\ i \in 0 .. n /\ i + 1 \in 0 .. n
        <5> HIDE DEF T
        <5>1. QED
          BY <1>0, <3>1, <4>0
      <4>2. Len(g[i]) = Size(i) /\ g[i] \in Seq(Nat) /\ \A j \in 1 .. Size(i) : g[i][j] = L + j
        BY <2>2, <3>1, <4>1
      <4>3. g[i + 1] = g[i] \o B[i + 1] /\ B[i + 1] = IF a + i > L THEN <<a + i>> ELSE <<>>
        <5>1. a + (i + 1) - 1 = a + i
          BY <2>1, <4>1
        <5>2. QED
          BY <2>2, <2>3, <4>1, <5>1
      <4>4. ASSUME a + i > L PROVE Counts(i + 1)
        <5>1. Size(i) = a + i - 1 - L /\ Size(i + 1) = Size(i) + 1 /\ L + Size(i + 1) = a + i
          BY <1>1, <2>1, <4>1, <4>4
        <5>2. Size(i) \in Nat /\ a + i \in Nat
          BY <1>1, <2>1, <4>1, <4>4
        <5> HIDE DEF Size
        <5>3. g[i + 1] = Append(g[i], a + i)
          BY <4>2, <4>3, <4>4, <5>2
        <5>4. Len(g[i + 1]) = Size(i + 1) /\ \A j \in 1 .. Size(i + 1) : g[i + 1][j] = L + j
          <6>1. PICK k \in Nat : k = Size(i)
            BY <5>2
          <6>2. PICK s \in Seq(Nat) : s = g[i] /\ Len(s) = k
            BY <4>2, <6>1
          <6>3. PICK x \in Nat : x = a + i
            BY <5>2
          <6>4. /\ Len(Append(s, x)) = k + 1 /\ Append(s, x)[k + 1] = x
                /\ \A j \in 1 .. k : Append(s, x)[j] = s[j]
            BY <6>2
          <6>5. \A j \in 1 .. k + 1 : j \in 1 .. k \/ j = k + 1
            BY <6>1
          <6>6. Size(i + 1) = k + 1 /\ L + (k + 1) = x /\ g[i + 1] = Append(s, x)
            BY <5>1, <5>3, <6>1, <6>2, <6>3
          <6>7. \A j \in 1 .. k : s[j] = L + j
            BY <4>2, <6>1, <6>2
          <6>8. ASSUME NEW j \in 1 .. k + 1 PROVE Append(s, x)[j] = L + j
            <7>1. CASE j \in 1 .. k
              BY <6>4, <6>7, <7>1
            <7>2. CASE j = k + 1
              BY <6>4, <6>6, <7>2
            <7>3. QED
              BY <6>5, <7>1, <7>2
          <6>9. Len(Append(s, x)) = Size(i + 1) /\ \A j \in 1 .. Size(i + 1) : Append(s, x)[j] = L + j
            BY <6>4, <6>6, <6>8
          <6>10. QED
            BY <6>6, <6>9
        <5>5. QED
          BY <5>4
      <4>5. ASSUME ~(a + i > L) PROVE Counts(i + 1)
        <5>1. Size(i) = 0 /\ Size(i + 1) = 0
          BY <1>1, <2>1, <4>1, <4>5
        <5> HIDE DEF Size
        <5>2. g[i + 1] = g[i]
          BY <4>2, <4>3, <4>5
        <5>3. QED
          BY <4>2, <5>1, <5>2
      <4>6. QED
        <5> HIDE DEF Counts
        <5>1. QED
          BY <4>1, <4>4, <4>5
    <3>2. QED
      BY <3>1
  <2>6. T = Nat
    BY <2>4, <2>5, SetInduction
  <2>7. Len(g[n]) = Size(n) /\ \A j \in 1 .. Size(n) : g[n][j] = L + j
    <3>1. n \in T
      <4> HIDE DEF T
      <4>1. QED
        BY <1>0, <2>6
    <3>2. n <= n
      BY <1>0
    <3>3. QED
      BY <3>1, <3>2, Zenon
  <2> HIDE DEF T
  <2>8. Size(n) \in Nat /\ a + n - 1 <= L + Size(n)
    BY <1>1, <2>1
  <2> HIDE DEF Size
  <2>9. PICK G \in Seq(Nat), N \in Nat :
          /\ Shown(lines) = logs \o G /\ Len(G) = N /\ a + n - 1 <= L + N
          /\ \A j \in 1 .. N : G[j] = L + j
    <3>1. g[n] \in Seq(Nat)
      BY <1>0, <2>2
    <3>2. Shown(lines) = logs \o g[n]
      BY <1>1, <2>2
    <3>3. QED
      BY <2>7, <2>8, <3>1, <3>2
  <2>10. /\ Len(logs \o G) = L + N /\ Len(logs) = L
         /\ \A i \in 1 .. L + N : (logs \o G)[i] = IF i <= L THEN logs[i] ELSE G[i - L]
    <3>1. Len(logs) = L
      BY DEF L
    <3>2. QED
      BY <2>9, <3>1, Concat
  <2>11. ASSUME NEW i \in 1 .. L + N
         PROVE  (logs \o G)[i] = i
    <3>1. CASE i <= L
      <4>1. logs[i] = i
        BY <1>0, <2>10, <3>1
      <4>2. QED
        BY <2>10, <3>1, <4>1
    <3>2. CASE ~(i <= L)
      <4>1. i - L \in 1 .. N /\ L + (i - L) = i
        BY <1>0, <2>9, <3>2
      <4>2. G[i - L] = i
        BY <2>9, <4>1
      <4>3. QED
        BY <2>10, <3>2, <4>2
    <3>3. QED
      BY <3>1, <3>2
  <2>12. \A i \in 1 .. n : lines[i] <= L + N
    BY <1>1, <2>1, <2>9
  <2>13. QED
    BY <1>0, <1>1, <2>9, <2>10, <2>11, <2>12 DEF n
<1>4. QED
  BY <1>2, <1>3
-----------------------------------------------------------------------------
(* Where the lines of a stream are.                                        *)

History ==
  /\ emitted \in [Streams -> Seq(Nat)] /\ sent \in [Streams -> Seq(Nat)]
  /\ logs \in Seq(Nat) /\ faults \in 0 .. MaxFaults

(* A goroutine that is at a, reads line n next and holds the lines o; the   *)
(* buffered lines l, the batches k that callbacks took, the events e; the   *)
(* lines m that were emitted and those d that were sent.                    *)

(* They are lines of the log. *)
InLog(s, n, o, l, k) ==
  n \in 1 .. Length[s] + 1 /\ o \in Seq(Lines(s)) /\ l \in Seq(Lines(s)) /\ k \in Seq(Seq(Lines(s)))

(* The goroutine holds lines while it reports only, and has emptied the     *)
(* buffer then; before a stream is started there is nothing of it.          *)
Held(a, o, l, k, e) ==
  /\ a \notin {"reporting", "draining"} => o = <<>>
  /\ a \in {"reporting", "draining", "over"} => l = <<>>
  /\ a = "none" => l = <<>> /\ k = <<>> /\ e = <<>>

Counted(o, l, k, m, d) == Len(m) = Len(d) + Len(Flat(k)) + Len(o) + Len(l)

Ordered(o, l, k, m, d) == k = <<>> /\ m = d \o o \o l

(* An error ends the lines, so that only the end can follow it.             *)
Ending(a, o, l, e) ==
  /\ a \in {"closing", "draining"} =>
       \A i \in 1 .. Len(e) : e[i].kind \in Ends =>
         i = Len(e) /\ e[i].kind = "error" /\ o = <<>> /\ l = <<>>
  /\ a = "over" =>
       \A i \in 1 .. Len(e) - 1 : e[i].kind \in Ends =>
         i = Len(e) - 1 /\ e[i].kind = "error" /\ e[i + 1].kind = "done"

(* Batches are runs, and the goroutine goes on after the buffered one.      *)
Runs(a, n, o, l, e) ==
  /\ \A i \in 1 .. Len(e) : Run(e[i].lines)
  /\ Run(o) /\ Run(l)
  /\ a = "reading" /\ l # <<>> => n = l[1] + Len(l)

Holds(s, a, n, o, l, k, e, m, d) ==
  /\ InLog(s, n, o, l, k) /\ Held(a, o, l, k, e) /\ Counted(o, l, k, m, d)
  /\ s \in Prompt => Ordered(o, l, k, m, d) /\ Ending(a, o, l, e) /\ Runs(a, n, o, l, e)

Carried(s) ==
  /\ reader[s].at \in {"draining", "over"} => buffer[s] = NoBuffer
  /\ Holds(s, reader[s].at, reader[s].next, reader[s].own, buffer[s].lines,
           taken[s], events[s], emitted[s], sent[s])

CarriedInv == LeftInv /\ History /\ \A s \in Streams : Carried(s)

(* A step after which the goroutine of s is at a, will read n and holds o,  *)
(* and l is buffered.                                                       *)
Goes(s, a, n, o, l) ==
  /\ reader'[s].at = a /\ reader'[s].next = n /\ reader'[s].own = o /\ buffer'[s].lines = l
  /\ a \in {"draining", "over"} => buffer'[s] = NoBuffer
  /\ \A t \in Streams \ {s} : reader'[t] = reader[t] /\ buffer'[t] = buffer[t]

(* The same for the batches taken, the events, and the two histories. *)
Carries(s, k, e, m, d) ==
  /\ taken'[s] = k /\ events'[s] = e /\ emitted'[s] = m /\ sent'[s] = d
  /\ \A t \in Streams \ {s} :
       taken'[t] = taken[t] /\ events'[t] = events[t] /\ emitted'[t] = emitted[t] /\ sent'[t] = sent[t]

(* What is known of a stream. *)
LEMMA StreamTypes ==
  ASSUME CarriedInv, NEW s \in Streams
  PROVE  /\ reader \in [Streams -> ReaderType] /\ buffer \in [Streams -> BufferType]
         /\ taken \in [Streams -> Seq(Seq(Nat))] /\ events \in [Streams -> Seq(AnyEvent)]
         /\ emitted \in [Streams -> Seq(Nat)] /\ sent \in [Streams -> Seq(Nat)]
         /\ reader[s] \in ReaderType /\ buffer[s] \in BufferType
         /\ reader[s].own \in Seq(Nat) /\ buffer[s].lines \in Seq(Nat)
         /\ taken[s] \in Seq(Seq(Nat)) /\ events[s] \in Seq(AnyEvent)
         /\ emitted[s] \in Seq(Nat) /\ sent[s] \in Seq(Nat)
BY DEF CarriedInv, LeftInv, TimerInv, Typed, History, ReaderType, BufferType

LEMMA EmitLineGoes ==
  ASSUME CarriedInv, NEW s \in Streams, EmitLine(s)
  PROVE  /\ Goes(s, "reading", reader[s].next + 1, reader[s].own, Append(buffer[s].lines, reader[s].next))
         /\ Carries(s, taken[s], events[s], Append(emitted[s], reader[s].next), sent[s])
<1>1. Carries(s, taken[s], events[s], Append(emitted[s], reader[s].next), sent[s])
  BY StreamTypes DEF EmitLine, Carries
<1>2. QED
  BY <1>1, StreamTypes DEF EmitLine, Goes, ReaderType, BufferType

LEMMA ReconnectGoes ==
  ASSUME CarriedInv, NEW s \in Streams, NEW n, Reconnect(s, n)
  PROVE  /\ Goes(s, "reading", n, reader[s].own, buffer[s].lines)
         /\ Carries(s, taken[s], events[s], emitted[s], sent[s])
BY StreamTypes DEF Reconnect, Goes, Carries, ReaderType, BufferType

LEMMA OpenGoes ==
  ASSUME CarriedInv, NEW s \in Streams, NEW n, StartLogStream(s, n)
  PROVE  /\ Goes(s, "reading", n, reader[s].own, buffer[s].lines)
         /\ Carries(s, taken[s], events[s], emitted[s], sent[s])
BY StreamTypes DEF StartLogStream, Goes, Carries, ReaderType, BufferType

LEMMA ReadEndsGoes ==
  ASSUME CarriedInv, NEW s \in Streams, ReadEnds(s)
  PROVE  /\ \E a \in {"failed", "closing"} : Goes(s, a, reader[s].next, reader[s].own, buffer[s].lines)
         /\ Carries(s, taken[s], events[s], emitted[s], sent[s])
BY StreamTypes DEF ReadEnds, Goes, Carries, ReaderType, BufferType

LEMMA EmitErrorGoes ==
  ASSUME CarriedInv, NEW s \in Streams, EmitError(s)
  PROVE  /\ Goes(s, "reporting", reader[s].next, buffer[s].lines, <<>>)
         /\ Carries(s, taken[s], events[s], emitted[s], sent[s])
BY StreamTypes DEF EmitError, Goes, Carries, ReaderType, BufferType

LEMMA EmitDoneGoes ==
  ASSUME CarriedInv, NEW s \in Streams, EmitDone(s)
  PROVE  /\ Goes(s, "draining", reader[s].next, buffer[s].lines, <<>>)
         /\ Carries(s, taken[s], events[s], emitted[s], sent[s])
BY StreamTypes DEF EmitDone, Goes, Carries, ReaderType, BufferType, NoBuffer

LEMMA ReportErrorGoes ==
  ASSUME CarriedInv, NEW s \in Streams, ReportError(s)
  PROVE  /\ Goes(s, "closing", reader[s].next, <<>>, buffer[s].lines)
         /\ Carries(s, taken[s], events[s] \o Batch(reader[s].own) \o End("error"),
                    emitted[s], sent[s] \o reader[s].own)
BY StreamTypes DEF ReportError, Post, Goes, Carries, ReaderType, BufferType

LEMMA ReportDoneGoes ==
  ASSUME CarriedInv, NEW s \in Streams, ReportDone(s)
  PROVE  /\ Goes(s, "over", reader[s].next, <<>>, buffer[s].lines)
         /\ Carries(s, taken[s], events[s] \o Batch(reader[s].own) \o End("done"),
                    emitted[s], sent[s] \o reader[s].own)
<1>1. buffer[s] = NoBuffer
  BY DEF CarriedInv, Carried, ReportDone
<1>2. QED
  BY <1>1, StreamTypes DEF ReportDone, Post, Goes, Carries, ReaderType, BufferType

LEMMA FlushGoes ==
  ASSUME CarriedInv, NEW s \in Streams, FlushStream(s)
  PROVE  /\ Goes(s, reader[s].at, reader[s].next, reader[s].own, <<>>)
         /\ IF buffer[s].lines = <<>> THEN Carries(s, taken[s], events[s], emitted[s], sent[s])
            ELSE IF s \in Prompt
              THEN Carries(s, taken[s], events[s] \o Batch(buffer[s].lines) \o <<>>,
                           emitted[s], sent[s] \o buffer[s].lines)
              ELSE Carries(s, Append(taken[s], buffer[s].lines), events[s], emitted[s], sent[s])
<1>1. Goes(s, reader[s].at, reader[s].next, reader[s].own, <<>>)
  <2>1. reader[s].at \in {"draining", "over"} => buffer[s] = NoBuffer
    BY DEF CarriedInv, Carried
  <2>2. buffer' = [buffer EXCEPT ![s] = [@ EXCEPT !.lines = <<>>, !.pending = FALSE]] /\ reader' = reader
    BY DEF FlushStream
  <2>3. buffer'[s].lines = <<>> /\ \A t \in Streams \ {s} : buffer'[t] = buffer[t]
    BY <2>2, StreamTypes DEF BufferType
  <2>4. buffer[s] = NoBuffer => buffer'[s] = NoBuffer
    <3>1. buffer'[s] = [buffer[s] EXCEPT !.lines = <<>>, !.pending = FALSE]
      BY <2>2, StreamTypes
    <3>2. buffer[s] = NoBuffer =>
            buffer[s].lines = <<>> /\ ~buffer[s].pending /\ ~buffer[s].armed /\ ~buffer[s].exists
      BY DEF NoBuffer
    <3>3. /\ buffer'[s] \in BufferType /\ buffer'[s].lines = <<>> /\ ~buffer'[s].pending
          /\ buffer'[s].armed = buffer[s].armed /\ buffer'[s].exists = buffer[s].exists
      <4>1. buffer[s] \in BufferType /\ <<>> \in Seq(Nat)
        BY StreamTypes
      <4>2. QED
        BY <3>1, <4>1 DEF BufferType
    <3>4. QED
      BY <3>2, <3>3 DEF BufferType, NoBuffer
  <2>5. QED
    BY <2>1, <2>2, <2>3, <2>4 DEF Goes
<1>2. HandOver(s) /\ emitted' = emitted
  BY DEF FlushStream
<1>3. CASE buffer[s].lines = <<>>
  BY <1>1, <1>2, <1>3, StreamTypes DEF HandOver, Carries
<1>4. CASE buffer[s].lines # <<>> /\ s \in Prompt
  BY <1>1, <1>2, <1>4, StreamTypes DEF HandOver, Post, Carries
<1>5. CASE buffer[s].lines # <<>> /\ s \notin Prompt
  BY <1>1, <1>2, <1>5, StreamTypes DEF HandOver, Carries
<1>6. QED
  BY <1>3, <1>4, <1>5

LEMMA BatchGoes ==
  ASSUME CarriedInv, NEW s \in Streams, EmitBatch(s)
  PROVE  \E i \in 1 .. Len(taken[s]) :
           /\ Goes(s, reader[s].at, reader[s].next, reader[s].own, buffer[s].lines)
           /\ Carries(s, SubSeq(taken[s], 1, i - 1) \o SubSeq(taken[s], i + 1, Len(taken[s])),
                      events[s] \o Batch(taken[s][i]) \o <<>>, emitted[s], sent[s] \o taken[s][i])
<1>1. PICK i \in 1 .. Len(taken[s]) :
        /\ Post(s, taken[s][i], <<>>)
        /\ taken' = [taken EXCEPT ![s] = SubSeq(@, 1, i - 1) \o SubSeq(@, i + 1, Len(taken[s]))]
  BY DEF EmitBatch
<1>2. reader' = reader /\ buffer' = buffer /\ emitted' = emitted
  BY DEF EmitBatch
<1>3. Goes(s, reader[s].at, reader[s].next, reader[s].own, buffer[s].lines)
  BY <1>2 DEF Goes, CarriedInv, Carried
<1>4. Carries(s, SubSeq(taken[s], 1, i - 1) \o SubSeq(taken[s], i + 1, Len(taken[s])),
              events[s] \o Batch(taken[s][i]) \o <<>>, emitted[s], sent[s] \o taken[s][i])
  BY <1>1, <1>2, StreamTypes DEF Post, Carries
<1>5. QED
  BY <1>3, <1>4

LEMMA StopGoes ==
  ASSUME CarriedInv, NEW s \in Streams, StopLogStream(s)
  PROVE  /\ Goes(s, reader[s].at, reader[s].next, reader[s].own, buffer[s].lines)
         /\ Carries(s, taken[s], events[s], emitted[s], sent[s])
<1>1. reader[s].at \in {"draining", "over"} => buffer[s] = NoBuffer
  BY DEF CarriedInv, Carried
<1>2. QED
  BY <1>1, StreamTypes DEF StopLogStream, Goes, Carries, ReaderType, BufferType

LEMMA TimerGoes ==
  ASSUME CarriedInv, NEW s \in Streams, TimerFires(s)
  PROVE  /\ Goes(s, reader[s].at, reader[s].next, reader[s].own, buffer[s].lines)
         /\ Carries(s, taken[s], events[s], emitted[s], sent[s])
<1>1. reader[s].at \in {"draining", "over"} => buffer[s] = NoBuffer
  BY DEF CarriedInv, Carried
<1>2. reader[s].at \notin {"draining", "over"}
  BY <1>1 DEF TimerFires, NoBuffer
<1>3. QED
  BY <1>2, StreamTypes DEF TimerFires, Goes, Carries, ReaderType, BufferType

LEMMA HandleGoes ==
  ASSUME CarriedInv, NEW s \in Streams, Handle(s)
  PROVE  /\ Goes(s, reader[s].at, reader[s].next, reader[s].own, buffer[s].lines)
         /\ Carries(s, taken[s], Tail(events[s]), emitted[s], sent[s])
<1>1. reader[s].at \in {"draining", "over"} => buffer[s] = NoBuffer
  BY DEF CarriedInv, Carried
<1>2. QED
  BY <1>1, StreamTypes DEF Handle, Goes, Carries

(* The viewer's own steps and the answer touch no stream. *)
LEMMA ViewerGoes ==
  ASSUME CarriedInv, NEW s \in Streams,
         Leave \/ (\E t \in Streams : (\E h \in 0 .. Length[t] - 1 : StartStreaming(t, h)) \/ Answer(t))
           \/ UNCHANGED vars
  PROVE  /\ Goes(s, reader[s].at, reader[s].next, reader[s].own, buffer[s].lines)
         /\ Carries(s, taken[s], events[s], emitted[s], sent[s])
<1>1. reader[s].at \in {"draining", "over"} => buffer[s] = NoBuffer
  BY DEF CarriedInv, Carried
<1>2. UNCHANGED <<reader, buffer, taken, events, emitted, sent>>
  BY DEF Leave, StartStreaming, Answer
<1>3. QED
  BY <1>1, <1>2 DEF Goes, Carries

-----------------------------------------------------------------------------
(* Each step keeps what holds of the lines of a stream.                    *)

(* The values of a step decide. *)
LEMMA MoveCarried ==
  ASSUME NEW s \in Streams, NEW a, NEW n, NEW o, NEW l, NEW k, NEW e, NEW m, NEW d,
         Goes(s, a, n, o, l), Carries(s, k, e, m, d), Holds(s, a, n, o, l, k, e, m, d)
  PROVE  Carried(s)'
BY DEF Goes, Carries, Carried

(* A stream that a step does not touch. *)
LEMMA RestCarried ==
  ASSUME NEW s \in Streams, NEW t \in Streams \ {s}, Carried(t),
         NEW a, NEW n, NEW o, NEW l, NEW k, NEW e, NEW m, NEW d,
         Goes(s, a, n, o, l), Carries(s, k, e, m, d)
  PROVE  Carried(t)'
BY DEF Goes, Carries, Carried

(* Lines and batches of lines are numbers. *)
LEMMA LinesType ==
  ASSUME NEW s \in Streams, NEW n, NEW o, NEW l, NEW k, InLog(s, n, o, l, k)
  PROVE  /\ Length[s] \in Nat /\ n \in Nat /\ n > 0 /\ o \in Seq(Nat) /\ l \in Seq(Nat)
         /\ k \in Seq(Seq(Nat))
<1>1. Length[s] \in Nat /\ Lines(s) \subseteq Nat
  BY LogAssumption DEF Lines
<1>2. Seq(Lines(s)) \subseteq Seq(Nat)
  BY <1>1
<1>3. k \in Seq(Seq(Nat))
  BY <1>2 DEF InLog
<1>4. QED
  BY <1>1, <1>2, <1>3 DEF InLog

LEMMA LineHolds ==
  ASSUME NEW s \in Streams, NEW n \in Lines(s), NEW o, NEW l, NEW k, NEW e,
         NEW m \in Seq(Nat), NEW d \in Seq(Nat),
         Holds(s, "reading", n, o, l, k, e, m, d)
  PROVE  Holds(s, "reading", n + 1, o, Append(l, n), k, e, Append(m, n), d)
<1>1. /\ Length[s] \in Nat /\ n \in Nat /\ n > 0 /\ o \in Seq(Nat) /\ l \in Seq(Nat)
      /\ k \in Seq(Seq(Nat)) /\ InLog(s, n, o, l, k)
  BY LinesType DEF Holds
<1>2. InLog(s, n + 1, o, Append(l, n), k)
  <2>1. n + 1 \in 1 .. Length[s] + 1
    BY <1>1 DEF Lines
  <2>2. Append(l, n) \in Seq(Lines(s))
    BY <1>1 DEF InLog
  <2>3. QED
    BY <1>1, <2>1, <2>2 DEF InLog
<1>3. o = <<>> /\ Held("reading", o, Append(l, n), k, e)
  BY DEF Holds, Held
<1>4. Counted(o, Append(l, n), k, Append(m, n), d)
  <2>1. Len(Append(l, n)) = Len(l) + 1 /\ Len(Append(m, n)) = Len(m) + 1 /\ Len(o) = 0
        /\ Len(l) \in Nat /\ Len(m) \in Nat /\ Len(d) \in Nat
    BY <1>1, <1>3
  <2>2. Flat(k) \in Seq(Nat)
    BY <1>1, FlatType
  <2>3. Len(Flat(k)) \in Nat
    BY <2>2
  <2>4. QED
    BY <2>1, <2>3 DEF Holds, Counted
<1>5. ASSUME s \in Prompt
      PROVE  Ordered(o, Append(l, n), k, Append(m, n), d) /\ Ending("reading", o, Append(l, n), e)
             /\ Runs("reading", n + 1, o, Append(l, n), e)
  <2>1. Ordered(o, l, k, m, d) /\ Runs("reading", n, o, l, e)
    BY <1>5 DEF Holds
  <2>2. Append(m, n) = d \o o \o Append(l, n)
    <3>1. m = d \o l /\ d \o o = d
      BY <1>1, <1>3, <2>1 DEF Ordered
    <3>2. Append(d \o l, n) = d \o Append(l, n)
      BY <1>1, AppendLater
    <3>3. QED
      BY <3>1, <3>2
  <2>3. Run(Append(l, n))
    BY <1>1, <2>1 DEF Run, Runs
  <2>4. n + 1 = Append(l, n)[1] + Len(Append(l, n))
    <3>1. Len(Append(l, n)) = Len(l) + 1 /\ Len(l) \in Nat
          /\ Append(l, n)[1] = IF l = <<>> THEN n ELSE l[1]
      BY <1>1
    <3>2. CASE l = <<>>
      BY <1>1, <3>1, <3>2
    <3>3. CASE l # <<>>
      <4>1. l[1] \in Nat /\ n = l[1] + Len(l) /\ Append(l, n)[1] = l[1]
        BY <1>1, <2>1, <3>1, <3>3 DEF Runs
      <4>2. n + 1 = l[1] + (Len(l) + 1)
        <5>1. \A x, y \in Nat : n = x + y => n + 1 = x + (y + 1)
          OBVIOUS
        <5>2. QED
          BY <3>1, <4>1, <5>1, Zenon
      <4>3. QED
        BY <3>1, <4>1, <4>2, Zenon
    <3>4. QED
      BY <3>2, <3>3
  <2>5. QED
    BY <2>1, <2>2, <2>3, <2>4 DEF Ordered, Ending, Runs
<1>6. QED
  BY <1>2, <1>3, <1>4, <1>5 DEF Holds

LEMMA SeekHolds ==
  ASSUME NEW s \in Streams, NEW n, NEW o, NEW l, NEW k, NEW e, NEW m, NEW d,
         NEW a \in {"none", "reading"}, NEW i \in 1 .. Length[s] + 1,
         Holds(s, a, n, o, l, k, e, m, d), s \in Prompt => l = <<>>
  PROVE  Holds(s, "reading", i, o, l, k, e, m, d)
BY DEF Holds, InLog, Held, Ending, Runs

LEMMA EndHolds ==
  ASSUME NEW s \in Streams, NEW n, NEW o, NEW l, NEW k, NEW e \in Seq(LineEvent), NEW m, NEW d,
         NEW a \in {"failed", "closing"},
         Holds(s, "reading", n, o, l, k, e, m, d)
  PROVE  Holds(s, a, n, o, l, k, e, m, d)
<1>1. \A i \in 1 .. Len(e) : e[i].kind \notin Ends
  <2>1. \A i \in 1 .. Len(e) : e[i] \in LineEvent
    OBVIOUS
  <2>2. QED
    BY <2>1 DEF LineEvent, Ends
<1>2. QED
  BY <1>1 DEF Holds, Held, Ending, Runs

LEMMA TakeHolds ==
  ASSUME NEW s \in Streams, NEW n, NEW o, NEW l, NEW k, NEW e, NEW m \in Seq(Nat), NEW d \in Seq(Nat),
         NEW a, NEW b, (a = "failed" /\ b = "reporting") \/ (a = "closing" /\ b = "draining"),
         Holds(s, a, n, o, l, k, e, m, d)
  PROVE  Holds(s, b, n, l, <<>>, k, e, m, d)
<1>1. /\ Length[s] \in Nat /\ o \in Seq(Nat) /\ l \in Seq(Nat)
      /\ k \in Seq(Seq(Nat)) /\ InLog(s, n, o, l, k) /\ o = <<>>
  BY LinesType DEF Holds, Held
<1>2. InLog(s, n, l, <<>>, k) /\ Held(b, l, <<>>, k, e)
  BY <1>1 DEF InLog, Held
<1>3. Counted(l, <<>>, k, m, d)
  <2>1. Flat(k) \in Seq(Nat)
    BY <1>1, FlatType
  <2>2. QED
    BY <1>1, <2>1 DEF Holds, Counted
<1>4. ASSUME s \in Prompt
      PROVE  Ordered(l, <<>>, k, m, d) /\ Ending(b, l, <<>>, e) /\ Runs(b, n, l, <<>>, e)
  <2>1. Ordered(o, l, k, m, d) /\ Runs(a, n, o, l, e) /\ Ending(a, o, l, e)
    BY <1>4 DEF Holds
  <2>2. d \o <<>> \o l = d \o l /\ d \o l \o <<>> = d \o l
    BY <1>1
  <2>3. Ordered(l, <<>>, k, m, d)
    BY <1>1, <2>1, <2>2 DEF Ordered
  <2>4. Runs(b, n, l, <<>>, e)
    BY <1>1, <2>1 DEF Runs, Run
  <2>5. Ending(b, l, <<>>, e)
    BY <2>1 DEF Ending
  <2>6. QED
    BY <2>3, <2>4, <2>5
<1>5. QED
  BY <1>2, <1>3, <1>4 DEF Holds

(* f is e with the batch l, unless it is empty, and z behind it. *)
Joined(f, e, l, z) ==
  LET c == IF l = <<>> THEN 0 ELSE 1 IN
  /\ f \in Seq(AnyEvent) /\ Len(e) \in Nat /\ Len(z) \in Nat /\ Len(f) = Len(e) + c + Len(z)
  /\ \A i \in 1 .. Len(e) : f[i] = e[i]
  /\ l # <<>> => f[Len(e) + 1] = [kind |-> "lines", lines |-> l]
  /\ \A i \in 1 .. Len(z) : f[Len(e) + c + i] = z[i]

(* That is what a step that posts makes of the events. *)
LEMMA PostedEvents ==
  ASSUME NEW e \in Seq(AnyEvent), NEW l \in Seq(Nat), NEW z \in Seq(AnyEvent)
  PROVE  Joined(e \o Batch(l) \o z, e, l, z)
<1> DEFINE x == Batch(l)  y == e \o x  f == y \o z
<1>1. x \in Seq(AnyEvent)
  BY BatchType
<1>2. Len(x) = IF l = <<>> THEN 0 ELSE 1
  BY DEF Batch
<1>3. l # <<>> => x[1] = [kind |-> "lines", lines |-> l]
  BY DEF Batch
<1> HIDE DEF x
<1>4. Len(e) \in Nat /\ Len(z) \in Nat /\ Len(x) \in {0, 1}
  BY <1>2
<1>5. /\ y \in Seq(AnyEvent) /\ Len(y) = Len(e) + Len(x)
      /\ \A j \in 1 .. Len(e) + Len(x) : y[j] = IF j <= Len(e) THEN e[j] ELSE x[j - Len(e)]
  BY <1>1, Concat
<1> HIDE DEF y
<1>6. /\ f \in Seq(AnyEvent) /\ Len(f) = Len(y) + Len(z)
      /\ \A j \in 1 .. Len(y) + Len(z) : f[j] = IF j <= Len(y) THEN y[j] ELSE z[j - Len(y)]
  <2>1. y \in Seq(AnyEvent)
    BY <1>5
  <2>2. QED
    BY <2>1, Concat, Zenon
<1> HIDE DEF f
<1>7. ASSUME NEW i \in 1 .. Len(e) PROVE f[i] = e[i]
  <2>1. i \in 1 .. Len(y) + Len(z) /\ i <= Len(y) /\ i \in 1 .. Len(e) + Len(x) /\ i <= Len(e)
    BY <1>4, <1>5
  <2>2. QED
    BY <1>5, <1>6, <2>1
<1>8. ASSUME l # <<>> PROVE f[Len(e) + 1] = [kind |-> "lines", lines |-> l]
  <2>1. Len(x) = 1
    BY <1>2, <1>8
  <2>2. /\ Len(e) + 1 \in 1 .. Len(y) + Len(z) /\ Len(e) + 1 <= Len(y) /\ Len(e) + 1 \in 1 .. Len(e) + Len(x)
        /\ ~(Len(e) + 1 <= Len(e)) /\ (Len(e) + 1) - Len(e) = 1
    BY <1>4, <1>5, <2>1
  <2>3. f[Len(e) + 1] = y[Len(e) + 1] /\ y[Len(e) + 1] = x[1]
    BY <1>5, <1>6, <2>2
  <2>4. QED
    BY <1>3, <1>8, <2>3
<1>9. ASSUME NEW i \in 1 .. Len(z) PROVE f[Len(e) + Len(x) + i] = z[i]
  <2>1. /\ Len(e) + Len(x) + i \in 1 .. Len(y) + Len(z) /\ ~(Len(e) + Len(x) + i <= Len(y))
        /\ (Len(e) + Len(x) + i) - Len(y) = i
    BY <1>4, <1>5
  <2>2. QED
    BY <1>6, <2>1
<1>10. Len(f) = Len(e) + Len(x) + Len(z)
  BY <1>5, <1>6
<1>11. Joined(f, e, l, z)
  BY <1>2, <1>4, <1>6, <1>7, <1>8, <1>9, <1>10 DEF Joined
<1>12. QED
  BY <1>11 DEF f, x, y

(* What an event of such a sequence is. *)
LEMMA PostedEach ==
  ASSUME NEW e \in Seq(AnyEvent), NEW l \in Seq(Nat), NEW z \in Seq(AnyEvent), Len(z) <= 1,
         NEW f, Joined(f, e, l, z), NEW i \in 1 .. Len(f)
  PROVE  \/ i <= Len(e) /\ i \in 1 .. Len(e) /\ f[i] = e[i]
         \/ l # <<>> /\ i = Len(e) + 1 /\ f[i].kind = "lines" /\ f[i].lines = l
         \/ Len(z) = 1 /\ i = Len(f) /\ f[i] = z[1]
<1> DEFINE c == IF l = <<>> THEN 0 ELSE 1
<1>1. /\ c \in {0, 1} /\ (c = 1 => l # <<>>) /\ (l # <<>> => c = 1)
      /\ Len(e) \in Nat /\ Len(z) \in {0, 1} /\ Len(f) = Len(e) + c + Len(z)
      /\ \A j \in 1 .. Len(e) : f[j] = e[j]
      /\ l # <<>> => f[Len(e) + 1] = [kind |-> "lines", lines |-> l]
      /\ \A j \in 1 .. Len(z) : f[Len(e) + c + j] = z[j]
  <2>1. /\ Len(e) \in Nat /\ Len(z) \in Nat /\ Len(f) = Len(e) + c + Len(z)
        /\ \A j \in 1 .. Len(e) : f[j] = e[j]
        /\ l # <<>> => f[Len(e) + 1] = [kind |-> "lines", lines |-> l]
        /\ \A j \in 1 .. Len(z) : f[Len(e) + c + j] = z[j]
    BY Zenon DEF Joined
  <2>2. Len(z) \in {0, 1}
    <3>1. \A x \in Nat : x <= 1 => x \in {0, 1}
      OBVIOUS
    <3>2. QED
      BY <2>1, <3>1, Zenon
  <2>3. c \in {0, 1} /\ (c = 1 => l # <<>>) /\ (l # <<>> => c = 1)
    OBVIOUS
  <2>4. QED
    BY <2>1, <2>2, <2>3, Zenon
<1> HIDE DEF c
<1>2. CASE i <= Len(e)
  <2>1. i \in 1 .. Len(e)
    BY <1>1, <1>2
  <2>2. QED
    BY <1>1, <1>2, <2>1
<1>3. CASE l # <<>> /\ i = Len(e) + 1
  BY <1>1, <1>3
<1>4. CASE ~(i <= Len(e)) /\ ~(l # <<>> /\ i = Len(e) + 1)
  <2>1. Len(z) = 1 /\ i = Len(e) + c + 1 /\ i = Len(f)
    BY <1>1, <1>4
  <2>2. 1 \in 1 .. Len(z)
    BY <2>1
  <2>3. QED
    BY <1>1, <2>1, <2>2
<1>5. QED
  BY <1>2, <1>3, <1>4

(* Concatenation is associative, and the empty sequence is its unit. *)
LEMMA Regroup ==
  ASSUME NEW d \in Seq(Nat), NEW o \in Seq(Nat)
  PROVE  /\ d \o o \o <<>> = d \o o /\ d \o <<>> \o o = d \o o
         /\ (d \o o) \o <<>> \o <<>> = d \o o
OBVIOUS

(* Lines that are sent by the goroutine, or by a callback. *)
LEMMA SendHolds ==
  ASSUME NEW s \in Streams, NEW o, NEW l, NEW k, NEW m \in Seq(Nat), NEW d \in Seq(Nat), NEW n,
         InLog(s, n, o, l, k), Counted(o, l, k, m, d)
  PROVE  /\ Counted(<<>>, l, k, m, d \o o)
         /\ o = <<>> => Counted(o, <<>>, k, m, d \o l) /\ Counted(o, <<>>, Append(k, l), m, d)
         /\ l = <<>> /\ Ordered(o, l, k, m, d) => Ordered(<<>>, l, k, m, d \o o)
         /\ o = <<>> /\ Ordered(o, l, k, m, d) => Ordered(o, <<>>, k, m, d \o l)
<1>1. o \in Seq(Nat) /\ l \in Seq(Nat) /\ k \in Seq(Seq(Nat))
  BY LinesType
<1>2. Flat(k) \in Seq(Nat) /\ Len(Flat(Append(k, l))) = Len(Flat(k)) + Len(l)
  BY <1>1, FlatType, FlatMore
<1>3. Len(Flat(k)) \in Nat
  BY <1>2
<1>4. Counted(<<>>, l, k, m, d \o o)
  BY <1>1, <1>3 DEF Counted
<1>5. o = <<>> => Counted(o, <<>>, k, m, d \o l)
  BY <1>1, <1>3 DEF Counted
<1>6. o = <<>> => Counted(o, <<>>, Append(k, l), m, d)
  <2>1. Len(o) \in Nat /\ Len(l) \in Nat /\ Len(d) \in Nat /\ (o = <<>> => Len(o) = 0) /\ Len(<<>>) = 0
    BY <1>1
  <2>2. QED
    BY <1>2, <1>3, <2>1 DEF Counted
<1>7. l = <<>> /\ Ordered(o, l, k, m, d) => Ordered(<<>>, l, k, m, d \o o)
  BY <1>1, Regroup DEF Ordered
<1>8. o = <<>> /\ Ordered(o, l, k, m, d) => Ordered(o, <<>>, k, m, d \o l)
  <2>1. d \o l \in Seq(Nat)
    BY <1>1
  <2>2. d \o <<>> \o l = d \o l /\ (d \o l) \o <<>> \o <<>> = d \o l
    BY <1>1, Regroup
  <2>3. QED
    BY <2>2 DEF Ordered
<1>9. QED
  BY <1>4, <1>5, <1>6, <1>7, <1>8

LEMMA ReportHolds ==
  ASSUME NEW s \in Streams, NEW n, NEW o, NEW l, NEW k, NEW e \in Seq(AnyEvent),
         NEW m \in Seq(Nat), NEW d \in Seq(Nat), NEW a, NEW b, NEW kind \in Ends,
         \/ a = "reporting" /\ b = "closing" /\ kind = "error" /\ e \in Seq(LineEvent)
         \/ a = "draining" /\ b = "over" /\ kind = "done",
         Holds(s, a, n, o, l, k, e, m, d)
  PROVE  Holds(s, b, n, <<>>, l, k, e \o Batch(o) \o End(kind), m, d \o o)
<1> DEFINE f == e \o Batch(o) \o End(kind)
<1>1. /\ o \in Seq(Nat) /\ l \in Seq(Nat) /\ k \in Seq(Seq(Nat)) /\ InLog(s, n, o, l, k) /\ l = <<>>
      /\ Counted(o, l, k, m, d)
  BY LinesType DEF Holds, Held
<1>2. InLog(s, n, <<>>, l, k) /\ Held(b, <<>>, l, k, f) /\ Counted(<<>>, l, k, m, d \o o)
  <2>1. <<>> \in Seq(Lines(s))
    OBVIOUS
  <2>2. InLog(s, n, <<>>, l, k)
    BY <1>1, <2>1 DEF InLog
  <2> HIDE DEF f
  <2>3. Held(b, <<>>, l, k, f)
    BY <1>1 DEF Held
  <2>4. QED
    BY <1>1, <2>2, <2>3, SendHolds
<1>3. ASSUME s \in Prompt
      PROVE  Ordered(<<>>, l, k, m, d \o o) /\ Ending(b, <<>>, l, f) /\ Runs(b, n, <<>>, l, f)
  <2>1. Ordered(o, l, k, m, d) /\ Runs(a, n, o, l, e) /\ Ending(a, o, l, e)
    BY <1>3 DEF Holds
  <2>2. Ordered(<<>>, l, k, m, d \o o)
    BY <1>1, <2>1, SendHolds
  <2>3. End(kind) \in Seq(AnyEvent) /\ Len(End(kind)) = 1 /\ End(kind)[1].kind = kind /\ End(kind)[1].lines = <<>>
    BY EndType DEF End
  <2>0. Joined(f, e, o, End(kind))
    BY <1>1, <2>3, PostedEvents
  <2> HIDE DEF f
  <2>4. /\ Len(e) \in Nat /\ Len(f) = Len(e) + (IF o = <<>> THEN 0 ELSE 1) + 1
        /\ f[Len(e) + (IF o = <<>> THEN 0 ELSE 1) + 1] = End(kind)[1]
    <3>1. 1 \in 1 .. Len(End(kind))
      BY <2>3
    <3>2. QED
      BY <2>0, <2>3, <3>1 DEF Joined
  <2>5. ASSUME NEW i \in 1 .. Len(f)
        PROVE  \/ i <= Len(e) /\ i \in 1 .. Len(e) /\ f[i] = e[i]
               \/ o # <<>> /\ i = Len(e) + 1 /\ f[i].kind = "lines" /\ f[i].lines = o
               \/ i = Len(f) /\ f[i] = End(kind)[1]
    <3>1. Len(End(kind)) <= 1
      BY <2>3
    <3>2. \/ i <= Len(e) /\ i \in 1 .. Len(e) /\ f[i] = e[i]
          \/ o # <<>> /\ i = Len(e) + 1 /\ f[i].kind = "lines" /\ f[i].lines = o
          \/ Len(End(kind)) = 1 /\ i = Len(f) /\ f[i] = End(kind)[1]
      <4>1. PICK z : z = End(kind)
        OBVIOUS
      <4>2. z \in Seq(AnyEvent) /\ Len(z) <= 1 /\ Joined(f, e, o, z) /\ o \in Seq(Nat) /\ i \in 1 .. Len(f)
        BY <1>1, <2>0, <2>3, <3>1, <4>1
      <4>3. \/ i <= Len(e) /\ i \in 1 .. Len(e) /\ f[i] = e[i]
            \/ o # <<>> /\ i = Len(e) + 1 /\ f[i].kind = "lines" /\ f[i].lines = o
            \/ Len(z) = 1 /\ i = Len(f) /\ f[i] = z[1]
        BY <4>2, PostedEach
      <4>4. QED
        BY <4>1, <4>3
    <3>3. QED
      BY <3>2, Zenon
  <2>6. Runs(b, n, <<>>, l, f)
    <3>1. Run(<<>>)
      BY DEF Run
    <3>2. \A i \in 1 .. Len(f) : Run(f[i].lines)
      BY <2>1, <2>3, <2>5, <3>1 DEF Runs
    <3>3. QED
      BY <1>1, <3>1, <3>2 DEF Runs
  <2>7. Ending(b, <<>>, l, f)
    <3>1. CASE b = "closing"
      <4>1. \A i \in 1 .. Len(e) : e[i] \in LineEvent
        BY <3>1
      <4>2. \A i \in 1 .. Len(e) : e[i].kind \notin Ends
        BY <4>1 DEF LineEvent, Ends
      <4>3. \A i \in 1 .. Len(f) : f[i].kind \in Ends => i = Len(f) /\ f[i].kind = "error"
        BY <2>3, <2>5, <3>1, <4>2 DEF Ends
      <4>4. QED
        BY <1>1, <3>1, <4>3 DEF Ending
    <3>2. CASE b = "over"
      <4>1. ASSUME NEW i \in 1 .. Len(f) - 1, f[i].kind \in Ends
            PROVE  i = Len(f) - 1 /\ f[i].kind = "error" /\ f[i + 1].kind = "done"
        <5>1. i \in 1 .. Len(f) /\ i # Len(f)
          BY <2>4
        <5>2. i \in 1 .. Len(e) /\ f[i] = e[i]
          BY <2>5, <4>1, <5>1 DEF Ends
        <5>3. i = Len(e) /\ e[i].kind = "error" /\ o = <<>>
          BY <2>1, <3>2, <4>1, <5>2 DEF Ending
        <5>4. Len(f) = Len(e) + 1 /\ f[Len(e) + 1].kind = "done"
          BY <2>3, <2>4, <3>2, <5>3
        <5>5. QED
          BY <2>4, <5>2, <5>3, <5>4
      <4>2. QED
        BY <3>2, <4>1 DEF Ending
    <3>3. QED
      BY <3>1, <3>2
  <2>8. QED
    BY <2>2, <2>6, <2>7
<1>4. QED
  BY <1>2, <1>3 DEF Holds

LEMMA FlushHolds ==
  ASSUME NEW s \in Prompt, NEW n, NEW o, NEW l, NEW k, NEW e \in Seq(AnyEvent),
         NEW m \in Seq(Nat), NEW d \in Seq(Nat), NEW a, l # <<>>,
         Holds(s, a, n, o, l, k, e, m, d)
  PROVE  Holds(s, a, n, o, <<>>, k, e \o Batch(l) \o <<>>, m, d \o l)
<1> DEFINE f == e \o Batch(l) \o <<>>
<1>1. /\ s \in Streams /\ o \in Seq(Nat) /\ l \in Seq(Nat) /\ k \in Seq(Seq(Nat)) /\ InLog(s, n, o, l, k)
      /\ Counted(o, l, k, m, d) /\ o = <<>> /\ a \notin {"none", "reporting", "draining", "over"}
      /\ Ordered(o, l, k, m, d) /\ Runs(a, n, o, l, e) /\ Ending(a, o, l, e)
  BY LinesType, LogAssumption DEF Holds, Held
<1>2. /\ Joined(f, e, l, <<>>) /\ <<>> \in Seq(AnyEvent) /\ Len(<<>>) = 0
  <2>1. PICK z : z = <<>>
    OBVIOUS
  <2>2. z \in Seq(AnyEvent) /\ Len(z) = 0
    BY <2>1
  <2>3. Joined(e \o Batch(l) \o z, e, l, z)
    BY <1>1, <2>2, PostedEvents
  <2>4. QED
    BY <2>1, <2>2, <2>3, Zenon
<1> HIDE DEF f
<1>3. ASSUME NEW i \in 1 .. Len(f)
      PROVE  \/ i \in 1 .. Len(e) /\ f[i] = e[i]
             \/ f[i].kind = "lines" /\ f[i].lines = l
  <2>1. PICK z : z = <<>>
    OBVIOUS
  <2>2. z \in Seq(AnyEvent) /\ Len(z) <= 1 /\ Len(z) # 1 /\ Joined(f, e, l, z)
    BY <1>2, <2>1
  <2>3. QED
    BY <1>1, <2>2, PostedEach
<1>4. InLog(s, n, o, <<>>, k)
  BY <1>1 DEF InLog
<1>5. Held(a, o, <<>>, k, f)
  BY <1>1 DEF Held
<1>6. Counted(o, <<>>, k, m, d \o l) /\ Ordered(o, <<>>, k, m, d \o l)
  BY <1>1, SendHolds
<1>7. Ending(a, o, <<>>, f)
  <2>1. \A i \in 1 .. Len(f) : a = "closing" => f[i].kind \notin Ends
    BY <1>1, <1>3 DEF Ending, Ends
  <2>2. QED
    BY <1>1, <2>1 DEF Ending
<1>8. Runs(a, n, o, <<>>, f)
  <2>1. \A i \in 1 .. Len(f) : Run(f[i].lines)
    BY <1>1, <1>3 DEF Runs
  <2>2. QED
    BY <1>1, <2>1 DEF Runs, Run
<1>9. QED
  BY <1>4, <1>5, <1>6, <1>7, <1>8 DEF Holds, f

LEMMA KeepHolds ==
  ASSUME NEW s \in Streams, s \notin Prompt, NEW n, NEW o, NEW l, NEW k, NEW e,
         NEW m \in Seq(Nat), NEW d \in Seq(Nat), NEW a, l # <<>>,
         Holds(s, a, n, o, l, k, e, m, d)
  PROVE  Holds(s, a, n, o, <<>>, Append(k, l), e, m, d)
<1>1. /\ InLog(s, n, o, l, k) /\ Counted(o, l, k, m, d)
      /\ a \notin {"none", "reporting", "draining", "over"} /\ o = <<>>
  BY DEF Holds, Held
<1>2. InLog(s, n, o, <<>>, Append(k, l))
  BY <1>1 DEF InLog
<1>3. Counted(o, <<>>, Append(k, l), m, d)
  BY <1>1, SendHolds
<1>4. Held(a, o, <<>>, Append(k, l), e)
  BY <1>1 DEF Held
<1>5. QED
  BY <1>2, <1>3, <1>4 DEF Holds

LEMMA BatchHolds ==
  ASSUME NEW s \in Streams, NEW n, NEW o, NEW l, NEW k, NEW e, NEW f,
         NEW m \in Seq(Nat), NEW d \in Seq(Nat), NEW a, NEW i \in 1 .. Len(k),
         Holds(s, a, n, o, l, k, e, m, d)
  PROVE  Holds(s, a, n, o, l, SubSeq(k, 1, i - 1) \o SubSeq(k, i + 1, Len(k)), f, m, d \o k[i])
<1> DEFINE K == SubSeq(k, 1, i - 1) \o SubSeq(k, i + 1, Len(k))
<1>1. /\ InLog(s, n, o, l, k) /\ Counted(o, l, k, m, d) /\ k # <<>>
      /\ o \in Seq(Nat) /\ l \in Seq(Nat) /\ k \in Seq(Seq(Nat)) /\ k \in Seq(Seq(Lines(s)))
  <2>1. k # <<>>
    OBVIOUS
  <2>2. QED
    BY <2>1, LinesType DEF Holds, InLog
<1>2. a # "none" /\ s \notin Prompt
  BY <1>1 DEF Holds, Held, Ordered
<1>3. K \in Seq(Seq(Nat)) /\ Len(Flat(k)) = Len(Flat(K)) + Len(k[i])
  BY <1>1, FlatLess
<1>4. K \in Seq(Seq(Lines(s)))
  <2> DEFINE x == SubSeq(k, 1, i - 1)  y == SubSeq(k, i + 1, Len(k))
  <2>1. x \in Seq(Seq(Lines(s))) /\ y \in Seq(Seq(Lines(s)))
    BY <1>1
  <2> HIDE DEF x, y
  <2>2. x \o y \in Seq(Seq(Lines(s)))
    BY <2>1, Concat
  <2>3. QED
    BY <2>2 DEF x, y
<1> HIDE DEF K
<1>5. Flat(k) \in Seq(Nat) /\ Flat(K) \in Seq(Nat) /\ k[i] \in Seq(Nat)
  <2>1. Flat(k) \in Seq(Nat) /\ Flat(K) \in Seq(Nat)
    BY <1>1, <1>3, FlatType, Zenon
  <2>2. k[i] \in Seq(Nat)
    BY <1>1
  <2>3. QED
    BY <2>1, <2>2
<1>6. Counted(o, l, K, m, d \o k[i])
  <2>1. Len(d \o k[i]) = Len(d) + Len(k[i])
    BY <1>5, Concat
  <2>2. Len(d) \in Nat /\ Len(k[i]) \in Nat /\ Len(Flat(K)) \in Nat /\ Len(o) \in Nat /\ Len(l) \in Nat
    BY <1>1, <1>5
  <2>3. QED
    BY <1>1, <1>3, <2>1, <2>2 DEF Counted
<1>7. InLog(s, n, o, l, K) /\ Held(a, o, l, K, f)
  <2>1. Held(a, o, l, k, e)
    BY DEF Holds
  <2>2. Held(a, o, l, K, f)
    BY <1>2, <2>1 DEF Held
  <2>3. QED
    BY <1>1, <1>4, <2>2 DEF InLog
<1>8. QED
  BY <1>2, <1>6, <1>7 DEF Holds, K

LEMMA HandleHolds ==
  ASSUME NEW s \in Streams, NEW n, NEW o, NEW l, NEW k, NEW e \in Seq(AnyEvent), e # <<>>,
         NEW m, NEW d, NEW a, Holds(s, a, n, o, l, k, e, m, d)
  PROVE  Holds(s, a, n, o, l, k, Tail(e), m, d)
<1>1. /\ Tail(e) \in Seq(AnyEvent) /\ Len(Tail(e)) = Len(e) - 1 /\ Len(e) \in Nat
      /\ \A i \in 1 .. Len(e) - 1 : Tail(e)[i] = e[i + 1]
  OBVIOUS
<1>2. Held(a, o, l, k, Tail(e))
  BY DEF Holds, Held
<1> DEFINE f == Tail(e)
<1>3. Len(f) = Len(e) - 1 /\ Len(e) \in Nat /\ \A i \in 1 .. Len(f) : f[i] = e[i + 1] /\ i + 1 \in 1 .. Len(e)
  BY <1>1
<1> HIDE DEF f
<1>4. ASSUME s \in Prompt
      PROVE  Ending(a, o, l, f) /\ Runs(a, n, o, l, f)
  <2>1. Ending(a, o, l, e) /\ Runs(a, n, o, l, e)
    BY <1>4 DEF Holds
  <2>2. Runs(a, n, o, l, f)
    BY <1>3, <2>1 DEF Runs
  <2>3. Ending(a, o, l, f)
    <3>1. ASSUME a \in {"closing", "draining"}, NEW i \in 1 .. Len(f), f[i].kind \in Ends
          PROVE  i = Len(f) /\ f[i].kind = "error" /\ o = <<>> /\ l = <<>>
      BY <1>3, <2>1, <3>1 DEF Ending
    <3>2. ASSUME a = "over", NEW i \in 1 .. Len(f) - 1, f[i].kind \in Ends
          PROVE  i = Len(f) - 1 /\ f[i].kind = "error" /\ f[i + 1].kind = "done"
      <4>1. i \in 1 .. Len(f) /\ i + 1 \in 1 .. Len(f) /\ i + 1 \in 1 .. Len(e) - 1
        BY <1>3
      <4>2. f[i] = e[i + 1] /\ f[i + 1] = e[(i + 1) + 1]
        BY <1>3, <4>1
      <4>3. i + 1 = Len(e) - 1 /\ e[i + 1].kind = "error" /\ e[(i + 1) + 1].kind = "done"
        BY <2>1, <3>2, <4>1, <4>2 DEF Ending
      <4>4. QED
        BY <1>3, <4>2, <4>3
    <3>3. QED
      BY <3>1, <3>2 DEF Ending
  <2>4. QED
    BY <2>2, <2>3
<1>5. QED
  BY <1>2, <1>4 DEF Holds, f

(* A step on one stream keeps all of them, if it keeps that one. *)
LEMMA AllCarried ==
  ASSUME CarriedInv, NEW s \in Streams, NEW a, NEW n, NEW o, NEW l, NEW k, NEW e, NEW m, NEW d,
         Goes(s, a, n, o, l), Carries(s, k, e, m, d), Holds(s, a, n, o, l, k, e, m, d)
  PROVE  \A t \in Streams : Carried(t)'
<1> SUFFICES ASSUME NEW t \in Streams PROVE Carried(t)'
  OBVIOUS
<1>1. CASE t = s
  BY <1>1, MoveCarried
<1>2. CASE t # s
  BY <1>2, RestCarried DEF CarriedInv
<1>3. QED
  BY <1>1, <1>2

(* What holds of a stream now. *)
LEMMA NowHolds ==
  ASSUME CarriedInv, NEW s \in Streams
  PROVE  /\ Holds(s, reader[s].at, reader[s].next, reader[s].own, buffer[s].lines,
                  taken[s], events[s], emitted[s], sent[s])
         /\ emitted[s] \in Seq(Nat) /\ sent[s] \in Seq(Nat) /\ events[s] \in Seq(AnyEvent)
         /\ reader[s].at \in {"none", "reading", "failed", "reporting"} => events[s] \in Seq(LineEvent)
         /\ NotStarted(s)
<1>1. Carried(s) /\ StreamOK(s) /\ TimerInv
  BY DEF CarriedInv, LeftInv
<1>2. QED
  BY <1>1, StreamTypes DEF Carried, StreamOK, NoEndYet, TimerInv

LEMMA ReaderCarried ==
  ASSUME CarriedInv, NEW s \in Streams,
         \/ EmitLine(s) \/ ReadEnds(s)
         \/ \E n \in 1 .. Length[s] + 1 : StartLogStream(s, n) \/ Reconnect(s, n)
  PROVE  \A t \in Streams : Carried(t)'
<1>1. CASE EmitLine(s)
  <2>1. reader[s].at = "reading" /\ reader[s].next \in Lines(s)
    BY <1>1 DEF EmitLine
  <2>2. QED
    BY <1>1, <2>1, NowHolds, EmitLineGoes, LineHolds, AllCarried
<1>2. CASE ReadEnds(s)
  <2>1. reader[s].at = "reading"
    BY <1>2 DEF ReadEnds
  <2>2. PICK a \in {"failed", "closing"} : Goes(s, a, reader[s].next, reader[s].own, buffer[s].lines)
    BY <1>2, ReadEndsGoes
  <2>3. QED
    BY <1>2, <2>1, <2>2, NowHolds, ReadEndsGoes, EndHolds, AllCarried
<1>3. ASSUME NEW n \in 1 .. Length[s] + 1, StartLogStream(s, n)
      PROVE  \A t \in Streams : Carried(t)'
  <2>1. reader[s].at = "none"
    BY <1>3, NowHolds DEF StartLogStream, NotStarted
  <2>2. buffer[s].lines = <<>>
    BY <2>1, NowHolds DEF Holds, Held
  <2>3. QED
    BY <1>3, <2>1, <2>2, NowHolds, OpenGoes, SeekHolds, AllCarried
<1>4. ASSUME NEW n \in 1 .. Length[s] + 1, Reconnect(s, n)
      PROVE  \A t \in Streams : Carried(t)'
  <2>1. reader[s].at = "reading" /\ (s \in Prompt => buffer[s].lines = <<>>)
    BY <1>4 DEF Reconnect
  <2>2. QED
    BY <1>4, <2>1, NowHolds, ReconnectGoes, SeekHolds, AllCarried
<1>5. QED
  BY <1>1, <1>2, <1>3, <1>4

LEMMA ReportCarried ==
  ASSUME CarriedInv, NEW s \in Streams, EmitError(s) \/ EmitDone(s) \/ ReportError(s) \/ ReportDone(s)
  PROVE  \A t \in Streams : Carried(t)'
<1>1. CASE EmitError(s)
  <2>1. reader[s].at = "failed"
    BY <1>1 DEF EmitError
  <2>2. QED
    BY <1>1, <2>1, NowHolds, EmitErrorGoes, TakeHolds, AllCarried
<1>2. CASE EmitDone(s)
  <2>1. reader[s].at = "closing"
    BY <1>2 DEF EmitDone
  <2>2. QED
    BY <1>2, <2>1, NowHolds, EmitDoneGoes, TakeHolds, AllCarried
<1>3. CASE ReportError(s)
  <2>1. reader[s].at = "reporting" /\ "error" \in Ends
    BY <1>3 DEF ReportError, Ends
  <2>2. Holds(s, "closing", reader[s].next, <<>>, buffer[s].lines, taken[s],
              events[s] \o Batch(reader[s].own) \o End("error"), emitted[s], sent[s] \o reader[s].own)
    BY <2>1, NowHolds, ReportHolds
  <2>3. QED
    BY <1>3, <2>2, ReportErrorGoes, AllCarried
<1>4. CASE ReportDone(s)
  <2>1. reader[s].at = "draining" /\ "done" \in Ends
    BY <1>4 DEF ReportDone, Ends
  <2>2. Holds(s, "over", reader[s].next, <<>>, buffer[s].lines, taken[s],
              events[s] \o Batch(reader[s].own) \o End("done"), emitted[s], sent[s] \o reader[s].own)
    BY <2>1, NowHolds, ReportHolds
  <2>3. QED
    BY <1>4, <2>2, ReportDoneGoes, AllCarried
<1>5. QED
  BY <1>1, <1>2, <1>3, <1>4

LEMMA FrameCarried ==
  ASSUME CarriedInv, NEW s \in Streams, TimerFires(s) \/ FlushStream(s) \/ EmitBatch(s)
  PROVE  \A t \in Streams : Carried(t)'
<1>1. CASE TimerFires(s)
  BY <1>1, NowHolds, TimerGoes, AllCarried
<1>2. CASE FlushStream(s)
  <2>1. CASE buffer[s].lines = <<>>
    BY <1>2, <2>1, NowHolds, FlushGoes, AllCarried
  <2>2. CASE buffer[s].lines # <<>> /\ s \in Prompt
    <3>1. Holds(s, reader[s].at, reader[s].next, reader[s].own, <<>>, taken[s],
                events[s] \o Batch(buffer[s].lines) \o <<>>, emitted[s], sent[s] \o buffer[s].lines)
      BY <2>2, NowHolds, FlushHolds
    <3>2. QED
      BY <1>2, <2>2, <3>1, FlushGoes, AllCarried
  <2>3. CASE buffer[s].lines # <<>> /\ s \notin Prompt
    <3>1. Holds(s, reader[s].at, reader[s].next, reader[s].own, <<>>,
                Append(taken[s], buffer[s].lines), events[s], emitted[s], sent[s])
      BY <2>3, NowHolds, KeepHolds
    <3>2. QED
      BY <1>2, <2>3, <3>1, FlushGoes, AllCarried
  <2>4. QED
    BY <2>1, <2>2, <2>3
<1>3. CASE EmitBatch(s)
  <2>1. PICK i \in 1 .. Len(taken[s]) :
           /\ Goes(s, reader[s].at, reader[s].next, reader[s].own, buffer[s].lines)
           /\ Carries(s, SubSeq(taken[s], 1, i - 1) \o SubSeq(taken[s], i + 1, Len(taken[s])),
                      events[s] \o Batch(taken[s][i]) \o <<>>, emitted[s], sent[s] \o taken[s][i])
    BY <1>3, BatchGoes
  <2>2. Holds(s, reader[s].at, reader[s].next, reader[s].own, buffer[s].lines,
              SubSeq(taken[s], 1, i - 1) \o SubSeq(taken[s], i + 1, Len(taken[s])),
              events[s] \o Batch(taken[s][i]) \o <<>>, emitted[s], sent[s] \o taken[s][i])
    BY NowHolds, BatchHolds
  <2>3. QED
    BY <2>1, <2>2, AllCarried
<1>4. QED
  BY <1>1, <1>2, <1>3

LEMMA ViewerCarried ==
  ASSUME CarriedInv, NEW s \in Streams,
         \/ Handle(s) \/ StopLogStream(s)
         \/ Leave \/ (\E t \in Streams : (\E h \in 0 .. Length[t] - 1 : StartStreaming(t, h)) \/ Answer(t))
         \/ UNCHANGED vars
  PROVE  \A t \in Streams : Carried(t)'
<1>1. CASE Handle(s)
  <2>1. events[s] # <<>>
    BY <1>1 DEF Handle
  <2>2. QED
    BY <1>1, <2>1, NowHolds, HandleHolds, HandleGoes, AllCarried
<1>2. CASE StopLogStream(s)
  BY <1>2, NowHolds, StopGoes, AllCarried
<1>3. CASE Leave \/ (\E t \in Streams : (\E h \in 0 .. Length[t] - 1 : StartStreaming(t, h)) \/ Answer(t))
             \/ UNCHANGED vars
  BY <1>3, NowHolds, ViewerGoes, AllCarried
<1>4. QED
  BY <1>1, <1>2, <1>3

LEMMA NextHistory ==
  ASSUME CarriedInv, [Next]_vars
  PROVE  History'
<1>0. /\ emitted \in [Streams -> Seq(Nat)] /\ sent \in [Streams -> Seq(Nat)]
      /\ logs \in Seq(Nat) /\ faults \in 0 .. MaxFaults
  BY DEF CarriedInv, History
<1>1. ASSUME NEW s \in Streams, NEW lines \in Seq(Nat), NEW last, Post(s, lines, last)
      PROVE  sent' \in [Streams -> Seq(Nat)]
  <2>1. sent[s] \o lines \in Seq(Nat)
    BY <1>0
  <2>2. QED
    BY <1>0, <1>1, <2>1 DEF Post
<1>2. CASE UNCHANGED vars \/ Leave \/ \E s \in Streams :
             \/ (\E n \in 1 .. Length[s] + 1 : StartLogStream(s, n)) \/ Answer(s)
             \/ StopLogStream(s) \/ ReadEnds(s) \/ TimerFires(s) \/ EmitError(s) \/ EmitDone(s)
  BY <1>0, <1>2 DEF History, Leave, StartLogStream, Answer, StopLogStream, ReadEnds, TimerFires,
                    EmitError, EmitDone
<1>3. ASSUME NEW s \in Streams, NEW h \in 0 .. Length[s] - 1, StartStreaming(s, h)
      PROVE  History'
  <2>1. h \in Nat
    BY LogAssumption
  <2>2. [i \in 1 .. h |-> i] \in Seq(Nat)
    BY <2>1
  <2>3. QED
    BY <1>0, <1>3, <2>2 DEF StartStreaming, History
<1>4. ASSUME NEW s \in Streams, Handle(s)
      PROVE  History'
  <2>1. Head(events[s]) \in AnyEvent
    BY <1>4, NowHolds DEF Handle
  <2>2. Head(events[s]).lines \in Seq(Nat)
    BY <2>1 DEF AnyEvent
  <2>3. logs' \in Seq(Nat)
    BY <1>0, <1>4, <2>2, ShownAs DEF Handle
  <2>4. QED
    BY <1>0, <1>4, <2>3 DEF Handle, History
<1>5. ASSUME NEW s \in Streams, NEW n, Reconnect(s, n)
      PROVE  History'
  BY <1>0, <1>5, LogAssumption DEF Reconnect, History
<1>6. ASSUME NEW s \in Streams, EmitLine(s)
      PROVE  History'
  <2>1. Append(emitted[s], reader[s].next) \in Seq(Nat)
    BY <1>0, StreamTypes DEF ReaderType
  <2>2. QED
    BY <1>0, <1>6, <2>1 DEF EmitLine, History
<1>7. ASSUME NEW s \in Streams, FlushStream(s)
      PROVE  History'
  <2>1. sent' \in [Streams -> Seq(Nat)]
    BY <1>0, <1>1, <1>7, StreamTypes DEF FlushStream, HandOver
  <2>2. QED
    BY <1>0, <1>7, <2>1 DEF FlushStream, History
<1>8. ASSUME NEW s \in Streams, EmitBatch(s)
      PROVE  History'
  <2>1. PICK i \in 1 .. Len(taken[s]) : Post(s, taken[s][i], <<>>)
    BY <1>8 DEF EmitBatch
  <2>2. taken[s][i] \in Seq(Nat)
    BY StreamTypes
  <2>3. sent' \in [Streams -> Seq(Nat)]
    BY <1>1, <2>1, <2>2
  <2>4. QED
    BY <1>0, <1>8, <2>3 DEF EmitBatch, History
<1>9. ASSUME NEW s \in Streams, ReportError(s) \/ ReportDone(s)
      PROVE  History'
  <2>1. sent' \in [Streams -> Seq(Nat)]
    BY <1>1, <1>9, StreamTypes DEF ReportError, ReportDone
  <2>2. QED
    BY <1>0, <1>9, <2>1 DEF ReportError, ReportDone, History
<1>10. QED
  BY <1>2, <1>3, <1>4, <1>5, <1>6, <1>7, <1>8, <1>9 DEF Next

LEMMA InitCarried == Init => CarriedInv
<1> SUFFICES ASSUME Init PROVE CarriedInv
  OBVIOUS
<1>1. LeftInv
  BY InitTimer, InitLeft DEF LeftInv
<1>2. <<>> \in Seq(Nat) /\ MaxFaults \in Nat
  BY LogAssumption
<1>3. History
  BY <1>2 DEF Init, History
<1>4. ASSUME NEW s \in Streams PROVE Carried(s)
  <2>1. /\ reader[s].at = "none" /\ reader[s].next = 1 /\ reader[s].own = <<>> /\ buffer[s].lines = <<>>
        /\ taken[s] = <<>> /\ events[s] = <<>> /\ emitted[s] = <<>> /\ sent[s] = <<>>
    BY DEF Init, NoBuffer
  <2>2. InLog(s, 1, <<>>, <<>>, <<>>)
    <3>1. 1 \in 1 .. Length[s] + 1
      BY LogAssumption
    <3>2. QED
      BY <3>1 DEF InLog
  <2>3. Counted(<<>>, <<>>, <<>>, <<>>, <<>>)
    BY FlatNothing DEF Counted
  <2>4. Ordered(<<>>, <<>>, <<>>, <<>>, <<>>)
    BY DEF Ordered
  <2>5. Holds(s, "none", 1, <<>>, <<>>, <<>>, <<>>, <<>>, <<>>)
    BY <2>2, <2>3, <2>4 DEF Holds, Held, Ending, Runs, Run
  <2>6. QED
    BY <2>1, <2>5 DEF Carried
<1>5. QED
  BY <1>1, <1>3, <1>4 DEF CarriedInv

(* Every step keeps the lines of all streams. *)
LEMMA NextCarried == CarriedInv /\ [Next]_vars => CarriedInv'
<1> SUFFICES ASSUME CarriedInv, [Next]_vars PROVE CarriedInv'
  OBVIOUS
<1>1. LeftInv'
  BY NextLeft DEF CarriedInv
<1>2. \A t \in Streams : Carried(t)'
  <2>1. CASE Leave \/ (\E t \in Streams : (\E h \in 0 .. Length[t] - 1 : StartStreaming(t, h)) \/ Answer(t))
             \/ UNCHANGED vars
    BY <2>1, ViewerCarried
  <2>2. ASSUME NEW s \in Streams,
               \/ Handle(s) \/ StopLogStream(s) \/ EmitLine(s) \/ ReadEnds(s)
               \/ \E n \in 1 .. Length[s] + 1 : StartLogStream(s, n) \/ Reconnect(s, n)
        PROVE  \A t \in Streams : Carried(t)'
    BY <2>2, ViewerCarried, ReaderCarried
  <2>3. ASSUME NEW s \in Streams,
               \/ TimerFires(s) \/ FlushStream(s) \/ EmitBatch(s)
               \/ EmitError(s) \/ ReportError(s) \/ EmitDone(s) \/ ReportDone(s)
        PROVE  \A t \in Streams : Carried(t)'
    BY <2>3, FrameCarried, ReportCarried
  <2>4. QED
    BY <2>1, <2>2, <2>3 DEF Next
<1>3. QED
  BY <1>1, <1>2, NextHistory DEF CarriedInv

-----------------------------------------------------------------------------
(* What the viewer will show.                                              *)

RefIsWanted == Settled /\ ref # NoStream => ref = want

HasEnd(e) == \E i \in 1 .. Len(e) : e[i].kind \in Ends

(* The end stays on its way until the viewer handles it.                    *)
Noticed(s, a, e) == Settled /\ a = "over" /\ (ref = s \/ call[s] # "answered") => HasEnd(e)

(* The stream whose events will reach the screen. *)
Followed(s) ==
  /\ Settled /\ s \in Prompt /\ want = s
  /\ call[s] = "answering" \/ (call[s] = "answered" /\ ref = s)

(* Line m is among the x lines on screen or in one of the first k events. *)
Coming(x, e, k, m) ==
  m <= x \/ \E j \in 1 .. k : \E i \in 1 .. Len(e[j].lines) : e[j].lines[i] = m

(* Before each batch, every line up to it is shown or on its way. *)
Gapless(x, a, n, o, l, e) ==
  /\ \A k \in 1 .. Len(e) : e[k].lines # <<>> =>
       \A m \in 1 .. e[k].lines[1] - 1 : Coming(x, e, k - 1, m)
  /\ o # <<>> => \A m \in 1 .. o[1] - 1 : Coming(x, e, Len(e), m)
  /\ l # <<>> => \A m \in 1 .. l[1] - 1 : Coming(x, e, Len(e), m)
  /\ a = "reading" /\ l = <<>> => \A m \in 1 .. n - 1 : Coming(x, e, Len(e), m)

Watched(s) ==
  /\ Noticed(s, reader[s].at, events[s])
  /\ Followed(s) =>
       Gapless(Len(logs), reader[s].at, reader[s].next, reader[s].own, buffer[s].lines, events[s])

Exact == Settled /\ want \in Prompt => \A i \in 1 .. Len(logs) : logs[i] = i

WatchInv == CarriedInv /\ RefIsWanted /\ Exact /\ \A s \in Streams : Watched(s)

LEMMA LineGapless ==
  ASSUME NEW x \in Nat, NEW n \in Nat, NEW o, NEW l \in Seq(Nat), NEW e,
         Gapless(x, "reading", n, o, l, e)
  PROVE  Gapless(x, "reading", n + 1, o, Append(l, n), e)
<1>1. Append(l, n) # <<>> /\ Append(l, n)[1] = IF l = <<>> THEN n ELSE l[1]
  <2>1. Len(Append(l, n)) = Len(l) + 1 /\ Len(l) \in Nat
    OBVIOUS
  <2>2. CASE l = <<>>
    BY <2>2
  <2>3. CASE l # <<>>
    <3>1. 1 \in 1 .. Len(l)
      BY <2>3
    <3>2. Append(l, n)[1] = l[1]
      BY <3>1
    <3>3. QED
      BY <2>1, <2>3, <3>2
  <2>4. QED
    BY <2>2, <2>3
<1>2. \A m \in 1 .. Append(l, n)[1] - 1 : Coming(x, e, Len(e), m)
  BY <1>1 DEF Gapless
<1>3. QED
  BY <1>1, <1>2 DEF Gapless

LEMMA SeekGapless ==
  ASSUME NEW x \in Nat, NEW n \in Nat, NEW o, NEW l, NEW e, NEW i \in Nat, i < n,
         Gapless(x, "reading", n, o, l, e)
  PROVE  Gapless(x, "reading", i, o, l, e)
<1>1. \A m \in 1 .. i - 1 : m \in 1 .. n - 1
  OBVIOUS
<1>2. QED
  BY <1>1 DEF Gapless

LEMMA OpenGapless ==
  ASSUME NEW x \in Nat, NEW i \in Nat, i <= x + 1
  PROVE  Gapless(x, "reading", i, <<>>, <<>>, <<>>)
<1>1. \A m \in 1 .. i - 1 : m <= x
  OBVIOUS
<1>2. QED
  BY <1>1 DEF Gapless, Coming

(* What is coming still comes when events are added. *)
LEMMA StillComing ==
  ASSUME NEW x \in Nat, NEW e, NEW f, NEW k, NEW j, NEW m, k \in Nat, j \in Nat, k <= j,
         \A i \in 1 .. k : f[i] = e[i], Coming(x, e, k, m)
  PROVE  Coming(x, f, j, m)
BY DEF Coming

LEMMA ReportGapless ==
  ASSUME NEW x \in Nat, NEW n, NEW o \in Seq(Nat), NEW e \in Seq(AnyEvent), NEW f, NEW kind \in Ends,
         NEW a, NEW b \in {"closing", "over"}, Joined(f, e, o, End(kind)),
         Gapless(x, a, n, o, <<>>, e)
  PROVE  Gapless(x, b, n, <<>>, <<>>, f)
<1>1. End(kind) \in Seq(AnyEvent) /\ Len(End(kind)) <= 1 /\ End(kind)[1].lines = <<>>
  BY EndType DEF End
<1>2. Len(e) \in Nat /\ Len(f) \in Nat /\ \A i \in 1 .. Len(e) : f[i] = e[i]
  BY DEF Joined
<1>3. ASSUME NEW k \in 1 .. Len(f), f[k].lines # <<>>, NEW m \in 1 .. f[k].lines[1] - 1
      PROVE  Coming(x, f, k - 1, m)
  <2>1. PICK z : z = End(kind)
    OBVIOUS
  <2>2. z \in Seq(AnyEvent) /\ Len(z) <= 1 /\ Joined(f, e, o, z) /\ z[1].lines = <<>>
    BY <1>1, <2>1
  <2>3. \/ k \in 1 .. Len(e) /\ f[k] = e[k]
        \/ o # <<>> /\ k = Len(e) + 1 /\ f[k].lines = o
    BY <1>3, <2>2, PostedEach
  <2>4. CASE k \in 1 .. Len(e) /\ f[k] = e[k]
    <3>1. Coming(x, e, k - 1, m)
      BY <1>3, <2>4 DEF Gapless
    <3>2. k - 1 \in Nat /\ \A i \in 1 .. k - 1 : f[i] = e[i]
      BY <1>2, <2>4
    <3>3. QED
      <4>1. k - 1 <= k - 1
        BY <3>2
      <4>2. QED
        BY <3>1, <3>2, <4>1, StillComing, Zenon
  <2>5. CASE o # <<>> /\ k = Len(e) + 1 /\ f[k].lines = o
    <3>1. k - 1 = Len(e) /\ Len(e) \in Nat
      BY <1>2, <2>5
    <3>2. Coming(x, e, Len(e), m)
      <4>1. o # <<>> /\ m \in 1 .. o[1] - 1
        BY <1>3, <2>5
      <4>2. QED
        BY <4>1 DEF Gapless
    <3>3. Len(e) \in Nat /\ Len(e) <= k - 1 /\ k - 1 \in Nat /\ \A i \in 1 .. Len(e) : f[i] = e[i]
      BY <1>2, <3>1
    <3>4. QED
      BY <3>2, <3>3, StillComing, Zenon
  <2>6. QED
    BY <2>3, <2>4, <2>5
<1>4. QED
  BY <1>3 DEF Gapless

LEMMA FlushGapless ==
  ASSUME NEW x \in Nat, NEW n \in Nat, NEW l \in Seq(Nat), l # <<>>, NEW e \in Seq(AnyEvent), NEW f,
         NEW a, NEW o, Joined(f, e, l, <<>>), Runs(a, n, o, l, e), o = <<>>,
         Gapless(x, a, n, o, l, e)
  PROVE  Gapless(x, a, n, o, <<>>, f)
<1>1. PICK z : z = <<>>
  OBVIOUS
<1>2. z \in Seq(AnyEvent) /\ Len(z) = 0 /\ Joined(f, e, l, z)
  BY <1>1
<1>3. /\ Len(e) \in Nat /\ Len(f) = Len(e) + 1 /\ f[Len(e) + 1].lines = l
      /\ \A i \in 1 .. Len(e) : f[i] = e[i]
  BY <1>2 DEF Joined
<1>4. ASSUME NEW k \in 1 .. Len(f), f[k].lines # <<>>, NEW m \in 1 .. f[k].lines[1] - 1
      PROVE  Coming(x, f, k - 1, m)
  <2>1. CASE k \in 1 .. Len(e)
    <3>1. f[k] = e[k]
      BY <1>3, <2>1
    <3>2. Coming(x, e, k - 1, m)
      BY <1>4, <2>1, <3>1 DEF Gapless
    <3>3. k - 1 \in Nat /\ k - 1 <= k - 1 /\ \A i \in 1 .. k - 1 : f[i] = e[i]
      BY <1>3, <2>1
    <3>4. QED
      BY <3>2, <3>3, StillComing, Zenon
  <2>2. CASE k = Len(e) + 1
    <3>1. k - 1 = Len(e) /\ f[k].lines = l
      BY <1>3, <2>2
    <3>2. Coming(x, e, Len(e), m)
      <4>1. l # <<>> /\ m \in 1 .. l[1] - 1
        BY <1>4, <3>1
      <4>2. QED
        BY <4>1 DEF Gapless
    <3>3. Len(e) \in Nat /\ Len(e) <= k - 1 /\ k - 1 \in Nat /\ \A i \in 1 .. Len(e) : f[i] = e[i]
      BY <1>3, <3>1
    <3>4. QED
      BY <3>2, <3>3, StillComing, Zenon
  <2>3. QED
    BY <1>3, <2>1, <2>2
<1>5. ASSUME a = "reading", NEW m \in 1 .. n - 1
      PROVE  Coming(x, f, Len(f), m)
  <2>1. Run(l) /\ n = l[1] + Len(l) /\ l[1] \in Nat /\ Len(l) \in Nat
    BY <1>5 DEF Runs
  <2>2. CASE m < l[1]
    <3>1. Coming(x, e, Len(e), m)
      BY <2>1, <2>2 DEF Gapless
    <3>2. Len(f) \in Nat /\ Len(e) <= Len(f)
      BY <1>3
    <3>3. QED
      BY <1>3, <3>1, <3>2, StillComing
  <2>3. CASE ~(m < l[1])
    <3>1. m - l[1] + 1 \in 1 .. Len(l) /\ l[1] + (m - l[1] + 1) - 1 = m
      <4>1. \A c, d \in Nat : m \in 1 .. (c + d) - 1 /\ ~(m < c) =>
              m - c + 1 \in 1 .. d /\ c + (m - c + 1) - 1 = m
        OBVIOUS
      <4>2. QED
        BY <2>1, <2>3, <4>1
    <3>2. l[m - l[1] + 1] = m
      BY <2>1, <3>1 DEF Run
    <3>3. Len(e) + 1 \in 1 .. Len(f)
      BY <1>3
    <3>4. QED
      BY <1>3, <3>1, <3>2, <3>3 DEF Coming
  <2>4. QED
    BY <2>2, <2>3
<1>6. QED
  BY <1>4, <1>5 DEF Gapless

LEMMA HandleGapless ==
  ASSUME NEW x \in Nat, NEW y \in Nat, NEW a, NEW n, NEW o, NEW l, NEW e \in Seq(AnyEvent), e # <<>>,
         x <= y, \A i \in 1 .. Len(Head(e).lines) : Head(e).lines[i] <= y,
         Gapless(x, a, n, o, l, e), n \in Nat, o \in Seq(Nat), l \in Seq(Nat)
  PROVE  Gapless(y, a, n, o, l, Tail(e))
<1> DEFINE f == Tail(e)
<1>1. Len(f) = Len(e) - 1 /\ Len(e) \in Nat /\ Head(e) = e[1]
      /\ \A i \in 1 .. Len(e) - 1 : f[i] = e[i + 1]
  OBVIOUS
<1> HIDE DEF f
<1>2. ASSUME NEW k \in Nat, k + 1 <= Len(e), NEW m \in Nat, Coming(x, e, k + 1, m)
      PROVE  Coming(y, f, k, m)
  <2>1. CASE m <= x
    BY <2>1 DEF Coming
  <2>2. CASE ~(m <= x)
    <3>1. PICK j \in 1 .. k + 1 : \E i \in 1 .. Len(e[j].lines) : e[j].lines[i] = m
      BY <1>2, <2>2 DEF Coming
    <3>2. CASE j = 1
      BY <1>1, <3>1, <3>2 DEF Coming
    <3>3. CASE j # 1
      <4>1. j - 1 \in 1 .. k /\ j - 1 \in 1 .. Len(e) - 1 /\ (j - 1) + 1 = j
        BY <1>1, <1>2, <3>3
      <4>2. f[j - 1] = e[j]
        BY <1>1, <4>1
      <4>3. QED
        BY <3>1, <4>1, <4>2 DEF Coming
    <3>4. QED
      BY <3>2, <3>3
  <2>3. QED
    BY <2>1, <2>2
<1>3. Len(f) \in Nat /\ Len(f) + 1 = Len(e)
  <2>1. Len(e) # 0
    OBVIOUS
  <2>2. QED
    BY <1>1, <2>1
<1>4. ASSUME NEW k \in 1 .. Len(f), f[k].lines # <<>>, NEW m \in 1 .. f[k].lines[1] - 1
      PROVE  Coming(y, f, k - 1, m)
  <2>1. k + 1 \in 1 .. Len(e) /\ k - 1 \in Nat /\ (k - 1) + 1 = k /\ (k + 1) - 1 = k /\ k <= Len(e)
        /\ f[k] = e[k + 1] /\ m \in Nat
    BY <1>1, <1>3
  <2>2. Coming(x, e, (k + 1) - 1, m)
    BY <1>4, <2>1 DEF Gapless
  <2>3. QED
    BY <1>2, <2>1, <2>2
<1>5. ASSUME NEW m \in Nat, Coming(x, e, Len(e), m)
      PROVE  Coming(y, f, Len(f), m)
  BY <1>2, <1>3, <1>5
<1>6. QED
  <2>1. o # <<>> => \A m \in 1 .. o[1] - 1 : Coming(y, f, Len(f), m)
    BY <1>5 DEF Gapless
  <2>2. l # <<>> => \A m \in 1 .. l[1] - 1 : Coming(y, f, Len(f), m)
    BY <1>5 DEF Gapless
  <2>3. a = "reading" /\ l = <<>> => \A m \in 1 .. n - 1 : Coming(y, f, Len(f), m)
    BY <1>5 DEF Gapless
  <2>4. QED
    BY <1>4, <2>1, <2>2, <2>3 DEF Gapless, f

(* The first batch begins on the screen or right behind it. *)
LEMMA FirstCovered ==
  ASSUME NEW x \in Nat, NEW a, NEW n, NEW o, NEW l, NEW e \in Seq(AnyEvent), e # <<>>,
         Gapless(x, a, n, o, l, e), Head(e).lines # <<>>
  PROVE  Head(e).lines[1] <= x + 1
<1>1. Head(e) = e[1] /\ 1 \in 1 .. Len(e) /\ e[1] \in AnyEvent
  OBVIOUS
<1>2. Head(e).lines \in Seq(Nat)
  BY <1>1 DEF AnyEvent
<1>3. Head(e).lines[1] \in Nat
  BY <1>2
<1>4. \A m \in 1 .. Head(e).lines[1] - 1 : m <= x
  BY <1>1 DEF Gapless, Coming
<1>5. QED
  BY <1>3, <1>4

(* A step that leaves the viewer alone. *)
LEMMA AllWatched ==
  ASSUME WatchInv, NEW s \in Streams, NEW a, NEW n, NEW o, NEW l, NEW k, NEW e, NEW m, NEW d,
         Goes(s, a, n, o, l), Carries(s, k, e, m, d), UNCHANGED <<call, viewer>>,
         Noticed(s, a, e), Followed(s) => Gapless(Len(logs), a, n, o, l, e)
  PROVE  RefIsWanted' /\ Exact' /\ \A t \in Streams : Watched(t)'
<1>1. RefIsWanted' /\ Exact'
  BY DEF WatchInv, RefIsWanted, Exact
<1>2. Watched(s)'
  <2>1. /\ reader'[s].at = a /\ reader'[s].next = n /\ reader'[s].own = o /\ buffer'[s].lines = l
        /\ events'[s] = e /\ Len(logs') = Len(logs)
    BY DEF Goes, Carries
  <2>2. Noticed(s, a, e)' /\ (Followed(s)' <=> Followed(s))
    BY DEF Followed, Noticed
  <2>3. Followed(s)' => Gapless(Len(logs'), a, n, o, l, e)
    BY <2>1, <2>2
  <2>4. QED
    BY <2>1, <2>2, <2>3 DEF Watched
<1>3. ASSUME NEW t \in Streams \ {s} PROVE Watched(t)'
  <2>1. reader'[t] = reader[t] /\ buffer'[t] = buffer[t] /\ events'[t] = events[t] /\ Watched(t)
    BY DEF Goes, Carries, WatchInv
  <2>2. Followed(t)' <=> Followed(t)
    BY DEF Followed
  <2>3. QED
    BY <2>1, <2>2 DEF Watched, Noticed, HasEnd
<1>4. QED
  BY <1>1, <1>2, <1>3

(* What is known of a stream that is watched. *)
LEMMA NowWatched ==
  ASSUME WatchInv, NEW s \in Streams
  PROVE  /\ CarriedInv /\ Len(logs) \in Nat /\ logs \in Seq(Nat)
         /\ reader[s].next \in Nat /\ reader[s].own \in Seq(Nat) /\ buffer[s].lines \in Seq(Nat)
         /\ events[s] \in Seq(AnyEvent) /\ taken[s] \in Seq(Seq(Nat))
         /\ Noticed(s, reader[s].at, events[s])
         /\ Followed(s) => Gapless(Len(logs), reader[s].at, reader[s].next, reader[s].own,
                                   buffer[s].lines, events[s])
         /\ Held(reader[s].at, reader[s].own, buffer[s].lines, taken[s], events[s])
         /\ s \in Prompt => Runs(reader[s].at, reader[s].next, reader[s].own, buffer[s].lines, events[s])
<1>1. CarriedInv /\ Watched(s)
  BY DEF WatchInv
<1>2. logs \in Seq(Nat)
  BY <1>1 DEF CarriedInv, History
<1>3. reader[s] \in ReaderType
  BY <1>1, StreamTypes
<1>4. QED
  BY <1>1, <1>2, <1>3, NowHolds, StreamTypes DEF Watched, ReaderType, Holds

(* Posting keeps an end that is on its way. *)
LEMMA EndStays ==
  ASSUME NEW e, NEW f, NEW l, NEW z, Joined(f, e, l, z)
  PROVE  HasEnd(e) => HasEnd(f)
<1>1. SUFFICES ASSUME NEW i \in 1 .. Len(e), e[i].kind \in Ends PROVE HasEnd(f)
  BY DEF HasEnd
<1>2. Len(e) \in Nat /\ Len(f) \in Nat /\ Len(e) <= Len(f) /\ f[i] = e[i]
  BY DEF Joined
<1>3. i \in 1 .. Len(f)
  BY <1>2
<1>4. QED
  BY <1>1, <1>2, <1>3 DEF HasEnd

LEMMA ReaderWatched ==
  ASSUME WatchInv, NEW s \in Streams,
         EmitLine(s) \/ ReadEnds(s) \/ (\E n \in 1 .. Length[s] + 1 : Reconnect(s, n))
  PROVE  RefIsWanted' /\ Exact' /\ \A t \in Streams : Watched(t)'
<1>0. UNCHANGED <<call, viewer>> /\ reader[s].at = "reading" /\ CarriedInv
  BY NowWatched DEF EmitLine, ReadEnds, Reconnect
<1>1. CASE EmitLine(s)
  <2>1. Noticed(s, "reading", events[s])
    BY DEF Noticed
  <2>2. Followed(s) => Gapless(Len(logs), "reading", reader[s].next + 1, reader[s].own,
                               Append(buffer[s].lines, reader[s].next), events[s])
    BY <1>0, NowWatched, LineGapless
  <2>3. QED
    BY <1>0, <1>1, <2>1, <2>2, EmitLineGoes, AllWatched
<1>2. CASE ReadEnds(s)
  <2>1. PICK a \in {"failed", "closing"} : Goes(s, a, reader[s].next, reader[s].own, buffer[s].lines)
    BY <1>0, <1>2, ReadEndsGoes
  <2>2. Noticed(s, a, events[s])
    BY DEF Noticed
  <2>3. Followed(s) => Gapless(Len(logs), a, reader[s].next, reader[s].own, buffer[s].lines, events[s])
    BY NowWatched DEF Gapless
  <2>4. QED
    BY <1>0, <1>2, <2>1, <2>2, <2>3, ReadEndsGoes, AllWatched
<1>3. ASSUME NEW i \in 1 .. Length[s] + 1, Reconnect(s, i)
      PROVE  RefIsWanted' /\ Exact' /\ \A t \in Streams : Watched(t)'
  <2>1. Noticed(s, "reading", events[s]) /\ i \in Nat /\ i < reader[s].next
    BY <1>3, LogAssumption DEF Noticed, Reconnect
  <2>2. Followed(s) => Gapless(Len(logs), "reading", i, reader[s].own, buffer[s].lines, events[s])
    BY <1>0, <2>1, NowWatched, SeekGapless
  <2>3. QED
    BY <1>0, <1>3, <2>1, <2>2, ReconnectGoes, AllWatched
<1>4. QED
  BY <1>1, <1>2, <1>3

(* What is posted last arrives last. *)
LEMMA JoinedLast ==
  ASSUME NEW e, NEW f, NEW l, NEW z, Joined(f, e, l, z), Len(z) = 1
  PROVE  \E i \in 1 .. Len(f) : f[i] = z[1]
BY DEF Joined

LEMMA ReportWatched ==
  ASSUME WatchInv, NEW s \in Streams, EmitError(s) \/ EmitDone(s) \/ ReportError(s) \/ ReportDone(s)
  PROVE  RefIsWanted' /\ Exact' /\ \A t \in Streams : Watched(t)'
<1>0. UNCHANGED <<call, viewer>> /\ CarriedInv
  BY NowWatched DEF EmitError, EmitDone, ReportError, ReportDone
<1>1. ASSUME NEW a \in {"reporting", "draining"},
             Goes(s, a, reader[s].next, buffer[s].lines, <<>>),
             Carries(s, taken[s], events[s], emitted[s], sent[s])
      PROVE  RefIsWanted' /\ Exact' /\ \A t \in Streams : Watched(t)'
  <2>1. Noticed(s, a, events[s])
    BY DEF Noticed
  <2>2. Followed(s) => Gapless(Len(logs), a, reader[s].next, buffer[s].lines, <<>>, events[s])
    BY NowWatched DEF Gapless
  <2>3. QED
    BY <1>0, <1>1, <2>1, <2>2, AllWatched
<1>2. CASE EmitError(s) \/ EmitDone(s)
  BY <1>0, <1>1, <1>2, EmitErrorGoes, EmitDoneGoes
<1>3. ASSUME NEW kind \in Ends, NEW b, (kind = "error" /\ b = "closing") \/ (kind = "done" /\ b = "over"),
             reader[s].at \in {"reporting", "draining"},
             Goes(s, b, reader[s].next, <<>>, buffer[s].lines),
             Carries(s, taken[s], events[s] \o Batch(reader[s].own) \o End(kind),
                     emitted[s], sent[s] \o reader[s].own)
      PROVE  RefIsWanted' /\ Exact' /\ \A t \in Streams : Watched(t)'
  <2> DEFINE f == events[s] \o Batch(reader[s].own) \o End(kind)
  <2>1. Joined(f, events[s], reader[s].own, End(kind))
    BY NowWatched, EndType, PostedEvents
  <2> HIDE DEF f
  <2>2. buffer[s].lines = <<>>
    BY <1>3, NowWatched DEF Held
  <2>3. Noticed(s, b, f)
    <3>1. Len(End(kind)) = 1 /\ End(kind)[1].kind \in Ends
      BY DEF End
    <3>2. 1 \in 1 .. Len(End(kind))
      BY <3>1
    <3>3. PICK z : z = End(kind)
      OBVIOUS
    <3>4. PICK i \in 1 .. Len(f) : f[i] = z[1]
      BY <2>1, <3>1, <3>3, JoinedLast
    <3>5. QED
      BY <3>1, <3>3, <3>4 DEF Noticed, HasEnd
  <2>4. Followed(s) => Gapless(Len(logs), b, reader[s].next, <<>>, buffer[s].lines, f)
    BY <1>3, <2>1, <2>2, NowWatched, ReportGapless
  <2>5. QED
    BY <1>0, <1>3, <2>3, <2>4, AllWatched DEF f
<1>4. CASE ReportError(s)
  <2>1. reader[s].at = "reporting" /\ "error" \in Ends
    BY <1>4 DEF ReportError, Ends
  <2>2. QED
    BY <1>0, <1>3, <1>4, <2>1, ReportErrorGoes
<1>5. CASE ReportDone(s)
  <2>1. reader[s].at = "draining" /\ "done" \in Ends
    BY <1>5 DEF ReportDone, Ends
  <2>2. QED
    BY <1>0, <1>3, <1>5, <2>1, ReportDoneGoes
<1>6. QED
  BY <1>2, <1>4, <1>5

LEMMA FrameWatched ==
  ASSUME WatchInv, NEW s \in Streams,
         TimerFires(s) \/ FlushStream(s) \/ EmitBatch(s) \/ StopLogStream(s)
  PROVE  RefIsWanted' /\ Exact' /\ \A t \in Streams : Watched(t)'
<1>0. UNCHANGED <<call, viewer>> /\ CarriedInv
  BY NowWatched DEF TimerFires, FlushStream, EmitBatch, StopLogStream
<1>1. CASE TimerFires(s) \/ StopLogStream(s)
  BY <1>0, <1>1, NowWatched, TimerGoes, StopGoes, AllWatched
<1>2. CASE FlushStream(s)
  <2>0. Goes(s, reader[s].at, reader[s].next, reader[s].own, <<>>)
    BY <1>0, <1>2, FlushGoes
  <2>1. CASE buffer[s].lines = <<>>
    BY <1>0, <1>2, <2>1, NowWatched, FlushGoes, AllWatched
  <2>2. CASE buffer[s].lines # <<>> /\ s \in Prompt
    <3> DEFINE f == events[s] \o Batch(buffer[s].lines) \o <<>>
    <3>1. PICK z : z = <<>>
      OBVIOUS
    <3>2. z \in Seq(AnyEvent)
      BY <3>1
    <3>3. Joined(f, events[s], buffer[s].lines, <<>>)
      BY <3>1, <3>2, NowWatched, PostedEvents
    <3>4. Carries(s, taken[s], f, emitted[s], sent[s] \o buffer[s].lines)
      BY <1>0, <1>2, <2>2, FlushGoes
    <3> HIDE DEF f
    <3>5. Noticed(s, reader[s].at, f)
      BY <3>3, NowWatched, EndStays DEF Noticed
    <3>6. reader[s].own = <<>>
      BY <2>2, NowWatched DEF Held
    <3>7. Followed(s) => Gapless(Len(logs), reader[s].at, reader[s].next, reader[s].own, <<>>, f)
      BY <2>2, <3>3, <3>6, NowWatched, FlushGapless
    <3>8. QED
      BY <1>0, <2>0, <3>4, <3>5, <3>7, AllWatched
  <2>3. CASE buffer[s].lines # <<>> /\ s \notin Prompt
    <3>1. ~Followed(s)
      BY <2>3 DEF Followed
    <3>2. Carries(s, Append(taken[s], buffer[s].lines), events[s], emitted[s], sent[s])
      BY <1>0, <1>2, <2>3, FlushGoes
    <3>3. QED
      BY <1>0, <2>0, <3>1, <3>2, NowWatched, AllWatched
  <2>4. QED
    BY <2>1, <2>2, <2>3
<1>3. CASE EmitBatch(s)
  <2>1. PICK i \in 1 .. Len(taken[s]) :
           /\ Goes(s, reader[s].at, reader[s].next, reader[s].own, buffer[s].lines)
           /\ Carries(s, SubSeq(taken[s], 1, i - 1) \o SubSeq(taken[s], i + 1, Len(taken[s])),
                      events[s] \o Batch(taken[s][i]) \o <<>>, emitted[s], sent[s] \o taken[s][i])
    BY <1>0, <1>3, BatchGoes
  <2>2. taken[s][i] \in Seq(Nat) /\ taken[s] # <<>>
    BY NowWatched
  <2>3. s \notin Prompt
    BY <1>0, <2>2, NowHolds DEF Holds, Ordered
  <2> DEFINE f == events[s] \o Batch(taken[s][i]) \o <<>>
  <2>4. PICK z : z = <<>>
    OBVIOUS
  <2>5. z \in Seq(AnyEvent)
    BY <2>4
  <2>6. Joined(f, events[s], taken[s][i], <<>>)
    BY <2>2, <2>4, <2>5, NowWatched, PostedEvents
  <2> HIDE DEF f
  <2>7. Noticed(s, reader[s].at, f)
    BY <2>6, NowWatched, EndStays DEF Noticed
  <2>8. ~Followed(s)
    BY <2>3 DEF Followed
  <2>9. QED
    BY <1>0, <2>1, <2>7, <2>8, AllWatched DEF f
<1>4. QED
  BY <1>1, <1>2, <1>3

(* The viewer leaves, starts, or gets its answer. *)
LEMMA LeaveWatched ==
  ASSUME WatchInv, Leave
  PROVE  RefIsWanted' /\ Exact' /\ \A t \in Streams : Watched(t)'
<1>1. UNCHANGED <<call, backend, logs>> /\ want' = NoStream /\ ref' = NoStream
  BY DEF Leave, StopStreaming
<1>2. RefIsWanted' /\ Exact'
  BY <1>1, LogAssumption DEF RefIsWanted, Exact
<1>3. ASSUME NEW t \in Streams PROVE Watched(t)'
  <2>1. UNCHANGED <<reader, buffer, events>> /\ ref' # t /\ want' # t
    BY <1>1, LogAssumption
  <2>2. Noticed(t, reader[t].at, events[t])
    BY NowWatched
  <2>3. QED
    BY <1>1, <2>1, <2>2 DEF Watched, Noticed, Followed, HasEnd
<1>4. QED
  BY <1>2, <1>3

LEMMA StartWatched ==
  ASSUME WatchInv, NEW s \in Streams, NEW h \in 0 .. Length[s] - 1, StartStreaming(s, h)
  PROVE  RefIsWanted' /\ Exact' /\ \A t \in Streams : Watched(t)'
<1>0. CarriedInv /\ h \in Nat
  BY LogAssumption DEF WatchInv
<1>1. /\ UNCHANGED backend /\ want' = s /\ ref' = NoStream /\ logs' = [i \in 1 .. h |-> i]
      /\ call'[s] = "asked" /\ \A t \in Streams \ {s} : call'[t] = call[t]
  BY <1>0 DEF StartStreaming, StopStreaming, CarriedInv, LeftInv, TimerInv, Typed
<1>2. reader[s].at = "none"
  BY <1>0, NowHolds DEF StartStreaming, NotStarted
<1>3. RefIsWanted' /\ Exact'
  <2>1. \A i \in 1 .. Len(logs') : logs'[i] = i
    BY <1>0, <1>1
  <2>2. QED
    BY <1>1, <2>1 DEF RefIsWanted, Exact
<1>4. ASSUME NEW t \in Streams PROVE Watched(t)'
  <2>1. UNCHANGED <<reader, buffer, events>> /\ ref' # t
    BY <1>1, LogAssumption
  <2>2. Noticed(t, reader[t].at, events[t])
    BY NowWatched
  <2>3. QED
    BY <1>1, <1>2, <2>1, <2>2 DEF Watched, Noticed, Followed, HasEnd
<1>5. QED
  BY <1>3, <1>4

LEMMA AnswerWatched ==
  ASSUME WatchInv, NEW s \in Streams, Answer(s)
  PROVE  RefIsWanted' /\ Exact' /\ \A t \in Streams : Watched(t)'
<1>0. CarriedInv
  BY DEF WatchInv
<1>1. /\ UNCHANGED <<backend, want, logs>> /\ ref' = s /\ call[s] = "answering"
      /\ call'[s] = "answered" /\ \A t \in Streams \ {s} : call'[t] = call[t]
  BY <1>0 DEF Answer, CarriedInv, LeftInv, TimerInv, Typed
<1>2. Settled => want = s
  BY <1>0, <1>1 DEF CarriedInv, LeftInv, StreamOK
<1>3. RefIsWanted' /\ Exact'
  BY <1>1, <1>2 DEF WatchInv, RefIsWanted, Exact
<1>4. ASSUME NEW t \in Streams PROVE Watched(t)'
  <2>1. UNCHANGED <<reader, buffer, events>>
    BY <1>1
  <2>2. Watched(t)
    BY DEF WatchInv
  <2>3. Followed(t)' => Followed(t)
    BY <1>1, <1>2 DEF Followed
  <2>4. Noticed(t, reader[t].at, events[t])'
    BY <1>1, <2>1, <2>2 DEF Watched, Noticed, HasEnd
  <2>5. QED
    BY <1>1, <2>1, <2>2, <2>3, <2>4 DEF Watched, Gapless, Coming
<1>5. QED
  BY <1>3, <1>4

(* The first connection begins on the screen or right behind it. *)
LEMMA OpenWatched ==
  ASSUME WatchInv, NEW s \in Streams, NEW n \in 1 .. Length[s] + 1, StartLogStream(s, n)
  PROVE  RefIsWanted' /\ Exact' /\ \A t \in Streams : Watched(t)'
<1>0. CarriedInv
  BY DEF WatchInv
<1>1. /\ UNCHANGED viewer /\ call[s] = "asked" /\ n <= Len(logs) + 1 /\ n \in Nat
      /\ \A t \in Streams \ {s} : call'[t] = call[t]
  BY <1>0, LogAssumption DEF StartLogStream, CarriedInv, LeftInv, TimerInv, Typed
<1>2. reader[s].at = "none"
  BY <1>0, <1>1, NowHolds DEF NotStarted
<1>3. reader[s].own = <<>> /\ buffer[s].lines = <<>> /\ events[s] = <<>>
  BY <1>2, NowWatched DEF Held
<1>4. /\ Goes(s, "reading", n, reader[s].own, buffer[s].lines)
      /\ Carries(s, taken[s], events[s], emitted[s], sent[s])
  BY <1>0, OpenGoes
<1>5. RefIsWanted' /\ Exact'
  BY <1>1 DEF WatchInv, RefIsWanted, Exact
<1>6. Watched(s)'
  <2>1. PICK e : e = <<>>
    OBVIOUS
  <2>2. Gapless(Len(logs), "reading", n, e, e, e)
    BY <1>1, <2>1, NowWatched, OpenGapless
  <2>3. /\ reader'[s].at = "reading" /\ reader'[s].next = n /\ reader'[s].own = e
        /\ buffer'[s].lines = e /\ events'[s] = e /\ Len(logs') = Len(logs)
    BY <1>1, <1>3, <1>4, <2>1 DEF Goes, Carries
  <2>4. QED
    BY <2>2, <2>3 DEF Watched, Noticed
<1>7. ASSUME NEW t \in Streams \ {s} PROVE Watched(t)'
  <2>1. reader'[t] = reader[t] /\ buffer'[t] = buffer[t] /\ events'[t] = events[t] /\ Watched(t)
    BY <1>4 DEF Goes, Carries, WatchInv
  <2>2. (Followed(t)' <=> Followed(t)) /\ Len(logs') = Len(logs)
    BY <1>1, <1>7 DEF Followed
  <2>3. QED
    BY <1>1, <1>7, <2>1, <2>2 DEF Watched, Noticed, HasEnd
<1>8. QED
  BY <1>5, <1>6, <1>7

(* An end that does not come first is still on its way. *)
LEMMA EndFollows ==
  ASSUME NEW e \in Seq(AnyEvent), e # <<>>, Head(e).kind \notin Ends, HasEnd(e)
  PROVE  HasEnd(Tail(e))
<1> DEFINE f == Tail(e)
<1>1. /\ Len(f) = Len(e) - 1 /\ Len(e) \in Nat /\ Head(e) = e[1]
      /\ \A i \in 1 .. Len(e) - 1 : f[i] = e[i + 1]
  OBVIOUS
<1> HIDE DEF f
<1>2. PICK i \in 1 .. Len(e) : e[i].kind \in Ends
  BY DEF HasEnd
<1>3. i # 1 /\ i \in Nat
  BY <1>1, <1>2
<1>4. i - 1 \in 1 .. Len(e) - 1 /\ i - 1 \in 1 .. Len(f) /\ (i - 1) + 1 = i
  BY <1>1, <1>3
<1>5. f[i - 1] = e[i]
  BY <1>1, <1>4
<1>6. QED
  BY <1>2, <1>4, <1>5 DEF HasEnd, f

(* An event of the stream that is shown continues the screen. *)
LEMMA ShownWatched ==
  ASSUME WatchInv, NEW s \in Streams, Handle(s), ref = s, Settled, s \in Prompt
  PROVE  /\ Followed(s) /\ logs' \in Seq(Nat) /\ Len(logs') >= Len(logs)
         /\ \A i \in 1 .. Len(logs') : logs'[i] = i
         /\ \A i \in 1 .. Len(Head(events[s]).lines) : Head(events[s]).lines[i] <= Len(logs')
<1>1. events[s] # <<>> /\ call[s] = "answered" /\ logs' = Shown(Head(events[s]).lines)
  BY DEF Handle
<1>2. want = s
  BY LogAssumption DEF WatchInv, RefIsWanted
<1>3. Followed(s)
  BY <1>1, <1>2 DEF Followed
<1>4. logs \in Seq(Nat) /\ \A i \in 1 .. Len(logs) : logs[i] = i
  BY <1>2, NowWatched DEF WatchInv, Exact
<1>5. Head(events[s]) = events[s][1] /\ 1 \in 1 .. Len(events[s]) /\ events[s][1] \in AnyEvent
  BY <1>1, NowWatched
<1>6. Head(events[s]).lines \in Seq(Nat) /\ Run(Head(events[s]).lines)
  BY <1>5, NowWatched DEF AnyEvent, Runs
<1>7. Head(events[s]).lines # <<>> => Head(events[s]).lines[1] <= Len(logs) + 1
  BY <1>1, <1>3, NowWatched, FirstCovered
<1>8. QED
  BY <1>1, <1>3, <1>4, <1>6, <1>7, ShownRun

LEMMA HandleWatched ==
  ASSUME WatchInv, NEW s \in Streams, Handle(s)
  PROVE  RefIsWanted' /\ Exact' /\ \A t \in Streams : Watched(t)'
<1>0. CarriedInv
  BY DEF WatchInv
<1>1. /\ UNCHANGED <<call, reader, buffer, want>> /\ events[s] # <<>>
      /\ events' = [events EXCEPT ![s] = Tail(@)]
      /\ Settled => call[s] = "answered"
      /\ ref' = IF ref = s /\ Head(events[s]).kind \in Ends THEN NoStream ELSE ref
      /\ ref # s => logs' = logs
  BY DEF Handle
<1>2. events'[s] = Tail(events[s]) /\ \A t \in Streams \ {s} : events'[t] = events[t]
  BY <1>0, <1>1, StreamTypes
<1>3. RefIsWanted'
  BY <1>1 DEF WatchInv, RefIsWanted
<1>4. Exact'
  <2>1. CASE ref = s
    <3>1. Settled => want = s
      BY <2>1, LogAssumption DEF WatchInv, RefIsWanted
    <3>2. QED
      BY <1>1, <2>1, <3>1, ShownWatched DEF Exact
  <2>2. CASE ref # s
    BY <1>1, <2>2 DEF WatchInv, Exact
  <2>3. QED
    BY <2>1, <2>2
<1>5. Watched(s)'
  <2>1. ASSUME Settled, reader[s].at = "over", ref' = s
        PROVE  HasEnd(Tail(events[s]))
    <3>1. ref = s /\ Head(events[s]).kind \notin Ends
      BY <1>1, <2>1, LogAssumption
    <3>2. HasEnd(events[s])
      BY <2>1, <3>1, NowWatched DEF Noticed
    <3>3. QED
      BY <1>1, <3>1, <3>2, NowWatched, EndFollows
  <2>2. PICK e : e = Tail(events[s])
    OBVIOUS
  <2>3. HasEnd(e)' <=> HasEnd(e)
    BY DEF HasEnd
  <2>4. Noticed(s, reader[s].at, e)'
    BY <1>1, <2>1, <2>2, <2>3 DEF Noticed
  <2>5. ASSUME Followed(s)'
        PROVE  Gapless(Len(logs'), reader[s].at, reader[s].next, reader[s].own, buffer[s].lines, e)
    <3>1. ref = s /\ Settled /\ s \in Prompt
      BY <1>1, <2>5, LogAssumption DEF Followed
    <3>2. /\ Followed(s) /\ Len(logs') \in Nat /\ Len(logs') >= Len(logs)
          /\ \A i \in 1 .. Len(Head(events[s]).lines) : Head(events[s]).lines[i] <= Len(logs')
      BY <3>1, ShownWatched
    <3>3. Gapless(Len(logs), reader[s].at, reader[s].next, reader[s].own, buffer[s].lines, events[s])
      BY <3>2, NowWatched
    <3>4. QED
      BY <1>1, <2>2, <3>2, <3>3, NowWatched, HandleGapless
  <2>6. QED
    BY <1>1, <1>2, <2>2, <2>4, <2>5 DEF Watched
<1>6. ASSUME NEW t \in Streams \ {s} PROVE Watched(t)'
  <2>1. /\ reader'[t] = reader[t] /\ buffer'[t] = buffer[t] /\ events'[t] = events[t] /\ Watched(t)
        /\ call'[t] = call[t] /\ (ref' = t => ref = t)
    BY <1>1, <1>2, LogAssumption DEF WatchInv
  <2>2. ASSUME Followed(t)' PROVE Followed(t) /\ logs' = logs
    <3>1. Settled /\ want = t /\ Followed(t)
      BY <1>1, <2>1, <2>2 DEF Followed
    <3>2. ref # s
      BY <3>1, <1>6, LogAssumption DEF WatchInv, RefIsWanted
    <3>3. QED
      BY <1>1, <3>1, <3>2
  <2>3. Followed(t)' => Gapless(Len(logs'), reader[t].at, reader[t].next, reader[t].own,
                                buffer[t].lines, events[t])
    BY <2>1, <2>2 DEF Watched
  <2>4. Noticed(t, reader[t].at, events[t])
    BY <2>1 DEF Watched
  <2>5. QED
    BY <2>1, <2>3, <2>4 DEF Watched, Noticed, HasEnd
<1>7. QED
  BY <1>3, <1>4, <1>5, <1>6

LEMMA InitWatch == Init => WatchInv
<1> SUFFICES ASSUME Init PROVE WatchInv
  OBVIOUS
<1>1. CarriedInv
  BY InitCarried
<1>2. RefIsWanted /\ Exact
  BY DEF Init, RefIsWanted, Exact
<1>3. \A s \in Streams : Watched(s)
  BY LogAssumption DEF Init, Watched, Noticed, Followed
<1>4. QED
  BY <1>1, <1>2, <1>3 DEF WatchInv

LEMMA NextWatch == WatchInv /\ [Next]_vars => WatchInv'
<1> SUFFICES ASSUME WatchInv, [Next]_vars PROVE WatchInv'
  OBVIOUS
<1>1. CarriedInv'
  BY NextCarried DEF WatchInv
<1>2. RefIsWanted' /\ Exact' /\ \A t \in Streams : Watched(t)'
  <2>1. CASE Leave
    BY <2>1, LeaveWatched
  <2>2. CASE UNCHANGED vars
    <3>1. UNCHANGED <<call, backend, viewer>>
      BY <2>2 DEF vars
    <3>2. RefIsWanted' /\ Exact'
      BY <3>1 DEF WatchInv, RefIsWanted, Exact, viewer
    <3>3. ASSUME NEW t \in Streams PROVE Watched(t)'
      <4>1. Watched(t)
        BY DEF WatchInv
      <4>2. QED
        BY <3>1, <4>1 DEF Watched, Noticed, Followed, HasEnd, Gapless, Coming, backend, viewer
    <3>4. QED
      BY <3>2, <3>3
  <2>3. ASSUME NEW s \in Streams,
               \/ \E h \in 0 .. Length[s] - 1 : StartStreaming(s, h)
               \/ Answer(s) \/ Handle(s)
               \/ \E n \in 1 .. Length[s] + 1 : StartLogStream(s, n)
        PROVE  RefIsWanted' /\ Exact' /\ \A t \in Streams : Watched(t)'
    BY <2>3, StartWatched, AnswerWatched, HandleWatched, OpenWatched
  <2>4. ASSUME NEW s \in Streams,
               EmitLine(s) \/ ReadEnds(s) \/ (\E n \in 1 .. Length[s] + 1 : Reconnect(s, n))
        PROVE  RefIsWanted' /\ Exact' /\ \A t \in Streams : Watched(t)'
    BY <2>4, ReaderWatched
  <2>5. ASSUME NEW s \in Streams,
               \/ EmitError(s) \/ EmitDone(s) \/ ReportError(s) \/ ReportDone(s)
               \/ TimerFires(s) \/ FlushStream(s) \/ EmitBatch(s) \/ StopLogStream(s)
        PROVE  RefIsWanted' /\ Exact' /\ \A t \in Streams : Watched(t)'
    BY <2>5, ReportWatched, FrameWatched
  <2>6. QED
    BY <2>1, <2>2, <2>3, <2>4, <2>5 DEF Next
<1>3. QED
  BY <1>1, <1>2 DEF WatchInv

-----------------------------------------------------------------------------
(* The log stream, its buffer and the viewer hold lines of the log, one     *)
(* timer or callback at most, and no buffer is left once a stream ended     *)
(* (app_logs.go, logcoalescer.go, useLogStream.ts).                         *)
THEOREM LinesTyped == Spec => []TypeOK
<1>1. CarriedInv => TypeOK
  <2> SUFFICES ASSUME CarriedInv PROVE TypeOK
    OBVIOUS
  <2>1. Typed /\ History
    BY DEF CarriedInv, LeftInv, TimerInv
  <2>2. ASSUME NEW s \in Streams
        PROVE  /\ reader[s].at \in Places
               /\ reader[s].next \in 1 .. Length[s] + 1 /\ reader[s].own \in Seq(Lines(s))
               /\ buffer[s].lines \in Seq(Lines(s))
               /\ due[s] \in {0, 1} /\ taken[s] \in Seq(Seq(Lines(s)))
               /\ buffer[s].armed => buffer[s].pending
               /\ reader[s].at \in {"draining", "over"} => buffer[s] = NoBuffer
    <3>1. Carried(s) /\ TimerOK(s)
      BY DEF CarriedInv, LeftInv, TimerInv
    <3>2. reader[s].at \in Places
      BY StreamTypes DEF ReaderType
    <3>3. QED
      BY <3>1, <3>2, <2>1 DEF Carried, Holds, InLog, TimerOK, Typed
  <2>3. QED
    BY <2>1, <2>2 DEF TypeOK, Typed, History, Places, Calls
<1>2. QED
  BY InitCarried, NextCarried, <1>1, PTL DEF Spec

(* No line is lost or sent twice on its way through the coalescer, a prompt *)
(* stream sends them in order and ends with its end, and if answers come    *)
(* first its viewer shows the log without gaps and repetitions and is told  *)
(* of the end (logcoalescer.go, app_logs.go, useLogStream.ts).              *)
THEOREM LogAlwaysExact == Spec => []LogExact
<1>1. WatchInv => LogExact
  <2> SUFFICES ASSUME WatchInv PROVE LogExact
    OBVIOUS
  <2>1. CarriedInv
    BY DEF WatchInv
  <2>2. NothingLost
    BY <2>1, NowHolds DEF NothingLost, Holds, Counted
  <2>3. InOrder
    <3> SUFFICES ASSUME NEW s \in Prompt
                 PROVE  /\ emitted[s] = sent[s] \o reader[s].own \o buffer[s].lines
                        /\ \A i \in 1 .. Len(events[s]) - 1 : events[s][i].kind \in Ends =>
                             /\ i = Len(events[s]) - 1
                             /\ events[s][i].kind = "error" /\ events[s][i + 1].kind = "done"
      BY DEF InOrder
    <3>1. s \in Streams
      BY LogAssumption
    <3>2. emitted[s] = sent[s] \o reader[s].own \o buffer[s].lines
      BY <2>1, <3>1, NowHolds DEF Holds, Ordered
    <3>3. Ending(reader[s].at, reader[s].own, buffer[s].lines, events[s])
      BY <2>1, <3>1, NowHolds DEF Holds
    <3>4. reader[s].at \in Places /\ Len(events[s]) \in Nat
      BY <2>1, <3>1, StreamTypes DEF ReaderType
    <3>5. CASE reader[s].at \in {"none", "reading", "failed", "reporting"}
      <4>1. events[s] \in Seq(LineEvent)
        BY <2>1, <3>1, <3>5, NowHolds
      <4>2. \A i \in 1 .. Len(events[s]) : events[s][i] \in LineEvent
        BY <4>1
      <4>3. \A i \in 1 .. Len(events[s]) - 1 : events[s][i].kind \notin Ends
        BY <3>4, <4>2 DEF LineEvent, Ends
      <4>4. QED
        BY <3>2, <4>3
    <3>6. CASE reader[s].at \in {"closing", "draining"}
      BY <3>2, <3>3, <3>4, <3>6 DEF Ending
    <3>7. CASE reader[s].at = "over"
      BY <3>2, <3>3, <3>7 DEF Ending
    <3>8. QED
      BY <3>4, <3>5, <3>6, <3>7 DEF Places
  <2>4. ViewExact
    <3> SUFFICES ASSUME Settled, want \in Prompt PROVE logs = [i \in 1 .. Len(logs) |-> i]
      BY DEF ViewExact
    <3>1. logs \in Seq(Nat) /\ \A i \in 1 .. Len(logs) : logs[i] = i
      BY <2>1 DEF WatchInv, Exact, CarriedInv, History
    <3>2. QED
      BY <3>1
  <2>5. EndIsNoticed
    <3> SUFFICES ASSUME Settled, ref # NoStream, reader[ref].at = "over"
                 PROVE  HasEnd(events[ref])
      BY DEF EndIsNoticed, HasEnd
    <3>1. ref \in Streams
      BY <2>1 DEF CarriedInv, LeftInv, TimerInv, Typed
    <3>2. QED
      BY <3>1, NowWatched DEF Noticed
  <2>6. QED
    BY <2>2, <2>3, <2>4, <2>5 DEF LogExact
<1>2. QED
  BY InitWatch, NextWatch, <1>1, PTL DEF Spec
=============================================================================
