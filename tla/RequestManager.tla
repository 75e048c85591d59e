--------------------------- MODULE RequestManager ---------------------------
(***************************************************************************)
(* The calls of the frontend that may be cancelled: lists of resources     *)
(* (listrequests.go) and queries of the metrics tabs (metricsrequests.go). *)
(* Both managers keep the newest request of an ID; they differ in that the *)
(* cancellation of lists can be switched off.  Each list has an ID of its  *)
(* own, a metrics tab uses the same ID again and again.  Every call is     *)
(* served by its own goroutine, so calls of one client may overtake each   *)
(* other.                                                                  *)
(***************************************************************************)
EXTENDS Integers, FiniteSets

CONSTANTS
  Lists,     \* effects of resource views
  Tabs,      \* effects of metrics tabs
  Requests,  \* requests; a request is also its sequence number
  NoRequest, NoClient,
  Orderly    \* whether the calls for an ID that are no longer wanted are
             \* served before the one that is

ASSUME RequestAssumption ==
  /\ Lists \cap Tabs = {} /\ Requests \cap Tabs = {}
  /\ NoRequest \notin Requests /\ NoClient \notin Lists \cup Tabs
  /\ Orderly \in BOOLEAN

Clients == Lists \cup Tabs
Ids == Requests \cup Tabs
Managers == {"list", "metrics"}

VARIABLES
  enabled, \* cancellationEnabled of the list manager
  entry,   \* id -> the request in its manager's map, or NoRequest
  stats,   \* manager -> its counters
  req,     \* the requests
  current, \* client -> the request of its running effect, or NoRequest
  shown    \* client -> what it shows

requestVars == <<enabled, entry, stats, req, current, shown>>

(* at: its call is "sent", "running" in the cluster, "returned" by the       *)
(* backend, "over" in the frontend.  ctx: "expired" by its timeout,   *)
(* "canceled" if it ended and is not in the map, "released" if it was given *)
(* up while cancellation is off.  unwanted: a Cancel call of its client is  *)
(* on its way.                                                              *)
Blank == [at |-> "unused", client |-> NoClient, ctx |-> "open", answer |-> "none",
          unwanted |-> FALSE]

Answers == {"data", "error", "nil"}

RequestsTyped ==
  /\ enabled \in BOOLEAN
  /\ entry \in [Ids -> Requests \cup {NoRequest}]
  /\ stats \in [Managers -> [total : Nat, pending : Nat, completed : Nat, canceled : Nat]]
  /\ req \in [Requests -> [at : {"unused", "sent", "running", "returned", "over"},
                           client : Clients \cup {NoClient},
                           ctx : {"open", "canceled", "released", "expired"},
                           answer : Answers \cup {"none"}, unwanted : BOOLEAN]]
  /\ current \in [Clients -> Requests \cup {NoRequest}]
  /\ shown \in [Clients -> Answers \cup {"nothing", "loading"}]
  /\ \A r \in Requests : req[r].at # "unused" => req[r].client \in Clients
  /\ \A r \in Requests : req[r].at \in {"returned", "over"} => req[r].answer \in Answers

IdOf(r) == IF req[r].client \in Tabs THEN req[r].client ELSE r
ManagerOf(i) == IF i \in Tabs THEN "metrics" ELSE "list"
Tracked(m) == {i \in Ids : ManagerOf(i) = m /\ entry[i] # NoRequest}

RequestsInit ==
  /\ enabled = TRUE
  /\ entry = [i \in Ids |-> NoRequest]
  /\ stats = [m \in Managers |-> [total |-> 0, pending |-> 0, completed |-> 0, canceled |-> 0]]
  /\ req = [r \in Requests |-> Blank]
  /\ current = [c \in Clients |-> NoRequest]
  /\ shown = [c \in Clients |-> "nothing"]

-----------------------------------------------------------------------------
(* The frontend.                                                           *)

(* An ID no request had before (++requestCounter). *)
NextRequest == CHOOSE r \in Requests : req[r] = Blank

(* The effect runs: the view or tab is opened, or what it depends on        *)
(* changed (then Close comes first).                                        *)
Open(c, r) ==
  /\ current[c] = NoRequest /\ req[r] = Blank /\ r = NextRequest
  /\ current' = [current EXCEPT ![c] = r]
  /\ shown' = [shown EXCEPT ![c] = "loading"]
  /\ req' = [req EXCEPT ![r] = [Blank EXCEPT !.at = "sent", !.client = c]]
  /\ UNCHANGED <<enabled, entry, stats>>

(* Its cleanup.  A view cancels the lists that have not come back, a tab    *)
(* always cancels.                                                          *)
Close(c) ==
  /\ current[c] # NoRequest
  /\ req' = [req EXCEPT ![current[c]] = [@ EXCEPT !.unwanted = c \in Tabs \/ req[current[c]].at # "over"]]
  /\ current' = [current EXCEPT ![c] = NoRequest]
  /\ shown' = [shown EXCEPT ![c] = "nothing"]
  /\ UNCHANGED <<enabled, entry, stats>>

(* Mutant: an answer is shown whichever request it belongs to. *)
DeliverAny(r) ==
  /\ req[r].at = "returned"
  /\ req' = [req EXCEPT ![r] = [@ EXCEPT !.at = "over"]]
  /\ shown' = [shown EXCEPT ![req[r].client] = req[r].answer]
  /\ UNCHANGED <<enabled, entry, stats, current>>

(* The promise settles; an answer that is no longer wanted is dropped. *)
Deliver(r) ==
  /\ req[r].at = "returned"
  /\ req' = [req EXCEPT ![r] = [@ EXCEPT !.at = "over"]]
  /\ shown' = [shown EXCEPT ![req[r].client] =
                 IF current[req[r].client] = r THEN req[r].answer ELSE @]
  /\ UNCHANGED <<enabled, entry, stats, current>>

SetCancellationEnabled ==
  /\ enabled' = ~enabled
  /\ UNCHANGED <<entry, stats, req, current, shown>>

-----------------------------------------------------------------------------
(* The managers.                                                           *)

Count(m, total, pending, completed, canceled) ==
  stats' = [stats EXCEPT ![m] =
    [total |-> stats[m].total + total, pending |-> stats[m].pending + pending,
     completed |-> stats[m].completed + completed, canceled |-> stats[m].canceled + canceled]]

(* A request leaves the map before its end: its context is cancelled,       *)
(* unless the switch is off.                                                *)
GiveUp(x) ==
  [x EXCEPT !.ctx = IF enabled \/ x.client \in Tabs \/ x.ctx = "expired"
                    THEN "canceled" ELSE "released"]

(* The other calls for its ID that precede the one of a running effect. *)
InTurn(r) ==
  Orderly /\ current[req[r].client] = r =>
    \A s \in Requests \ {r} : IdOf(s) = IdOf(r) => ~req[s].unwanted /\ req[s].at # "sent"

(* Mutant: the request that is replaced is not counted. *)
StartUncounted(r) ==
  LET i == IdOf(r)
      old == entry[i] IN
  /\ req[r].at = "sent" /\ InTurn(r)
  /\ entry' = [entry EXCEPT ![i] = r]
  /\ req' = [s \in Requests |-> IF s = r THEN [req[r] EXCEPT !.at = "running"]
                                ELSE IF s = old THEN GiveUp(req[s]) ELSE req[s]]
  /\ Count(ManagerOf(i), 1, 1, 0, 0)
  /\ UNCHANGED <<enabled, current, shown>>

(* Mutant: the new request is registered before the old one is cancelled. *)
StartSwapped(r) ==
  LET i == IdOf(r)
      old == entry[i] IN
  /\ req[r].at = "sent" /\ InTurn(r)
  /\ entry' = [entry EXCEPT ![i] = r]
  /\ req' = [req EXCEPT ![r] = GiveUp([@ EXCEPT !.at = "running"])]
  /\ IF old = NoRequest THEN Count(ManagerOf(i), 1, 1, 0, 0) ELSE Count(ManagerOf(i), 1, 0, 0, 1)
  /\ UNCHANGED <<enabled, current, shown>>

StartRequest(r) ==
  LET i == IdOf(r)
      old == entry[i] IN
  /\ req[r].at = "sent" /\ InTurn(r)
  /\ entry' = [entry EXCEPT ![i] = r]
  /\ req' = [s \in Requests |-> IF s = r THEN [req[r] EXCEPT !.at = "running"]
                                ELSE IF s = old THEN GiveUp(req[s]) ELSE req[s]]
  /\ IF old = NoRequest THEN Count(ManagerOf(i), 1, 1, 0, 0) ELSE Count(ManagerOf(i), 1, 0, 0, 1)
  /\ UNCHANGED <<enabled, current, shown>>

(* Mutant: a Cancel counts whether or not it finds a request. *)
CancelUnchecked(r) ==
  LET i == IdOf(r)
      old == entry[i] IN
  /\ req[r].unwanted
  /\ req' = [s \in Requests |-> LET x == IF s = old THEN GiveUp(req[s]) ELSE req[s]
                                IN  IF s = r THEN [x EXCEPT !.unwanted = FALSE] ELSE x]
  /\ entry' = [entry EXCEPT ![i] = NoRequest]
  /\ Count(ManagerOf(i), 0, -1, 0, 1)
  /\ UNCHANGED <<enabled, current, shown>>

(* CancelRequest names an ID; it may come before the StartRequest it is     *)
(* meant for.                                                               *)
CancelRequest(r) ==
  LET i == IdOf(r)
      old == entry[i] IN
  /\ req[r].unwanted
  /\ req' = [s \in Requests |-> LET x == IF s = old THEN GiveUp(req[s]) ELSE req[s]
                                IN  IF s = r THEN [x EXCEPT !.unwanted = FALSE] ELSE x]
  /\ entry' = [entry EXCEPT ![i] = NoRequest]
  /\ IF old = NoRequest THEN UNCHANGED stats ELSE Count(ManagerOf(i), 0, -1, 0, 1)
  /\ UNCHANGED <<enabled, current, shown>>

(* What a call returns.  "data" is whatever the cluster answers, its errors *)
(* included.  A list whose context ended by cancellation or timeout returns *)
(* nil and no error; a query returns the error.                             *)
Ended(r) == req[r].ctx \in {"canceled", "expired"}

AnswersOf(r) ==
  {"data"} \cup IF Ended(r) THEN {IF req[r].client \in Tabs THEN "error" ELSE "nil"} ELSE {}

(* Mutant: a request completes the newest one of its ID. *)
CompleteById(r) ==
  LET i == IdOf(r) IN
  /\ req[r].at = "running"
  /\ \E a \in AnswersOf(r) : req' = [req EXCEPT ![r] = [@ EXCEPT !.at = "returned", !.answer = a]]
  /\ IF entry[i] # NoRequest
     THEN entry' = [entry EXCEPT ![i] = NoRequest] /\ Count(ManagerOf(i), 0, -1, 1, 0)
     ELSE UNCHANGED <<entry, stats>>
  /\ UNCHANGED <<enabled, current, shown>>

(* The call returns: the deferred CompleteRequest. *)
CompleteRequest(r) ==
  LET i == IdOf(r) IN
  /\ req[r].at = "running"
  /\ \E a \in AnswersOf(r) : req' = [req EXCEPT ![r] = [@ EXCEPT !.at = "returned", !.answer = a]]
  /\ IF entry[i] = r
     THEN entry' = [entry EXCEPT ![i] = NoRequest] /\ Count(ManagerOf(i), 0, -1, 1, 0)
     ELSE UNCHANGED <<entry, stats>>
  /\ UNCHANGED <<enabled, current, shown>>

(* Mutant: a request that was given up has no timeout. *)
ExpireTracked(r) ==
  /\ req[r].at = "running" /\ req[r].ctx = "open"
  /\ req' = [req EXCEPT ![r] = [@ EXCEPT !.ctx = "expired"]]
  /\ UNCHANGED <<enabled, entry, stats, current, shown>>

(* The timeout of its context; one that was given up has the same. *)
Expire(r) ==
  /\ req[r].at = "running" /\ req[r].ctx \in {"open", "released"}
  /\ req' = [req EXCEPT ![r] =
               [@ EXCEPT !.ctx = IF req[r].ctx = "open" THEN "expired" ELSE "canceled"]]
  /\ UNCHANGED <<enabled, entry, stats, current, shown>>

RequestsNext ==
  \/ \E c \in Clients : Close(c) \/ \E r \in Requests : Open(c, r)
  \/ SetCancellationEnabled
  \/ \E r \in Requests :
       \/ StartRequest(r) \/ CancelRequest(r) \/ CompleteRequest(r)
       \/ Expire(r) \/ Deliver(r)

RequestsSpec == RequestsInit /\ [][RequestsNext]_requestVars

(* Calls are served, timeouts fire, and a request whose context ended       *)
(* returns.  The cluster need not answer.                                   *)
RequestsFairness ==
  \A r \in Requests :
    /\ WF_requestVars(StartRequest(r)) /\ WF_requestVars(CancelRequest(r)) /\ WF_requestVars(Expire(r))
    /\ WF_requestVars(CompleteRequest(r) /\ Ended(r)) /\ WF_requestVars(Deliver(r))

RequestsFairSpec == RequestsSpec /\ RequestsFairness

-----------------------------------------------------------------------------
(* The counters of a manager add up, whatever overtakes what: each request  *)
(* that started is pending, completed or canceled, and pending is the size  *)
(* of the map.                                                              *)
StatsExact ==
  \A m \in Managers :
    /\ stats[m].total = stats[m].pending + stats[m].completed + stats[m].canceled
    /\ stats[m].pending = Cardinality(Tracked(m))

(* The map holds exactly the requests that run and were not given up: none  *)
(* is left behind when its call returns, and Cancel reaches each of them.   *)
EntryExact ==
  \A r \in Requests : req[r].client # NoClient =>
    (entry[IdOf(r)] = r <=> req[r].at = "running" /\ req[r].ctx \in {"open", "expired"})

(* Counters and map agree with the requests that run.                       *)
AccountsExact == StatsExact /\ EntryExact

(* If the calls that are no longer wanted are served first, the request a   *)
(* client waits for is not cancelled by one of its earlier requests.        *)
CurrentNotCanceled ==
  Orderly => \A c \in Clients : current[c] # NoRequest => req[current[c]].ctx \in {"open", "expired"}

(* A client shows the answer of its newest request and no other, and the    *)
(* loading state until then.                                                *)
ShowsCurrent ==
  \A c \in Clients :
    LET r == current[c] IN
    shown[c] = IF r = NoRequest THEN "nothing"
               ELSE IF req[r].at = "over" THEN req[r].answer ELSE "loading"

(* What a client shows is the answer to what it asked last, which none of   *)
(* its own earlier requests cancels.                                        *)
AnswersCurrent == CurrentNotCanceled /\ ShowsCurrent

(* Every call returns to the frontend, also one that was given up while     *)
(* cancellation is off and one the cluster never answers.                   *)
CallsReturn ==
  \A r \in Requests : req[r].at = "sent" ~> req[r].at = "over"

(* A failure is never shown as a successful empty list                      *)
(* (namespaceQuery.ts).                                                     *)
FailureIsNoEmptyList ==
  \A c \in Clients : shown[c] # "nil"
=============================================================================
