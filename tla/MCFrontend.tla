----------------------------- MODULE MCFrontend -----------------------------
(* Six parts of the frontend that share no state: a behaviour is one of     *)
(* the part chosen at its start.  Polling rests in its initial state in the *)
(* behaviours of the others, whose variables are Off in those of another.   *)
EXTENDS Polling

CONSTANTS
  Sessions, Requests, NoSession, NoRequest, MaxChunks, Disturbances,
  Targets, NoTarget, Fetches,
  Types, Namespaces, Window, Threshold, MaxTime, MaxFaults,
  t1, t2, n1, n2,
  Logs, LogTargets, Merged, PageSize, Second, MaxLines, LastTime, MaxPages, Orderly,
  StreamLogs, ChannelSize, left, right

VARIABLES
  part,
  disturbed, sessions, request, events, starting, set, rendered, generation, newest, chat,
  pending, queue, screen,
  panel, target, fetch, shown, failed, loading,
  used, loop, gap, statuses, time, faults, mode, prev, timer, failures, openedAt, history,
  log, written, sel, follow, view, load, error, calls, seen, missed,
  lines, reader, lineChan, buffer, outcome, stopped, emitted, kept

chatVars == <<disturbed, sessions, request, events, starting, set, rendered, generation, newest,
  chat, pending, queue, screen>>
panelVars == <<panel, target, fetch, shown, failed, loading>>
monitorVars == <<used, loop, gap, statuses, time, faults, mode, prev, timer, failures, openedAt,
  history>>
pagingVars == <<log, written, sel, follow, view, load, error, calls, seen, missed>>
mergeVars == <<lines, reader, lineChan, buffer, outcome, stopped, emitted, kept>>

(* Up to names: one watch, two of a type, two of different types. *)
Layouts == {{<<t1, n1>>}, {<<t1, n1>>, <<t1, n2>>}, {<<t1, n1>>, <<t2, n1>>}}

Chat == INSTANCE AIChat WITH faults <- disturbed, wire <- events, shown <- rendered
Panel == INSTANCE Panels
Monitor == INSTANCE ConnectionMonitor WITH wire <- statuses, clock <- time
Paging == INSTANCE LogPaging WITH failed <- missed, now <- written
Merge == INSTANCE MergedStream WITH loop <- outcome, canceled <- stopped, shown <- kept

ASSUME FrontendAssumption ==
  /\ Chat!ChatAssumption /\ Panel!PanelAssumption /\ Monitor!MonitorAssumption
  /\ Paging!PagingAssumption /\ Merge!MergeAssumption

(* Values of Logs and StreamLogs: the lines of two containers.  With, and   *)
(* without, more lines in a second than a page holds: of both containers    *)
(* together, of none, of one, of none; and with fewer.                      *)
Of(A, B) == [s \in {left, right} |-> IF s = left THEN A ELSE B]

PagingLogs ==
  {Of({1, 3, 5, 6}, {2, 4}), Of({1, 2, 4, 6}, {5}), Of({3, 4, 5, 6}, {1, 2}), Of({2, 3, 6}, {1, 5}),
   Of({2, 6}, {4})}

MergeLogs == {Of(A, (1 .. 4) \ A) : A \in SUBSET (1 .. 4)}

Parts == {"chat", "polling", "panel", "monitor", "paging", "merge"}
Off == "off"

FrontendInit ==
  /\ part \in Parts
  /\ Init /\ (part # "polling" => ~racy)
  /\ IF part = "chat" THEN Chat!Init ELSE
       /\ disturbed = Off /\ sessions = Off /\ request = Off /\ events = Off /\ starting = Off
       /\ set = Off /\ rendered = Off /\ generation = Off /\ newest = Off /\ chat = Off
       /\ pending = Off /\ queue = Off /\ screen = Off
  /\ IF part = "panel" THEN Panel!Init ELSE
       /\ panel = Off /\ target = Off /\ fetch = Off /\ shown = Off /\ failed = Off
       /\ loading = Off
  /\ IF part = "monitor" THEN Monitor!Init ELSE
       /\ used = Off /\ loop = Off /\ gap = Off /\ statuses = Off /\ time = Off /\ faults = Off
       /\ mode = Off /\ prev = Off /\ timer = Off /\ failures = Off /\ openedAt = Off
       /\ history = Off
  /\ IF part = "paging" THEN Paging!Init ELSE
       /\ log = Off /\ written = Off /\ sel = Off /\ follow = Off /\ view = Off /\ load = Off
       /\ error = Off /\ calls = Off /\ seen = Off /\ missed = Off
  /\ IF part = "merge" THEN Merge!Init ELSE
       /\ lines = Off /\ reader = Off /\ lineChan = Off /\ buffer = Off /\ outcome = Off
       /\ stopped = Off /\ emitted = Off /\ kept = Off

FrontendNext ==
  \/ part = "polling" /\ Next
     /\ UNCHANGED <<part, chatVars, panelVars, monitorVars, pagingVars, mergeVars>>
  \/ part = "chat" /\ Chat!Next
     /\ UNCHANGED <<part, vars, panelVars, monitorVars, pagingVars, mergeVars>>
  \/ part = "panel" /\ Panel!Next
     /\ UNCHANGED <<part, vars, chatVars, monitorVars, pagingVars, mergeVars>>
  \/ part = "monitor" /\ Monitor!Next
     /\ UNCHANGED <<part, vars, chatVars, panelVars, pagingVars, mergeVars>>
  \/ part = "paging" /\ Paging!Next
     /\ UNCHANGED <<part, vars, chatVars, panelVars, monitorVars, mergeVars>>
  \/ part = "merge" /\ Merge!Next
     /\ UNCHANGED <<part, vars, chatVars, panelVars, monitorVars, pagingVars>>

frontendVars == <<part, vars, chatVars, panelVars, monitorVars, pagingVars, mergeVars>>

(* The fairness is that of Polling. *)
FrontendSpec == FrontendInit /\ [][FrontendNext]_frontendVars /\ Fairness

-----------------------------------------------------------------------------
PartsTyped ==
  /\ TypeOK
  /\ part = "chat" => Chat!TypeOK
  /\ part = "panel" => Panel!TypeOK
  /\ part = "monitor" => Monitor!TypeOK
  /\ part = "paging" => Paging!TypeOK
  /\ part = "merge" => Merge!TypeOK

(* The properties of AIChat. *)
ChatSound == part = "chat" => Chat!ChatSound

(* What is on the screen, once nothing is under way, is the newest data: of *)
(* a panel with its own fetches, and of the views after a watch restarted.  *)
QuietIsCurrent ==
  /\ part = "panel" => Panel!QuietIsCurrent
  /\ part = "monitor" => Monitor!GapsAreListed

(* The log away from its stream, and the stream of several containers.      *)
LinesExact ==
  /\ part = "paging" => Paging!PagesSound
  /\ part = "merge" => Merge!MergeSound

(* No overtaken answer is shown by a panel; and the views fall back to      *)
(* polling for a watch that keeps failing, at once, and for no other.       *)
StepsSound ==
  [][/\ part = "panel" => Panel!ShowsNoLateAnswer
     /\ part = "monitor" => Monitor!FallsBackNow]_frontendVars
=============================================================================
