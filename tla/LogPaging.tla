----------------------------- MODULE LogPaging -----------------------------
(***************************************************************************)
(* The log viewer away from its stream: the first page, chunks of older    *)
(* and newer lines, and polls (useLogStream.ts, logUtils.ts), answered by  *)
(* the page reads of podlogs.go.  A line is its timestamp, of which no two *)
(* are equal; 0 stands for "no timestamp".                                 *)
(***************************************************************************)
EXTENDS Integers, FiniteSets, SequencesExt

CONSTANTS
  Logs,      \* source -> the timestamps of its lines, in the end: the choices
  LogTargets, \* what may be selected: sets of sources
  Merged,    \* the targets read through GetAll...
  PageSize,     \* CHUNK_SIZE, and the 200 lines of the first page
  Second,    \* timestamps per second
  MaxLines,  \* bound: lines on screen before a newer chunk
  LastTime,  \* bound: no line is newer
  MaxPages,  \* MAX_LOG_PAGES_PER_POLL
  Orderly    \* whether a fetch is alone, and polls and newer chunks take turns

PagingAssumption ==
  /\ Merged \subseteq LogTargets /\ Orderly \in BOOLEAN
  /\ \A t \in LogTargets \ Merged : \E s \in t : t = {s}
  /\ {PageSize, Second, MaxLines, LastTime, MaxPages} \subseteq Nat \ {0}
  /\ \A l \in Logs : UNION LogTargets \subseteq DOMAIN l /\ \A s \in DOMAIN l :
       l[s] \subseteq 1 .. LastTime /\ \A r \in DOMAIN l \ {s} : l[r] \cap l[s] = {}

VARIABLES
  log, now,  \* the lines, of which those until now are written
  sel,       \* the selection: target, viewMode, sinceTime
  follow,    \* autoFollow
  view,      \* logs
  load,      \* loading, hasMore..., lastFetched...Ts; busy: the loading...Refs
  error,     \* fetchError
  calls,     \* requests under way
  seen,      \* now, when the newest page was read; 0 once following changed (history)
  failed     \* the chunks that failed since the last fetch (history)

pagingVars == <<log, now, sel, follow, view, load, error, calls, seen, failed>>

Call(kind, s, cursor, had) ==
  [kind |-> kind, sel |-> s, cursor |-> cursor, had |-> had, lines |-> <<>>, pages |-> 0]

Selection ==
  [target : LogTargets, mode : {"start"}, since : {0}] \cup
  [target : LogTargets, mode : {"end"}, since : {0} \cup {x \in 1 .. LastTime : x % Second = 0}]

TypeOK ==
  /\ log \in Logs /\ {now, seen} \subseteq 0 .. LastTime /\ sel \in Selection
  /\ {follow, error} \subseteq BOOLEAN /\ view \in Seq(1 .. LastTime)
  /\ load \in [loading : BOOLEAN, hasBefore : BOOLEAN, hasAfter : BOOLEAN,
               beforeTs : 0 .. LastTime, afterTs : 0 .. LastTime,
               busy : SUBSET {"before", "after", "poll"}]
  /\ \A c \in calls : /\ c.kind \in {"fetch", "before", "after", "poll"} /\ c.sel \in Selection
                      /\ c.lines \in Seq(1 .. LastTime) /\ c.pages \in 0 .. MaxPages - 1
  /\ failed \subseteq {"before", "after"}

(* The viewer opens at either end and fetches. *)
Init ==
  /\ log \in Logs /\ now \in 0 .. LastTime /\ seen = 0 /\ failed = {}
  /\ sel \in {s \in Selection : s.since = 0} /\ follow = TRUE /\ view = <<>> /\ error = FALSE
  /\ load = [loading |-> TRUE, hasBefore |-> FALSE, hasAfter |-> FALSE,
             beforeTs |-> 0, afterTs |-> 0, busy |-> {}]
  /\ calls = {Call("fetch", sel, 0, FALSE)}

-----------------------------------------------------------------------------
(* The page reads.                                                          *)

Lines(t) == {x \in UNION {log[s] : s \in t} : x <= now}
Oldest(S, n) == {x \in S : Cardinality({y \in S : y < x}) < n}
Newest(S, n) == {x \in S : Cardinality({y \in S : y > x}) < n}
Sorted(S) == [i \in 1 .. Cardinality(S) |-> CHOOSE x \in S : Cardinality({y \in S : y < x}) = i - 1]

(* The API takes SinceTime in whole seconds. *)
SinceSecond(s, time) == {x \in Lines({s}) : x \div Second >= time \div Second}

(* readBoundedLogPage: n lines at most.  (4 MiB are never reached.) *)
ReadPage(s, time, n) == Oldest(SinceSecond(s, time), n)

ReadMerged(t, time, n) == UNION {ReadPage(s, time, n) : s \in t}

FirstLines(t) == Sorted(Oldest(Lines(t), PageSize))
LastLines(t) == Sorted(Newest(Lines(t), PageSize))
LinesSince(t, time) == Sorted(Oldest(ReadMerged(t, time, PageSize), PageSize))

FirstPage(s) ==
  IF s.mode = "start" THEN FirstLines(s.target)
  ELSE IF s.since = 0 THEN LastLines(s.target) ELSE LinesSince(s.target, s.since)

(* Mutant: the chunk ends with the line it was asked for. *)
PageBeforeInclusive(t, cursor) ==
  LET older == {x \in Lines(t) : x <= cursor}
  IN  [lines |-> Sorted(Newest(older, PageSize)), more |-> Cardinality(older) >= PageSize]

(* GetPodLogsBefore and its variants. *)
PageBefore(t, cursor) ==
  LET older == {x \in Lines(t) : x < cursor}
  IN  [lines |-> Sorted(Newest(older, PageSize)), more |-> Cardinality(older) >= PageSize]

(* nextLogSinceTime: the cursor itself is not asked for again. *)
NextSinceTime(cursor) == cursor + 1

(* A line more is read than returned; what is not newer is skipped, and the *)
(* empty string after the last newline counts as a line.                   *)
PageAfterOne(t, cursor) ==
  LET newer == {x \in ReadMerged(t, NextSinceTime(cursor), PageSize + 1) : x > cursor}
  IN  [lines |-> Sorted(Oldest(newer, PageSize)), more |-> Cardinality(newer) >= PageSize]

(* For several sources nothing is skipped. *)
PageAfterMerged(t, cursor) ==
  LET read == ReadMerged(t, NextSinceTime(cursor), PageSize + 1)
  IN  [lines |-> Sorted(Oldest(read, PageSize)), more |-> Cardinality(read) > PageSize]

PageAfter(t, cursor) ==
  IF t \in Merged THEN PageAfterMerged(t, cursor) ELSE PageAfterOne(t, cursor)

-----------------------------------------------------------------------------
(* The user.                                                                *)

Out(kinds) == \E c \in calls : c.kind \in kinds
MayAct == Orderly => calls = {}

Write ==
  /\ now < LastTime /\ now' = now + 1
  /\ UNCHANGED <<log, sel, follow, view, load, error, calls, seen, failed>>

(* resetChunkState; polls go on. *)
Reset(l) == [l EXCEPT !.busy = @ \ {"before", "after"}, !.beforeTs = 0, !.afterTs = 0]

(* fetchLogs; had: whether there were lines when it was called. *)
Fetch(s, l, had) ==
  /\ load' = [Reset(l) EXCEPT !.loading = TRUE]
  /\ calls' = calls \cup {Call("fetch", s, 0, had)}

(* The effect of useLogStream on a new selection; the same one changes      *)
(* nothing but what its caller did.  had is FALSE for a caller that already *)
(* cleared the view.                                                       *)
Select(s, l, had) ==
  /\ sel' = s
  /\ IF s # sel THEN Fetch(s, l, had) ELSE load' = Reset(l) /\ calls' = calls
  /\ view' = <<>>
  /\ UNCHANGED <<log, now, error, seen, failed>>

SelectTarget(t) ==
  /\ MayAct /\ t # sel.target
  /\ Select([sel EXCEPT !.target = t], load, view # <<>>) /\ UNCHANGED follow

MayJump == MayAct /\ ~load.loading /\ ~error

JumpToStart ==
  /\ MayJump
  /\ Select([sel EXCEPT !.mode = "start", !.since = 0],
            [load EXCEPT !.hasBefore = FALSE, !.hasAfter = TRUE], FALSE)
  /\ UNCHANGED follow

AtEnd == sel.mode = "end" /\ sel.since = 0

JumpToEnd ==
  /\ MayJump /\ ~AtEnd
  /\ Select([sel EXCEPT !.mode = "end", !.since = 0],
            [load EXCEPT !.hasBefore = TRUE, !.hasAfter = FALSE], FALSE)
  /\ follow' = TRUE

ToggleFollow ==
  /\ MayJump /\ AtEnd
  /\ follow' = ~follow /\ load' = [load EXCEPT !.hasAfter = follow] /\ seen' = 0
  /\ UNCHANGED <<log, now, sel, view, error, calls, failed>>

ApplyTime(time) ==
  /\ MayAct /\ ~error /\ time # sel.since
  /\ Select([sel EXCEPT !.mode = "end", !.since = time], load, view # <<>>) /\ UNCHANGED follow

Refresh ==
  /\ MayAct /\ Fetch(sel, load, view # <<>>)
  /\ UNCHANGED <<log, now, sel, follow, view, error, seen, failed>>

-----------------------------------------------------------------------------
(* The first page.                                                          *)

(* An empty page leaves the lines there were, and says so. *)
Fetched(c) ==
  /\ c.kind = "fetch" /\ calls' = calls \ {c}
  /\ LET page == FirstPage(c.sel) IN
     /\ error' = (page = <<>> /\ c.had)
     /\ view' = IF page = <<>> /\ c.had THEN view ELSE page
  /\ load' = [load EXCEPT !.loading = FALSE, !.hasBefore = c.sel.mode = "end",
                          !.hasAfter = c.sel.mode = "start"]
  /\ seen' = now /\ failed' = {} /\ UNCHANGED <<log, now, sel, follow>>

FetchFails(c) ==
  /\ c.kind = "fetch" /\ calls' = calls \ {c}
  /\ error' = TRUE /\ view' = IF c.had THEN view ELSE <<>>
  /\ load' = [load EXCEPT !.loading = FALSE, !.hasBefore = FALSE, !.hasAfter = FALSE]
  /\ failed' = {"before", "after"} /\ UNCHANGED <<log, now, sel, follow, seen>>

-----------------------------------------------------------------------------
(* Chunks.                                                                  *)

Following == AtEnd /\ follow

(* The top, or the bottom, is reached; the same chunk is not asked for      *)
(* twice.                                                                   *)
LoadOlder ==
  /\ load.hasBefore /\ "before" \notin load.busy /\ (Orderly => ~Out({"fetch"}))
  /\ IF view = <<>> THEN load' = [load EXCEPT !.hasBefore = FALSE] /\ calls' = calls
     ELSE /\ view[1] # load.beforeTs
          /\ load' = [load EXCEPT !.beforeTs = view[1], !.busy = @ \cup {"before"}]
          /\ calls' = calls \cup {Call("before", sel, view[1], TRUE)}
  /\ UNCHANGED <<log, now, sel, follow, view, error, seen, failed>>

LoadNewer ==
  /\ ~Following /\ load.hasAfter /\ "after" \notin load.busy
  /\ Orderly => ~Out({"fetch", "poll"})
  /\ Len(view) <= MaxLines
  /\ IF view = <<>> THEN load' = [load EXCEPT !.hasAfter = FALSE] /\ calls' = calls
     ELSE /\ Last(view) # load.afterTs
          /\ load' = [load EXCEPT !.afterTs = Last(view), !.busy = @ \cup {"after"}]
          /\ calls' = calls \cup {Call("after", sel, Last(view), TRUE)}
  /\ UNCHANGED <<log, now, sel, follow, view, error, seen, failed>>

OlderArrives(c) ==
  /\ c.kind = "before" /\ calls' = calls \ {c}
  /\ LET page == PageBefore(c.sel.target, c.cursor) IN
     /\ view' = page.lines \o view
     /\ load' = [load EXCEPT !.busy = @ \ {"before"}, !.hasBefore = page.lines # <<>> /\ page.more]
  /\ UNCHANGED <<log, now, sel, follow, error, seen, failed>>

NewerArrives(c) ==
  /\ c.kind = "after" /\ calls' = calls \ {c}
  /\ LET page == PageAfter(c.sel.target, c.cursor) IN
     /\ view' = view \o page.lines
     /\ load' = [load EXCEPT !.busy = @ \ {"after"}, !.hasAfter = page.lines # <<>> /\ page.more]
  /\ seen' = now /\ UNCHANGED <<log, now, sel, follow, error, failed>>

ChunkFails(c) ==
  /\ calls' = calls \ {c}
  /\ \/ /\ c.kind = "before"
        /\ load' = [load EXCEPT !.busy = @ \ {"before"}, !.hasBefore = FALSE] /\ error' = error
     \/ /\ c.kind = "after"
        /\ load' = [load EXCEPT !.busy = @ \ {"after"}, !.hasAfter = FALSE] /\ error' = TRUE
  /\ failed' = failed \cup {c.kind} /\ UNCHANGED <<log, now, sel, follow, view, seen>>

(* handleAtBottomStateChange: the user scrolls up, there may be more now. *)
LeaveBottom ==
  /\ view # <<>> /\ ~load.hasAfter /\ ~Following
  /\ load' = [load EXCEPT !.hasAfter = TRUE]
  /\ UNCHANGED <<log, now, sel, follow, view, error, calls, seen, failed>>

-----------------------------------------------------------------------------
(* Polls.                                                                   *)

AppendUnique(old, new) ==
  LET fresh == Sorted({i \in DOMAIN new : new[i] \notin ToSet(old)})
  IN  old \o [i \in DOMAIN fresh |-> new[fresh[i]]]

PollNewer ==
  /\ Following /\ "poll" \notin load.busy /\ view # <<>>
  /\ Orderly => ~Out({"fetch", "after"})
  /\ load' = [load EXCEPT !.busy = @ \cup {"poll"}]
  /\ calls' = calls \cup {Call("poll", sel, Last(view), TRUE)}
  /\ UNCHANGED <<log, now, sel, follow, view, error, seen, failed>>

(* drainLogPages: pages until the last one, or too many. *)
PollPage(c) ==
  /\ c.kind = "poll"
  /\ LET page == PageAfter(c.sel.target, c.cursor)
         lines == AppendUnique(c.lines, page.lines)
         ends == page.lines = <<>> \/ Last(page.lines) = c.cursor \/ ~page.more
     IN  IF ends \/ c.pages + 1 = MaxPages
         THEN /\ calls' = calls \ {c} /\ load' = [load EXCEPT !.busy = @ \ {"poll"}]
              /\ view' = AppendUnique(view, lines) /\ error' = ~ends
         ELSE /\ calls' = (calls \ {c}) \cup
                   {[c EXCEPT !.cursor = Last(page.lines), !.lines = lines, !.pages = @ + 1]}
              /\ UNCHANGED <<load, view, error>>
  /\ seen' = now /\ UNCHANGED <<log, now, sel, follow, failed>>

PollFails(c) ==
  /\ c.kind = "poll" /\ calls' = calls \ {c}
  /\ load' = [load EXCEPT !.busy = @ \ {"poll"}] /\ error' = TRUE
  /\ UNCHANGED <<log, now, sel, follow, view, seen, failed>>

Next ==
  \/ Write \/ JumpToStart \/ JumpToEnd \/ ToggleFollow \/ Refresh
  \/ \E t \in LogTargets : SelectTarget(t)
  \/ \E time \in 1 .. LastTime : time % Second = 0 /\ ApplyTime(time)
  \/ LoadOlder \/ LoadNewer \/ LeaveBottom \/ PollNewer
  \/ \E c \in calls :
       \/ Fetched(c) \/ FetchFails(c) \/ OlderArrives(c) \/ NewerArrives(c) \/ ChunkFails(c)
       \/ PollPage(c) \/ PollFails(c)

Spec == Init /\ [][Next]_pagingVars

-----------------------------------------------------------------------------
(* The lines of a second; none holds more of them than a page, or as many.  *)
InSecond(x) == {y \in UNION {log[s] : s \in sel.target} : y \div Second = x \div Second}
NoBurst == \A x \in 1 .. LastTime : Cardinality(InSecond(x)) <= PageSize
NoFullPage == \A x \in 1 .. LastTime : Cardinality(InSecond(x)) < PageSize

(* Whatever pages make it up, while lines are written, what is on screen    *)
(* has no gap; if one source is read, or no chunk of newer lines came (and  *)
(* no poll read half a second), it is in order and nothing is shown twice.  *)
NoGap ==
  /\ view # <<>> /\ (NoBurst \/ sel.target \notin Merged) =>
       \A x \in Lines(sel.target) :
         (\E y, z \in ToSet(view) : y <= x /\ x <= z) => x \in ToSet(view)
  /\ Orderly /\ failed = {} /\ ((load.afterTs = 0 /\ NoBurst) \/ sel.target \notin Merged) =>
       \A i \in 1 .. Len(view) - 1 : load.loading \/ view[i] < view[i + 1]

(* A poll gets on: if there is a newer line, the next page has one.  (For   *)
(* more lines in a second than a page holds it does not; of merged sources, *)
(* whose page repeats the cursor's second, for as many.)                    *)
PollsAdvance ==
  /\ IF sel.target \in Merged THEN NoFullPage ELSE NoBurst
  /\ Following /\ view # <<>> /\ \E x \in Lines(sel.target) : x > Last(view)
  => \E x \in ToSet(PageAfter(sel.target, Last(view)).lines) : x > Last(view)

(* The viewer knows its ends: if it says there is nothing older, the first  *)
(* line is on screen; nothing newer, then all that had been written when it *)
(* read last (of merged sources: a single one ends pages too early); and it *)
(* does not refuse to load older lines that it offers.                     *)
EndsKnown ==
  /\ ~load.hasBefore /\ view # <<>> /\ failed = {} /\ ~load.loading =>
       \A x \in Lines(sel.target) : view[1] <= x
  /\ load.hasBefore /\ view # <<>> /\ ~load.loading /\ "before" \notin load.busy =>
       view[1] # load.beforeTs
  /\ /\ sel.target \in Merged /\ NoBurst /\ view # <<>> /\ failed = {} /\ ~error /\ ~load.loading
     /\ \/ sel.mode = "start" /\ ~load.hasAfter
        \/ Following /\ "poll" \notin load.busy /\ NoFullPage
     => \A x \in Lines(sel.target) : x <= seen => x <= Last(view)

(* Pages make up the log, and the viewer knows where it is in it. *)
PagesSound == NoGap /\ PollsAdvance /\ (Orderly => EndsKnown)
=============================================================================
