------------------------------- MODULE Panels -------------------------------
(***************************************************************************)
(* The views that fetch data of a target (an object, a time range, the     *)
(* objects of a context) in an effect: which of several answers is shown.  *)
(* Each panel is described by how its effect treats an answer that has     *)
(* been overtaken, read off its source; the steps are the same for all.    *)
(***************************************************************************)
EXTENDS Integers, FiniteSets

CONSTANTS
  Targets,
  NoTarget,  \* nothing to fetch: the panel is hidden or of another context
  Fetches    \* fetches of a panel that may be under way at the same time

PanelAssumption == NoTarget \notin Targets

VARIABLES
  panel,   \* how this behaviour's panel works
  target,  \* what the panel is to show
  fetch,   \* its fetches
  shown,   \* the target whose data it shows
  failed,  \* whether the last answer it took was an error
  loading

vars == <<panel, target, fetch, shown, failed, loading>>

(* guard:   how an answer is found to be overtaken: the cleanup of the      *)
(*          effect lowers its "flag"; the "id" of the newest request is     *)
(*          kept in a ref; or it is not: "none"                             *)
(* bumps:   the cleanup of the effect also advances the id                  *)
(* polled:  useCompletionPolling repeats the fetch                          *)
(* refetch: something else calls the fetch, without a guard                 *)
(* quits:   loading is reset when there is nothing to fetch any more        *)
(* blank:   the data is cleared when a fetch starts                         *)
(* empties: the data is cleared when a fetch fails                          *)
Flagged == [guard |-> "flag", bumps |-> FALSE, polled |-> TRUE, refetch |-> FALSE,
            quits |-> FALSE, blank |-> FALSE, empties |-> FALSE]
Numbered == [Flagged EXCEPT !.guard = "id", !.polled = FALSE]
Unguarded == [Numbered EXCEPT !.guard = "none"]

UseCRDs == Flagged
UseHelmReleases == [Flagged EXCEPT !.refetch = TRUE, !.empties = TRUE]
HelmReleaseEventsTab == Flagged
HelmReleaseHistoryTab == [Flagged EXCEPT !.refetch = TRUE]
HelmReleaseValuesTab == [Flagged EXCEPT !.quits = TRUE]
ResourceEventsTab == Flagged
PodEventsTab == Flagged
CustomResourceDetails == Flagged
DependencyGraph == [Flagged EXCEPT !.polled = FALSE]
TopLevelOwner == [Flagged EXCEPT !.polled = FALSE, !.quits = TRUE, !.empties = TRUE]
PodMetricsTab == Numbered
NamespaceMetricsTab == Numbered
ControllerMetricsTab == Numbered
NodeMetricsTab == [Numbered EXCEPT !.bumps = TRUE]
NodeMemoryDiagnosticsTab == [Numbered EXCEPT !.bumps = TRUE, !.blank = TRUE]
EventMarkers == [Unguarded EXCEPT !.empties = TRUE]
UseNodeMetrics == [Unguarded EXCEPT !.empties = TRUE]
FlowTimeline == [Unguarded EXCEPT !.empties = TRUE]
HelmUpgradeDialog == Unguarded
YamlEditor == Unguarded

Known == {UseCRDs, UseHelmReleases, HelmReleaseEventsTab, HelmReleaseHistoryTab,
  HelmReleaseValuesTab, ResourceEventsTab, PodEventsTab, CustomResourceDetails, DependencyGraph,
  TopLevelOwner, PodMetricsTab, NamespaceMetricsTab, ControllerMetricsTab, NodeMetricsTab,
  NodeMemoryDiagnosticsTab, EventMarkers, UseNodeMetrics, FlowTimeline, HelmUpgradeDialog,
  YamlEditor}

NoFetch == [by |-> "nobody", target |-> NoTarget, current |-> FALSE]
Fetch == [by : {"nobody", "effect", "poll", "caller"}, target : Targets \cup {NoTarget},
          current : BOOLEAN]

TypeOK ==
  /\ panel \in Known /\ target \in Targets \cup {NoTarget}
  /\ fetch \in [Fetches -> Fetch] /\ shown \in Targets \cup {NoTarget}
  /\ failed \in BOOLEAN /\ loading \in BOOLEAN

Init ==
  /\ panel \in Known /\ target = NoTarget /\ shown = NoTarget
  /\ fetch = [f \in Fetches |-> NoFetch] /\ failed = FALSE /\ loading = FALSE

(* The fetches that a new run of the effect overtakes. *)
Overtakes(f, t) ==
  \/ panel.guard = "flag" /\ fetch[f].by \in {"effect", "poll"}
  \/ panel.guard = "id" /\ (t # NoTarget \/ panel.bumps)

Overtaken(t) ==
  [f \in Fetches |-> IF Overtakes(f, t) THEN [fetch[f] EXCEPT !.current = FALSE] ELSE fetch[f]]

Starts(fetches, f, by) ==
  /\ fetch[f] = NoFetch
  /\ fetch' = [fetches EXCEPT ![f] = [by |-> by, target |-> target', current |-> TRUE]]
  /\ loading' = TRUE
  /\ shown' = IF panel.blank THEN NoTarget ELSE shown

(* The effect runs again, for another target or to refresh the data. *)
Rerun(t) ==
  /\ target' = t
  /\ IF t # NoTarget THEN \E f \in Fetches : Starts(Overtaken(t), f, "effect")
     ELSE /\ fetch' = Overtaken(t) /\ loading' = (loading /\ ~panel.quits) /\ UNCHANGED shown
  /\ UNCHANGED <<panel, failed>>

(* The clock polls the panel, once at a time. *)
Poll(f) ==
  /\ panel.polled /\ target # NoTarget
  /\ \A g \in Fetches : ~(fetch[g].by = "poll" /\ fetch[g].current)
  /\ target' = target /\ Starts(fetch, f, "poll")
  /\ UNCHANGED <<panel, failed>>

(* An action of the user has ended and refreshes the data. *)
Refetch(f) ==
  /\ panel.refetch /\ target # NoTarget
  /\ target' = target /\ Starts(fetch, f, "caller")
  /\ UNCHANGED <<panel, failed>>

(* Mutant: the loading indicator stays on after an error. *)
EndLoading(f, ok) ==
  /\ fetch[f] # NoFetch
  /\ fetch' = [fetch EXCEPT ![f] = NoFetch]
  /\ IF fetch[f].current
     THEN /\ loading' = (loading /\ ~ok) /\ failed' = ~ok
          /\ shown' = IF ok THEN fetch[f].target ELSE IF panel.empties THEN NoTarget ELSE shown
     ELSE UNCHANGED <<loading, failed, shown>>
  /\ UNCHANGED <<panel, target>>

(* A fetch ends, and is ignored if it was overtaken. *)
End(f, ok) ==
  /\ fetch[f] # NoFetch
  /\ fetch' = [fetch EXCEPT ![f] = NoFetch]
  /\ IF fetch[f].current
     THEN /\ loading' = FALSE /\ failed' = ~ok
          /\ shown' = IF ok THEN fetch[f].target ELSE IF panel.empties THEN NoTarget ELSE shown
     ELSE UNCHANGED <<loading, failed, shown>>
  /\ UNCHANGED <<panel, target>>

Next ==
  \/ \E t \in Targets \cup {NoTarget} : Rerun(t)
  \/ \E f \in Fetches : Poll(f) \/ Refetch(f) \/ \E ok \in BOOLEAN : End(f, ok)

Spec == Init /\ [][Next]_vars

-----------------------------------------------------------------------------
Guarded == panel.guard # "none" /\ ~panel.refetch

(* An answer that comes after the panel has moved on is not shown, so what  *)
(* appears on a panel is of the object it stands for.                       *)
ShowsNoLateAnswer ==
  Guarded /\ shown' # shown => shown' \in {target, NoTarget} \/ target = NoTarget
NoLateAnswer == [][ShowsNoLateAnswer]_vars

(* When no fetch is under way, a panel with a target shows its data, unless *)
(* the last fetch failed, and no panel still says that it is loading.       *)
QuietIsCurrent ==
  target # NoTarget /\ (\A f \in Fetches : fetch[f] = NoFetch) =>
    ~loading /\ (Guarded => failed \/ shown = target)
=============================================================================
