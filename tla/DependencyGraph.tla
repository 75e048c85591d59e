-------------------------- MODULE DependencyGraph --------------------------
(***************************************************************************)
(* The dependency graph of a resource: how it is collected from the        *)
(* cluster (deps_*.go), cut down to a few nodes per kind and parent        *)
(* (aggregateGraph), shown, and expanded again (DependencyGraph.tsx).      *)
(* Nodes are numbers in the order in which the API lists them.             *)
(***************************************************************************)
EXTENDS Integers, FiniteSets, SequencesExt

CONSTANTS
  Clusters,      \* the choices: [kind : node -> kind, refs : set of edges]
  NodeLimit,     \* DefaultNodeLimit, and the first offset of the frontend
  ExpansionLimit,
  Clicks         \* names of the calls of ExpandDependencyNode under way

GraphAssumption == {NodeLimit, ExpansionLimit} \subseteq Nat \ {0}

VARIABLES
  cluster, root,
  graph,         \* [nodes, edges], as collected
  primaryParent, \* of the nodes looked at so far; NoNode is the empty string
  keptNodes, hiddenNodes,
  keptSummaries, \* [parent, kind, remaining]
  phase,         \* "collect", "aggregate", "shown"
  screen,        \* [nodes, edges, summaries, stubs, offsets]: stubs are edges to summaries
  current,       \* nodesRef and edgesRef: the screen as last rendered
  expanding,     \* calls of ExpandDependencyNode: [click, id, offset]
  hurried        \* an answer came before the one before it was rendered

graphVars == <<cluster, root, graph, primaryParent, keptNodes, hiddenNodes, keptSummaries, phase,
  screen, current, expanding, hurried>>

NoNode == 0
ChildToParent == {"uses", "binds", "references"}
ParentToChild == {"owns", "selects", "routes-to", "scales", "protects", "applies-to"}

Kind(n) == cluster.kind[n]
Edge(n, relation, m) == [source |-> n, relation |-> relation, target |-> m]

-----------------------------------------------------------------------------
(* Collecting: what is added, in order.  An addition is an edge, with the   *)
(* end that is new; Alone adds a node only.                                *)

Alone(n) == Edge(n, "none", n)

(* One walk after the other, in the order of the API. *)
ForEach(S, Walk(_)) == FlattenSeq([i \in 1 .. Cardinality(S) |-> Walk(SetToSortSeq(S, <)[i])])

(* The targets and the sources of a relation, of some kinds. *)
To(n, relation, kinds) ==
  {m \in DOMAIN cluster.kind : Edge(n, relation, m) \in cluster.refs /\ Kind(m) \in kinds}
From(n, relation, kinds) ==
  {m \in DOMAIN cluster.kind : Edge(m, relation, n) \in cluster.refs /\ Kind(m) \in kinds}

Controllers == {"Deployment", "StatefulSet", "DaemonSet", "ReplicaSet", "Job", "CronJob"}

(* Owners of a Deployment, StatefulSet, DaemonSet or CronJob are not looked up. *)
ResolveOwnerRefs(n) ==
  LET owners[m \in DOMAIN cluster.kind] ==
        LET Owner(o) ==
              <<Edge(o, "owns", m)>> \o IF Kind(o) \in {"ReplicaSet", "Job"} THEN owners[o] ELSE <<>>
        IN  ForEach(From(m, "owns", Controllers), Owner)
  IN  owners[n]

ResolvePVFromPVC(claim) ==
  LET StorageClass(v) == ForEach(To(v, "uses", {"StorageClass"}), LAMBDA c : <<Edge(v, "uses", c)>>)
  IN  ForEach(To(claim, "binds", {"PersistentVolume"}),
              LAMBDA v : <<Edge(claim, "binds", v)>> \o StorageClass(v))

(* resolvePodVolumes, resolvePodContainerRefs *)
ResolvePodRefs(pod) ==
  ForEach(To(pod, "uses", {"PersistentVolumeClaim", "ConfigMap", "Secret"}),
          LAMBDA x : <<Edge(pod, "uses", x)>> \o
                     IF Kind(x) = "PersistentVolumeClaim" THEN ResolvePVFromPVC(x) ELSE <<>>)

FindOwnedPods(owner) ==
  ForEach(To(owner, "owns", {"Pod"}), LAMBDA p : <<Edge(owner, "owns", p)>> \o ResolvePodRefs(p))

FindIngressesForService(service) ==
  ForEach(From(service, "routes-to", {"Ingress"}),
          LAMBDA i : <<Edge(i, "routes-to", service)>> \o
                     ForEach(To(i, "uses", {"IngressClass"}), LAMBDA c : <<Edge(i, "uses", c)>>))

FindServicesSelectingPod(pod) ==
  ForEach(From(pod, "selects", {"Service"}),
          LAMBDA s : <<Edge(s, "selects", pod)>> \o FindIngressesForService(s))

(* Of the pods a service selects, those collected before are linked. *)
FindSelectingServices(owner, walk) ==
  LET seen == UNION {{walk[i].source, walk[i].target} : i \in DOMAIN walk}
      Links(s) == ForEach(To(s, "selects", {"Pod"}) \cap seen, LAMBDA p : <<Edge(s, "selects", p)>>)
  IN  walk \o ForEach(From(owner, "selects", {"Service"}),
                      LAMBDA s : <<Alone(s)>> \o Links(s) \o FindIngressesForService(s))

(* A Deployment, a CronJob, and what is below them. *)
FindOwned(owner, kind) ==
  ForEach(To(owner, "owns", {kind}), LAMBDA o : <<Edge(owner, "owns", o)>> \o FindOwnedPods(o))

(* The pods that use a resource, with their owners and services. *)
FindPodsUsing(n) ==
  ForEach(From(n, "uses", {"Pod"}),
          LAMBDA p : <<Edge(p, "uses", n)>> \o ResolveOwnerRefs(p) \o FindServicesSelectingPod(p))

(* The pods that a selector or an address matches, with their owners. *)
FindMatching(n, relation) ==
  ForEach(To(n, relation, {"Pod"}), LAMBDA p : <<Edge(n, relation, p)>> \o ResolveOwnerRefs(p))

LinkedTo(n, relation, kind) == ForEach(To(n, relation, {kind}), LAMBDA m : <<Edge(n, relation, m)>>)

GetPodDependencies(n) ==
  ResolveOwnerRefs(n) \o ResolvePodRefs(n) \o FindServicesSelectingPod(n) \o
  LinkedTo(n, "uses", "ServiceAccount")

GetDeploymentDependencies(n) == FindSelectingServices(n, FindOwned(n, "ReplicaSet"))
GetSetDependencies(n) == FindSelectingServices(n, FindOwnedPods(n))
GetJobDependencies(n) == FindSelectingServices(n, ResolveOwnerRefs(n) \o FindOwnedPods(n))
GetCronJobDependencies(n) == FindOwned(n, "Job")

GetPVCDependencies(n) == FindPodsUsing(n) \o ResolvePVFromPVC(n)

GetPVDependencies(n) ==
  ForEach(From(n, "binds", {"PersistentVolumeClaim"}),
          LAMBDA c : <<Edge(c, "binds", n)>> \o FindPodsUsing(c)) \o
  LinkedTo(n, "uses", "StorageClass")

GetConfigMapDependencies(n) == FindPodsUsing(n)
GetServiceAccountDependencies(n) == FindPodsUsing(n)

GetServiceDependencies(n) == FindMatching(n, "selects") \o FindIngressesForService(n)

GetEndpointsDependencies(n) ==
  ForEach(From(n, "owns", {"Service"}),
          LAMBDA s : <<Edge(s, "owns", n)>> \o FindIngressesForService(s)) \o
  FindMatching(n, "references")

GetPriorityClassDependencies(n) ==
  ForEach(From(n, "uses", {"Pod"}), LAMBDA p : <<Edge(p, "uses", n)>> \o ResolveOwnerRefs(p))

GetNetworkPolicyDependencies(n) == FindMatching(n, "applies-to")

GetIngressDependencies(n) ==
  LinkedTo(n, "uses", "IngressClass") \o LinkedTo(n, "uses", "Secret") \o
  LinkedTo(n, "routes-to", "Service")

GetIngressClassDependencies(n) ==
  ForEach(From(n, "uses", {"Ingress"}), LAMBDA i : <<Edge(i, "uses", n)>>)

(* A claim that was found by its volume is not linked once more. *)
GetStorageClassDependencies(n) ==
  LET Claims(v) == From(v, "binds", {"PersistentVolumeClaim"})
      volumes == From(n, "uses", {"PersistentVolume"})
      found == UNION {Claims(v) : v \in volumes}
  IN  ForEach(volumes, LAMBDA v : <<Edge(v, "uses", n)>> \o
                ForEach(Claims(v), LAMBDA c : <<Edge(c, "binds", v)>>)) \o
      ForEach(From(n, "uses", {"PersistentVolumeClaim"}) \ found, LAMBDA c : <<Edge(c, "uses", n)>>)

(* Of other targets nothing is looked up. *)
GetHPADependencies(n) ==
  ForEach(To(n, "scales", Controllers),
          LAMBDA t : <<Edge(n, "scales", t)>> \o
            CASE Kind(t) = "Deployment" -> GetDeploymentDependencies(t)
              [] Kind(t) \in {"StatefulSet", "ReplicaSet"} -> GetSetDependencies(t)
              [] OTHER -> <<>>)

GetPDBDependencies(n) ==
  ForEach(To(n, "protects", {"Pod"}), LAMBDA p :
    <<Edge(n, "protects", p)>> \o ResolveOwnerRefs(p) \o FindServicesSelectingPod(p))

Walk(n) ==
  CASE Kind(n) = "Pod" -> GetPodDependencies(n)
    [] Kind(n) = "Deployment" -> GetDeploymentDependencies(n)
    [] Kind(n) \in {"StatefulSet", "DaemonSet"} -> GetSetDependencies(n)
    [] Kind(n) \in {"ReplicaSet", "Job"} -> GetJobDependencies(n)
    [] Kind(n) = "CronJob" -> GetCronJobDependencies(n)
    [] Kind(n) = "PersistentVolumeClaim" -> GetPVCDependencies(n)
    [] Kind(n) = "PersistentVolume" -> GetPVDependencies(n)
    [] Kind(n) \in {"ConfigMap", "Secret"} -> GetConfigMapDependencies(n)
    [] Kind(n) = "Service" -> GetServiceDependencies(n)
    [] Kind(n) = "Ingress" -> GetIngressDependencies(n)
    [] Kind(n) = "Endpoints" -> GetEndpointsDependencies(n)
    [] Kind(n) = "PriorityClass" -> GetPriorityClassDependencies(n)
    [] Kind(n) = "NetworkPolicy" -> GetNetworkPolicyDependencies(n)
    [] Kind(n) = "IngressClass" -> GetIngressClassDependencies(n)
    [] Kind(n) = "StorageClass" -> GetStorageClassDependencies(n)
    [] Kind(n) = "ServiceAccount" -> GetServiceAccountDependencies(n)
    [] Kind(n) = "HorizontalPodAutoscaler" -> GetHPADependencies(n)
    [] Kind(n) = "PodDisruptionBudget" -> GetPDBDependencies(n)

(* addNode keeps the first of its kind. *)
AddNode(seq, n) == IF n \in ToSet(seq) THEN seq ELSE Append(seq, n)

(* The queried resource is the first node, and the root. *)
Collected(n, walk) ==
  LET ends == FlattenSeq([i \in DOMAIN walk |-> <<walk[i].source, walk[i].target>>])
      IsEdge(e) == e.relation # "none"
  IN  [nodes |-> FoldLeft(AddNode, <<n>>, ends), edges |-> SelectSeq(walk, IsEdge)]

Init ==
  /\ cluster \in Clusters /\ root \in DOMAIN cluster.kind
  /\ graph = [nodes |-> <<>>, edges |-> <<>>] /\ primaryParent = <<>>
  /\ keptNodes = {} /\ hiddenNodes = {} /\ keptSummaries = {} /\ phase = "collect"
  /\ screen = [nodes |-> {}, edges |-> {}, summaries |-> {}, stubs |-> {}, offsets |-> <<>>]
  /\ current = screen /\ expanding = {} /\ hurried = FALSE

backend == <<cluster, root, graph, primaryParent, keptNodes, hiddenNodes, keptSummaries>>
frontend == <<screen, current, expanding, hurried>>

GetResourceDependencies ==
  /\ phase = "collect" /\ phase' = "aggregate"
  /\ graph' = Collected(root, Walk(root)) /\ keptNodes' = {root}
  /\ UNCHANGED <<cluster, root, primaryParent, hiddenNodes, keptSummaries, frontend>>

-----------------------------------------------------------------------------
(* aggregateGraph                                                          *)

Nodes == ToSet(graph.nodes)
Edges == ToSet(graph.edges)

(* The edges in order, from a node and to it. *)
Outgoing(n) == SelectSeq(graph.edges, LAMBDA e : e.source = n)
Incoming(n) == SelectSeq(graph.edges, LAMBDA e : e.target = n)

(* Nodes with neighbours of two kinds on one side. *)
IsConnector(n) ==
  \/ Cardinality({Kind(e.source) : e \in ToSet(Incoming(n))}) >= 2
  \/ Cardinality({Kind(e.target) : e \in ToSet(Outgoing(n))}) >= 2

(* Only a parent that was set before is known: the map of nodes is looked   *)
(* through in any order.                                                   *)
Fallback(n) ==
  LET candidate == Incoming(n)[1].source
      known == candidate \in DOMAIN primaryParent /\ primaryParent[candidate] = n
  IN  IF Incoming(n) = <<>> \/ known THEN NoNode ELSE candidate

UsedParents(n) == SelectSeq(Outgoing(n), LAMBDA e : e.relation \in ChildToParent)
OwningParents(n) == SelectSeq(Incoming(n), LAMBDA e : e.relation \in ParentToChild)

ParentOf(n) ==
  IF UsedParents(n) # <<>> THEN UsedParents(n)[1].target
  ELSE IF OwningParents(n) # <<>> THEN OwningParents(n)[1].source
  ELSE Fallback(n)

SetPrimaryParent(n) ==
  /\ phase = "aggregate" /\ n \in Nodes \ ({root} \cup DOMAIN primaryParent)
  /\ primaryParent' = [m \in DOMAIN primaryParent \cup {n} |->
                         IF m = n THEN ParentOf(n) ELSE primaryParent[m]]
  /\ UNCHANGED <<cluster, root, graph, keptNodes, hiddenNodes, keptSummaries, phase, frontend>>

(* A node without a parent is a child of the root. *)
GroupParent(n) == IF primaryParent[n] = NoNode THEN root ELSE primaryParent[n]

Processed == keptNodes \cup hiddenNodes

ParentsKnown == DOMAIN primaryParent = Nodes \ {root}

Level == {n \in Nodes \ Processed : GroupParent(n) \in Processed}
Groups == {[parent |-> GroupParent(n), kind |-> Kind(n)] : n \in Level}
Group(g) == {n \in Level : GroupParent(n) = g.parent /\ Kind(n) = g.kind}

Position(n) == CHOOSE i \in DOMAIN graph.nodes : graph.nodes[i] = n

(* Mutant: connectors do not count for the limit. *)
KeptBeside(g) ==
  LET connectors == {n \in Group(g) : IsConnector(n)}
      First(n) == Cardinality({m \in Group(g) \ connectors : Position(m) < Position(n)})
  IN  IF g.parent \in hiddenNodes THEN {}
      ELSE connectors \cup {n \in Group(g) \ connectors : First(n) < NodeLimit}

(* Of a group that is too large, connectors stay and the first of the rest. *)
Kept(g) ==
  LET connectors == {n \in Group(g) : IsConnector(n)}
      First(n) == Cardinality({m \in Group(g) \ connectors : Position(m) < Position(n)})
  IN  IF g.parent \in hiddenNodes THEN {}
      ELSE {n \in Group(g) : \/ Cardinality(Group(g)) <= NodeLimit
                              \/ n \in connectors
                              \/ First(n) < NodeLimit - Cardinality(connectors)}

Summary(g, remaining) == [parent |-> g.parent, kind |-> g.kind, remaining |-> remaining]

ProcessLevel ==
  /\ phase = "aggregate" /\ ParentsKnown /\ Level # {}
  /\ LET kept == UNION {Kept(g) : g \in Groups}
         Hidden(g) == Group(g) \ Kept(g)
     IN  /\ keptNodes' = keptNodes \cup kept
         /\ hiddenNodes' = hiddenNodes \cup (Level \ kept)
         /\ keptSummaries' = keptSummaries \cup
              {Summary(g, Cardinality(Hidden(g))) :
                 g \in {g \in Groups : g.parent \notin hiddenNodes /\ Hidden(g) # {}}}
  /\ UNCHANGED <<cluster, root, graph, primaryParent, phase, frontend>>

(* The edges between nodes that are kept, and those that lead to a summary  *)
(* instead; of a node without a parent, none does.                         *)
Rebuilt == {e \in Edges : {e.source, e.target} \subseteq keptNodes}

Stubs ==
  {[source |-> e.source, parent |-> primaryParent[e.target], kind |-> Kind(e.target)] :
     e \in {e \in Edges : e.source \in keptNodes /\ e.target \notin keptNodes}}

(* The graph arrives at the view that asked for it. *)
ShowGraph ==
  /\ phase = "aggregate" /\ ParentsKnown /\ Level = {} /\ phase' = "shown"
  /\ screen' = [nodes |-> keptNodes, edges |-> Rebuilt, summaries |-> keptSummaries,
                stubs |-> {s \in Stubs : \E m \in keptSummaries : m.parent = s.parent /\ m.kind = s.kind},
                offsets |-> screen.offsets]
  /\ UNCHANGED <<backend, current, expanding, hurried>>

-----------------------------------------------------------------------------
(* ExpandDependencyNode and handleExpandNode                               *)

Is(s, id) == s.parent = id.parent /\ s.kind = id.kind
IdOf(s) == [parent |-> s.parent, kind |-> s.kind]

(* Who is below whom depends on the relation. *)
Parent(e) == IF e.relation \in ChildToParent THEN e.target ELSE e.source
Child(e) == IF e.relation \in ChildToParent THEN e.source ELSE e.target

(* All children of a kind, in the order of the edges. *)
MatchingNodes(id) ==
  LET Matches(e) == Parent(e) = id.parent /\ Kind(Child(e)) = id.kind
      below == SelectSeq(graph.edges, Matches)
  IN  FoldLeft(AddNode, <<>>, [i \in DOMAIN below |-> Child(below[i])])

EndIdx(id, offset) ==
  LET all == Len(MatchingNodes(id)) IN IF offset + ExpansionLimit > all THEN all ELSE offset + ExpansionLimit

Batch(id, offset) == ToSet(SubSeq(MatchingNodes(id), offset + 1, EndIdx(id, offset)))

(* With what is below them: one pass over the edges, which sees what it     *)
(* added itself.                                                           *)
Expanded(id, offset) ==
  LET AddBelow(found, e) == IF Parent(e) \in found THEN found \cup {Child(e)} ELSE found
  IN  FoldLeft(AddBelow, Batch(id, offset), graph.edges)

Remaining(id, offset) == Len(MatchingNodes(id)) - EndIdx(id, offset)

(* The edges among them, and to and from the parent. *)
Linked(id, found) == {e \in Edges : {e.source, e.target} \subseteq found \cup {id.parent}}

(* React renders, and its effects set the references. *)
Render ==
  /\ current # screen /\ current' = screen
  /\ UNCHANGED <<backend, phase, screen, expanding, hurried>>

Offset(view, id) == IF id \in DOMAIN view.offsets THEN view.offsets[id] ELSE NodeLimit

(* Bound: after an answer that came too soon, nothing more is asked for. *)
HandleExpandNode(s, click) ==
  LET id == IdOf(s)
  IN  /\ (\A c \in expanding : c.click # click) /\ ~hurried
      /\ expanding' = expanding \cup {[click |-> click, id |-> id, offset |-> Offset(current, id)]}
      /\ UNCHANGED <<backend, phase, screen, current, hurried>>

(* The answer is merged into what was rendered last, and replaces the screen. *)
ExpandDependencyNode(c) ==
  LET found == Expanded(c.id, c.offset)
      remaining == Remaining(c.id, c.offset)
      Known(e) == \E f \in current.edges : f.source = e.source /\ f.target = e.target
  IN  /\ screen' =
           [nodes |-> current.nodes \cup found,
            edges |-> current.edges \cup {e \in Linked(c.id, found) : ~Known(e)},
            summaries |-> {s \in current.summaries : ~Is(s, c.id)} \cup
                            IF remaining > 0 THEN {Summary(c.id, remaining)} ELSE {},
            stubs |-> {s \in current.stubs : ~Is(s, c.id)},
            offsets |-> [i \in DOMAIN screen.offsets \cup {c.id} |->
              IF i = c.id THEN c.offset + ExpansionLimit ELSE screen.offsets[i]]]
      /\ expanding' = expanding \ {c} /\ hurried' = (hurried \/ current # screen)
      /\ UNCHANGED <<backend, phase, current>>

ExpandFails(c) ==
  /\ expanding' = expanding \ {c}
  /\ UNCHANGED <<backend, phase, screen, current, hurried>>

Next ==
  \/ GetResourceDependencies \/ ProcessLevel \/ ShowGraph \/ Render
  \/ \E n \in Nodes : SetPrimaryParent(n)
  \/ \E s \in current.summaries, k \in Clicks : HandleExpandNode(s, k)
  \/ \E c \in expanding : ExpandDependencyNode(c) \/ ExpandFails(c)

Spec == Init /\ [][Next]_graphVars

-----------------------------------------------------------------------------
Ids == [parent : DOMAIN cluster.kind, kind : {Kind(n) : n \in DOMAIN cluster.kind}]

(* What is collected is a list of nodes, with the queried resource.        *)
Listed ==
  /\ graph.nodes \in Seq(DOMAIN cluster.kind \ {NoNode})
  /\ phase # "collect" => root \in Nodes

TypeOK ==
  /\ cluster \in Clusters /\ root \in DOMAIN cluster.kind
  /\ Listed /\ IsInjective(graph.nodes)
  /\ \A e \in Edges : {e.source, e.target} \subseteq Nodes
  /\ DOMAIN primaryParent \subseteq Nodes \ {root}
  /\ \A n \in DOMAIN primaryParent : primaryParent[n] \in Nodes \cup {NoNode}
  /\ keptNodes \cup hiddenNodes \subseteq Nodes \cup {root} /\ keptNodes \cap hiddenNodes = {}
  /\ phase \in {"collect", "aggregate", "shown"}
  /\ screen.nodes \subseteq Nodes /\ screen.edges \subseteq Edges
  /\ \A s \in screen.summaries \cup keptSummaries : IdOf(s) \in Ids /\ s.remaining \in Nat \ {0}
  /\ DOMAIN screen.offsets \subseteq Ids /\ \A c \in expanding : c.click \in Clicks /\ c.id \in Ids
  /\ hurried \in BOOLEAN

(* Up the parents, as far as there are any: those up to k steps above. *)
Above(n) ==
  LET above[k \in 0 .. Cardinality(Nodes)] ==
        IF k = 0 THEN {n}
        ELSE LET found == above[k - 1] IN found \cup {GroupParent(m) : m \in found \ {root, NoNode}}
  IN  above[Cardinality(Nodes)] \ {root, NoNode}

HasFallback(n) == n # root /\ UsedParents(n) = <<>> /\ OwningParents(n) = <<>>

(* No two nodes are parents of each other ("Avoid cycles", deps_graph.go).  *)
NoParentCycle ==
  \A n \in DOMAIN primaryParent :
    LET p == primaryParent[n]
    IN  p \in DOMAIN primaryParent => primaryParent[p] # n

(* Whatever the cut leaves out altogether hangs below a pair of nodes that  *)
(* are parents of each other, of which one has its parent by the fallback.  *)
OnlyCyclesAreLost ==
  phase = "shown" => \A n \in Nodes \ Processed :
    \E m \in Above(n) :
      /\ primaryParent[m] \in DOMAIN primaryParent /\ primaryParent[primaryParent[m]] = m
      /\ HasFallback(m)

(* Every hidden node is counted by a summary: its own, or that of the       *)
(* nearest hidden node above it; a summary counts nothing else.            *)
HiddenAreCounted ==
  phase = "shown" =>
    /\ \A n \in hiddenNodes : \E m \in Above(n) \cap hiddenNodes :
         \E s \in keptSummaries : s.parent = GroupParent(m) /\ s.kind = Kind(m)
    /\ \A s \in keptSummaries : /\ s.parent \in keptNodes
         /\ s.remaining = Cardinality({n \in hiddenNodes : GroupParent(n) = s.parent /\ Kind(n) = s.kind})
         /\ \A r \in keptSummaries : Is(r, IdOf(s)) => r = s

(* A group is as large as the limit allows, or as its connectors make it.   *)
LimitKept ==
  phase = "shown" => \A n \in keptNodes \ {root} :
    LET group == {m \in keptNodes \ {root} : GroupParent(m) = GroupParent(n) /\ Kind(m) = Kind(n)}
    IN  Cardinality(group) <= NodeLimit \/ \A m \in group : IsConnector(m)

(* A group whose nodes are the children that an expansion looks for, with   *)
(* no connectors among them.                                               *)
Plain(id) ==
  /\ \A n \in ToSet(MatchingNodes(id)) :
       n # root /\ primaryParent[n] = id.parent /\ ~IsConnector(n)
  /\ \A n \in hiddenNodes : GroupParent(n) = id.parent /\ Kind(n) = id.kind => primaryParent[n] # NoNode

(* What was cut from a plain group stays within reach: what is not on the   *)
(* screen is counted by a summary there, and lies behind the offset of its  *)
(* next expansion; as long as each answer is rendered before the next.     *)
RestIsReachable ==
  phase = "shown" /\ ~hurried => \A k \in keptSummaries : Plain(IdOf(k)) =>
    LET all == MatchingNodes(IdOf(k))
        missing == ToSet(all) \ screen.nodes
    IN  missing # {} =>
          /\ \E s \in screen.summaries : Is(s, k) /\ s.remaining >= Cardinality(missing)
          /\ missing \subseteq ToSet(SubSeq(all, Offset(screen, IdOf(k)) + 1, Len(all)))

(* What the cut of a graph hides, it counts, and keeps within reach.        *)
GraphSound == OnlyCyclesAreLost /\ HiddenAreCounted /\ LimitKept /\ RestIsReachable
=============================================================================
