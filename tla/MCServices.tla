----------------------------- MODULE MCServices -----------------------------
(* Five parts of the program that share no state: a behaviour is one of     *)
(* the service chosen at its start.  The guard rests in its initial state   *)
(* in those of the others, whose variables are Absent in those of another.  *)
EXTENDS ExecAuth, SmallClusters, TLC

CONSTANTS
  Forwards, Users, Contexts, NoContext, Troubles,
  Conns, NoConn, Emitters, Terminals, QueueSize, MaxEvents,
  Clusters, NodeLimit, ExpansionLimit, Clicks,
  Selections, Backups, NoLoop, NoBackup

VARIABLES
  service,
  trouble, state, forward, block, call, calm,
  phase, channel, sent, emitter, writer, clients, conn, stream, browser, session,
  cluster, root, graph, primaryParent, keptNodes, hiddenNodes, keptSummaries, stage, drawn,
  current, expanding, hurried,
  isOpen, opening, bulkProgress, pausedRef, resumeResolver, action, backupProgress, backupAbort,
  backup, stray

ingressVars == <<trouble, state, forward, block, call, calm>>
serverVars == <<phase, channel, sent, emitter, writer, clients, conn, stream, browser, session>>
graphVars == <<cluster, root, graph, primaryParent, keptNodes, hiddenNodes, keptSummaries, stage,
  drawn, current, expanding, hurried>>
bulkVars == <<isOpen, opening, bulkProgress, pausedRef, resumeResolver, action, backupProgress,
  backupAbort, backup, stray>>

Ingress == INSTANCE IngressForward WITH Callers <- Users, faults <- trouble
Server == INSTANCE ServerEvents WITH Sessions <- Terminals, queue <- channel
Graph == INSTANCE DependencyGraph WITH phase <- stage, screen <- drawn
Bulk == INSTANCE BulkActions WITH loop <- action

ASSUME ServicesAssumption ==
  /\ Ingress!IngressAssumption /\ Server!ServerAssumption
  /\ Graph!GraphAssumption /\ Bulk!BulkAssumption

(* The numbers of resources selected at two openings of the dialog.        *)
TwoThenThree == <<2, 3>>

Services == {"guard", "ingress", "server", "graph", "bulk"}
Absent == "absent"

(* Emitters are interchangeable, and so are connections, each used once,    *)
(* and port forwards, and contexts.                                         *)
Symmetry ==
  Permutations(Emitters) \cup Permutations(Conns) \cup Permutations(Forwards) \cup Permutations(Contexts)

ServicesInit ==
  /\ service \in Services
  /\ GuardInit
  /\ IF service = "ingress" THEN Ingress!Init ELSE
       /\ trouble = Absent /\ state = Absent /\ forward = Absent
       /\ block = Absent /\ call = Absent /\ calm = Absent
  /\ IF service = "server" THEN Server!Init ELSE
       /\ phase = Absent /\ channel = Absent /\ sent = Absent /\ emitter = Absent
       /\ writer = Absent /\ clients = Absent /\ conn = Absent /\ stream = Absent
       /\ browser = Absent /\ session = Absent
  /\ IF service = "graph" THEN Graph!Init ELSE
       /\ cluster = Absent /\ root = Absent /\ graph = Absent /\ primaryParent = Absent
       /\ keptNodes = Absent /\ hiddenNodes = Absent /\ keptSummaries = Absent
       /\ stage = Absent /\ drawn = Absent /\ current = Absent /\ expanding = Absent
       /\ hurried = Absent
  /\ IF service = "bulk" THEN Bulk!Init ELSE
       /\ isOpen = Absent /\ opening = Absent /\ bulkProgress = Absent
       /\ pausedRef = Absent /\ resumeResolver = Absent /\ action = Absent
       /\ backupProgress = Absent /\ backupAbort = Absent /\ backup = Absent
       /\ stray = Absent

ServicesNext ==
  \/ service = "guard" /\ GuardNext
     /\ UNCHANGED <<service, ingressVars, serverVars, graphVars, bulkVars>>
  \/ service = "ingress" /\ Ingress!Next
     /\ UNCHANGED <<service, guardVars, serverVars, graphVars, bulkVars>>
  \/ service = "server" /\ Server!Next
     /\ UNCHANGED <<service, guardVars, ingressVars, graphVars, bulkVars>>
  \/ service = "graph" /\ Graph!Next
     /\ UNCHANGED <<service, guardVars, ingressVars, serverVars, bulkVars>>
  \/ service = "bulk" /\ Bulk!Next
     /\ UNCHANGED <<service, guardVars, ingressVars, serverVars, graphVars>>

servicesVars == <<service, guardVars, ingressVars, serverVars, graphVars, bulkVars>>

ServicesSpec == ServicesInit /\ [][ServicesNext]_servicesVars

-----------------------------------------------------------------------------
ServicesTyped ==
  /\ GuardTypeOK
  /\ service = "ingress" => Ingress!TypeOK
  /\ service = "server" => Server!TypeOK
  /\ service = "bulk" => Bulk!TypeOK

(* The properties of IngressForward, and those of ServerEvents. *)
ServersSound ==
  /\ service = "ingress" => Ingress!IngressSound
  /\ service = "server" => Server!ServerSound

(* The types and the properties of DependencyGraph. *)
GraphSound == service = "graph" => Graph!TypeOK /\ Graph!GraphSound

(* The properties of BulkActions. *)
BulkSound == service = "bulk" => Bulk!BulkSound
=============================================================================
