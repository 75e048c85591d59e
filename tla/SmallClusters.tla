--------------------------- MODULE SmallClusters ---------------------------
(* Small clusters for DependencyGraph: what refers to what, and how. *)
EXTENDS Integers

Link(n, relation, S) == {[source |-> n, relation |-> relation, target |-> m] : m \in S}

(* A Deployment with five pods, one of which uses a ConfigMap, a service of *)
(* the last two, and an autoscaler.                                        *)
Web ==
  [kind |-> <<"Deployment", "ReplicaSet", "Pod", "Pod", "Pod", "Pod", "Pod", "ConfigMap", "Service",
              "HorizontalPodAutoscaler">>,
   refs |-> Link(1, "owns", {2}) \cup Link(2, "owns", 3 .. 7) \cup Link(3, "uses", {8}) \cup
            Link(9, "selects", {1, 6, 7}) \cup Link(10, "scales", {1})]

(* Five volumes of a class, two of them claimed, one claim used by a pod. *)
Storage ==
  [kind |-> <<"StorageClass", "PersistentVolume", "PersistentVolume", "PersistentVolume",
              "PersistentVolume", "PersistentVolume", "PersistentVolumeClaim",
              "PersistentVolumeClaim", "Pod">>,
   refs |-> UNION {Link(v, "uses", {1}) : v \in 2 .. 6} \cup Link(7, "binds", {2}) \cup
            Link(8, "binds", {3}) \cup Link(9, "uses", {7}) \cup Link(8, "uses", {1})]

(* A service with an ingress, and three pods of a StatefulSet. *)
Network ==
  [kind |-> <<"StatefulSet", "Pod", "Pod", "Pod", "Service", "Ingress", "IngressClass", "Secret",
              "Endpoints">>,
   refs |-> Link(1, "owns", 2 .. 4) \cup Link(5, "selects", 1 .. 4) \cup Link(6, "routes-to", {5}) \cup
            Link(6, "uses", {7, 8}) \cup Link(5, "owns", {9}) \cup Link(9, "references", {2, 3})]

(* Jobs, and policies that select their pods. *)
Scheduled ==
  [kind |-> <<"CronJob", "Job", "Job", "Job", "Pod", "Pod", "Pod", "NetworkPolicy",
              "PodDisruptionBudget", "ServiceAccount", "PriorityClass">>,
   refs |-> Link(1, "owns", 2 .. 4) \cup Link(2, "owns", {5}) \cup Link(3, "owns", {6}) \cup
            Link(4, "owns", {7}) \cup Link(8, "applies-to", 5 .. 7) \cup Link(9, "protects", 5 .. 7) \cup
            UNION {Link(p, "uses", {10, 11}) : p \in 5 .. 7}]

(* Five pods of their own that use one ConfigMap; three services of a pod. *)
Config ==
  [kind |-> <<"Pod", "Pod", "Pod", "Pod", "Pod", "ConfigMap", "Service", "Service", "Service">>,
   refs |-> UNION {Link(p, "uses", {6}) : p \in 1 .. 5} \cup
            UNION {Link(s, "selects", {1}) : s \in 7 .. 9}]

(* A Deployment that was rolled out three times, with a service. *)
Rollout ==
  [kind |-> <<"Deployment", "ReplicaSet", "ReplicaSet", "ReplicaSet", "Pod", "Pod", "Service">>,
   refs |-> Link(1, "owns", 2 .. 4) \cup Link(2, "owns", {5}) \cup Link(4, "owns", {6}) \cup
            Link(7, "selects", {1, 5, 6})]

AllClusters == {Web, Storage, Network, Scheduled, Config, Rollout}
=============================================================================
