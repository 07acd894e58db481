----------------------------- MODULE KubeCluster -----------------------------
(***************************************************************************)
(* The Kubernetes clusters the console knows, and the clients it keeps for  *)
(* them: cache/k8s_cluster.go, api_k8s_cluster.go and the helper by which   *)
(* the handlers get a client (api_k8s_pod.go).  K8sNodes, K8sWorkloads and  *)
(* K8sRelease extend this module.                                           *)
(*                                                                         *)
(* An API server applies one call at a time and refuses an update that      *)
(* carries the version of an object read before its last change.            *)
(***************************************************************************)
EXTENDS Naturals, FiniteSets, Sequences

CONSTANTS
  Clusters,    (* the clusters there are                                    *)
  MaxChanges,  (* bound on registrations, removals, outages and recoveries  *)
  MaxEdits     (* bound on the versions the API servers hand out            *)

ASSUME KubeClusterAssumption == MaxChanges \in Nat /\ MaxEdits \in Nat

VARIABLES
  registered,  (* the clusters that have a row                              *)
  client,      (* what the cache has for the id of each cluster's row       *)
  up,          (* the clusters that answer                                  *)
  changes,     (* how often registered and up have changed                  *)
  edits        (* how many versions have been handed out                    *)

clusterVars == <<registered, client, up, changes>>

ClusterTypeOK ==
  /\ registered \subseteq Clusters
  /\ client \in [Clusters -> {"none", "probed", "unreachable"}]
  /\ up \subseteq Clusters
  /\ changes \in 0..MaxChanges
  /\ edits \in 0..MaxEdits

ClusterInit ==
  /\ registered \in SUBSET Clusters
  /\ client = [c \in Clusters |-> "none"]
  /\ up = Clusters
  /\ changes = 0
  /\ edits = 0

(* ReNewClientsMap replaces the maps, with a client for every row, and the  *)
(* result of the probe; without a row it leaves them as they are.           *)
ReNewClientsMap ==
  /\ registered # {}
  /\ client' = [c \in Clusters |->
                  CASE c \notin registered -> "none"
                    [] c \in registered \cap up -> "probed"
                    [] OTHER -> "unreachable"]
  /\ UNCHANGED <<registered, up, changes, edits>>

Change == changes < MaxChanges /\ changes' = changes + 1 /\ UNCHANGED edits

(* A row has a new id, for which there is no client yet.  The cluster need  *)
(* not answer: its version then stays empty.                                *)
createK8sCluster(c) ==
  /\ Change
  /\ c \notin registered
  /\ registered' = registered \cup {c}
  /\ client' = [client EXCEPT ![c] = "none"]
  /\ UNCHANGED up

deleteK8sCluster(c) ==
  /\ Change
  /\ c \in registered
  /\ registered' = registered \ {c}
  /\ UNCHANGED <<client, up>>

deleteK8sClusterBatch ==
  /\ Change
  /\ \E C \in (SUBSET Clusters) \ {{}} : registered' = registered \ C
  /\ UNCHANGED <<client, up>>

(* A cluster stops or starts to answer.                                     *)
ClusterSwitches(c) ==
  /\ Change
  /\ up' = IF c \in up THEN up \ {c} ELSE up \cup {c}
  /\ UNCHANGED <<registered, client>>

ClusterNext ==
  \/ ReNewClientsMap
  \/ deleteK8sClusterBatch
  \/ \E c \in Clusters : \/ createK8sCluster(c)
                         \/ deleteK8sCluster(c)
                         \/ ClusterSwitches(c)

(* Most handlers refuse a cluster that did not answer the last probe; those *)
(* of the nodes only need a client.                                         *)
getClusterClientsetHelper(c) == c \in registered /\ client[c] = "probed"

GetClusterClientSetById(c) == c \in registered /\ client[c] # "none"

-----------------------------------------------------------------------------
(* A change of an object by an API server, which counts its versions from 1.*)
Versioned == edits < MaxEdits /\ edits' = edits + 1

Version == edits + 2

(* The update of what is now as told to what a handler sends: taken only if *)
(* nothing has changed it since it was read, unless no version is given (0).*)
ServerAccepts(now, sent) == sent.version \in {0, now.version}

(* What it then has: the next version, unless nothing is different.         *)
Stored(now, sent) ==
  IF [sent EXCEPT !.version = now.version] = now THEN now
                                                 ELSE [sent EXCEPT !.version = Version]

Counted(now, sent) == IF Stored(now, sent) = now THEN UNCHANGED edits ELSE Versioned

(* The things a request names, in some order.                               *)
Lists(S) == UNION {{s \in [1..k -> S] : \A i, j \in 1..k : s[i] = s[j] => i = j} :
                     k \in 1..Cardinality(S)}

Later(seq) == SubSeq(seq, 2, Len(seq))

=============================================================================
