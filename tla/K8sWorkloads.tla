----------------------------- MODULE K8sWorkloads -----------------------------
(***************************************************************************)
(* The workloads, pods, configuration and network objects of a cluster, as  *)
(* operators edit them by hand: api_k8s_{pod,workload,deployment,config,    *)
(* network}.go.  Lists, watches, logs and terminals change nothing and are  *)
(* left out; so is a call that fails, where it has no effect.               *)
(***************************************************************************)
EXTENDS KubeCluster

CONSTANTS
  Home,          (* the cluster the requests name                           *)
  Objects,       (* the objects, by name                                    *)
  KindOf(_),     (* the resource an object is one of                        *)
  Specs,         (* what an object may be set to: replicas, data ...        *)
  WorkRequests   (* the requests with more than one call                    *)

ASSUME K8sWorkloadsAssumption == Home \in Clusters /\ 1 \in Specs

VARIABLES
  obj,      (* the objects, as the API server has them                      *)
  workReq   (* the local variables of the handlers                          *)

workVars == <<obj, workReq>>

NewObject == [there |-> TRUE, spec |-> 1, restarted |-> FALSE, version |-> 1]

NoWorkRequest == [op |-> "none", pc |-> "idle", todo |-> <<>>, arg |-> 1,
                  seen |-> NewObject]

WorkInit ==
  /\ obj = [o \in Objects |-> NewObject]
  /\ workReq = [r \in WorkRequests |-> NoWorkRequest]

OfKind(kind) == {o \in Objects : KindOf(o) = kind}

Callable == getClusterClientsetHelper(Home) /\ Home \in up

(* Server-side apply of one object: created or set, without a read.  It     *)
(* takes over the fields that the caller names, not the others.             *)
Apply(kind) ==
  /\ Callable
  /\ Versioned
  /\ \E o \in OfKind(kind), s \in Specs :
       obj' = [obj EXCEPT ![o] = [there |-> TRUE, spec |-> s, version |-> Version,
                                  restarted |-> @.there /\ @.restarted]]
  /\ UNCHANGED <<clusterVars, workReq>>

createK8sDeployment == Apply("deployments")

createStatefulSetHelper == Apply("statefulsets")

createDaemonSetHelper == Apply("daemonsets")

createConfigMapHelper == Apply("configmaps")

createSecretHelper == Apply("secrets")

createServiceHelper == Apply("services")

createIngressHelper == Apply("ingresses")

(* createK8sPod and updateK8sPod.                                           *)
createK8sPod == Apply("pods")

-----------------------------------------------------------------------------
Begin(r, op, todo, arg) ==
  /\ workReq[r].pc = "idle"
  /\ getClusterClientsetHelper(Home)
  /\ workReq' = [workReq EXCEPT ![r] =
       [NoWorkRequest EXCEPT !.op = op, !.pc = "get", !.todo = todo, !.arg = arg]]
  /\ UNCHANGED <<clusterVars, edits, obj>>

End(r) == workReq' = [workReq EXCEPT ![r] = NoWorkRequest]

(* Scaling and restarting read the workload and send it back, changed.      *)
Scale(r, kind) == \E o \in OfKind(kind), s \in Specs : Begin(r, "scale", <<o>>, s)

Restart(r, kind) == \E o \in OfKind(kind) : Begin(r, "restart", <<o>>, 1)

scaleK8sDeployment(r) == Scale(r, "deployments")

scaleK8sStatefulSet(r) == Scale(r, "statefulsets")

restartK8sDeployment(r) == Restart(r, "deployments")

restartK8sStatefulSet(r) == Restart(r, "statefulsets")

restartK8sDaemonSet(r) == Restart(r, "daemonsets")

GetObject(r) ==
  LET o == Head(workReq[r].todo)
  IN /\ workReq[r].pc = "get"
     /\ workReq[r].op \in {"scale", "restart"}
     /\ Home \in up
     /\ obj[o].there
     /\ workReq' = [workReq EXCEPT ![r].seen = obj[o], ![r].pc = "update"]
     /\ UNCHANGED <<clusterVars, edits, obj>>

(* What is sent: the object with the version that was read.                 *)
Rescaled(q) == IF q.op = "scale" THEN [q.seen EXCEPT !.spec = q.arg]
                                 ELSE [q.seen EXCEPT !.restarted = TRUE]

UpdateObject(r) ==
  LET q == workReq[r]
      o == Head(q.todo)
  IN /\ q.pc = "update"
     /\ Home \in up
     /\ obj[o].there
     /\ ServerAccepts(obj[o], Rescaled(q))
     /\ Counted(obj[o], Rescaled(q))
     /\ obj' = [obj EXCEPT ![o] = Stored(@, Rescaled(q))]
     /\ End(r)
     /\ UNCHANGED clusterVars

WorkCallFails(r) ==
  /\ workReq[r].op \in {"scale", "restart"}
  /\ End(r)
  /\ UNCHANGED <<clusterVars, edits, obj>>

-----------------------------------------------------------------------------
Removed(o) ==
  /\ obj[o].there
  /\ Versioned
  /\ obj' = [obj EXCEPT ![o] = [NewObject EXCEPT !.there = FALSE, !.version = Version]]

(* One object is deleted by its name.                                       *)
Delete(kind) ==
  /\ Callable
  /\ \E o \in OfKind(kind) : Removed(o)
  /\ UNCHANGED <<clusterVars, workReq>>

deleteK8sDeployment == Delete("deployments")

deleteK8sStatefulSet == Delete("statefulsets")

deleteK8sDaemonSet == Delete("daemonsets")

deleteK8sPod == Delete("pods")

deleteK8sConfigMap == Delete("configmaps")

deleteK8sSecret == Delete("secrets")

deleteK8sService == Delete("services")

deleteK8sIngress == Delete("ingresses")

(* A batch deletes several objects of a kind one after the other, whatever  *)
(* fails.  No deletion depends on another one or on anything read before,   *)
(* and a batch once let in keeps its client: each deletion is a step, and   *)
(* any number of them makes a batch.                                        *)
DeleteInBatch(kind) ==
  /\ Home \in up
  /\ \E o \in OfKind(kind) : Removed(o)
  /\ UNCHANGED <<clusterVars, workReq>>

deleteK8sDeploymentBatch == DeleteInBatch("deployments")

deleteK8sStatefulSetBatch == DeleteInBatch("statefulsets")

deleteK8sDaemonSetBatch == DeleteInBatch("daemonsets")

deleteK8sPodBatch == DeleteInBatch("pods")

deleteK8sConfigMapBatch == DeleteInBatch("configmaps")

deleteK8sSecretBatch == DeleteInBatch("secrets")

deleteK8sServiceBatch == DeleteInBatch("services")

deleteK8sIngressBatch == DeleteInBatch("ingresses")

WorkNext ==
  \/ ClusterNext /\ UNCHANGED workVars
  \/ createK8sDeployment \/ createStatefulSetHelper \/ createDaemonSetHelper
  \/ createConfigMapHelper \/ createSecretHelper \/ createServiceHelper
  \/ createIngressHelper \/ createK8sPod
  \/ deleteK8sDeployment \/ deleteK8sStatefulSet \/ deleteK8sDaemonSet \/ deleteK8sPod
  \/ deleteK8sConfigMap \/ deleteK8sSecret \/ deleteK8sService \/ deleteK8sIngress
  \/ \E r \in WorkRequests :
       \/ scaleK8sDeployment(r) \/ scaleK8sStatefulSet(r)
       \/ restartK8sDeployment(r) \/ restartK8sStatefulSet(r) \/ restartK8sDaemonSet(r)
       \/ GetObject(r) \/ UpdateObject(r) \/ WorkCallFails(r)
  \/ deleteK8sDeploymentBatch \/ deleteK8sStatefulSetBatch \/ deleteK8sDaemonSetBatch
  \/ deleteK8sPodBatch \/ deleteK8sConfigMapBatch \/ deleteK8sSecretBatch
  \/ deleteK8sServiceBatch \/ deleteK8sIngressBatch

WorkSpec == ClusterInit /\ WorkInit /\ [][WorkNext]_<<clusterVars, edits, workVars>>

-----------------------------------------------------------------------------
WorkTypeOK ==
  /\ obj \in [Objects -> [there : BOOLEAN, spec : Specs, restarted : BOOLEAN,
                          version : 1..(MaxEdits + 1)]]
  /\ \A r \in WorkRequests :
       /\ workReq[r].seen.version <= edits + 1
       /\ \A i \in 1..Len(workReq[r].todo) : workReq[r].todo[i] \in Objects

(* Scaling a workload does not take back a restart or an edit that came     *)
(* between its read and its write, a restart not a scaling; and neither     *)
(* brings back what was deleted meanwhile.                                  *)
WorkEditsStayTheirOwnStep ==
  \A r \in WorkRequests, o \in Objects :
    workReq'[r] # workReq[r] /\ workReq[r].op \in {"scale", "restart"} =>
      /\ obj'[o].there = obj[o].there
      /\ obj'[o].spec # obj[o].spec => workReq[r].op = "scale"
      /\ obj'[o].restarted # obj[o].restarted => workReq[r].op = "restart"

WorkEditsStayTheirOwn == [][WorkEditsStayTheirOwnStep]_workVars

=============================================================================
