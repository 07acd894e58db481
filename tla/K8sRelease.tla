------------------------------ MODULE K8sRelease ------------------------------
(***************************************************************************)
(* Projects, applications and instances, and what they put into clusters:   *)
(* api_k8s_instance.go with models/tbl_k8s_{project,app,instance}.go.       *)
(*                                                                         *)
(* An instance is deployed by its workload, and a service and an ingress if *)
(* it asks for them, under the name of its application and its own in the   *)
(* namespace of the application, in the cluster of the project.  The names  *)
(* are fixed here but for the application's, which with its namespace makes *)
(* a place.  A deletion also takes what bears the instance's own name       *)
(* alone, which may be another instance's.  Foreign keys tie applications   *)
(* to projects and instances to applications.  A request that waits for the *)
(* cluster or the database keeps what it has read.                          *)
(***************************************************************************)
EXTENDS KubeCluster

CONSTANTS
  Places,      (* names and namespaces an application may have              *)
  Instances,   (* ids of instances: the database never uses one twice       *)
  Types,       (* the types of workload that operators choose from          *)
  ShortNamed(_, _),  (* in the namespace of a place, the objects of which   *)
               (* other places and instances are called as an instance      *)
  RelRequests  (* the requests that come in                                 *)

Workloads == <<"Deployment", "StatefulSet", "DaemonSet", "Pod">>

Kinds == Workloads \o <<"Service", "Ingress">>

ASSUME K8sReleaseAssumption ==
  /\ Types \subseteq {Workloads[k] : k \in 1..Len(Workloads)}
  /\ "none" \notin Places \cup Clusters
  /\ \A p \in Places, i \in Instances : ShortNamed(p, i) \subseteq Places \X (Instances \ {i})

VARIABLES
  project,  (* the cluster of the project, "none" without a row             *)
  app,      (* the place of its application, "none" without a row           *)
  inst,     (* the rows of the instances                                    *)
  live,     (* the objects in the clusters: cluster, place, instance, kind  *)
  relReq    (* the local variables of the handlers                          *)

relVars == <<project, app, inst, live, relReq>>

(* What an operator asks of an instance.                                    *)
Wanted == [type : Types, net : SUBSET {"Service", "Ingress"}]

Unborn == [state |-> "unborn"]
Gone   == [state |-> "deleted"]

NoRelRequest == [op |-> "none", pc |-> "idle", inst |-> 0, type |-> "none", net |-> {},
                 cluster |-> "none", place |-> "none", kind |-> 0,
                 failed |-> FALSE, raced |-> FALSE]

ReleaseInit ==
  /\ project = "none"
  /\ app = "none"
  /\ inst = [i \in Instances |-> Unborn]
  /\ live = {}
  /\ relReq = [r \in RelRequests |-> NoRelRequest]

RelIdle(r) == relReq[r].pc = "idle"

Goes(r, q) == relReq' = [relReq EXCEPT ![r] = q]

EndsRel(r) == Goes(r, NoRelRequest)

-----------------------------------------------------------------------------
createK8sProject(c) ==
  /\ project = "none"
  /\ project' = c
  /\ UNCHANGED <<clusterVars, edits, app, inst, live, relReq>>

(* The project is read, and its cluster may change only if it has no        *)
(* application; then the row is written.                                    *)
CheckProject(r, c) ==
  /\ RelIdle(r)
  /\ project # "none"
  /\ c = project \/ app = "none"
  /\ Goes(r, [NoRelRequest EXCEPT !.op = "project", !.pc = "write", !.cluster = c])
  /\ UNCHANGED <<clusterVars, edits, project, app, inst, live>>

updateK8sProject(r) ==
  /\ relReq[r].op = "project"
  /\ project' = IF project = "none" THEN "none" ELSE relReq[r].cluster
  /\ EndsRel(r)
  /\ UNCHANGED <<clusterVars, edits, app, inst, live>>

(* What the check lets through the foreign key refuses.                     *)
deleteK8sProject ==
  /\ project # "none"
  /\ app = "none"
  /\ project' = "none"
  /\ UNCHANGED <<clusterVars, edits, app, inst, live, relReq>>

createK8sApp(p) ==
  /\ project # "none"
  /\ app = "none"
  /\ app' = p
  /\ UNCHANGED <<clusterVars, edits, project, inst, live, relReq>>

(* Name and namespace may change whatever is deployed.                      *)
updateK8sApp(p) ==
  /\ app # "none"
  /\ Versioned
  /\ app' = p
  /\ UNCHANGED <<clusterVars, project, inst, live, relReq>>

(* There is no check: the foreign key refuses it while there are instances. *)
deleteK8sApp ==
  /\ app # "none"
  /\ \A i \in Instances : inst[i].state # "there"
  /\ app' = "none"
  /\ UNCHANGED <<clusterVars, edits, project, inst, live, relReq>>

-----------------------------------------------------------------------------
Row(w) == [state |-> "there", type |-> w.type, net |-> w.net]

(* syncK8sDeployment is about to run for what an operator or a row wants.   *)
Sync(i, w) == [NoRelRequest EXCEPT !.op = "sync", !.pc = "locate", !.inst = i,
                                   !.type = w.type, !.net = w.net]

(* The row is created, whatever comes of the deployment.                    *)
createK8sInstance(r, i, w) ==
  /\ RelIdle(r)
  /\ app # "none"
  /\ inst[i].state = "unborn"
  /\ inst' = [inst EXCEPT ![i] = Row(w)]
  /\ Goes(r, Sync(i, w))
  /\ UNCHANGED <<clusterVars, edits, project, app, live>>

(* Zero values are not written: a service or an ingress once asked for      *)
(* stays in the row.  What is deployed is the request, even when its row is *)
(* gone: an update of no row is no error.                                   *)
updateK8sInstance(r, i, w) ==
  /\ RelIdle(r)
  /\ inst[i].state # "unborn"
  /\ Versioned
  /\ inst' = IF inst[i].state = "there"
               THEN [inst EXCEPT ![i].type = w.type, ![i].net = @ \cup w.net]
               ELSE inst
  /\ Goes(r, Sync(i, w))
  /\ UNCHANGED <<clusterVars, project, app, live>>

(* What is deployed is the row as it was read.                              *)
deployK8sInstance(r, i) ==
  /\ RelIdle(r)
  /\ inst[i].state = "there"
  /\ Goes(r, Sync(i, inst[i]))
  /\ UNCHANGED <<clusterVars, edits, project, app, inst, live>>

(* The application and the project are read, and the client is taken, if    *)
(* nothing fails.                                                           *)
Located == app # "none" /\ project # "none" /\ getClusterClientsetHelper(project)

LocateSync(r) ==
  LET q == relReq[r]
  IN /\ q.op = "sync" /\ q.pc = "locate"
     /\ \/ Located /\ Goes(r, [q EXCEPT !.pc = "workload", !.cluster = project, !.place = app])
        \/ EndsRel(r)
     /\ UNCHANGED <<clusterVars, edits, project, app, inst, live>>

(* What a request deploys, where and for which instance; what the objects   *)
(* hold is left out.  Application and instance give the name.               *)
Object(q, kind) ==
  [cluster |-> q.cluster, place |-> q.place, inst |-> q.inst, kind |-> kind]

GetK8sDeployment(q)    == Object(q, "Deployment")
GetK8sStatefulSet(q)   == Object(q, "StatefulSet")
GetK8sDaemonSet(q)     == Object(q, "DaemonSet")
GetK8sStandalonePod(q) == Object(q, "Pod")
GetK8sService(q)       == Object(q, "Service")
GetK8sIngress(q)       == Object(q, "Ingress")

Workload(q) ==
  CASE q.type = "StatefulSet" -> GetK8sStatefulSet(q)
    [] q.type = "DaemonSet"   -> GetK8sDaemonSet(q)
    [] q.type = "Pod"         -> GetK8sStandalonePod(q)
    [] OTHER                  -> GetK8sDeployment(q)

(* Get, then create or update, of one object: what is there is made as the  *)
(* request has it.  next is what the request does then.  That something     *)
(* appears where a deletion has been is noted with the deletion, and read   *)
(* by DeleteCleans alone.                                                   *)
Put(r, o, next) ==
  LET hit(d) == /\ relReq[d].op = "delete" /\ relReq[d].pc \in {"clean", "row"}
                /\ Object(relReq[d], o.kind) = o
  IN /\ relReq[r].cluster \in up
     /\ live' = live \cup {o}
     /\ relReq' = [d \in RelRequests |->
          IF d = r THEN next
          ELSE IF hit(d) THEN [relReq[d] EXCEPT !.raced = TRUE] ELSE relReq[d]]

(* The first write that fails ends the deployment, with an error that only  *)
(* deployK8sInstance tells.                                                 *)
PutWorkload(r) ==
  LET q == relReq[r]
  IN /\ q.pc = "workload"
     /\ \/ Put(r, Workload(q), [q EXCEPT !.pc = "service"])
        \/ EndsRel(r) /\ UNCHANGED live
     /\ UNCHANGED <<clusterVars, edits, project, app, inst>>

(* The errors of the service and the ingress are dropped, and neither is    *)
(* removed where it is not asked for any more.                              *)
PutService(r) ==
  LET q == relReq[r]
      next == [q EXCEPT !.pc = "ingress"]
  IN /\ q.pc = "service"
     /\ \/ "Service" \in q.net /\ Put(r, GetK8sService(q), next)
        \/ Goes(r, next) /\ UNCHANGED live
     /\ UNCHANGED <<clusterVars, edits, project, app, inst>>

PutIngress(r) ==
  LET q == relReq[r]
  IN /\ q.pc = "ingress"
     /\ \/ "Ingress" \in q.net /\ Put(r, GetK8sIngress(q), NoRelRequest)
        \/ EndsRel(r) /\ UNCHANGED live
     /\ UNCHANGED <<clusterVars, edits, project, app, inst>>

-----------------------------------------------------------------------------
(* The row is read; what it says of the instance's type and network is not  *)
(* asked.  A row that cannot be read is deleted all the same.               *)
deleteK8sInstance(r, i) ==
  /\ RelIdle(r)
  /\ inst[i].state = "there"
  /\ LET q == [NoRelRequest EXCEPT !.op = "delete", !.pc = "locate", !.inst = i]
     IN Goes(r, q) \/ Goes(r, [q EXCEPT !.pc = "row", !.failed = TRUE])
  /\ UNCHANGED <<clusterVars, edits, project, app, inst, live>>

(* Where the objects cannot be located they are left alone.                 *)
LocateDelete(r) ==
  LET q == relReq[r]
  IN /\ q.op = "delete" /\ q.pc = "locate"
     /\ \/ Located /\ Goes(r, [q EXCEPT !.pc = "clean", !.kind = 1,
                                           !.cluster = project, !.place = app])
        \/ Goes(r, [q EXCEPT !.pc = "row", !.failed = TRUE])
     /\ UNCHANGED <<clusterVars, edits, project, app, inst, live>>

(* The calls of a deletion: each kind by the full name, then each kind by   *)
(* the short one.                                                           *)
Calls == 2 * Len(Kinds)

FullName(q) == {Object(q, Kinds[q.kind])}

ShortName(q) ==
  {[cluster |-> q.cluster, place |-> o[1], inst |-> o[2], kind |-> Kinds[q.kind - Len(Kinds)]] :
     o \in ShortNamed(q.place, q.inst)}

NameTried(q) == IF q.kind <= Len(Kinds) THEN FullName(q) ELSE ShortName(q)

(* One call of the deletion of an instance, on the objects O, which may     *)
(* fail.                                                                    *)
Clean(r, O) ==
  LET q == relReq[r]
      next == IF q.kind = Calls THEN [q EXCEPT !.pc = "row"] ELSE [q EXCEPT !.kind = @ + 1]
  IN /\ q.pc = "clean"
     /\ \/ q.cluster \in up /\ live' = live \ O /\ Goes(r, next)
        \/ Goes(r, [next EXCEPT !.failed = TRUE]) /\ UNCHANGED live
     /\ UNCHANGED <<clusterVars, edits, project, app, inst>>

(* One call after the other, all errors dropped.                            *)
deleteK8sResources(r) == Clean(r, NameTried(relReq[r]))

(* The row goes, whatever became of the objects, unless that fails.         *)
DeleteRow(r) ==
  LET q == relReq[r]
  IN /\ q.pc = "row"
     /\ inst' = [inst EXCEPT ![q.inst] = Gone] \/ UNCHANGED inst
     /\ EndsRel(r)
     /\ UNCHANGED <<clusterVars, edits, project, app, live>>

ReleaseNext ==
  \/ ClusterNext /\ UNCHANGED relVars
  \/ \E c \in Clusters : createK8sProject(c)
  \/ deleteK8sProject
  \/ \E p \in Places : createK8sApp(p) \/ updateK8sApp(p)
  \/ deleteK8sApp
  \/ \E r \in RelRequests :
       \/ \E c \in Clusters : CheckProject(r, c)
       \/ updateK8sProject(r)
       \/ \E i \in Instances :
            \/ \E w \in Wanted : createK8sInstance(r, i, w) \/ updateK8sInstance(r, i, w)
            \/ deployK8sInstance(r, i)
            \/ deleteK8sInstance(r, i)
       \/ LocateSync(r) \/ PutWorkload(r) \/ PutService(r) \/ PutIngress(r)
       \/ LocateDelete(r) \/ deleteK8sResources(r) \/ DeleteRow(r)

ReleaseSpec == ClusterInit /\ ReleaseInit /\ [][ReleaseNext]_<<clusterVars, edits, relVars>>

-----------------------------------------------------------------------------
ReleaseTypeOK ==
  /\ project \in Clusters \cup {"none"}
  /\ app \in Places \cup {"none"}
  /\ app # "none" => project # "none"
  /\ \A i \in Instances :
       /\ inst[i].state \in {"unborn", "there", "deleted"}
       /\ inst[i].state = "there" => app # "none" /\ inst[i] \in
            [state : {"there"}, type : Types, net : SUBSET {"Service", "Ingress"}]
  /\ live \subseteq [cluster : Clusters, place : Places, inst : Instances,
                     kind : {Kinds[k] : k \in 1..Len(Kinds)}]
  /\ \A r \in RelRequests :
       /\ relReq[r].pc \in {"workload", "service", "ingress", "clean"} =>
            relReq[r].cluster \in Clusters /\ relReq[r].place \in Places
       /\ relReq[r].pc = "clean" => relReq[r].kind \in 1..Calls

(* An instance that is deleted leaves nothing behind where its deletion     *)
(* looked, whatever it was deployed as before: unless it could not look, a  *)
(* call failed, or a deployment of the instance put something there between.*)
DeleteCleansStep ==
  \A r \in RelRequests :
    LET q == relReq[r]
    IN q.pc = "row" /\ ~q.failed /\ ~q.raced /\ relReq'[r].pc = "idle" =>
         \A o \in live' : ~(/\ o.inst = q.inst
                            /\ o.cluster = q.cluster
                            /\ o.place = q.place)

DeleteCleans == [][DeleteCleansStep]_relVars

=============================================================================
