------------------------------ MODULE MCConsole ------------------------------
(* The systems of the web server that do not meet, each on an instance of   *)
(* its own; part says which of them a behaviour is of, the others stay as   *)
(* they begin.                                                              *)
EXTENDS MCUserSession, MCWorkOrder, JobPermission, MCJenkinsJobs,
        K8sNodes, K8sWorkloads, K8sRelease, K8sYaml, MCMonitorConfig, MCRolePolicies

VARIABLE part

-----------------------------------------------------------------------------
(* An object of every kind.                                                 *)
MCKindOf(o) ==
  CASE o = "d1" -> "deployments"
    [] o = "s1" -> "statefulsets"
    [] o = "ds1" -> "daemonsets"
    [] o = "p1" -> "pods"
    [] o = "cm1" -> "configmaps"
    [] o = "sec1" -> "secrets"
    [] o = "svc1" -> "services"
    [] o = "ing1" -> "ingresses"

MCObjects == {"d1", "s1", "ds1", "p1", "cm1", "sec1", "svc1", "ing1"}

(* At place p, of an application "a", instance 1 is called "a-b", which is  *)
(* what the objects of instance 2, "b", are called.                         *)
MCShortNamed(p, i) == IF p = "p" /\ i = 1 THEN {<<"p", 2>>} ELSE {}

-----------------------------------------------------------------------------
(* The state of a part that a behaviour is not of.                          *)
NoOrders == workOrder = 0 /\ request = 0 /\ robot = 0 /\ cron = 0

NoRules == rules = 0

NoJenkins ==
  /\ ciThere = 0 /\ ciBuilds = 0 /\ ciQueue = 0 /\ ciRow = 0 /\ ciNext = 0
  /\ ciInstance = 0 /\ ciClient = 0 /\ ciCalls = 0 /\ ciReq = 0

NoClusters == registered = 0 /\ client = 0 /\ up = 0 /\ changes = 0 /\ edits = 0

NoNodes == node = 0 /\ place = 0 /\ nodeReq = 0

NoWork == obj = 0 /\ workReq = 0

NoReleases == project = 0 /\ app = 0 /\ inst = 0 /\ live = 0 /\ relReq = 0

NoYaml ==
  /\ yamlTemplate = 0 /\ yamlTask = 0 /\ yamlLog = 0 /\ yamlObject = 0
  /\ yamlReq = 0 /\ yamlEdits = 0

NoMonitor ==
  /\ pools = 0 /\ items = 0 /\ served = 0 /\ gen = 0 /\ calm = 0
  /\ monReq = 0 /\ tableEdits = 0

NoPolicies == roleRow = 0 /\ apiRow = 0 /\ policy = 0 /\ roleReq = 0 /\ roleEdits = 0

kubeVars == <<clusterVars, edits>>

(* The variables of Kubernetes, and all others but those of UserSession.    *)
k8sVars  == <<kubeVars, nodeVars, workVars, relVars, yamlVars>>
restVars == <<orderVars, rules, ciVars, monitorVars, roleVars, part>>

(* Bounds: how much happens at once.  There is one cluster, but for the     *)
(* releases.  The clusters do not change while workloads are edited, once   *)
(* in the application of a YAML task, once in a request that edits nodes on *)
(* its own; of two such requests one is for one node.  After the second     *)
(* edit, of a node or a workload, one request is in progress.               *)
ClustersBound ==
  part # "releases" => registered \subseteq {Home} /\ Clusters \ {Home} \subseteq up

KubeBound ==
  /\ ClustersBound
  /\ part = "nodes" => \E r \in NodeRequests : Len(nodeReq[r].todo) <= 1
  /\ part = "nodes" /\ (changes > 0 \/ edits > 1) =>
       /\ changes <= 1 /\ changes + edits <= 2
       /\ \E r \in NodeRequests : nodeReq[r].pc = "idle"
  /\ part = "work" => changes = 0
  /\ part = "work" /\ edits > 1 => \E r \in WorkRequests : workReq[r].pc = "idle"
  /\ part = "yaml" => changes <= 1

OrdersBound == part = "orders" => OrderBound

(* Of releases: two objects, of which one is a pod without a network or a   *)
(* deployment with a service or an ingress; one change, of c1, a row or an  *)
(* application; two requests, one of which deletes, if no call of it failed. *)
(* With two instances there is one request, and no change.                  *)
ReleasesBound ==
  /\ edits + changes <= 1 /\ "c2" \in registered \cap up
  /\ Cardinality(live) <= 2
  /\ \A i \in Instances : inst[i].state = "there" =>
       /\ Cardinality(inst[i].net) <= 1
       /\ inst[i].net # {} => inst[i].type = "Deployment"
  /\ inst[1].state = "unborn" => inst[2].state = "unborn"
  /\ inst[2].state # "unborn" => edits + changes = 0 /\ project # "c2"
  /\ (inst[2].state # "unborn" \/ \E r \in RelRequests : relReq[r].failed) =>
       \E r \in RelRequests : RelIdle(r)
  /\ \A r, s \in RelRequests :
       r # s /\ ~RelIdle(r) /\ ~RelIdle(s) => {relReq[r].op, relReq[s].op} \in
         {{"delete", "sync"}, {"delete", "project"}}

FilesBound == part \in Files => MonitorBound(part)

PoliciesBound == part = "roles" => RoleBound

ConsoleInit ==
  /\ Init
  /\ \/ part = "user"
     \/ part = "orders"
     \/ part = "rules"
     \/ part = "jenkins"
     \/ part = "nodes"
     \/ part = "work"
     \/ part = "releases"
     \/ part = "yaml"
     \/ part = "roles"
     \/ part \in Files
  /\ IF part = "orders" THEN OrderInit ELSE NoOrders
  /\ IF part = "rules" THEN PermissionInit ELSE NoRules
  /\ IF part = "jenkins" THEN JenkinsInit ELSE NoJenkins
  /\ IF part \in {"nodes", "work", "releases", "yaml"} THEN ClusterInit /\ registered # {} /\ ClustersBound ELSE NoClusters
  /\ IF part = "nodes" THEN NodeInit /\ place["agent"] = "n1" ELSE NoNodes
  /\ IF part = "work" THEN WorkInit ELSE NoWork
  /\ IF part = "releases" THEN ReleaseInit ELSE NoReleases
  /\ IF part = "yaml" THEN YamlInit ELSE NoYaml
  /\ IF part \in Files THEN MonitorInitAbout(part) ELSE NoMonitor
  /\ IF part = "roles" THEN RoleInit ELSE NoPolicies

ConsoleNext ==
  \/ part = "user" /\ Next /\ UNCHANGED <<restVars, k8sVars>>
  \/ part = "orders" /\ OrderNext
     /\ UNCHANGED <<vars, rules, ciVars, monitorVars, roleVars, k8sVars, part>>
     /\ OrdersBound'
  \/ part = "rules" /\ PermissionNext
     /\ UNCHANGED <<vars, orderVars, ciVars, monitorVars, roleVars, k8sVars, part>>
  \/ part = "jenkins" /\ JenkinsNext
     /\ UNCHANGED <<vars, orderVars, rules, monitorVars, roleVars, k8sVars, part>>
  \/ part \in Files /\ MonitorNext
     /\ UNCHANGED <<vars, orderVars, rules, ciVars, roleVars, k8sVars, part>>
     /\ FilesBound'
  \/ part = "roles" /\ RoleNext
     /\ UNCHANGED <<vars, orderVars, rules, ciVars, monitorVars, k8sVars, part>>
     /\ PoliciesBound'
  \/ part = "nodes" /\ NodeNext
     /\ UNCHANGED <<vars, restVars, workVars, relVars, yamlVars>> /\ KubeBound'
  \/ part = "work" /\ WorkNext
     /\ UNCHANGED <<vars, restVars, nodeVars, relVars, yamlVars>> /\ KubeBound'
  \/ part = "releases" /\ ReleaseNext
     /\ UNCHANGED <<vars, restVars, nodeVars, workVars, yamlVars>> /\ ReleasesBound'
  \/ part = "yaml" /\ YamlNext
     /\ UNCHANGED <<vars, restVars, nodeVars, workVars, relVars>> /\ KubeBound'

ConsoleSpec == ConsoleInit /\ [][ConsoleNext]_<<vars, restVars, k8sVars>>

-----------------------------------------------------------------------------
(* The types of the parts.                                                  *)
PartsTypeOK ==
  /\ TypeOK
  /\ part = "orders" => OrderTypeOK
  /\ part = "rules" => PermissionTypeOK
  /\ part = "jenkins" => JenkinsTypeOK
  /\ part \in {"nodes", "work", "releases", "yaml"} => ClusterTypeOK
  /\ part = "nodes" => NodeTypeOK
  /\ part = "work" => WorkTypeOK
  /\ part = "releases" => ReleaseTypeOK
  /\ part = "yaml" => YamlTypeOK
  /\ part \in Files => MonitorTypeOK
  /\ part = "roles" => RoleTypeOK

(* A synchronisation that no fault or other request came between leaves the *)
(* rows of an instance as its jobs are in Jenkins: SyncJenkinsJobsToDB      *)
(* reads, saves and then sweeps.                                            *)
RowsMatchJenkins == [][part = "jenkins" => JobsConvergeStep]_ciVars

(* An edit of a node or a workload changes what its request asked for and   *)
(* nothing that another request wrote meanwhile: the version the object was *)
(* read with is sent back, and the API server refuses a stale one.          *)
EditsStayTheirOwn ==
  [][/\ part = "nodes" => NodeEditsStayTheirOwnStep
     /\ part = "work" => WorkEditsStayTheirOwnStep]_k8sVars

(* A drain that is reported as done found the node closed to new pods and   *)
(* has asked for each pod it listed to leave: drainK8sNodes cordons first.  *)
DrainsEmpty == [][part = "nodes" => DrainEmptiesStep]_nodeVars

(* When the row of an instance is deleted, the objects that it was deployed *)
(* as are gone from a cluster that answers, whatever type it has by now:    *)
(* deleteK8sResources tries all of them, by either name.  When the row of a *)
(* YAML task says what became of an application that nothing came between,  *)
(* so does its log, if that could be written, and "applied" means that all  *)
(* objects of its template are as it says: DynamicObjApply stops where it   *)
(* fails.  A template that is deleted leaves no task without one.           *)
RowsTellTheCluster ==
  [][/\ part = "releases" => DeleteCleansStep
     /\ part = "yaml" => YamlTellsStep]_<<relVars, yamlVars>>

(* A pass over the tables of the monitoring that nothing came between       *)
(* serves what they say: every target and every rule is one instance's,     *)
(* and each secret is in its place, although the rows are read again for    *)
(* the secrets.                                                             *)
ServesAsConfigured == [][(part \in Files) => ServesAsConfiguredStep]_monitorVars

(* A change of a role or an API that no other request came between, and in  *)
(* which Casbin took the policies, leaves what Casbin lets a role do and    *)
(* what the pages offer to it the same, where they were before and where a  *)
(* role is saved: the handlers write rows and policies one after the other, *)
(* and a restart or a failed write may end them between.                    *)
RolesInOrder == [][part = "roles" => RolesInOrderStep]_roleVars

(* Whatever approvals, comments, forms and executors overlap, and write     *)
(* back what they read before the others: the nodes of a work order are     *)
(* answered in the order of its flow.  Only recordRobotExecution and        *)
(* finishAutoAction answer out of turn, a node of theirs.                   *)
OrderNodesInOrder == part = "orders" => NodesInOrder

(* A pending order that no executor has worked on names the first who has   *)
(* to answer, who finds it in his list, with the status that is his, and    *)
(* the node before was passed: no stale copy brings a name without the      *)
(* nodes that were answered when it was written.                            *)
OrderNamesFirstOpen == part = "orders" => PendingNamesFirstOpen

(* A finished order that no executor has worked on waits for nobody before  *)
(* its stop node, whichever of the overlapping requests finished it.        *)
OrderFinishedProcessed == part = "orders" => FinishedMeansProcessed

(* An order that the cron job takes up the first time is at an action node, *)
(* which waits for nobody else, and the node before it was passed.          *)
OrderExecutedApproved == part = "orders" => ExecutedWhenApproved

(* A job that CheckJobOperationPermission lets a role build is in the list  *)
(* that FilterJobsByPermission shows to it: two codes that read the same    *)
(* rules, one row by row and one all at once.                               *)
BuildableJobsVisible == part = "rules" => BuildableIsVisible

=============================================================================
