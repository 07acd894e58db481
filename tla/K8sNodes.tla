------------------------------- MODULE K8sNodes -------------------------------
(***************************************************************************)
(* The nodes of a cluster and the pods on them: api_k8s_node.go.  Requests  *)
(* of several operators change the same nodes: each reads a node, changes a *)
(* part of it and sends all of it back.  Lists change nothing and are left  *)
(* out.                                                                     *)
(***************************************************************************)
EXTENDS KubeCluster

CONSTANTS
  Here,          (* the cluster the requests name                           *)
  Nodes, Labels, Taints,
  Pods,          (* pods, by the workload and the replica they stand for    *)
  Stays,         (* those of a DaemonSet and the mirrors of static pods     *)
  NodeRequests   (* the requests that come in                               *)

ASSUME K8sNodesAssumption ==
  /\ Here \in Clusters /\ Stays \subseteq Pods
  /\ "none" \notin Nodes /\ IsFiniteSet(Nodes)

VARIABLES
  node,     (* the nodes, as the API server has them                        *)
  place,    (* where each pod runs, "none" while it is pending              *)
  nodeReq   (* the local variables of the handlers                          *)

nodeVars == <<node, place, nodeReq>>

NodeRecord == [unschedulable : BOOLEAN, labels : SUBSET Labels,
               taints : SUBSET Taints, version : 1..(MaxEdits + 1)]

NewNode == [unschedulable |-> FALSE, labels |-> {}, taints |-> {}, version |-> 1]

NoEdit == [set |-> {}, unset |-> {}]

NoNodeRequest == [op |-> "none", pc |-> "idle", todo |-> <<>>, mode |-> "none", arg |-> NoEdit,
                  single |-> FALSE, seen |-> NewNode, pods |-> {}, lost |-> FALSE]

(* What a request sets and what it removes.                                 *)
Edits(S) == {[set |-> X, unset |-> S \ X] : X \in SUBSET S}

NodeInit ==
  /\ node = [n \in Nodes |-> NewNode]
  /\ place \in [Pods -> Nodes]
  /\ nodeReq = [r \in NodeRequests |-> NoNodeRequest]

(* The handlers take a list of nodes, and a mode, or the labels or taints   *)
(* to set.  They need a client, whatever the last probe said.               *)
NodeRequest(r, op, mode, arg) ==
  /\ nodeReq[r].pc = "idle"
  /\ GetClusterClientSetById(Here)
  /\ \E todo \in Lists(Nodes) :
       nodeReq' = [nodeReq EXCEPT ![r] =
         [NoNodeRequest EXCEPT !.op = op, !.pc = "get", !.todo = todo, !.mode = mode,
                               !.arg = arg, !.single = Len(todo) = 1]]
  /\ UNCHANGED <<clusterVars, edits, node, place>>

(* The part each handler changes in the node it has read; it sends the node *)
(* back with the version that was read.                                     *)
scheduleEnableSwitchK8sNodesOne(q) ==
  [q.seen EXCEPT !.unschedulable = CASE q.mode = "on" -> FALSE
                                     [] q.mode = "off" -> TRUE
                                     [] q.mode = "flip" -> ~@]

(* A mutant of labelK8sNodes: the node is sent without its version, as the  *)
(* YAML tasks send what they update.                                        *)
labelWithoutVersion(q) ==
  [q.seen EXCEPT !.labels = IF q.single THEN q.arg.set ELSE (@ \cup q.arg.set) \ q.arg.unset,
                 !.version = 0]

(* With one node the labels are replaced; with several they are added, and  *)
(* those with an empty value removed.                                       *)
labelK8sNodes(q) ==
  [q.seen EXCEPT !.labels = IF q.single THEN q.arg.set ELSE (@ \cup q.arg.set) \ q.arg.unset]

taintK8sNodes(q) ==
  [q.seen EXCEPT !.taints = IF q.single THEN q.arg.set ELSE (@ \ q.arg.unset) \cup q.arg.set]

(* A mutant of CordonFirst: a node that accepts pods is drained as it is.   *)
CordonNever(q) == FALSE

(* The drain cordons a node before it looks for its pods.                   *)
CordonFirst(q) == ~q.seen.unschedulable

Sent(q) == CASE q.op = "cordon" -> scheduleEnableSwitchK8sNodesOne(q)
             [] q.op = "label" -> labelK8sNodes(q)
             [] q.op = "taint" -> taintK8sNodes(q)
             [] q.op = "drain" -> [q.seen EXCEPT !.unschedulable = TRUE]

(* Nodes().Get                                                              *)
GetNode(r) ==
  LET read == [nodeReq[r] EXCEPT !.seen = node[Head(nodeReq[r].todo)]]
      to == IF read.op # "drain" \/ CordonFirst(read) THEN "update" ELSE "list"
  IN /\ nodeReq[r].pc = "get"
     /\ Here \in up
     /\ nodeReq' = [nodeReq EXCEPT ![r] = [read EXCEPT !.pc = to]]
     /\ UNCHANGED <<clusterVars, edits, node, place>>

(* On to the next node, or the end.                                         *)
Onward(q) ==
  IF Len(q.todo) = 1
    THEN NoNodeRequest
    ELSE [q EXCEPT !.pc = "get", !.todo = Later(@), !.seen = NewNode, !.lost = FALSE]

(* Nodes().Update: a drain goes on with the node as it now is.              *)
UpdateNode(r) ==
  LET q == nodeReq[r]
      n == Head(q.todo)
      new == Stored(node[n], Sent(q))
  IN /\ q.pc = "update"
     /\ Here \in up
     /\ ServerAccepts(node[n], Sent(q))
     /\ Counted(node[n], Sent(q))
     /\ node' = [node EXCEPT ![n] = new]
     /\ nodeReq' = [nodeReq EXCEPT ![r] =
          IF q.op = "drain" THEN [q EXCEPT !.seen = new, !.pc = "list"] ELSE Onward(q)]
     /\ UNCHANGED <<clusterVars, place>>

(* A call that fails, by a conflict or because the cluster does not answer  *)
(* in time, ends the request: the nodes that follow are not touched.        *)
NodeCallFails(r) ==
  /\ nodeReq[r].pc \in {"get", "update", "list"}
  /\ nodeReq' = [nodeReq EXCEPT ![r] = NoNodeRequest]
  /\ UNCHANGED <<clusterVars, edits, node, place>>

-----------------------------------------------------------------------------
(* The drain lists the pods of the node and leaves out those of a DaemonSet *)
(* and the mirrors of static pods.                                          *)
ListPods(r) ==
  /\ nodeReq[r].pc = "list"
  /\ Here \in up
  /\ nodeReq' = [nodeReq EXCEPT
       ![r].pods = {p \in Pods \ Stays : place[p] = Head(nodeReq[r].todo)},
       ![r].pc = "evict"]
  /\ UNCHANGED <<clusterVars, edits, node, place>>

(* A pod that cannot be evicted is deleted, the error of which is ignored.  *)
Evict(r, p) ==
  /\ nodeReq[r].pc = "evict"
  /\ p \in nodeReq[r].pods
  /\ \/ /\ Here \in up
        /\ place' = [place EXCEPT ![p] = IF @ = Head(nodeReq[r].todo) THEN "none" ELSE @]
        /\ nodeReq' = [nodeReq EXCEPT ![r].pods = @ \ {p}]
     \/ /\ Here \notin up
        /\ nodeReq' = [nodeReq EXCEPT ![r].pods = @ \ {p}, ![r].lost = TRUE]
        /\ UNCHANGED place
  /\ UNCHANGED <<clusterVars, edits, node>>

drainK8sNodes(r) ==
  /\ nodeReq[r].pc = "evict"
  /\ nodeReq[r].pods = {}
  /\ nodeReq' = [nodeReq EXCEPT ![r] = Onward(nodeReq[r])]
  /\ UNCHANGED <<clusterVars, edits, node, place>>

(* The scheduler of the cluster.                                            *)
Schedules(p, n) ==
  /\ place[p] = "none"
  /\ ~node[n].unschedulable
  /\ place' = [place EXCEPT ![p] = n]
  /\ UNCHANGED <<clusterVars, edits, node, nodeReq>>

NodeNext ==
  \/ ClusterNext /\ UNCHANGED nodeVars
  \/ \E r \in NodeRequests :
       \/ \E a \in {"on", "off", "flip"} : NodeRequest(r, "cordon", a, NoEdit)
       \/ \E e \in Edits(Labels) : NodeRequest(r, "label", "none", e)
       \/ \E e \in Edits(Taints) : NodeRequest(r, "taint", "none", e)
       \/ NodeRequest(r, "drain", "off", NoEdit)
       \/ GetNode(r) \/ UpdateNode(r) \/ NodeCallFails(r)
       \/ ListPods(r) \/ drainK8sNodes(r)
       \/ \E p \in Pods : Evict(r, p)
  \/ \E p \in Pods, n \in Nodes : Schedules(p, n)

NodeSpec == ClusterInit /\ NodeInit /\ [][NodeNext]_<<clusterVars, edits, nodeVars>>

-----------------------------------------------------------------------------
NodeTypeOK ==
  /\ node \in [Nodes -> NodeRecord]
  /\ place \in [Pods -> Nodes \cup {"none"}]
  /\ \A p \in Stays : place[p] # "none"
  /\ \A r \in NodeRequests :
       /\ nodeReq[r].seen.version <= edits + 1
       /\ nodeReq[r].pods \subseteq Pods \ Stays

(* No request undoes what another one changed between its read and its      *)
(* write, although all of them send back the whole node: a part of a node   *)
(* changes only by the handlers that are for it.                            *)
NodeEditsStayTheirOwnStep ==
  \A r \in NodeRequests, n \in Nodes :
    nodeReq'[r] # nodeReq[r] =>
      /\ node'[n].unschedulable # node[n].unschedulable
           => nodeReq[r].op \in {"cordon", "drain"}
      /\ node'[n].labels # node[n].labels => nodeReq[r].op = "label"
      /\ node'[n].taints # node[n].taints => nodeReq[r].op = "taint"

NodeEditsStayTheirOwn == [][NodeEditsStayTheirOwnStep]_nodeVars

(* When the drain of a node is done, with no call failed and the node as    *)
(* the drain left it, none but the pods that are to stay run there: nothing *)
(* is scheduled behind the back of the list.                                *)
DrainEmptiesStep ==
  \A r \in NodeRequests :
    LET q == nodeReq[r]
        n == Head(q.todo)
    IN /\ q.pc = "evict" /\ q.pods = {} /\ nodeReq'[r] # q
       /\ ~q.lost /\ node[n].version = q.seen.version
       => \A p \in Pods \ Stays : place[p] # n

DrainEmpties == [][DrainEmptiesStep]_nodeVars

=============================================================================
