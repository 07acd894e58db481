------------------------ MODULE Configuration_proofs ------------------------
(***************************************************************************)
(* Lemmas about what the console configures: in the clusters, the edits of  *)
(* nodes and workloads (K8sNodes, K8sWorkloads), the releases of            *)
(* applications (K8sRelease) and the YAML tasks (K8sYaml); the files of the *)
(* monitoring instances (MonitorConfig); and what roles allow               *)
(* (RolePolicies).  Each part has an invariant, and the clusters that four  *)
(* of them use keep their types (ClusterKept).                              *)
(* The theorems over the console are in Console_proofs.                     *)
(*                                                                          *)
(* A handler that edits a node or a workload sends all of the object back,  *)
(* with the version that it read.  NodeInv and WorkInv say why that is      *)
(* enough: what was read is the object as it is, or has an older version.   *)
(* The drain needs one thing more (Drained): while nobody changes its node  *)
(* the node stays closed, and the pods on it are on the list.               *)
(*                                                                          *)
(* A deletion of a release knows which kinds of objects it has removed      *)
(* (Cleaned), as long as no call failed and no other request has deployed   *)
(* the instance meanwhile.  A YAML task knows which objects of the template *)
(* it has applied (SetTo), as long as nobody has written a row.  A pass     *)
(* over the pools knows what it has given the instances of those behind it  *)
(* (Good), as long as the tables are as they were.  A request for a role or *)
(* an API knows what it has read of the tables, and which policies it has   *)
(* changed since, as long as no other request writes (CalmRole, CalmApi).   *)
(***************************************************************************)
EXTENDS K8sNodes, K8sWorkloads, K8sRelease, K8sYaml, MCMonitorConfig, MCRolePolicies,
        TLAPS, SequenceTheorems, FiniteSetTheorems, WellFoundedInduction

-----------------------------------------------------------------------------
(* What a handler knows of its request.                                     *)
NodeRequestRecord ==
  [op : {"none", "cordon", "label", "taint", "drain"},
   pc : {"idle", "get", "update", "list", "evict"},
   todo : Seq(Nodes), mode : {"none", "on", "off", "flip"},
   arg : [set : SUBSET (Labels \cup Taints), unset : SUBSET (Labels \cup Taints)],
   single : BOOLEAN, seen : NodeRecord, pods : SUBSET (Pods \ Stays), lost : BOOLEAN]

(* A request names what it sets, and has a node before it while it lasts.   *)
Fitting(q) ==
  /\ q.op = "label" => q.arg.set \subseteq Labels
  /\ q.op = "taint" => q.arg.set \subseteq Taints
  /\ q.op = "cordon" => q.mode # "none"
  /\ q.pc # "idle" => q.op # "none" /\ q.todo # <<>>
  /\ q.pc \in {"list", "evict"} => q.op = "drain"

(* A node that was read is the node as it is, or has an older version.      *)
AsRead(q, n) == node[n].version = q.seen.version => node[n] = q.seen

(* While nobody else changes the node that is drained it stays closed, and  *)
(* its pods are on the list.                                                *)
Drained(q, n) ==
  node[n].version = q.seen.version =>
    /\ q.seen.unschedulable
    /\ q.pc = "evict" /\ ~q.lost => \A p \in Pods \ Stays : place[p] = n => p \in q.pods

NodeRequestInv(q) ==
  /\ q \in NodeRequestRecord
  /\ Fitting(q)
  /\ q.seen.version <= edits + 1
  /\ q.pc \in {"update", "list", "evict"} => AsRead(q, Head(q.todo))
  /\ q.pc \in {"list", "evict"} => Drained(q, Head(q.todo))

NodeInv ==
  /\ edits \in 0..MaxEdits
  /\ node \in [Nodes -> NodeRecord]
  /\ \A n \in Nodes : node[n].version <= edits + 1
  /\ place \in [Pods -> Nodes \cup {"none"}]
  /\ nodeReq = [r \in NodeRequests |-> nodeReq[r]]
  /\ \A r \in NodeRequests : NodeRequestInv(nodeReq[r])

-----------------------------------------------------------------------------
(* No step of the clusters is an edit.                                      *)
LEMMA ClusterKeepsEdits ==
  ASSUME ClusterNext
  PROVE  UNCHANGED edits
BY DEF ClusterNext, ReNewClientsMap, deleteK8sClusterBatch, createK8sCluster,
       deleteK8sCluster, ClusterSwitches, Change

(* What is left of a list with more than one member is a list, not empty.   *)
LEMMA LaterIs ==
  ASSUME NEW S, NEW s \in Seq(S), s # <<>>, Len(s) # 1
  PROVE  Later(s) \in Seq(S) /\ Later(s) # <<>>
<1>1. Len(s) \in Nat /\ Len(s) >= 2
  <2>1. Len(s) \in Nat \ {0}
    BY EmptySeq
  <2>. DEFINE n == Len(s)
  <2>2. n \in Nat \ {0} /\ n # 1
    BY <2>1
  <2>. HIDE DEF n
  <2>3. n \in Nat /\ n >= 2
    BY <2>2
  <2>. QED
    BY <2>3 DEF n
<1>2. \A i \in 2..Len(s) : s[i] \in S
  BY <1>1, ElementOfSeq
<1>3. /\ SubSeq(s, 2, Len(s)) \in Seq(S)
      /\ Len(SubSeq(s, 2, Len(s))) = Len(s) - 1
  BY <1>1, <1>2, SubSeqProperties
<1>4. Len(SubSeq(s, 2, Len(s))) # 0
  BY <1>1, <1>3
<1>. QED
  BY <1>3, <1>4, EmptySeq DEF Later

(* The head of a list is one of its members.                                *)
LEMMA HeadIs ==
  ASSUME NEW S, NEW s \in Seq(S), s # <<>>
  PROVE  Head(s) \in S
BY HeadTailProperties

(* The nodes that a request names are a list, not empty.                    *)
LEMMA ListsAre ==
  ASSUME NEW S, NEW s \in Lists(S), IsFiniteSet(S)
  PROVE  s \in Seq(S) /\ s # <<>>
<1>1. PICK k \in 1..Cardinality(S) : s \in [1..k -> S]
  BY DEF Lists
<1>2. k \in Nat /\ k >= 1
  BY <1>1
<1>. QED
  BY <1>1, <1>2, SeqDef, EmptySeq

(* What is sent is what was read, changed in the part that the handler is   *)
(* for.                                                                     *)
LEMMA SendingNode ==
  ASSUME NEW q \in NodeRequestRecord, Fitting(q), q.op # "none",
         NEW s, s = Sent(q)
  PROVE  /\ s \in NodeRecord
         /\ s.version = q.seen.version
         /\ s.unschedulable # q.seen.unschedulable => q.op \in {"cordon", "drain"}
         /\ s.labels # q.seen.labels => q.op = "label"
         /\ s.taints # q.seen.taints => q.op = "taint"
         /\ q.op = "drain" => s.unschedulable
<1>1. q.seen \in NodeRecord /\ q.arg.set \in SUBSET (Labels \cup Taints)
      /\ q.arg.unset \in SUBSET (Labels \cup Taints) /\ q.single \in BOOLEAN
      /\ q.mode \in {"none", "on", "off", "flip"}
      /\ q.op \in {"cordon", "label", "taint", "drain"}
  BY DEF NodeRequestRecord
<1>2. CASE q.op = "cordon"
  BY <1>1, <1>2 DEF Sent, scheduleEnableSwitchK8sNodesOne, NodeRecord, Fitting
<1>3. CASE q.op = "label"
  BY <1>1, <1>3 DEF Sent, labelK8sNodes, NodeRecord, Fitting
<1>4. CASE q.op = "taint"
  BY <1>1, <1>4 DEF Sent, taintK8sNodes, NodeRecord, Fitting
<1>5. CASE q.op = "drain"
  BY <1>1, <1>5 DEF Sent, NodeRecord
<1>. QED
  BY <1>1, <1>2, <1>3, <1>4, <1>5

(* What the API server has after it took an update.                         *)
LEMMA StoringNode ==
  ASSUME NEW now \in NodeRecord, NEW s \in NodeRecord, NEW new, new = Stored(now, s),
         edits \in 0..MaxEdits, now.version <= edits + 1, Counted(now, s)
  PROVE  /\ edits' \in 0..MaxEdits /\ edits <= edits'
         /\ new \in NodeRecord /\ new.version <= edits' + 1
         /\ new.unschedulable = s.unschedulable
         /\ new.labels = s.labels
         /\ new.taints = s.taints
         /\ new = now \/ new.version > edits + 1
<1>. USE KubeClusterAssumption
<1>1. CASE [s EXCEPT !.version = now.version] = now
  <2>1. new = now
    BY <1>1 DEF Stored
  <2>2. edits' = edits
    BY <2>1 DEF Counted
  <2>3. now.unschedulable = s.unschedulable /\ now.labels = s.labels /\ now.taints = s.taints
    BY <1>1 DEF NodeRecord
  <2>. QED
    BY <2>1, <2>2, <2>3
<1>2. CASE [s EXCEPT !.version = now.version] # now
  <2>1. new = [s EXCEPT !.version = edits + 2]
    BY <1>2 DEF Stored, Version
  <2>2. new # now
    BY <2>1 DEF NodeRecord
  <2>3. edits < MaxEdits /\ edits' = edits + 1
    BY <2>2 DEF Counted, Versioned
  <2>. QED
    BY <2>1, <2>3 DEF NodeRecord
<1>. QED
  BY <1>1, <1>2

-----------------------------------------------------------------------------
(* What a request knows stays right while others change nodes, which gives  *)
(* them new versions, and pods leave or go to nodes that are open.          *)
LEMMA NodeKept ==
  ASSUME NodeInv, NEW q, NodeRequestInv(q),
         edits' \in 0..MaxEdits, edits <= edits',
         \A n \in Nodes : node'[n] = node[n] \/ node'[n].version > edits + 1,
         \A p \in Pods, n \in Nodes :
           place'[p] = n => place[p] = n \/ ~node'[n].unschedulable
  PROVE  NodeRequestInv(q)'
<1>. USE KubeClusterAssumption
<1>1. /\ q \in NodeRequestRecord /\ Fitting(q) /\ q.seen.version <= edits + 1
      /\ q.seen.version \in Nat /\ edits \in Nat /\ edits' \in Nat
      /\ node \in [Nodes -> NodeRecord]
  BY DEF NodeRequestInv, NodeRequestRecord, NodeRecord, NodeInv
<1>2. q.seen.version <= edits' + 1
  BY <1>1
<1>3. q.pc # "idle" => Head(q.todo) \in Nodes
  <2>1. q.pc # "idle" => q.todo \in Seq(Nodes) /\ q.todo # <<>>
    BY <1>1 DEF Fitting, NodeRequestRecord
  <2>. QED
    BY <2>1, HeadIs
<1>4. ASSUME q.pc \in {"update", "list", "evict"} PROVE AsRead(q, Head(q.todo))'
  BY <1>1, <1>3, <1>4 DEF NodeRequestInv, AsRead, NodeRecord
<1>5. ASSUME q.pc \in {"list", "evict"} PROVE Drained(q, Head(q.todo))'
  <2>. DEFINE n == Head(q.todo)
  <2>1. n \in Nodes /\ AsRead(q, n) /\ Drained(q, n)
    BY <1>3, <1>5 DEF NodeRequestInv
  <2>. HIDE DEF n
  <2>. SUFFICES ASSUME node'[n].version = q.seen.version
                PROVE  /\ q.seen.unschedulable
                       /\ q.pc = "evict" /\ ~q.lost =>
                            \A p \in Pods \ Stays : place'[p] = n => p \in q.pods
    BY DEF Drained, n
  <2>2. node'[n] = node[n]
    BY <1>1, <2>1
  <2>3. node[n] = q.seen
    BY <2>1, <2>2 DEF AsRead
  <2>4. q.seen.unschedulable
    BY <2>1, <2>3 DEF Drained
  <2>5. ~(~node'[n].unschedulable)
    BY <2>2, <2>3, <2>4
  <2>6. q.pc = "evict" /\ ~q.lost => \A p \in Pods \ Stays : place[p] = n => p \in q.pods
    BY <2>1, <2>3 DEF Drained
  <2>. QED
    BY <2>1, <2>4, <2>5, <2>6
<1>. QED
  BY <1>1, <1>2, <1>4, <1>5 DEF NodeRequestInv

(* A step of one request, or of none.                                       *)
LEMMA NodeRequestSteps ==
  ASSUME NodeInv, NEW r \in NodeRequests, NEW w,
         nodeReq' = [nodeReq EXCEPT ![r] = w], NodeRequestInv(w)',
         edits' \in 0..MaxEdits, edits <= edits', node' \in [Nodes -> NodeRecord],
         \A n \in Nodes : node'[n].version <= edits' + 1,
         \A n \in Nodes : node'[n] = node[n] \/ node'[n].version > edits + 1,
         place' \in [Pods -> Nodes \cup {"none"}],
         \A p \in Pods, n \in Nodes :
           place'[p] = n => place[p] = n \/ ~node'[n].unschedulable
  PROVE  NodeInv'
<1>1. nodeReq = [s \in NodeRequests |-> nodeReq[s]]
  BY DEF NodeInv
<1>2. ASSUME NEW s \in NodeRequests PROVE NodeRequestInv(nodeReq[s])'
  <2>1. CASE s = r
    <3>1. nodeReq'[s] = w
      BY <1>1, <2>1
    <3>. QED
      BY <3>1
  <2>2. CASE s # r
    <3>1. nodeReq'[s] = nodeReq[s]
      BY <1>1, <2>2
    <3>2. PICK q : q = nodeReq[s]
      OBVIOUS
    <3>3. NodeRequestInv(q)
      BY <3>2 DEF NodeInv
    <3>4. NodeRequestInv(q)'
      BY <3>3, NodeKept
    <3>. QED
      BY <3>1, <3>2, <3>4
  <2>. QED
    BY <2>1, <2>2
<1>3. nodeReq' = [s \in NodeRequests |-> nodeReq'[s]]
  BY <1>1
<1>. QED
  BY <1>2, <1>3 DEF NodeInv

(* A step of nobody: pods leave, or go to nodes that are open.              *)
LEMMA NodeOthersStep ==
  ASSUME NodeInv, UNCHANGED <<edits, node, nodeReq>>,
         place' \in [Pods -> Nodes \cup {"none"}],
         \A p \in Pods, n \in Nodes :
           place'[p] = n => place[p] = n \/ ~node'[n].unschedulable
  PROVE  NodeInv'
<1>1. ASSUME NEW s \in NodeRequests PROVE NodeRequestInv(nodeReq[s])'
  <2>1. PICK q : q = nodeReq[s]
    OBVIOUS
  <2>2. NodeRequestInv(q)
    BY <2>1 DEF NodeInv
  <2>3. edits' \in 0..MaxEdits /\ edits <= edits'
    BY KubeClusterAssumption DEF NodeInv
  <2>4. NodeRequestInv(q)'
    BY <2>2, <2>3, NodeKept
  <2>. QED
    BY <2>1, <2>4
<1>. QED
  BY <1>1 DEF NodeInv

-----------------------------------------------------------------------------
(* Of a step that writes no node, no place and no version.                  *)
LEMMA NodeRequestOnly ==
  ASSUME NodeInv, NEW r \in NodeRequests, NEW w,
         nodeReq' = [nodeReq EXCEPT ![r] = w], NodeRequestInv(w),
         UNCHANGED <<edits, node, place>>
  PROVE  NodeInv'
<1>1. /\ edits \in 0..MaxEdits /\ edits <= edits
      /\ node \in [Nodes -> NodeRecord] /\ place \in [Pods -> Nodes \cup {"none"}]
      /\ \A n \in Nodes : node[n].version <= edits + 1
  BY KubeClusterAssumption DEF NodeInv
<1>2. NodeRequestInv(w)'
  BY DEF NodeRequestInv, AsRead, Drained
<1>. QED
  BY <1>1, <1>2, NodeRequestSteps

(* The node as it is at first is a node.                                    *)
LEMMA NewNodeIs == NewNode \in NodeRecord
BY KubeClusterAssumption DEF NewNode, NodeRecord

(* A handler that has nothing to do knows nothing that could be wrong.      *)
LEMMA NoNodeRequestIs ==
  ASSUME edits \in 0..MaxEdits
  PROVE  NodeRequestInv(NoNodeRequest)
<1>1. <<>> \in Seq(Nodes)
  BY EmptySeq
<1>2. NoNodeRequest \in NodeRequestRecord
  BY <1>1, NewNodeIs DEF NodeRequestRecord, NoNodeRequest, NoEdit
<1>. QED
  BY <1>2, KubeClusterAssumption
  DEF NodeRequestInv, NoNodeRequest, Fitting, NewNode

(* The invariant holds at first.                                            *)
LEMMA NodeStart ==
  ASSUME ClusterInit, NodeInit
  PROVE  NodeInv
<1>1. edits \in 0..MaxEdits
  BY KubeClusterAssumption DEF ClusterInit
<1>2. nodeReq = [r \in NodeRequests |-> NoNodeRequest]
  BY DEF NodeInit
<1>3. \A r \in NodeRequests : NodeRequestInv(nodeReq[r])
  BY <1>1, <1>2, NoNodeRequestIs
<1>4. node = [n \in Nodes |-> NewNode] /\ place \in [Pods -> Nodes] /\ NewNode.version = 1
  BY DEF NodeInit, NewNode
<1>. QED
  BY <1>1, <1>2, <1>3, <1>4, NewNodeIs, KubeClusterAssumption DEF NodeInv

(* A request comes in.                                                      *)
LEMMA NodeRequestBegins ==
  ASSUME NodeInv, NEW r \in NodeRequests,
         NEW op \in {"cordon", "label", "taint", "drain"},
         NEW mode \in {"none", "on", "off", "flip"}, NEW arg,
         \/ arg = NoEdit
         \/ op = "label" /\ arg \in Edits(Labels)
         \/ op = "taint" /\ arg \in Edits(Taints),
         op = "cordon" => mode # "none",
         NodeRequest(r, op, mode, arg)
  PROVE  NodeInv'
<1>1. PICK todo \in Lists(Nodes) :
        nodeReq' = [nodeReq EXCEPT ![r] =
          [NoNodeRequest EXCEPT !.op = op, !.pc = "get", !.todo = todo, !.mode = mode,
                                !.arg = arg, !.single = Len(todo) = 1]]
  BY DEF NodeRequest
<1>2. PICK w : w = [NoNodeRequest EXCEPT !.op = op, !.pc = "get", !.todo = todo,
                                         !.mode = mode, !.arg = arg,
                                         !.single = Len(todo) = 1]
  OBVIOUS
<1>3. todo \in Seq(Nodes) /\ todo # <<>>
  BY ListsAre, K8sNodesAssumption
<1>4. /\ arg \in [set : SUBSET (Labels \cup Taints), unset : SUBSET (Labels \cup Taints)]
      /\ op = "label" => arg.set \subseteq Labels
      /\ op = "taint" => arg.set \subseteq Taints
  BY DEF Edits, NoEdit
<1>5. /\ NoNodeRequest \in NodeRequestRecord
      /\ NoNodeRequest.seen = NewNode
  BY NoNodeRequestIs DEF NodeInv, NodeRequestInv, NoNodeRequest
<1>6. /\ w \in NodeRequestRecord /\ w.seen = NewNode /\ w.op = op /\ w.pc = "get"
      /\ w.todo = todo /\ w.mode = mode /\ w.arg = arg
  BY <1>2, <1>3, <1>4, <1>5 DEF NodeRequestRecord
<1>7. NodeRequestInv(w)
  BY <1>3, <1>4, <1>6, KubeClusterAssumption DEF NodeRequestInv, Fitting, NewNode, NodeInv
<1>8. UNCHANGED <<edits, node, place>>
  BY DEF NodeRequest
<1>. QED
  BY <1>1, <1>2, <1>7, <1>8, NodeRequestOnly

(* While a request lasts there is a node before it.                         *)
LEMMA NodeFirst ==
  ASSUME NodeInv, NEW r \in NodeRequests, nodeReq[r].pc # "idle"
  PROVE  /\ nodeReq[r] \in NodeRequestRecord /\ Fitting(nodeReq[r])
         /\ Head(nodeReq[r].todo) \in Nodes
         /\ node[Head(nodeReq[r].todo)] \in NodeRecord
<1>1. /\ nodeReq[r] \in NodeRequestRecord /\ Fitting(nodeReq[r])
      /\ node \in [Nodes -> NodeRecord]
  BY DEF NodeInv, NodeRequestInv
<1>2. nodeReq[r].todo \in Seq(Nodes) /\ nodeReq[r].todo # <<>>
  BY <1>1 DEF Fitting, NodeRequestRecord
<1>. QED
  BY <1>1, <1>2, HeadIs

(* A handler reads a node.                                                  *)
LEMMA NodeIsRead ==
  ASSUME NodeInv, NEW r \in NodeRequests, GetNode(r)
  PROVE  NodeInv'
<1>1. PICK q : q = nodeReq[r]
  OBVIOUS
<1>2. /\ q.pc = "get" /\ q \in NodeRequestRecord /\ Fitting(q)
      /\ Head(q.todo) \in Nodes /\ node[Head(q.todo)] \in NodeRecord
  BY <1>1, NodeFirst DEF GetNode
<1>3. PICK seen \in NodeRecord : seen = node[Head(q.todo)]
  BY <1>2
<1>. DEFINE read == [q EXCEPT !.seen = seen]
            to == IF q.op # "drain" \/ CordonFirst(read) THEN "update" ELSE "list"
<1>4. read \in NodeRequestRecord /\ read.seen = seen /\ read.op = q.op
  BY <1>2, <1>3 DEF NodeRequestRecord
<1>5. PICK w : w = [read EXCEPT !.pc = to]
  OBVIOUS
<1>6. nodeReq' = [nodeReq EXCEPT ![r] = w] /\ UNCHANGED <<edits, node, place>>
  BY <1>1, <1>3, <1>4, <1>5 DEF GetNode
<1>7. /\ w \in NodeRequestRecord /\ w.seen = seen /\ w.pc = to
      /\ w.op = q.op /\ w.todo = q.todo /\ w.arg = q.arg /\ w.mode = q.mode
  BY <1>2, <1>4, <1>5 DEF NodeRequestRecord
<1>8. Fitting(w)
  BY <1>2, <1>7 DEF Fitting
<1>9. seen.version <= edits + 1
  BY <1>2, <1>3 DEF NodeInv
<1>10. AsRead(w, Head(w.todo))
  BY <1>3, <1>7 DEF AsRead
<1>11. w.pc \in {"list", "evict"} => Drained(w, Head(w.todo))
  BY <1>4, <1>7 DEF CordonFirst, Drained
<1>12. NodeRequestInv(w)
  BY <1>7, <1>8, <1>9, <1>10, <1>11 DEF NodeRequestInv
<1>. QED
  BY <1>6, <1>12, NodeRequestOnly

(* On to the next node, or the end.                                         *)
LEMMA NodeGoesOn ==
  ASSUME NEW q \in NodeRequestRecord, Fitting(q), q.pc # "idle", edits \in 0..MaxEdits,
         NEW w, w = Onward(q)
  PROVE  NodeRequestInv(w)
<1>1. CASE Len(q.todo) = 1
  BY <1>1, NoNodeRequestIs DEF Onward
<1>2. CASE Len(q.todo) # 1
  <2>1. q.todo \in Seq(Nodes) /\ q.todo # <<>>
    BY DEF Fitting, NodeRequestRecord
  <2>2. PICK todo : todo = Later(q.todo)
    OBVIOUS
  <2>3. todo \in Seq(Nodes) /\ todo # <<>>
    BY <1>2, <2>1, <2>2, LaterIs
  <2>4. w = [q EXCEPT !.pc = "get", !.todo = todo, !.seen = NewNode, !.lost = FALSE]
    BY <1>2, <2>2 DEF Onward
  <2>5. /\ w \in NodeRequestRecord /\ w.pc = "get" /\ w.todo = todo /\ w.seen = NewNode
        /\ w.op = q.op /\ w.arg = q.arg /\ w.mode = q.mode
    BY <2>3, <2>4, NewNodeIs DEF NodeRequestRecord
  <2>. QED
    BY <2>3, <2>5, KubeClusterAssumption DEF NodeRequestInv, Fitting, NewNode
<1>. QED
  BY <1>1, <1>2

(* What an update sends is what was read and changed by its handler; it is  *)
(* taken only if the node is as it was read.                                *)
LEMMA NodeTaken ==
  ASSUME NodeInv, NEW r \in NodeRequests, UpdateNode(r),
         NEW q, q = nodeReq[r], NEW n, n = Head(q.todo)
  PROVE  /\ q \in NodeRequestRecord /\ Fitting(q) /\ n \in Nodes /\ q.pc = "update"
         /\ node[n] = q.seen
         /\ \E new \in NodeRecord :
              /\ new = Stored(node[n], Sent(q))
              /\ node' = [node EXCEPT ![n] = new]
              /\ edits' \in 0..MaxEdits /\ edits <= edits'
              /\ new.version <= edits' + 1
              /\ new = node[n] \/ new.version > edits + 1
              /\ new.unschedulable # node[n].unschedulable => q.op \in {"cordon", "drain"}
              /\ new.labels # node[n].labels => q.op = "label"
              /\ new.taints # node[n].taints => q.op = "taint"
              /\ q.op = "drain" => new.unschedulable
<1>1. /\ q.pc = "update" /\ q \in NodeRequestRecord /\ Fitting(q)
      /\ n \in Nodes /\ node[n] \in NodeRecord
  BY NodeFirst DEF UpdateNode
<1>2. PICK now \in NodeRecord : now = node[n]
  BY <1>1
<1>3. PICK s : s = Sent(q)
  OBVIOUS
<1>4. PICK new : new = Stored(now, s)
  OBVIOUS
<1>5. q.op # "none" /\ AsRead(q, n) /\ q.seen \in NodeRecord
  BY <1>1 DEF NodeInv, NodeRequestInv, Fitting, NodeRequestRecord
<1>6. /\ ServerAccepts(now, s) /\ Counted(now, s)
      /\ node' = [node EXCEPT ![n] = new]
  BY <1>2, <1>3, <1>4 DEF UpdateNode
<1>7. /\ s \in NodeRecord
      /\ s.version = q.seen.version
      /\ s.unschedulable # q.seen.unschedulable => q.op \in {"cordon", "drain"}
      /\ s.labels # q.seen.labels => q.op = "label"
      /\ s.taints # q.seen.taints => q.op = "taint"
      /\ q.op = "drain" => s.unschedulable
  BY <1>1, <1>3, <1>5, SendingNode
<1>8. now = q.seen
  <2>1. s.version # 0
    BY <1>7, KubeClusterAssumption DEF NodeRecord
  <2>2. now.version = q.seen.version
    BY <1>6, <1>7, <2>1 DEF ServerAccepts
  <2>. QED
    BY <1>2, <1>5, <2>2 DEF AsRead
<1>9. edits \in 0..MaxEdits /\ now.version <= edits + 1
  BY <1>1, <1>2 DEF NodeInv
<1>10. /\ edits' \in 0..MaxEdits /\ edits <= edits'
       /\ new \in NodeRecord /\ new.version <= edits' + 1
       /\ new.unschedulable = s.unschedulable
       /\ new.labels = s.labels
       /\ new.taints = s.taints
       /\ new = now \/ new.version > edits + 1
  BY <1>4, <1>6, <1>7, <1>9, StoringNode
<1>. QED
  BY <1>1, <1>2, <1>3, <1>4, <1>6, <1>7, <1>8, <1>10

(* A handler sends a node: what a drain knows after it is the node as it    *)
(* is.                                                                      *)
LEMMA NodeIsUpdated ==
  ASSUME NodeInv, NEW r \in NodeRequests, UpdateNode(r)
  PROVE  NodeInv'
<1>. USE KubeClusterAssumption
<1>1. PICK q : q = nodeReq[r]
  OBVIOUS
<1>2. PICK n : n = Head(q.todo)
  OBVIOUS
<1>3. /\ q \in NodeRequestRecord /\ Fitting(q) /\ n \in Nodes /\ q.pc = "update"
      /\ node[n] = q.seen
  BY <1>1, <1>2, NodeTaken
<1>4. PICK new \in NodeRecord :
        /\ new = Stored(node[n], Sent(q))
        /\ node' = [node EXCEPT ![n] = new]
        /\ edits' \in 0..MaxEdits /\ edits <= edits'
        /\ new.version <= edits' + 1
        /\ new = node[n] \/ new.version > edits + 1
        /\ q.op = "drain" => new.unschedulable
  BY <1>1, <1>2, NodeTaken
<1>5. PICK w : w = IF q.op = "drain" THEN [q EXCEPT !.seen = new, !.pc = "list"]
                                     ELSE Onward(q)
  OBVIOUS
<1>6. nodeReq' = [nodeReq EXCEPT ![r] = w] /\ UNCHANGED place
  BY <1>1, <1>2, <1>4, <1>5 DEF UpdateNode
<1>7. /\ node \in [Nodes -> NodeRecord] /\ edits \in Nat /\ edits' \in Nat
      /\ \A m \in Nodes : node[m].version <= edits + 1
      /\ place \in [Pods -> Nodes \cup {"none"}]
  BY <1>4 DEF NodeInv
<1>8. node' \in [Nodes -> NodeRecord] /\ node'[n] = new
      /\ \A m \in Nodes : m # n => node'[m] = node[m]
  BY <1>3, <1>4, <1>7
<1>9. NodeRequestInv(w)'
  <2>1. CASE q.op = "drain"
    <3>1. /\ w \in NodeRequestRecord /\ w.seen = new /\ w.pc = "list" /\ w.op = "drain"
          /\ w.todo = q.todo /\ w.arg = q.arg
      BY <1>3, <1>4, <1>5, <2>1 DEF NodeRequestRecord
    <3>2. Fitting(w)
      BY <1>3, <3>1 DEF Fitting
    <3>3. AsRead(w, Head(w.todo))' /\ Drained(w, Head(w.todo))'
      BY <1>2, <1>4, <1>8, <2>1, <3>1 DEF AsRead, Drained
    <3>. QED
      BY <1>4, <3>1, <3>2, <3>3 DEF NodeRequestInv
  <2>2. CASE q.op # "drain"
    <3>1. w = Onward(q)
      BY <1>5, <2>2
    <3>2. NodeRequestInv(w) /\ w.pc \in {"idle", "get"}
      <4>1. w.pc \in {"idle", "get"}
        BY <1>3, <3>1 DEF Onward, NoNodeRequest, NodeRequestRecord
      <4>. QED
        BY <1>3, <3>1, <4>1, NodeGoesOn DEF NodeInv
    <3>3. w.seen.version \in Nat
      BY <3>2 DEF NodeRequestInv, NodeRequestRecord, NodeRecord
    <3>. QED
      BY <1>4, <1>7, <3>2, <3>3 DEF NodeRequestInv
  <2>. QED
    BY <2>1, <2>2
<1>10. \A m \in Nodes : node'[m].version <= edits' + 1
  BY <1>4, <1>7, <1>8 DEF NodeRecord
<1>11. \A m \in Nodes : node'[m] = node[m] \/ node'[m].version > edits + 1
  BY <1>4, <1>8
<1>12. place' \in [Pods -> Nodes \cup {"none"}]
       /\ \A p \in Pods, m \in Nodes :
            place'[p] = m => place[p] = m \/ ~node'[m].unschedulable
  BY <1>6, <1>7
<1>. QED
  BY <1>4, <1>6, <1>8, <1>9, <1>10, <1>11, <1>12, NodeRequestSteps

(* The drain lists the pods of the node.                                    *)
LEMMA NodePodsListed ==
  ASSUME NodeInv, NEW r \in NodeRequests, ListPods(r)
  PROVE  NodeInv'
<1>1. PICK q : q = nodeReq[r]
  OBVIOUS
<1>2. /\ q.pc = "list" /\ q \in NodeRequestRecord /\ Fitting(q) /\ NodeRequestInv(q)
  BY <1>1, NodeFirst DEF ListPods, NodeInv
<1>3. PICK pods \in SUBSET (Pods \ Stays) :
        pods = {p \in Pods \ Stays : place[p] = Head(q.todo)}
  OBVIOUS
<1>4. PICK w : w = [q EXCEPT !.pods = pods, !.pc = "evict"]
  OBVIOUS
<1>5. nodeReq' = [nodeReq EXCEPT ![r] = w] /\ UNCHANGED <<edits, node, place>>
  BY <1>1, <1>3, <1>4 DEF ListPods
<1>6. /\ w \in NodeRequestRecord /\ w.pods = pods /\ w.pc = "evict" /\ w.op = q.op
      /\ w.todo = q.todo /\ w.seen = q.seen /\ w.arg = q.arg /\ w.mode = q.mode
  BY <1>2, <1>3, <1>4 DEF NodeRequestRecord
<1>7. Fitting(w)
  BY <1>2, <1>6 DEF Fitting
<1>8. AsRead(w, Head(w.todo)) /\ Drained(w, Head(w.todo))
  BY <1>2, <1>3, <1>6 DEF NodeRequestInv, AsRead, Drained
<1>9. NodeRequestInv(w)
  BY <1>2, <1>6, <1>7, <1>8 DEF NodeRequestInv
<1>. QED
  BY <1>5, <1>9, NodeRequestOnly

(* A pod that was taken from the list is not on the node, unless the call   *)
(* was lost.                                                                *)
LEMMA NodePodEvicted ==
  ASSUME NodeInv, NEW r \in NodeRequests, NEW p \in Pods, Evict(r, p)
  PROVE  NodeInv'
<1>1. PICK q : q = nodeReq[r]
  OBVIOUS
<1>2. /\ q.pc = "evict" /\ q \in NodeRequestRecord /\ Fitting(q) /\ NodeRequestInv(q)
      /\ Head(q.todo) \in Nodes /\ p \in q.pods
  BY <1>1, NodeFirst DEF Evict, NodeInv
<1>3. PICK n \in Nodes : n = Head(q.todo)
  BY <1>2
<1>4. /\ edits \in 0..MaxEdits /\ edits <= edits
      /\ node \in [Nodes -> NodeRecord] /\ place \in [Pods -> Nodes \cup {"none"}]
      /\ \A m \in Nodes : node[m].version <= edits + 1
  BY KubeClusterAssumption DEF NodeInv
<1>5. PICK pods \in SUBSET (Pods \ Stays) : pods = q.pods \ {p}
  BY <1>2 DEF NodeRequestRecord
<1>6. UNCHANGED <<edits, node>>
  BY DEF Evict
<1>7. PICK lost \in BOOLEAN :
        /\ nodeReq' = [nodeReq EXCEPT ![r] = [q EXCEPT !.pods = pods, !.lost = lost]]
        /\ \/ lost
           \/ /\ lost = q.lost
              /\ place' = [place EXCEPT ![p] = IF place[p] = n THEN "none" ELSE place[p]]
        /\ \/ place' = place
           \/ place' = [place EXCEPT ![p] = IF place[p] = n THEN "none" ELSE place[p]]
  <2>1. CASE Here \in up
    <3>1. nodeReq' = [nodeReq EXCEPT ![r].pods = @ \ {p}]
          /\ place' = [place EXCEPT ![p] = IF @ = Head(nodeReq[r].todo) THEN "none" ELSE @]
      BY <2>1 DEF Evict
    <3>2. q.lost \in BOOLEAN
      BY <1>2 DEF NodeRequestRecord
    <3>3. [q EXCEPT !.pods = pods] = [q EXCEPT !.pods = pods, !.lost = q.lost]
      BY <1>2 DEF NodeRequestRecord
    <3>4. nodeReq' = [nodeReq EXCEPT ![r] = [q EXCEPT !.pods = pods]]
      BY <1>1, <1>5, <3>1
    <3>. QED
      BY <1>1, <1>3, <3>1, <3>2, <3>3, <3>4
  <2>2. CASE Here \notin up
    <3>1. nodeReq' = [nodeReq EXCEPT ![r].pods = @ \ {p}, ![r].lost = TRUE]
          /\ place' = place
      BY <2>2 DEF Evict
    <3>2. nodeReq' = [nodeReq EXCEPT ![r] = [q EXCEPT !.pods = pods, !.lost = TRUE]]
      BY <1>1, <1>5, <3>1
    <3>. QED
      BY <3>1, <3>2
  <2>. QED
    BY <2>1, <2>2
<1>8. PICK w : w = [q EXCEPT !.pods = pods, !.lost = lost]
  OBVIOUS
<1>9. /\ w \in NodeRequestRecord /\ w.pods = pods /\ w.lost = lost /\ w.pc = "evict"
      /\ w.op = q.op /\ w.todo = q.todo /\ w.seen = q.seen /\ w.arg = q.arg
      /\ w.mode = q.mode
  BY <1>2, <1>5, <1>7, <1>8 DEF NodeRequestRecord
<1>10. Fitting(w)
  BY <1>2, <1>9 DEF Fitting
<1>11. /\ place' \in [Pods -> Nodes \cup {"none"}]
       /\ \A x \in Pods, m \in Nodes : place'[x] = m => place[x] = m
       /\ ~lost => place'[p] # n /\ lost = q.lost
  BY <1>3, <1>4, <1>7, K8sNodesAssumption
<1>12. NodeRequestInv(w)'
  <2>1. AsRead(w, n)'
    BY <1>2, <1>3, <1>6, <1>9 DEF NodeRequestInv, AsRead
  <2>2. Drained(w, n)'
    <3>. SUFFICES ASSUME node[n].version = q.seen.version
                  PROVE  /\ q.seen.unschedulable
                         /\ ~lost => \A x \in Pods \ Stays : place'[x] = n => x \in pods
      BY <1>6, <1>9 DEF Drained
    <3>1. /\ q.seen.unschedulable
          /\ ~q.lost => \A x \in Pods \ Stays : place[x] = n => x \in q.pods
      BY <1>2, <1>3 DEF NodeRequestInv, Drained
    <3>. QED
      BY <1>3, <1>5, <1>11, <3>1
  <2>. QED
    BY <1>2, <1>3, <1>6, <1>9, <1>10, <2>1, <2>2 DEF NodeRequestInv
<1>13. nodeReq' = [nodeReq EXCEPT ![r] = w]
  BY <1>7, <1>8
<1>. QED
  BY <1>4, <1>6, <1>11, <1>12, <1>13, NodeRequestSteps

(* The invariant holds through every step of the handlers, of the scheduler *)
(* and of the clusters.                                                     *)
LEMMA NodeStep ==
  ASSUME NodeInv, NodeNext
  PROVE  NodeInv'
<1>1. edits \in 0..MaxEdits /\ place \in [Pods -> Nodes \cup {"none"}]
  BY DEF NodeInv
<1>2. CASE ClusterNext /\ UNCHANGED nodeVars
  <2>1. UNCHANGED <<edits, node, nodeReq, place>>
    BY <1>2, ClusterKeepsEdits DEF nodeVars
  <2>. QED
    BY <1>1, <2>1, NodeOthersStep
<1>3. ASSUME NEW r \in NodeRequests, NEW a \in {"on", "off", "flip"},
             NodeRequest(r, "cordon", a, NoEdit)
      PROVE  NodeInv'
  BY <1>3, NodeRequestBegins
<1>4. ASSUME NEW r \in NodeRequests, NEW e \in Edits(Labels),
             NodeRequest(r, "label", "none", e)
      PROVE  NodeInv'
  BY <1>4, NodeRequestBegins
<1>5. ASSUME NEW r \in NodeRequests, NEW e \in Edits(Taints),
             NodeRequest(r, "taint", "none", e)
      PROVE  NodeInv'
  BY <1>5, NodeRequestBegins
<1>6. ASSUME NEW r \in NodeRequests, NodeRequest(r, "drain", "off", NoEdit)
      PROVE  NodeInv'
  BY <1>6, NodeRequestBegins
<1>7. ASSUME NEW r \in NodeRequests, NodeCallFails(r) PROVE NodeInv'
  <2>1. NodeRequestInv(NoNodeRequest)
    BY <1>1, NoNodeRequestIs
  <2>. QED
    BY <1>7, <2>1, NodeRequestOnly DEF NodeCallFails
<1>8. ASSUME NEW r \in NodeRequests, drainK8sNodes(r) PROVE NodeInv'
  <2>1. PICK q : q = nodeReq[r]
    OBVIOUS
  <2>2. q \in NodeRequestRecord /\ Fitting(q) /\ q.pc # "idle"
    BY <1>8, <2>1, NodeFirst DEF drainK8sNodes
  <2>3. PICK w : w = Onward(q)
    OBVIOUS
  <2>4. NodeRequestInv(w)
    BY <1>1, <2>2, <2>3, NodeGoesOn
  <2>. QED
    BY <1>8, <2>1, <2>3, <2>4, NodeRequestOnly DEF drainK8sNodes
<1>9. ASSUME NEW p \in Pods, NEW n \in Nodes, Schedules(p, n) PROVE NodeInv'
  <2>1. /\ UNCHANGED <<edits, node, nodeReq>> /\ ~node'[n].unschedulable
        /\ place' = [place EXCEPT ![p] = n]
    BY <1>9 DEF Schedules
  <2>2. place' \in [Pods -> Nodes \cup {"none"}]
    BY <1>1, <2>1
  <2>3. \A x \in Pods, m \in Nodes :
          place'[x] = m => place[x] = m \/ ~node'[m].unschedulable
    BY <1>1, <2>1
  <2>. QED
    BY <2>1, <2>2, <2>3, NodeOthersStep
<1>. QED
  BY <1>2, <1>3, <1>4, <1>5, <1>6, <1>7, <1>8, <1>9, NodeIsRead, NodeIsUpdated,
     NodePodsListed, NodePodEvicted DEF NodeNext

(* The invariant holds through a step of another part of the console.       *)
LEMMA NodeStays ==
  ASSUME NodeInv, UNCHANGED <<edits, nodeVars>>
  PROVE  NodeInv'
BY NodeOthersStep DEF nodeVars, NodeInv

(* A part of a node changes only by the handlers that are for it.           *)
LEMMA NodeEdits ==
  ASSUME NodeInv, NodeNext
  PROVE  NodeEditsStayTheirOwnStep
<1>. SUFFICES ASSUME NEW r \in NodeRequests, NEW n \in Nodes, nodeReq'[r] # nodeReq[r],
                     node'[n] # node[n]
              PROVE  /\ node'[n].unschedulable # node[n].unschedulable
                          => nodeReq[r].op \in {"cordon", "drain"}
                     /\ node'[n].labels # node[n].labels => nodeReq[r].op = "label"
                     /\ node'[n].taints # node[n].taints => nodeReq[r].op = "taint"
  BY DEF NodeEditsStayTheirOwnStep
<1>1. PICK s \in NodeRequests : UpdateNode(s)
  BY DEF NodeNext, ClusterNext, nodeVars, NodeRequest, GetNode, NodeCallFails, ListPods,
         drainK8sNodes, Evict, Schedules
<1>2. s = r
  <2>1. nodeReq = [x \in NodeRequests |-> nodeReq[x]]
    BY DEF NodeInv
  <2>. QED
    BY <1>1, <2>1 DEF UpdateNode
<1>3. PICK q : q = nodeReq[r]
  OBVIOUS
<1>4. PICK m : m = Head(q.todo)
  OBVIOUS
<1>5. PICK new \in NodeRecord :
        /\ node' = [node EXCEPT ![m] = new]
        /\ new.unschedulable # node[m].unschedulable => q.op \in {"cordon", "drain"}
        /\ new.labels # node[m].labels => q.op = "label"
        /\ new.taints # node[m].taints => q.op = "taint"
  BY <1>1, <1>2, <1>3, <1>4, NodeTaken
<1>6. node \in [Nodes -> NodeRecord]
  BY DEF NodeInv
<1>7. n = m /\ node'[n] = new
  BY <1>5, <1>6
<1>. QED
  BY <1>3, <1>5, <1>7

(* When a drain is done with a node, only the pods that stay are there.     *)
LEMMA NodeDrained ==
  ASSUME NodeInv
  PROVE  DrainEmptiesStep
BY DEF NodeInv, NodeRequestInv, Drained, DrainEmptiesStep

-----------------------------------------------------------------------------
(* The objects, and what a handler knows of its request.                    *)
WorkObject == [there : BOOLEAN, spec : Specs, restarted : BOOLEAN,
               version : 1..(MaxEdits + 1)]

WorkRequestRecord == [op : {"none", "scale", "restart"}, pc : {"idle", "get", "update"},
                      todo : Seq(Objects), arg : Specs, seen : WorkObject]

(* What a handler has read is the object as it is, or an older version.     *)
WorkRequestInv(q) ==
  /\ q \in WorkRequestRecord
  /\ q.pc # "idle" => q.op # "none" /\ q.todo # <<>>
  /\ q.seen.version <= edits + 1
  /\ q.pc = "update" =>
       (obj[Head(q.todo)].version = q.seen.version => obj[Head(q.todo)] = q.seen)

WorkInv ==
  /\ edits \in 0..MaxEdits
  /\ obj \in [Objects -> WorkObject]
  /\ \A o \in Objects : obj[o].version <= edits + 1
  /\ workReq = [r \in WorkRequests |-> workReq[r]]
  /\ \A r \in WorkRequests : WorkRequestInv(workReq[r])

(* The API server has given an object a new version, or none has one.       *)
LEMMA WorkKept ==
  ASSUME WorkInv, NEW q, WorkRequestInv(q),
         edits' \in 0..MaxEdits, edits <= edits',
         \A o \in Objects : obj'[o] = obj[o] \/ obj'[o].version > edits + 1
  PROVE  WorkRequestInv(q)'
<1>. USE KubeClusterAssumption
<1>1. /\ q \in WorkRequestRecord /\ q.seen.version <= edits + 1
      /\ q.seen.version \in Nat /\ edits \in Nat /\ edits' \in Nat
      /\ q.pc # "idle" => q.op # "none" /\ q.todo # <<>>
  BY DEF WorkRequestInv, WorkRequestRecord, WorkObject, WorkInv
<1>2. q.seen.version <= edits' + 1
  BY <1>1
<1>3. ASSUME q.pc = "update", obj'[Head(q.todo)].version = q.seen.version
      PROVE  obj'[Head(q.todo)] = q.seen
  <2>1. q.todo \in Seq(Objects) /\ q.todo # <<>>
    BY <1>1, <1>3 DEF WorkRequestRecord
  <2>2. PICK o \in Objects : o = Head(q.todo)
    BY <2>1, HeadIs
  <2>3. obj[o].version = q.seen.version => obj[o] = q.seen
    BY <1>3, <2>2 DEF WorkRequestInv
  <2>4. obj'[o] = obj[o]
    BY <1>1, <1>3, <2>2
  <2>. QED
    BY <1>3, <2>2, <2>3, <2>4
<1>. QED
  BY <1>1, <1>2, <1>3 DEF WorkRequestInv

(* A step that gives an object a new version, or none, and starts, ends or  *)
(* moves at most one request.                                               *)
LEMMA WorkRequestSteps ==
  ASSUME WorkInv, NEW r \in WorkRequests, NEW w,
         workReq' = [workReq EXCEPT ![r] = w], WorkRequestInv(w)',
         edits' \in 0..MaxEdits, edits <= edits', obj' \in [Objects -> WorkObject],
         \A o \in Objects : obj'[o].version <= edits' + 1,
         \A o \in Objects : obj'[o] = obj[o] \/ obj'[o].version > edits + 1
  PROVE  WorkInv'
<1>1. workReq = [s \in WorkRequests |-> workReq[s]]
  BY DEF WorkInv
<1>2. ASSUME NEW s \in WorkRequests PROVE WorkRequestInv(workReq[s])'
  <2>1. CASE s = r
    <3>1. workReq'[s] = w
      BY <1>1, <2>1
    <3>. QED
      BY <3>1
  <2>2. CASE s # r
    <3>1. workReq'[s] = workReq[s]
      BY <1>1, <2>2
    <3>2. PICK q : q = workReq[s]
      OBVIOUS
    <3>3. WorkRequestInv(q)
      BY <3>2 DEF WorkInv
    <3>4. WorkRequestInv(q)'
      BY <3>3, WorkKept
    <3>. QED
      BY <3>1, <3>2, <3>4
  <2>. QED
    BY <2>1, <2>2
<1>3. workReq' = [s \in WorkRequests |-> workReq'[s]]
  BY <1>1
<1>. QED
  BY <1>2, <1>3 DEF WorkInv

(* A step of a request with one call, which keeps nothing.                  *)
LEMMA WorkOthersStep ==
  ASSUME WorkInv, UNCHANGED workReq,
         edits' \in 0..MaxEdits, edits <= edits', obj' \in [Objects -> WorkObject],
         \A o \in Objects : obj'[o].version <= edits' + 1,
         \A o \in Objects : obj'[o] = obj[o] \/ obj'[o].version > edits + 1
  PROVE  WorkInv'
<1>1. ASSUME NEW s \in WorkRequests PROVE WorkRequestInv(workReq[s])'
  <2>1. PICK q : q = workReq[s]
    OBVIOUS
  <2>2. WorkRequestInv(q)
    BY <2>1 DEF WorkInv
  <2>3. WorkRequestInv(q)'
    BY <2>2, WorkKept
  <2>. QED
    BY <2>1, <2>3
<1>. QED
  BY <1>1 DEF WorkInv

(* An object is applied or deleted: it has a new version.                   *)
LEMMA WorkObjectChanges ==
  ASSUME WorkInv, UNCHANGED workReq, Versioned,
         NEW o \in Objects, NEW new, new \in [there : BOOLEAN, spec : Specs,
                                              restarted : BOOLEAN, version : {Version}],
         obj' = [obj EXCEPT ![o] = new]
  PROVE  WorkInv'
<1>. USE KubeClusterAssumption
<1>1. /\ edits \in Nat /\ edits < MaxEdits /\ edits' = edits + 1
      /\ obj \in [Objects -> WorkObject]
      /\ \A x \in Objects : obj[x].version <= edits + 1
  BY DEF WorkInv, Versioned
<1>2. new \in WorkObject /\ new.version = edits + 2
  BY <1>1 DEF WorkObject, Version
<1>3. \A x \in Objects : x # o => obj'[x] = obj[x]
  BY <1>1
<1>4. obj'[o] = new /\ obj' \in [Objects -> WorkObject]
  BY <1>1, <1>2
<1>5. ASSUME NEW x \in Objects PROVE obj'[x].version <= edits' + 1
  <2>1. CASE x = o
    BY <1>1, <1>2, <1>4, <2>1
  <2>2. CASE x # o
    BY <1>1, <1>3, <2>2 DEF WorkObject
  <2>. QED
    BY <2>1, <2>2
<1>. QED
  BY <1>1, <1>2, <1>3, <1>4, <1>5, WorkOthersStep

(* The object as it is at first is an object.                               *)
LEMMA NewObjectIs == NewObject \in WorkObject
BY KubeClusterAssumption, K8sWorkloadsAssumption DEF NewObject, WorkObject

(* A handler that has nothing to do knows nothing that could be wrong.      *)
LEMMA NoWorkRequestIs ==
  ASSUME edits \in 0..MaxEdits
  PROVE  WorkRequestInv(NoWorkRequest)
<1>1. <<>> \in Seq(Objects)
  BY EmptySeq
<1>. QED
  BY <1>1, NewObjectIs, KubeClusterAssumption, K8sWorkloadsAssumption
  DEF NoWorkRequest, WorkRequestInv, WorkRequestRecord, NewObject

(* The invariant holds at first.                                            *)
LEMMA WorkStart ==
  ASSUME ClusterInit, WorkInit
  PROVE  WorkInv
<1>1. edits \in 0..MaxEdits
  BY KubeClusterAssumption DEF ClusterInit
<1>2. workReq = [r \in WorkRequests |-> NoWorkRequest]
  BY DEF WorkInit
<1>3. \A r \in WorkRequests : WorkRequestInv(workReq[r])
  BY <1>1, <1>2, NoWorkRequestIs
<1>4. obj = [o \in Objects |-> NewObject] /\ NewObject.version = 1
  BY DEF WorkInit, NewObject
<1>. QED
  BY <1>1, <1>2, <1>3, <1>4, NewObjectIs, KubeClusterAssumption DEF WorkInv

(* Of a step that changes no object.                                        *)
LEMMA WorkRequestOnly ==
  ASSUME WorkInv, NEW r \in WorkRequests, NEW w,
         workReq' = [workReq EXCEPT ![r] = w], WorkRequestInv(w),
         UNCHANGED <<edits, obj>>
  PROVE  WorkInv'
<1>1. /\ edits \in 0..MaxEdits /\ edits <= edits /\ obj \in [Objects -> WorkObject]
      /\ \A o \in Objects : obj[o].version <= edits + 1
  BY KubeClusterAssumption DEF WorkInv
<1>2. WorkRequestInv(w)'
  BY DEF WorkRequestInv
<1>. QED
  BY <1>1, <1>2, WorkRequestSteps

(* Server-side apply.                                                       *)
LEMMA WorkApplied ==
  ASSUME WorkInv, NEW kind, Apply(kind)
  PROVE  WorkInv'
<1>1. PICK o \in OfKind(kind), s \in Specs :
        obj' = [obj EXCEPT ![o] = [there |-> TRUE, spec |-> s, version |-> Version,
                                   restarted |-> @.there /\ @.restarted]]
  BY DEF Apply
<1>2. o \in Objects /\ Versioned /\ UNCHANGED workReq
  BY <1>1 DEF Apply, OfKind
<1>3. obj[o] \in WorkObject
  BY <1>2 DEF WorkInv
<1>4. PICK old \in BOOLEAN : old = (obj[o].there /\ obj[o].restarted)
  BY <1>3 DEF WorkObject
<1>5. PICK new : new = [there |-> TRUE, spec |-> s, version |-> Version, restarted |-> old]
  OBVIOUS
<1>6. obj' = [obj EXCEPT ![o] = new]
  BY <1>1, <1>4, <1>5
<1>7. new \in [there : BOOLEAN, spec : Specs, restarted : BOOLEAN, version : {Version}]
  BY <1>1, <1>4, <1>5
<1>. QED
  BY <1>2, <1>6, <1>7, WorkObjectChanges

(* An object is deleted.                                                    *)
LEMMA WorkRemoved ==
  ASSUME WorkInv, NEW o \in Objects, Removed(o), UNCHANGED workReq
  PROVE  WorkInv'
<1>1. PICK new : new = [NewObject EXCEPT !.there = FALSE, !.version = Version]
  OBVIOUS
<1>2. obj' = [obj EXCEPT ![o] = new] /\ Versioned
  BY <1>1 DEF Removed
<1>3. new \in [there : BOOLEAN, spec : Specs, restarted : BOOLEAN, version : {Version}]
  BY <1>1, NewObjectIs DEF NewObject, WorkObject
<1>. QED
  BY <1>2, <1>3, WorkObjectChanges

(* Deletions, one by one and in a batch.                                    *)
LEMMA WorkDeleted ==
  ASSUME WorkInv, NEW kind, Delete(kind) \/ DeleteInBatch(kind)
  PROVE  WorkInv'
BY WorkRemoved DEF Delete, DeleteInBatch, OfKind

(* A request that reads and writes comes in.                                *)
LEMMA WorkBegins ==
  ASSUME WorkInv, NEW r \in WorkRequests, NEW op \in {"scale", "restart"},
         NEW o \in Objects, NEW arg \in Specs, Begin(r, op, <<o>>, arg)
  PROVE  WorkInv'
<1>1. PICK w : w = [NoWorkRequest EXCEPT !.op = op, !.pc = "get", !.todo = <<o>>,
                                         !.arg = arg]
  OBVIOUS
<1>2. workReq' = [workReq EXCEPT ![r] = w] /\ UNCHANGED <<edits, obj>>
  BY <1>1 DEF Begin
<1>3. <<o>> \in Seq(Objects) /\ <<o>> # <<>>
  OBVIOUS
<1>4. /\ NoWorkRequest \in WorkRequestRecord /\ NoWorkRequest.seen.version <= edits + 1
  BY NoWorkRequestIs DEF WorkInv, WorkRequestInv
<1>5. /\ w \in WorkRequestRecord /\ w.pc = "get" /\ w.op = op /\ w.todo = <<o>>
      /\ w.seen = NoWorkRequest.seen
  BY <1>1, <1>3, <1>4 DEF WorkRequestRecord
<1>6. WorkRequestInv(w)
  BY <1>3, <1>4, <1>5 DEF WorkRequestInv
<1>. QED
  BY <1>2, <1>6, WorkRequestOnly

(* While a request lasts there is an object before it.                      *)
LEMMA WorkFirst ==
  ASSUME WorkInv, NEW r \in WorkRequests, workReq[r].pc # "idle"
  PROVE  /\ WorkRequestInv(workReq[r])
         /\ Head(workReq[r].todo) \in Objects
         /\ obj[Head(workReq[r].todo)] \in WorkObject
<1>1. WorkRequestInv(workReq[r])
  BY DEF WorkInv
<1>2. workReq[r].todo \in Seq(Objects) /\ workReq[r].todo # <<>>
  BY <1>1 DEF WorkRequestInv, WorkRequestRecord
<1>. QED
  BY <1>1, <1>2, HeadIs DEF WorkInv

(* A handler reads an object.                                               *)
LEMMA WorkIsRead ==
  ASSUME WorkInv, NEW r \in WorkRequests, GetObject(r)
  PROVE  WorkInv'
<1>1. PICK q : q = workReq[r]
  OBVIOUS
<1>2. /\ q.pc = "get" /\ WorkRequestInv(q) /\ Head(q.todo) \in Objects
      /\ obj[Head(q.todo)] \in WorkObject
  BY <1>1, WorkFirst DEF GetObject
<1>3. PICK seen \in WorkObject : seen = obj[Head(q.todo)]
  BY <1>2
<1>4. PICK w : w = [q EXCEPT !.seen = seen, !.pc = "update"]
  OBVIOUS
<1>5. workReq' = [workReq EXCEPT ![r] = w] /\ UNCHANGED <<edits, obj>>
  BY <1>1, <1>3, <1>4 DEF GetObject
<1>6. /\ w \in WorkRequestRecord /\ w.pc = "update" /\ w.op = q.op /\ w.todo = q.todo
      /\ w.seen = seen
  BY <1>2, <1>3, <1>4 DEF WorkRequestRecord, WorkRequestInv
<1>7. seen.version <= edits + 1
  BY <1>2, <1>3 DEF WorkInv
<1>8. WorkRequestInv(w)
  BY <1>2, <1>3, <1>6, <1>7 DEF WorkRequestInv
<1>. QED
  BY <1>5, <1>8, WorkRequestOnly

(* What an update sends is what was read and changed by its handler; it is  *)
(* taken only if the object is as it was read.                              *)
LEMMA WorkTaken ==
  ASSUME WorkInv, NEW r \in WorkRequests, UpdateObject(r),
         NEW q, q = workReq[r], NEW o, o = Head(q.todo)
  PROVE  /\ o \in Objects
         /\ \E new \in WorkObject :
              /\ obj' = [obj EXCEPT ![o] = new]
              /\ edits' \in 0..MaxEdits /\ edits <= edits'
              /\ new.version <= edits' + 1
              /\ new = obj[o] \/ new.version > edits + 1
              /\ new.there = obj[o].there
              /\ new.spec # obj[o].spec => q.op = "scale"
              /\ new.restarted # obj[o].restarted => q.op = "restart"
<1>. USE KubeClusterAssumption
<1>1. /\ q.pc = "update" /\ WorkRequestInv(q) /\ o \in Objects /\ obj[o] \in WorkObject
      /\ q.seen \in WorkObject /\ q.arg \in Specs /\ q.op \in {"scale", "restart"}
      /\ obj[o].version = q.seen.version => obj[o] = q.seen
  BY WorkFirst DEF UpdateObject, WorkRequestInv, WorkRequestRecord
<1>2. PICK now \in WorkObject : now = obj[o]
  BY <1>1
<1>3. PICK s : s = Rescaled(q)
  OBVIOUS
<1>4. PICK new : new = Stored(now, s)
  OBVIOUS
<1>5. ServerAccepts(now, s) /\ Counted(now, s) /\ obj' = [obj EXCEPT ![o] = new]
  BY <1>2, <1>3, <1>4 DEF UpdateObject
<1>6. /\ s \in WorkObject /\ s.version = q.seen.version /\ s.there = q.seen.there
      /\ s.spec # q.seen.spec => q.op = "scale"
      /\ s.restarted # q.seen.restarted => q.op = "restart"
  <2>1. CASE q.op = "scale"
    BY <1>1, <1>3, <2>1 DEF Rescaled, WorkObject
  <2>2. CASE q.op = "restart"
    BY <1>1, <1>3, <2>2 DEF Rescaled, WorkObject
  <2>. QED
    BY <1>1, <2>1, <2>2
<1>7. now = q.seen
  <2>1. s.version # 0
    BY <1>6 DEF WorkObject
  <2>. QED
    BY <1>1, <1>2, <1>5, <1>6, <2>1 DEF ServerAccepts
<1>8. edits \in 0..MaxEdits /\ now.version <= edits + 1
  BY <1>1, <1>2 DEF WorkInv
<1>9. /\ new \in WorkObject /\ edits' \in 0..MaxEdits /\ edits <= edits'
      /\ new.version <= edits' + 1
      /\ new = now \/ new.version > edits + 1
      /\ new.there = s.there
      /\ new.spec = s.spec /\ new.restarted = s.restarted
  <2>1. CASE [s EXCEPT !.version = now.version] = now
    <3>1. new = now /\ edits' = edits
      BY <1>4, <1>5, <2>1 DEF Stored, Counted
    <3>2. s.there = now.there /\ s.spec = now.spec /\ s.restarted = now.restarted
      BY <1>6, <2>1 DEF WorkObject
    <3>. QED
      BY <1>8, <3>1, <3>2
  <2>2. CASE [s EXCEPT !.version = now.version] # now
    <3>1. new = [s EXCEPT !.version = edits + 2]
      BY <1>4, <2>2 DEF Stored, Version
    <3>2. new # now
      BY <1>6, <1>8, <3>1 DEF WorkObject
    <3>3. edits < MaxEdits /\ edits' = edits + 1
      BY <1>4, <1>5, <3>2 DEF Counted, Versioned
    <3>4. /\ new \in WorkObject /\ new.version = edits + 2 /\ new.there = s.there
          /\ new.spec = s.spec /\ new.restarted = s.restarted
      BY <1>6, <1>8, <3>1, <3>3 DEF WorkObject
    <3>. QED
      BY <1>8, <3>3, <3>4
  <2>. QED
    BY <2>1, <2>2
<1>10. /\ new.there = now.there
       /\ new.spec # now.spec => q.op = "scale"
       /\ new.restarted # now.restarted => q.op = "restart"
  BY <1>6, <1>7, <1>9
<1>. QED
  BY <1>1, <1>2, <1>5, <1>9, <1>10

(* A handler sends an object, which ends its request.                       *)
LEMMA WorkIsUpdated ==
  ASSUME WorkInv, NEW r \in WorkRequests, UpdateObject(r)
  PROVE  WorkInv'
<1>. USE KubeClusterAssumption
<1>1. PICK o : o = Head(workReq[r].todo)
  OBVIOUS
<1>2. o \in Objects
  BY <1>1, WorkTaken
<1>3. PICK new \in WorkObject :
        /\ obj' = [obj EXCEPT ![o] = new]
        /\ edits' \in 0..MaxEdits /\ edits <= edits'
        /\ new.version <= edits' + 1
        /\ new = obj[o] \/ new.version > edits + 1
  BY <1>1, WorkTaken
<1>4. /\ obj \in [Objects -> WorkObject] /\ edits \in 0..MaxEdits
      /\ \A x \in Objects : obj[x].version <= edits + 1
  BY DEF WorkInv
<1>5. obj' \in [Objects -> WorkObject] /\ obj'[o] = new
      /\ \A x \in Objects : x # o => obj'[x] = obj[x]
  BY <1>2, <1>3, <1>4
<1>6. \A x \in Objects : obj'[x] = obj[x] \/ obj'[x].version > edits + 1
  BY <1>3, <1>5
<1>7. ASSUME NEW x \in Objects PROVE obj'[x].version <= edits' + 1
  <2>1. CASE x = o
    BY <1>3, <1>5, <2>1
  <2>2. CASE x # o
    BY <1>3, <1>4, <1>5, <2>2 DEF WorkObject
  <2>. QED
    BY <2>1, <2>2
<1>8. workReq' = [workReq EXCEPT ![r] = NoWorkRequest]
  BY DEF UpdateObject, End
<1>9. WorkRequestInv(NoWorkRequest)'
  <2>1. WorkRequestInv(NoWorkRequest)
    BY <1>4, NoWorkRequestIs
  <2>. QED
    BY <1>3, <1>6, <2>1, WorkKept
<1>. QED
  BY <1>3, <1>5, <1>6, <1>7, <1>8, <1>9, WorkRequestSteps

(* The invariant holds through every step of the handlers and of the        *)
(* clusters.                                                                *)
LEMMA WorkStep ==
  ASSUME WorkInv, WorkNext
  PROVE  WorkInv'
<1>1. ASSUME UNCHANGED <<edits, obj, workReq>> PROVE WorkInv'
  <2>1. /\ edits \in 0..MaxEdits /\ edits <= edits /\ obj \in [Objects -> WorkObject]
        /\ \A o \in Objects : obj[o].version <= edits + 1
    BY KubeClusterAssumption DEF WorkInv
  <2>. QED
    BY <1>1, <2>1, WorkOthersStep
<1>2. CASE ClusterNext /\ UNCHANGED workVars
  BY <1>1, <1>2, ClusterKeepsEdits DEF workVars
<1>3. ASSUME NEW kind, Apply(kind) PROVE WorkInv'
  BY <1>3, WorkApplied
<1>4. ASSUME NEW kind, Delete(kind) PROVE WorkInv'
  BY <1>4, WorkDeleted
<1>5. ASSUME NEW kind, DeleteInBatch(kind) PROVE WorkInv'
  BY <1>5, WorkDeleted
<1>6. ASSUME NEW r \in WorkRequests, NEW kind, Scale(r, kind) \/ Restart(r, kind)
      PROVE  WorkInv'
  BY <1>6, WorkBegins, K8sWorkloadsAssumption DEF Scale, Restart, OfKind
<1>7. ASSUME NEW r \in WorkRequests, WorkCallFails(r) PROVE WorkInv'
  BY <1>7, NoWorkRequestIs, WorkRequestOnly DEF WorkCallFails, End, WorkInv
<1>8. CASE \/ createK8sDeployment \/ createStatefulSetHelper \/ createDaemonSetHelper
           \/ createConfigMapHelper \/ createSecretHelper \/ createServiceHelper
           \/ createIngressHelper \/ createK8sPod
  BY <1>3, <1>8
  DEF createK8sDeployment, createStatefulSetHelper, createDaemonSetHelper,
      createConfigMapHelper, createSecretHelper, createServiceHelper,
      createIngressHelper, createK8sPod
<1>9. CASE \/ deleteK8sDeployment \/ deleteK8sStatefulSet \/ deleteK8sDaemonSet
           \/ deleteK8sPod \/ deleteK8sConfigMap \/ deleteK8sSecret \/ deleteK8sService
           \/ deleteK8sIngress
  BY <1>4, <1>9
  DEF deleteK8sDeployment, deleteK8sStatefulSet, deleteK8sDaemonSet, deleteK8sPod,
      deleteK8sConfigMap, deleteK8sSecret, deleteK8sService, deleteK8sIngress
<1>10. CASE \/ deleteK8sDeploymentBatch \/ deleteK8sStatefulSetBatch
            \/ deleteK8sDaemonSetBatch \/ deleteK8sPodBatch \/ deleteK8sConfigMapBatch
            \/ deleteK8sSecretBatch \/ deleteK8sServiceBatch \/ deleteK8sIngressBatch
  BY <1>5, <1>10
  DEF deleteK8sDeploymentBatch, deleteK8sStatefulSetBatch, deleteK8sDaemonSetBatch,
      deleteK8sPodBatch, deleteK8sConfigMapBatch, deleteK8sSecretBatch,
      deleteK8sServiceBatch, deleteK8sIngressBatch
<1>11. ASSUME NEW r \in WorkRequests,
              \/ scaleK8sDeployment(r) \/ scaleK8sStatefulSet(r)
              \/ restartK8sDeployment(r) \/ restartK8sStatefulSet(r)
              \/ restartK8sDaemonSet(r)
       PROVE  WorkInv'
  BY <1>6, <1>11
  DEF scaleK8sDeployment, scaleK8sStatefulSet, restartK8sDeployment,
      restartK8sStatefulSet, restartK8sDaemonSet
<1>. QED
  BY <1>2, <1>7, <1>8, <1>9, <1>10, <1>11, WorkIsRead, WorkIsUpdated DEF WorkNext

(* The invariant holds through a step of another part of the console.       *)
LEMMA WorkStays ==
  ASSUME WorkInv, UNCHANGED <<edits, workVars>>
  PROVE  WorkInv'
BY KubeClusterAssumption, WorkOthersStep DEF workVars, WorkInv

(* An update of an object is the only step in which a request changes both  *)
(* itself and an object.                                                    *)
LEMMA WorkEditIsUpdate ==
  ASSUME WorkNext, NEW r \in WorkRequests, workReq'[r] # workReq[r], obj' # obj
  PROVE  \E s \in WorkRequests : UpdateObject(s)
<1>1. ASSUME NEW kind PROVE ~Apply(kind) /\ ~Delete(kind) /\ ~DeleteInBatch(kind)
  BY DEF Apply, Delete, DeleteInBatch
<1>2. ASSUME NEW s, NEW kind PROVE ~Scale(s, kind) /\ ~Restart(s, kind)
  BY DEF Scale, Restart, Begin
<1>3. ASSUME NEW s PROVE ~GetObject(s) /\ ~WorkCallFails(s)
  BY DEF GetObject, WorkCallFails
<1>4. ~UNCHANGED workVars
  BY DEF workVars
<1>. QED
  BY <1>1, <1>2, <1>3, <1>4
  DEF WorkNext, createK8sDeployment, createStatefulSetHelper, createDaemonSetHelper,
      createConfigMapHelper, createSecretHelper, createServiceHelper,
      createIngressHelper, createK8sPod,
      deleteK8sDeployment, deleteK8sStatefulSet, deleteK8sDaemonSet, deleteK8sPod,
      deleteK8sConfigMap, deleteK8sSecret, deleteK8sService, deleteK8sIngress,
      deleteK8sDeploymentBatch, deleteK8sStatefulSetBatch, deleteK8sDaemonSetBatch,
      deleteK8sPodBatch, deleteK8sConfigMapBatch, deleteK8sSecretBatch,
      deleteK8sServiceBatch, deleteK8sIngressBatch,
      scaleK8sDeployment, scaleK8sStatefulSet, restartK8sDeployment,
      restartK8sStatefulSet, restartK8sDaemonSet

(* A scaling and a restart change what they are for, of what is still there.*)
LEMMA WorkEdits ==
  ASSUME WorkInv, WorkNext
  PROVE  WorkEditsStayTheirOwnStep
<1>. SUFFICES ASSUME NEW r \in WorkRequests, NEW o \in Objects, workReq'[r] # workReq[r],
                     obj'[o] # obj[o]
              PROVE  /\ obj'[o].there = obj[o].there
                     /\ obj'[o].spec # obj[o].spec => workReq[r].op = "scale"
                     /\ obj'[o].restarted # obj[o].restarted => workReq[r].op = "restart"
  BY DEF WorkEditsStayTheirOwnStep
<1>1. PICK s \in WorkRequests : UpdateObject(s)
  BY WorkEditIsUpdate
<1>2. s = r
  <2>1. workReq = [x \in WorkRequests |-> workReq[x]]
    BY DEF WorkInv
  <2>. QED
    BY <1>1, <2>1 DEF UpdateObject, End
<1>3. PICK m : m = Head(workReq[r].todo)
  OBVIOUS
<1>4. PICK new \in WorkObject :
        /\ obj' = [obj EXCEPT ![m] = new]
        /\ new.there = obj[m].there
        /\ new.spec # obj[m].spec => workReq[r].op = "scale"
        /\ new.restarted # obj[m].restarted => workReq[r].op = "restart"
  BY <1>1, <1>2, <1>3, WorkTaken
<1>5. o = m /\ obj'[o] = new
  BY <1>4 DEF WorkInv
<1>. QED
  BY <1>4, <1>5

-----------------------------------------------------------------------------
(* Projects, applications and instances.                                    *)
KindNames == {Kinds[k] : k \in 1 .. Len(Kinds)}

Nets == SUBSET {"Service", "Ingress"}

RelRecords ==
  [op : {"none", "project", "sync", "delete"},
   pc : {"idle", "write", "locate", "workload", "service", "ingress", "clean", "row"},
   inst : Instances \cup {0}, type : Types \cup {"none"}, net : Nets,
   cluster : Clusters \cup {"none"}, place : Places \cup {"none"}, kind : 0 .. Calls,
   failed : BOOLEAN, raced : BOOLEAN]

LiveObjects == [cluster : Clusters, place : Places, inst : Instances, kind : KindNames]

(* A deletion has removed the kinds before its own, in the place where it   *)
(* looks, as long as nothing failed and nothing was put there.              *)
Cleaned(q, L) ==
  q.pc \in {"clean", "row"} /\ ~q.failed /\ ~q.raced =>
    \A k \in 1 .. Len(Kinds) :
      (q.pc = "clean" => k < q.kind) => Object(q, Kinds[k]) \notin L

RelRequestInv(q, L) ==
  /\ q.op = "project" => q.pc = "write" /\ q.cluster \in Clusters
  /\ q.op = "sync" => q.pc \in {"locate", "workload", "service", "ingress"}
                      /\ q.inst \in Instances /\ q.type \in Types
  /\ q.op = "delete" => q.pc \in {"locate", "clean", "row"} /\ q.inst \in Instances
  /\ q.op = "none" => q.pc = "idle"
  /\ q.pc \in {"workload", "service", "ingress", "clean"} =>
       q.cluster \in Clusters /\ q.place \in Places
  /\ q.pc = "clean" => q.kind \in 1 .. Calls
  /\ Cleaned(q, L)

InstanceRows == [state : {"there"}, type : Types, net : Nets]

RelRows ==
  /\ project \in Clusters \cup {"none"}
  /\ app \in Places \cup {"none"}
  /\ app # "none" => project # "none"
  /\ inst \in [Instances -> {Unborn, Gone} \cup InstanceRows]
  /\ (\E i \in Instances : inst[i].state = "there") => app # "none"

RelHands ==
  /\ live \subseteq LiveObjects
  /\ relReq \in [RelRequests -> RelRecords]
  /\ \A r \in RelRequests : RelRequestInv(relReq[r], live)

ReleaseInv == RelRows /\ RelHands

LEMMA KindsAre ==
  /\ Len(Kinds) = 6 /\ Calls = 12
  /\ KindNames = {"Deployment", "StatefulSet", "DaemonSet", "Pod", "Service", "Ingress"}
  /\ {Workloads[k] : k \in 1 .. Len(Workloads)} = {"Deployment", "StatefulSet", "DaemonSet", "Pod"}
<1>1. /\ Len(Kinds) = 6
      /\ \A k \in 1 .. 6 : Kinds[k] \in {"Deployment", "StatefulSet", "DaemonSet", "Pod", "Service", "Ingress"}
      /\ Kinds[1] = "Deployment" /\ Kinds[2] = "StatefulSet" /\ Kinds[3] = "DaemonSet"
      /\ Kinds[4] = "Pod" /\ Kinds[5] = "Service" /\ Kinds[6] = "Ingress"
  BY DEF Kinds, Workloads
<1>2. KindNames = {"Deployment", "StatefulSet", "DaemonSet", "Pod", "Service", "Ingress"}
  BY <1>1 DEF KindNames
<1>3. /\ Len(Workloads) = 4
      /\ Workloads[1] = "Deployment" /\ Workloads[2] = "StatefulSet"
      /\ Workloads[3] = "DaemonSet" /\ Workloads[4] = "Pod"
  BY DEF Workloads
<1>4. {Workloads[k] : k \in 1 .. Len(Workloads)} = {"Deployment", "StatefulSet", "DaemonSet", "Pod"}
  BY <1>3
<1>5. Calls = 12
  BY <1>1 DEF Calls
<1>. QED
  BY <1>1, <1>2, <1>4, <1>5

LEMMA NoRelRequestIs == NoRelRequest \in RelRecords /\ \A L : RelRequestInv(NoRelRequest, L)
BY KindsAre DEF NoRelRequest, RelRecords, RelRequestInv, Cleaned, Nets

LEMMA ReleaseStart ==
  ASSUME ReleaseInit
  PROVE  ReleaseInv
<1>. USE DEF ReleaseInit
<1>1. \A r \in RelRequests : relReq[r] = NoRelRequest
  OBVIOUS
<1>2. relReq \in [RelRequests -> RelRecords] /\ \A r \in RelRequests : RelRequestInv(relReq[r], live)
  BY <1>1, NoRelRequestIs
<1>3. RelRows
  BY DEF RelRows, Unborn
<1>. QED
  BY <1>2, <1>3 DEF ReleaseInv, RelHands

LEMMA ReleaseTyped ==
  ASSUME ReleaseInv
  PROVE  ReleaseTypeOK
<1>1. \A i \in Instances :
        /\ inst[i].state \in {"unborn", "there", "deleted"}
        /\ inst[i].state = "there" => app # "none" /\ inst[i] \in
             [state : {"there"}, type : Types, net : SUBSET {"Service", "Ingress"}]
  <2>. TAKE i \in Instances
  <2>1. inst[i] \in {Unborn, Gone} \cup InstanceRows
    BY DEF ReleaseInv, RelRows
  <2>2. CASE inst[i] \in {Unborn, Gone}
    BY <2>2 DEF Unborn, Gone
  <2>3. CASE inst[i] \in InstanceRows
    BY <2>3 DEF InstanceRows, Nets, ReleaseInv, RelRows
  <2>. QED
    BY <2>1, <2>2, <2>3
<1>. QED
  BY <1>1 DEF ReleaseInv, RelRows, RelHands, RelRequestInv, LiveObjects, KindNames, ReleaseTypeOK

(* The steps of a request: it goes on with q, and what is there does not    *)
(* grow, or grows by what the request puts.                                 *)
LEMMA RelGoes ==
  ASSUME RelHands, NEW r \in RelRequests, NEW q \in RelRecords, Goes(r, q),
         live' \in SUBSET live, RelRequestInv(q, live')
  PROVE  RelHands'
<1>1. relReq' \in [RelRequests -> RelRecords] /\ relReq'[r] = q
  BY DEF RelHands, Goes
<1>2. ASSUME NEW s \in RelRequests, s # r PROVE RelRequestInv(relReq[s], live)'
  <2>1. relReq'[s] = relReq[s] /\ RelRequestInv(relReq[s], live)
    BY <1>2 DEF RelHands, Goes
  <2>. QED
    BY <2>1 DEF RelRequestInv, Cleaned
<1>. QED
  BY <1>1, <1>2 DEF RelHands

LEMMA RelEnds ==
  ASSUME RelHands, NEW r \in RelRequests, EndsRel(r), live' \in SUBSET live
  PROVE  RelHands'
BY NoRelRequestIs, RelGoes DEF EndsRel

LEMMA RelPuts ==
  ASSUME RelHands, NEW r \in RelRequests, NEW q \in RelRecords, NEW o \in LiveObjects,
         Put(r, o, q), \A L : RelRequestInv(q, L)
  PROVE  RelHands'
<1>1. live' = live \cup {o}
  BY DEF Put
<1>2. relReq'[r] = q
  BY DEF Put
<1>3. ASSUME NEW s \in RelRequests, s # r
      PROVE  relReq'[s] \in RelRecords /\ RelRequestInv(relReq'[s], live')
  <2>1. relReq[s] \in RelRecords /\ RelRequestInv(relReq[s], live)
    BY DEF RelHands
  <2>2. CASE /\ relReq[s].op = "delete" /\ relReq[s].pc \in {"clean", "row"}
             /\ Object(relReq[s], o.kind) = o
    <3>1. relReq'[s] = [relReq[s] EXCEPT !.raced = TRUE]
      BY <1>3, <2>2 DEF Put
    <3>. QED
      BY <2>1, <3>1 DEF RelRecords, RelRequestInv, Cleaned
  <2>3. CASE ~(/\ relReq[s].op = "delete" /\ relReq[s].pc \in {"clean", "row"}
               /\ Object(relReq[s], o.kind) = o)
    <3>1. relReq'[s] = relReq[s]
      BY <1>3, <2>3 DEF Put
    <3>2. Cleaned(relReq[s], live')
      <4>. SUFFICES ASSUME relReq[s].pc \in {"clean", "row"}, ~relReq[s].failed, ~relReq[s].raced,
                           NEW k \in 1 .. Len(Kinds), relReq[s].pc = "clean" => k < relReq[s].kind
                    PROVE  Object(relReq[s], Kinds[k]) \notin live'
        BY DEF Cleaned
      <4>1. Object(relReq[s], Kinds[k]) \notin live
        BY <2>1 DEF RelRequestInv, Cleaned
      <4>2. relReq[s].op = "delete"
        BY <2>1 DEF RelRequestInv, RelRecords
      <4>3. Object(relReq[s], Kinds[k]) # o
        <5>. SUFFICES ASSUME Object(relReq[s], Kinds[k]) = o PROVE FALSE
          OBVIOUS
        <5>1. o.kind = Kinds[k]
          BY DEF Object
        <5>. QED
          BY <2>3, <4>2, <5>1
      <4>. QED
        BY <1>1, <4>1, <4>3
    <3>. QED
      BY <2>1, <3>1, <3>2 DEF RelRequestInv
  <2>. QED
    BY <2>2, <2>3
<1>4. relReq' \in [RelRequests -> RelRecords]
  <2>1. DOMAIN relReq' = RelRequests /\ \A s \in RelRequests : relReq'[s] \in RelRecords
    BY <1>2, <1>3 DEF Put
  <2>2. relReq' = [s \in RelRequests |-> relReq'[s]]
    BY DEF Put
  <2>. QED
    BY <2>1, <2>2
<1>. QED
  BY <1>1, <1>2, <1>3, <1>4 DEF RelHands

(* A request that deploys reads the row of an instance or has it given.     *)
LEMMA SyncIs ==
  ASSUME NEW i \in Instances, NEW w, w.type \in Types, w.net \in Nets
  PROVE  Sync(i, w) \in RelRecords /\ \A L : RelRequestInv(Sync(i, w), L)
<1>1. PICK q : q = Sync(i, w)
  OBVIOUS
<1>2. /\ q \in RelRecords
      /\ q.op = "sync" /\ q.pc = "locate" /\ q.inst = i /\ q.type = w.type
  BY <1>1, NoRelRequestIs DEF Sync, RelRecords
<1>. QED
  BY <1>1, <1>2 DEF RelRequestInv, Cleaned

LEMMA RowIs ==
  ASSUME NEW w \in Wanted
  PROVE  Row(w) \in InstanceRows /\ w.type \in Types /\ w.net \in Nets
BY DEF Wanted, Row, InstanceRows, Nets

LEMMA InstIs ==
  ASSUME RelRows, NEW i \in Instances, inst[i].state = "there"
  PROVE  inst[i] \in InstanceRows
BY DEF RelRows, Unborn, Gone

(* What a request is, by its place.                                         *)
LEMMA RelRequestIs ==
  ASSUME RelHands, NEW r \in RelRequests
  PROVE  relReq[r] \in RelRecords /\ RelRequestInv(relReq[r], live)
BY DEF RelHands

LEMMA ProjectStep ==
  ASSUME ReleaseInv,
         \/ \E c \in Clusters : createK8sProject(c)
         \/ deleteK8sProject
         \/ \E p \in Places : createK8sApp(p) \/ updateK8sApp(p)
         \/ deleteK8sApp
  PROVE  ReleaseInv'
<1>1. UNCHANGED <<inst, live, relReq>>
  BY DEF createK8sProject, deleteK8sProject, createK8sApp, updateK8sApp, deleteK8sApp
<1>2. RelRows'
  BY <1>1, K8sReleaseAssumption
     DEF ReleaseInv, RelRows, createK8sProject, deleteK8sProject, createK8sApp, updateK8sApp, deleteK8sApp
<1>. QED
  BY <1>1, <1>2 DEF ReleaseInv, RelHands

LEMMA ProjectMovesStep ==
  ASSUME ReleaseInv, NEW r \in RelRequests,
         updateK8sProject(r) \/ \E c \in Clusters : CheckProject(r, c)
  PROVE  ReleaseInv'
<1>1. CASE updateK8sProject(r)
  <2>1. relReq[r].cluster \in Clusters
    BY <1>1, RelRequestIs DEF ReleaseInv, RelRequestInv, updateK8sProject
  <2>2. RelRows'
    BY <1>1, <2>1, K8sReleaseAssumption DEF ReleaseInv, RelRows, updateK8sProject
  <2>. QED
    BY <1>1, <2>2, RelEnds DEF ReleaseInv, updateK8sProject
<1>2. ASSUME NEW c \in Clusters, CheckProject(r, c) PROVE ReleaseInv'
  <2>1. PICK q : q = [NoRelRequest EXCEPT !.op = "project", !.pc = "write", !.cluster = c]
    OBVIOUS
  <2>2. q \in RelRecords /\ q.op = "project" /\ q.pc = "write" /\ q.cluster = c
    BY <2>1, NoRelRequestIs DEF RelRecords
  <2>3. RelRequestInv(q, live')
    BY <2>2 DEF RelRequestInv, Cleaned
  <2>4. Goes(r, q) /\ UNCHANGED <<project, app, inst, live>>
    BY <1>2, <2>1 DEF CheckProject
  <2>. QED
    BY <2>2, <2>3, <2>4, RelGoes DEF ReleaseInv, RelRows
<1>. QED
  BY <1>1, <1>2

LEMMA InstanceBegins ==
  ASSUME ReleaseInv, NEW r \in RelRequests, NEW i \in Instances,
         \/ \E w \in Wanted : createK8sInstance(r, i, w) \/ updateK8sInstance(r, i, w)
         \/ deployK8sInstance(r, i)
         \/ deleteK8sInstance(r, i)
  PROVE  ReleaseInv'
<1>1. ASSUME NEW w \in Wanted, createK8sInstance(r, i, w) PROVE ReleaseInv'
  <2>1. RelRows'
    BY <1>1, RowIs DEF createK8sInstance, ReleaseInv, RelRows
  <2>2. Goes(r, Sync(i, w)) /\ live' = live
    BY <1>1 DEF createK8sInstance
  <2>. QED
    BY <2>1, <2>2, RowIs, SyncIs, RelGoes DEF ReleaseInv
<1>2. ASSUME NEW w \in Wanted, updateK8sInstance(r, i, w) PROVE ReleaseInv'
  <2>1. Goes(r, Sync(i, w)) /\ UNCHANGED <<project, app, live>>
    BY <1>2 DEF updateK8sInstance
  <2>2. CASE inst[i].state = "there"
    <3>1. inst[i] \in InstanceRows
      BY <2>2, InstIs DEF ReleaseInv
    <3>2. PICK x : x = [inst[i] EXCEPT !.type = w.type, !.net = @ \cup w.net]
      OBVIOUS
    <3>3. x \in InstanceRows
      BY <3>1, <3>2, RowIs DEF InstanceRows, Nets
    <3>4. inst' = [inst EXCEPT ![i] = x]
      BY <1>2, <2>2, <3>2 DEF updateK8sInstance, ReleaseInv, RelRows
    <3>5. RelRows'
      BY <2>1, <2>2, <3>3, <3>4 DEF ReleaseInv, RelRows
    <3>. QED
      BY <2>1, <3>5, RowIs, SyncIs, RelGoes DEF ReleaseInv
  <2>3. CASE inst[i].state # "there"
    <3>1. inst' = inst
      BY <1>2, <2>3 DEF updateK8sInstance
    <3>. QED
      BY <2>1, <3>1, RowIs, SyncIs, RelGoes DEF ReleaseInv, RelRows
  <2>. QED
    BY <2>2, <2>3
<1>3. CASE deployK8sInstance(r, i)
  <2>1. /\ inst[i].state = "there" /\ Goes(r, Sync(i, inst[i]))
        /\ UNCHANGED <<project, app, inst, live>>
    BY <1>3 DEF deployK8sInstance
  <2>2. inst[i].type \in Types /\ inst[i].net \in Nets
    BY <2>1, InstIs DEF ReleaseInv, InstanceRows
  <2>3. PICK w : w = inst[i]
    OBVIOUS
  <2>4. RelHands'
    BY <2>1, <2>2, <2>3, SyncIs, RelGoes DEF ReleaseInv
  <2>. QED
    BY <2>1, <2>4 DEF ReleaseInv, RelRows
<1>4. CASE deleteK8sInstance(r, i)
  <2>1. PICK q : q = [NoRelRequest EXCEPT !.op = "delete", !.pc = "locate", !.inst = i]
    OBVIOUS
  <2>2. q \in RelRecords /\ q.op = "delete" /\ q.pc = "locate" /\ q.inst = i
    BY <2>1, NoRelRequestIs DEF RelRecords
  <2>3. PICK x : x = [q EXCEPT !.pc = "row", !.failed = TRUE]
    OBVIOUS
  <2>4. x \in RelRecords /\ x.op = "delete" /\ x.pc = "row" /\ x.inst = i /\ x.failed
    BY <2>2, <2>3 DEF RelRecords
  <2>5. RelRequestInv(q, live') /\ RelRequestInv(x, live')
    BY <2>2, <2>4 DEF RelRequestInv, Cleaned
  <2>6. Goes(r, q) \/ Goes(r, x)
    BY <1>4, <2>1, <2>3 DEF deleteK8sInstance
  <2>7. UNCHANGED <<project, app, inst, live>>
    BY <1>4 DEF deleteK8sInstance
  <2>. QED
    BY <2>2, <2>4, <2>5, <2>6, <2>7, RelGoes DEF ReleaseInv, RelRows
<1>. QED
  BY <1>1, <1>2, <1>3, <1>4

(* A deployment puts objects of its instance.                               *)
LEMMA ObjectIs ==
  ASSUME NEW q \in RelRecords, NEW L, RelRequestInv(q, L), q.op = "sync",
         q.pc \in {"workload", "service", "ingress"}, NEW k \in KindNames
  PROVE  Object(q, k) \in LiveObjects
BY DEF Object, LiveObjects, RelRequestInv

LEMMA PutStep ==
  ASSUME ReleaseInv, NEW r \in RelRequests,
         LocateSync(r) \/ PutWorkload(r) \/ PutService(r) \/ PutIngress(r)
  PROVE  ReleaseInv'
<1>. PICK q : q = relReq[r]
  OBVIOUS
<1>1. q \in RelRecords /\ RelRequestInv(q, live)
  BY RelRequestIs DEF ReleaseInv
<1>2. UNCHANGED <<project, app, inst>>
  BY DEF LocateSync, PutWorkload, PutService, PutIngress
<1>3. RelRows'
  BY <1>2 DEF ReleaseInv, RelRows
<1>4. SUFFICES RelHands'
  BY <1>3 DEF ReleaseInv
<1>5. CASE LocateSync(r)
  <2>1. CASE Located /\ Goes(r, [q EXCEPT !.pc = "workload", !.cluster = project, !.place = app])
    <3>1. PICK x : x = [q EXCEPT !.pc = "workload", !.cluster = project, !.place = app]
      OBVIOUS
    <3>2. project \in Clusters /\ app \in Places
      BY <2>1 DEF Located, ReleaseInv, RelRows
    <3>3. /\ x \in RelRecords /\ x.op = q.op /\ x.pc = "workload"
          /\ x.cluster = project /\ x.place = app /\ x.inst = q.inst /\ x.type = q.type
      BY <1>1, <3>1, <3>2 DEF RelRecords
    <3>4. Goes(r, x) /\ live' = live /\ q.op = "sync"
      BY <1>5, <2>1, <3>1 DEF LocateSync
    <3>5. RelRequestInv(x, live')
      BY <1>1, <3>2, <3>3, <3>4 DEF RelRequestInv, Cleaned
    <3>. QED
      BY <3>3, <3>4, <3>5, RelGoes DEF ReleaseInv
  <2>2. CASE EndsRel(r)
    BY <1>5, <2>2, RelEnds DEF LocateSync, ReleaseInv
  <2>. QED
    BY <1>5, <2>1, <2>2 DEF LocateSync
<1>6. ASSUME q.pc \in {"workload", "service", "ingress"}
      PROVE  q.op = "sync" /\ q.type \in Types
  BY <1>1, <1>6 DEF RelRequestInv, RelRecords
<1>7. ASSUME NEW pc \in {"service", "ingress"}, q.op = "sync"
      PROVE  /\ [q EXCEPT !.pc = pc] \in RelRecords
             /\ q.pc \in {"workload", "service"} => \A L : RelRequestInv([q EXCEPT !.pc = pc], L)
  <2>1. PICK x : x = [q EXCEPT !.pc = pc]
    OBVIOUS
  <2>2. /\ x \in RelRecords /\ x.op = q.op /\ x.pc = pc
        /\ x.cluster = q.cluster /\ x.place = q.place /\ x.inst = q.inst /\ x.type = q.type
    BY <1>1, <2>1 DEF RelRecords
  <2>3. ASSUME q.pc \in {"workload", "service"}, NEW L PROVE RelRequestInv(x, L)
    BY <1>1, <1>7, <2>2, <2>3 DEF RelRequestInv, Cleaned
  <2>. QED
    BY <2>1, <2>2, <2>3
<1>8. CASE PutWorkload(r)
  <2>1. q.pc = "workload" /\ q.op = "sync"
    BY <1>6, <1>8 DEF PutWorkload
  <2>2. Workload(q) \in LiveObjects
    BY <1>1, <2>1, ObjectIs, KindsAre
       DEF Workload, GetK8sDeployment, GetK8sStatefulSet, GetK8sDaemonSet, GetK8sStandalonePod
  <2>3. CASE Put(r, Workload(q), [q EXCEPT !.pc = "service"])
    BY <1>7, <2>1, <2>2, <2>3, RelPuts DEF ReleaseInv
  <2>4. CASE EndsRel(r) /\ UNCHANGED live
    BY <2>4, RelEnds DEF ReleaseInv
  <2>. QED
    BY <1>8, <2>3, <2>4 DEF PutWorkload
<1>9. CASE PutService(r)
  <2>1. q.pc = "service" /\ q.op = "sync"
    BY <1>6, <1>9 DEF PutService
  <2>2. GetK8sService(q) \in LiveObjects
    BY <1>1, <2>1, ObjectIs, KindsAre DEF GetK8sService
  <2>3. CASE Put(r, GetK8sService(q), [q EXCEPT !.pc = "ingress"])
    BY <1>7, <2>1, <2>2, <2>3, RelPuts DEF ReleaseInv
  <2>4. CASE Goes(r, [q EXCEPT !.pc = "ingress"]) /\ UNCHANGED live
    BY <1>7, <2>1, <2>4, RelGoes DEF ReleaseInv
  <2>. QED
    BY <1>9, <2>3, <2>4 DEF PutService
<1>10. CASE PutIngress(r)
  <2>1. q.pc = "ingress" /\ q.op = "sync"
    BY <1>6, <1>10 DEF PutIngress
  <2>2. GetK8sIngress(q) \in LiveObjects
    BY <1>1, <2>1, ObjectIs, KindsAre DEF GetK8sIngress
  <2>3. CASE Put(r, GetK8sIngress(q), NoRelRequest)
    BY <2>2, <2>3, NoRelRequestIs, RelPuts DEF ReleaseInv
  <2>4. CASE EndsRel(r) /\ UNCHANGED live
    BY <2>4, RelEnds DEF ReleaseInv
  <2>. QED
    BY <1>10, <2>3, <2>4 DEF PutIngress
<1>. QED
  BY <1>5, <1>8, <1>9, <1>10

LEMMA LocateDeleteStep ==
  ASSUME ReleaseInv, NEW r \in RelRequests, LocateDelete(r)
  PROVE  ReleaseInv'
<1>. PICK q : q = relReq[r]
  OBVIOUS
<1>1. /\ q \in RelRecords /\ RelRequestInv(q, live) /\ q.op = "delete"
      /\ UNCHANGED <<project, app, inst, live>>
  BY RelRequestIs DEF ReleaseInv, LocateDelete
<1>2. CASE Located /\ Goes(r, [q EXCEPT !.pc = "clean", !.kind = 1,
                                          !.cluster = project, !.place = app])
  <2>1. PICK x : x = [q EXCEPT !.pc = "clean", !.kind = 1, !.cluster = project, !.place = app]
    OBVIOUS
  <2>2. project \in Clusters /\ app \in Places
    BY <1>2 DEF Located, ReleaseInv, RelRows
  <2>0. 1 \in 0 .. Calls
    BY KindsAre
  <2>3. /\ x \in RelRecords /\ x.op = "delete" /\ x.pc = "clean" /\ x.kind = 1
        /\ x.cluster = project /\ x.place = app /\ x.inst = q.inst
    BY <1>1, <2>0, <2>1, <2>2 DEF RelRecords
  <2>4. RelRequestInv(x, live)
    BY <1>1, <2>2, <2>3, KindsAre DEF RelRequestInv, Cleaned
  <2>5. Goes(r, x)
    BY <1>2, <2>1
  <2>. QED
    BY <1>1, <2>3, <2>4, <2>5, RelGoes DEF ReleaseInv, RelRows
<1>3. CASE Goes(r, [q EXCEPT !.pc = "row", !.failed = TRUE])
  <2>1. PICK x : x = [q EXCEPT !.pc = "row", !.failed = TRUE]
    OBVIOUS
  <2>2. x \in RelRecords /\ x.op = "delete" /\ x.pc = "row" /\ x.failed /\ x.inst = q.inst
    BY <1>1, <2>1 DEF RelRecords
  <2>3. RelRequestInv(x, live)
    BY <1>1, <2>2 DEF RelRequestInv, Cleaned
  <2>4. Goes(r, x)
    BY <1>3, <2>1
  <2>. QED
    BY <1>1, <2>2, <2>3, <2>4, RelGoes DEF ReleaseInv, RelRows
<1>. QED
  BY <1>2, <1>3 DEF LocateDelete

(* The kind that is deleted joins those before it; the calls by the short   *)
(* name come after all of them.                                             *)
LEMMA CleanStep ==
  ASSUME ReleaseInv, NEW r \in RelRequests, deleteK8sResources(r)
  PROVE  ReleaseInv'
<1>. PICK q : q = relReq[r]
  OBVIOUS
<1>. DEFINE O == NameTried(q)
            next == IF q.kind = Calls THEN [q EXCEPT !.pc = "row"]
                                      ELSE [q EXCEPT !.kind = @ + 1]
<1>1. /\ q \in RelRecords /\ RelRequestInv(q, live) /\ q.pc = "clean"
      /\ UNCHANGED <<project, app, inst>>
  BY RelRequestIs DEF ReleaseInv, deleteK8sResources, Clean
<1>2. q.kind \in 1 .. Calls /\ q.op = "delete" /\ Len(Kinds) = 6 /\ Calls = 12
  BY <1>1, KindsAre DEF RelRequestInv, RelRecords
<1>3. PICK n : n = next
  OBVIOUS
<1>4. /\ n \in RelRecords /\ n.op = "delete" /\ n.pc \in {"clean", "row"} /\ n.inst = q.inst
      /\ n.cluster = q.cluster /\ n.place = q.place
      /\ n.failed = q.failed /\ n.raced = q.raced
      /\ n.pc = "clean" => n.kind = q.kind + 1 /\ q.kind + 1 \in 1 .. Calls
      /\ n.pc = "row" => q.kind = Calls
  BY <1>1, <1>2, <1>3 DEF RelRecords
<1>5. CASE q.cluster \in up /\ live' = live \ O /\ Goes(r, n)
  <2>1. Cleaned(n, live')
    <3>. SUFFICES ASSUME ~n.failed, ~n.raced, NEW k \in 1 .. Len(Kinds),
                         n.pc = "clean" => k < n.kind
                  PROVE  Object(n, Kinds[k]) \notin live'
      BY DEF Cleaned
    <3>1. Object(n, Kinds[k]) = Object(q, Kinds[k])
      BY <1>4 DEF Object
    <3>2. CASE k < q.kind
      BY <1>1, <1>4, <1>5, <3>1, <3>2 DEF RelRequestInv, Cleaned
    <3>3. CASE k = q.kind
      <4>1. O = {Object(q, Kinds[k])}
        BY <1>2, <3>3 DEF NameTried, FullName
      <4>. QED
        BY <1>5, <3>1, <4>1
    <3>4. k < q.kind \/ k = q.kind
      BY <1>2, <1>4
    <3>. QED
      BY <3>2, <3>3, <3>4
  <2>2. RelRequestInv(n, live')
    BY <1>1, <1>2, <1>4, <2>1 DEF RelRequestInv
  <2>. QED
    BY <1>1, <1>4, <1>5, <2>2, RelGoes DEF ReleaseInv, RelRows
<1>6. CASE Goes(r, [n EXCEPT !.failed = TRUE]) /\ UNCHANGED live
  <2>1. PICK x : x = [n EXCEPT !.failed = TRUE]
    OBVIOUS
  <2>2. /\ x \in RelRecords /\ x.op = "delete" /\ x.pc = n.pc /\ x.inst = q.inst /\ x.failed
        /\ x.cluster = q.cluster /\ x.place = q.place /\ x.kind = n.kind
    BY <1>4, <2>1 DEF RelRecords
  <2>3. RelRequestInv(x, live)
    BY <1>1, <1>2, <1>4, <2>2 DEF RelRequestInv, Cleaned
  <2>. QED
    BY <1>1, <1>6, <2>1, <2>2, <2>3, RelGoes DEF ReleaseInv, RelRows
<1>. QED
  BY <1>3, <1>5, <1>6 DEF deleteK8sResources, Clean

LEMMA DeleteRowStep ==
  ASSUME ReleaseInv, NEW r \in RelRequests, DeleteRow(r)
  PROVE  ReleaseInv'
<1>1. UNCHANGED <<project, app>>
      /\ (inst' = [inst EXCEPT ![relReq[r].inst] = Gone] \/ inst' = inst)
  BY DEF DeleteRow
<1>2. RelRows'
  BY <1>1 DEF ReleaseInv, RelRows, Gone
<1>. QED
  BY <1>2, RelEnds DEF DeleteRow, ReleaseInv

LEMMA ReleaseStutters ==
  ASSUME ReleaseInv, UNCHANGED relVars
  PROVE  ReleaseInv'
BY DEF relVars, ReleaseInv, RelRows, RelHands

LEMMA ReleaseGoesOn ==
  ASSUME ReleaseInv, ReleaseNext
  PROVE  ReleaseInv'
<1>1. ASSUME NEW r \in RelRequests,
             LocateDelete(r) \/ deleteK8sResources(r) \/ DeleteRow(r)
      PROVE  ReleaseInv'
  BY <1>1, LocateDeleteStep, CleanStep, DeleteRowStep
<1>. QED
  BY <1>1, ReleaseStutters, ProjectStep, ProjectMovesStep, InstanceBegins, PutStep DEF ReleaseNext

(* Only the deletion of its row takes a request from there to its end.      *)
LEMMA EndsWithRow ==
  ASSUME ReleaseInv, ReleaseNext \/ UNCHANGED relVars, NEW r \in RelRequests,
         relReq[r].pc = "row", relReq'[r].pc = "idle"
  PROVE  live' = live
<1>. PICK q : q = relReq[r]
  OBVIOUS
<1>1. q \in RelRecords /\ q.pc = "row" /\ q.op = "delete"
  BY RelRequestIs DEF ReleaseInv, RelRequestInv, RelRecords
<1>. SUFFICES ASSUME live' # live PROVE FALSE
  OBVIOUS
<1>2. ASSUME NEW s \in RelRequests, NEW o, NEW n, Put(s, o, n), s # r PROVE FALSE
  <2>1. relReq'[r] = q \/ relReq'[r] = [q EXCEPT !.raced = TRUE]
    BY <1>2 DEF Put
  <2>2. [q EXCEPT !.raced = TRUE].pc = "row"
    BY <1>1 DEF RelRecords
  <2>. QED
    BY <1>1, <2>1, <2>2
<1>3. PICK s \in RelRequests :
        PutWorkload(s) \/ PutService(s) \/ PutIngress(s) \/ deleteK8sResources(s)
  BY DEF ReleaseNext, relVars, createK8sProject, deleteK8sProject, createK8sApp, updateK8sApp,
         deleteK8sApp, CheckProject, updateK8sProject, createK8sInstance, updateK8sInstance,
         deployK8sInstance, deleteK8sInstance, LocateSync, LocateDelete, DeleteRow
<1>4. s # r
  BY <1>3 DEF PutWorkload, PutService, PutIngress, deleteK8sResources, Clean
<1>5. CASE PutWorkload(s) \/ PutService(s) \/ PutIngress(s)
  BY <1>2, <1>4, <1>5 DEF PutWorkload, PutService, PutIngress
<1>6. CASE deleteK8sResources(s)
  <2>1. relReq'[r] = q
    BY <1>4, <1>6 DEF deleteK8sResources, Clean, Goes, ReleaseInv, RelHands
  <2>. QED
    BY <1>1, <2>1
<1>. QED
  BY <1>3, <1>5, <1>6

LEMMA DeletionCleans ==
  ASSUME ReleaseInv, ReleaseNext \/ UNCHANGED relVars
  PROVE  DeleteCleansStep
<1>. SUFFICES ASSUME NEW r \in RelRequests, relReq[r].pc = "row", ~relReq[r].failed,
                     ~relReq[r].raced, relReq'[r].pc = "idle", NEW o \in live',
                     o.inst = relReq[r].inst, o.cluster = relReq[r].cluster,
                     o.place = relReq[r].place
              PROVE  FALSE
  BY DEF DeleteCleansStep
<1>1. o \in live /\ o \in LiveObjects
  BY EndsWithRow DEF ReleaseInv, RelHands
<1>2. PICK k \in 1 .. Len(Kinds) : o.kind = Kinds[k]
  BY <1>1 DEF LiveObjects, KindNames
<1>3. o = Object(relReq[r], Kinds[k])
  BY <1>1, <1>2 DEF LiveObjects, Object
<1>. QED
  BY <1>1, <1>3, RelRequestIs DEF ReleaseInv, RelRequestInv, Cleaned

-----------------------------------------------------------------------------
(* YAML templates and tasks.                                                *)
TemplateRows == [state : {"unborn", "there", "gone"}, docs : Seq(YamlObjects)]

TaskRows == [state : {"unborn", "there", "gone"}, template : YamlTemplates \cup {"none"},
             variables : YamlVariables \cup {"none"},
             status : {"none", "pending", "applied", "failed"}]

LogRows == [variables : YamlVariables \cup {"none"}, status : {"none", "applied", "failed"}]

YamlReqRecords ==
  [op : {"none", "delete", "apply"}, pc : {"idle", "delete", "template", "apply", "log", "status"},
   id : YamlTemplates \cup YamlTasks \cup {"none"}, row : TaskRows,
   docs : Seq(YamlObjects), ok : BOOLEAN, logged : BOOLEAN, calm : BOOLEAN]

Applying == {"template", "apply", "log", "status"}

(* The objects of the first n documents of a template are as v says.        *)
SetTo(docs, n, v) == \A i \in 1 .. n : yamlObject[docs[i]] = v

Docs(row) == yamlTemplate[row.template].docs

(* What a request to which nothing has happened relies on: the row it read  *)
(* is the row there is, and of the documents those that it has not before it*)
(* any more are applied.                                                    *)
YamlCalm(q) ==
  /\ q.pc \in Applying => yamlTask[q.id] = q.row
  /\ q.pc = "delete" => GetK8sYamlTaskByTemplateId(q.id) = {}
  /\ q.pc = "apply" =>
       \E n \in Nat :
         /\ Len(Docs(q.row)) = n + Len(q.docs)
         /\ \A i \in 1 .. Len(q.docs) : q.docs[i] = Docs(q.row)[n + i]
         /\ SetTo(Docs(q.row), n, q.row.variables)
  /\ q.pc = "status" =>
       /\ q.logged => yamlLog[q.id] = [variables |-> q.row.variables,
                                       status |-> IF q.ok THEN "applied" ELSE "failed"]
       /\ q.ok => SetTo(Docs(q.row), Len(Docs(q.row)), q.row.variables)

(* A row that is there names a template that was there.                     *)
GoodTask(row) ==
  row.state = "there" =>
    /\ row.status # "none" /\ row.template \in YamlTemplates /\ row.variables \in YamlVariables
    /\ yamlTemplate[row.template].state # "unborn"

YamlReqInv(q) ==
  /\ q.pc \in Applying =>
       q.id \in YamlTasks /\ q.row.state = "there" /\ GoodTask(q.row)
  /\ q.pc = "delete" => q.id \in YamlTemplates /\ yamlTemplate[q.id].state # "unborn"
  /\ q.pc \in {"template", "apply"} => q.ok
  /\ q.pc = "log" => ~q.ok
  /\ q.pc # "status" => ~q.logged
  /\ q.calm => YamlCalm(q)

YamlInv ==
  /\ yamlTemplate \in [YamlTemplates -> TemplateRows]
  /\ yamlTask \in [YamlTasks -> TaskRows]
  /\ yamlLog \in [YamlTasks -> LogRows]
  /\ yamlObject \in [YamlObjects -> YamlVariables \cup {"none"}]
  /\ yamlReq \in [YamlRequests -> YamlReqRecords]
  /\ yamlEdits \in 0 .. MaxYamlEdits
  /\ \A t \in YamlTasks : GoodTask(yamlTask[t])
  /\ \A q \in YamlRequests : YamlReqInv(yamlReq[q])

LEMMA NoYamlReqIs ==
  /\ NoYamlTask \in TaskRows /\ ~(NoYamlTask.state = "there")
  /\ NoYamlReq \in YamlReqRecords /\ NoYamlReq.pc = "idle" /\ NoYamlReq.ok /\ ~NoYamlReq.logged
BY DEF NoYamlReq, NoYamlTask, YamlReqRecords, TaskRows

LEMMA YamlStart ==
  ASSUME YamlInit
  PROVE  YamlInv
<1>. USE DEF YamlInit
<1>1. yamlTemplate \in [YamlTemplates -> TemplateRows]
  BY DEF NoTemplate, TemplateRows
<1>2. yamlLog \in [YamlTasks -> LogRows]
  BY DEF NoYamlLog, LogRows
<1>3. \A t \in YamlTasks : yamlTask[t] = NoYamlTask
  OBVIOUS
<1>4. \A q \in YamlRequests : yamlReq[q] = NoYamlReq
  OBVIOUS
<1>5. \A q \in YamlRequests : YamlReqInv(yamlReq[q])
  BY <1>4, NoYamlReqIs DEF YamlReqInv, YamlCalm, Applying
<1>. QED
  BY <1>1, <1>2, <1>3, <1>4, <1>5, NoYamlReqIs, K8sYamlAssumption DEF YamlInv, GoodTask

LEMMA YamlTyped ==
  ASSUME YamlInv
  PROVE  YamlTypeOK
BY DEF YamlInv, YamlTypeOK, GoodTask, TaskRows, LogRows

(* What is true of a request depends on the rows only, and templates are    *)
(* not born again.                                                          *)
LEMMA YamlReqStays ==
  ASSUME NEW q, YamlReqInv(q), UNCHANGED yamlRows
  PROVE  YamlReqInv(q)'
BY DEF YamlReqInv, YamlCalm, GoodTask, SetTo, Docs, yamlRows, GetK8sYamlTaskByTemplateId, YamlTasksThere

BornStay == \A k \in YamlTemplates : yamlTemplate[k].state # "unborn" => yamlTemplate'[k].state # "unborn"

LEMMA YamlDisturbed ==
  ASSUME NEW y \in YamlReqRecords, YamlReqInv(y), BornStay
  PROVE  /\ [y EXCEPT !.calm = FALSE] \in YamlReqRecords
         /\ YamlReqInv([y EXCEPT !.calm = FALSE])'
<1>. PICK x : x = [y EXCEPT !.calm = FALSE]
  OBVIOUS
<1>1. /\ x \in YamlReqRecords /\ ~x.calm
      /\ x.pc = y.pc /\ x.id = y.id /\ x.row = y.row /\ x.ok = y.ok /\ x.logged = y.logged
  BY DEF YamlReqRecords
<1>2. YamlReqInv(x)'
  BY <1>1 DEF YamlReqInv, GoodTask, BornStay
<1>. QED
  BY <1>1, <1>2

(* A request goes on; the others are disturbed, or nothing has happened.    *)
LEMMA YamlGoesOn ==
  ASSUME YamlInv, NEW q \in YamlRequests, NEW x \in YamlReqRecords, YamlGoes(q, x), BornStay,
         YamlReqInv(x)'
  PROVE  /\ yamlReq' \in [YamlRequests -> YamlReqRecords]
         /\ \A s \in YamlRequests : YamlReqInv(yamlReq[s])'
<1>1. ASSUME NEW s \in YamlRequests, s # q
      PROVE  yamlReq'[s] \in YamlReqRecords /\ YamlReqInv(yamlReq[s])'
  <2>. PICK y : y = yamlReq[s]
    OBVIOUS
  <2>1. y \in YamlReqRecords /\ YamlReqInv(y)
    BY DEF YamlInv
  <2>2. CASE UNCHANGED yamlRows
    <3>1. yamlReq'[s] = [y EXCEPT !.calm = y.calm /\ TRUE]
      BY <1>1, <2>2 DEF YamlGoes
    <3>2. [y EXCEPT !.calm = y.calm /\ TRUE] = y
      BY <2>1 DEF YamlReqRecords
    <3>3. yamlReq'[s] = y /\ YamlReqInv(y)'
      BY <2>1, <2>2, <3>1, <3>2, YamlReqStays
    <3>. QED
      BY <2>1, <3>3
  <2>3. CASE ~UNCHANGED yamlRows
    <3>1. yamlReq'[s] = [y EXCEPT !.calm = y.calm /\ FALSE]
      BY <1>1, <2>3 DEF YamlGoes
    <3>2. yamlReq'[s] = [y EXCEPT !.calm = FALSE]
      BY <3>1
    <3>. QED
      BY <2>1, <3>2, YamlDisturbed
  <2>. QED
    BY <2>2, <2>3
<1>2. yamlReq'[q] = x
  BY DEF YamlGoes
<1>3. \A s \in YamlRequests : yamlReq'[s] \in YamlReqRecords /\ YamlReqInv(yamlReq[s])'
  BY <1>1, <1>2
<1>4. yamlReq' = [s \in YamlRequests |-> yamlReq'[s]]
  BY DEF YamlGoes
<1>. QED
  BY <1>3, <1>4

LEMMA YamlEdited ==
  ASSUME YamlInv, YamlEdit, BornStay
  PROVE  /\ yamlReq' \in [YamlRequests -> YamlReqRecords]
         /\ \A s \in YamlRequests : YamlReqInv(yamlReq[s])'
         /\ yamlEdits' \in 0 .. MaxYamlEdits
         /\ UNCHANGED <<yamlLog, yamlObject>>
<1>1. ASSUME NEW s \in YamlRequests
      PROVE  yamlReq'[s] \in YamlReqRecords /\ YamlReqInv(yamlReq[s])'
  <2>. PICK y : y = yamlReq[s]
    OBVIOUS
  <2>1. y \in YamlReqRecords /\ YamlReqInv(y) /\ yamlReq'[s] = [y EXCEPT !.calm = FALSE]
    BY DEF YamlInv, YamlEdit
  <2>. QED
    BY <2>1, YamlDisturbed
<1>2. yamlReq' = [s \in YamlRequests |-> yamlReq'[s]]
  BY DEF YamlEdit
<1>. QED
  BY <1>1, <1>2, K8sYamlAssumption DEF YamlEdit, YamlRequest, YamlInv

LEMMA YamlBegun ==
  ASSUME YamlInv, NEW q \in YamlRequests, NEW op \in {"delete", "apply"},
         NEW pc \in {"delete", "template"}, NEW id \in YamlTemplates \cup YamlTasks,
         NEW row \in TaskRows, YamlBegins(q, op, pc, id, row),
         pc = "delete" => /\ id \in YamlTemplates /\ yamlTemplate[id].state # "unborn"
                          /\ GetK8sYamlTaskByTemplateId(id) = {},
         pc = "template" => id \in YamlTasks /\ row = yamlTask[id] /\ row.state = "there"
  PROVE  YamlInv'
<1>. PICK x : x = [NoYamlReq EXCEPT !.op = op, !.pc = pc, !.id = id, !.row = row, !.calm = TRUE]
  OBVIOUS
<1>1. /\ x \in YamlReqRecords /\ x.pc = pc /\ x.id = id /\ x.row = row
      /\ x.calm /\ x.ok /\ ~x.logged
  BY NoYamlReqIs DEF YamlReqRecords
<1>2. yamlReq' = [yamlReq EXCEPT ![q] = x] /\ UNCHANGED yamlRows
  BY DEF YamlBegins
<1>3. YamlReqInv(x)
  BY <1>1 DEF YamlReqInv, YamlCalm, Applying, YamlInv
<1>4. \A s \in YamlRequests : YamlReqInv(yamlReq'[s])
  BY <1>2, <1>3 DEF YamlInv
<1>5. ASSUME NEW s \in YamlRequests PROVE YamlReqInv(yamlReq[s])'
  <2>1. PICK y : y = yamlReq'[s]
    OBVIOUS
  <2>2. YamlReqInv(y)
    BY <1>4, <2>1
  <2>3. YamlReqInv(y)'
    BY <1>2, <2>2, YamlReqStays
  <2>. QED
    BY <2>1, <2>3
<1>6. yamlReq' \in [YamlRequests -> YamlReqRecords] /\ yamlEdits' \in 0 .. MaxYamlEdits
  BY <1>1, <1>2, K8sYamlAssumption DEF YamlInv, YamlBegins, YamlRequest
<1>. QED
  BY <1>2, <1>5, <1>6 DEF YamlInv, GoodTask, yamlRows

LEMMA DocsAre ==
  ASSUME NEW docs \in Lists(YamlObjects)
  PROVE  docs \in Seq(YamlObjects)
<1>1. PICK k \in 1 .. Cardinality(YamlObjects) : docs \in [1 .. k -> YamlObjects]
  BY DEF Lists
<1>2. k \in Nat
  BY <1>1
<1>. QED
  BY <1>1, <1>2

LEMMA TemplateStep ==
  ASSUME YamlInv, NEW k \in YamlTemplates, NEW docs \in Lists(YamlObjects),
         createK8sYamlTemplate(k, docs) \/ updateK8sYamlTemplate(k, docs)
  PROVE  YamlInv'
<1>1. docs \in Seq(YamlObjects)
  BY DocsAre
<1>2. PICK x \in TemplateRows : x.state = "there" /\ yamlTemplate' = [yamlTemplate EXCEPT ![k] = x]
  <2>1. CASE createK8sYamlTemplate(k, docs)
    <3>1. [state |-> "there", docs |-> docs] \in TemplateRows
      BY <1>1 DEF TemplateRows
    <3>. QED
      BY <2>1, <3>1 DEF createK8sYamlTemplate
  <2>2. CASE updateK8sYamlTemplate(k, docs)
    <3>1. PICK x : x = [yamlTemplate[k] EXCEPT !.docs = docs]
      OBVIOUS
    <3>2. yamlTemplate[k] \in TemplateRows /\ yamlTemplate[k].state = "there"
      BY <2>2 DEF updateK8sYamlTemplate, Templates, YamlInv
    <3>3. x \in TemplateRows /\ x.state = "there"
      BY <1>1, <3>1, <3>2 DEF TemplateRows
    <3>4. yamlTemplate' = [yamlTemplate EXCEPT ![k] = x]
      BY <2>2, <3>1 DEF updateK8sYamlTemplate, YamlInv
    <3>. QED
      BY <3>3, <3>4
  <2>. QED
    BY <2>1, <2>2
<1>3. YamlEdit /\ UNCHANGED yamlTask
  BY DEF createK8sYamlTemplate, updateK8sYamlTemplate
<1>4. BornStay /\ yamlTemplate' \in [YamlTemplates -> TemplateRows]
  BY <1>2 DEF BornStay, YamlInv
<1>. QED
  BY <1>3, <1>4, YamlEdited DEF YamlInv, GoodTask, BornStay

LEMMA TaskStep ==
  ASSUME YamlInv, NEW t \in YamlTasks,
         \/ \E k \in YamlTemplates, v \in YamlVariables :
              \/ createK8sYamlTask(t, k, v)
              \/ \E s \in {"none", "pending", "applied", "failed"} : updateK8sYamlTask(t, k, v, s)
         \/ deleteK8sYamlTask(t)
  PROVE  YamlInv'
<1>1. YamlEdit /\ UNCHANGED yamlTemplate
  BY DEF createK8sYamlTask, updateK8sYamlTask, deleteK8sYamlTask
<1>2. PICK x \in TaskRows : GoodTask(x) /\ yamlTask' = [yamlTask EXCEPT ![t] = x]
  <2>1. ASSUME NEW k \in YamlTemplates, NEW v \in YamlVariables, createK8sYamlTask(t, k, v)
        PROVE  \E x \in TaskRows : GoodTask(x) /\ yamlTask' = [yamlTask EXCEPT ![t] = x]
    <3>1. PICK x : x = [state |-> "there", template |-> k, variables |-> v, status |-> "pending"]
      OBVIOUS
    <3>2. x \in TaskRows /\ GoodTask(x)
      BY <2>1, <3>1 DEF TaskRows, GoodTask, createK8sYamlTask
    <3>. QED
      BY <2>1, <3>1, <3>2 DEF createK8sYamlTask
  <2>2. ASSUME NEW k \in YamlTemplates, NEW v \in YamlVariables,
               NEW s \in {"none", "pending", "applied", "failed"}, updateK8sYamlTask(t, k, v, s)
        PROVE  \E x \in TaskRows : GoodTask(x) /\ yamlTask' = [yamlTask EXCEPT ![t] = x]
    <3>. PICK y : y = yamlTask[t]
      OBVIOUS
    <3>1. y \in TaskRows /\ y.state = "there" /\ GoodTask(y)
      BY <2>2 DEF updateK8sYamlTask, YamlTasksThere, YamlInv
    <3>2. PICK x : x = [y EXCEPT !.template = k, !.variables = v,
                                 !.status = IF s = "none" THEN @ ELSE s]
      OBVIOUS
    <3>3. x \in TaskRows /\ x.template = k /\ x.variables = v /\ x.status # "none"
      BY <3>1, <3>2 DEF TaskRows, GoodTask
    <3>4. GoodTask(x)
      BY <2>2, <3>3 DEF GoodTask, updateK8sYamlTask
    <3>5. yamlTask' = [yamlTask EXCEPT ![t] = x]
      BY <2>2, <3>2 DEF updateK8sYamlTask, YamlInv
    <3>. QED
      BY <3>3, <3>4, <3>5
  <2>3. CASE deleteK8sYamlTask(t)
    <3>1. PICK x : x = [NoYamlTask EXCEPT !.state = "gone"]
      OBVIOUS
    <3>2. x \in TaskRows /\ x.state = "gone"
      BY <3>1, NoYamlReqIs DEF TaskRows
    <3>. QED
      BY <2>3, <3>1, <3>2 DEF deleteK8sYamlTask, GoodTask
  <2>. QED
    BY <2>1, <2>2, <2>3
<1>3. BornStay
  BY <1>1 DEF BornStay
<1>. QED
  BY <1>1, <1>2, <1>3, YamlEdited DEF YamlInv, GoodTask

LEMMA YamlRequestsBegin ==
  ASSUME YamlInv, NEW q \in YamlRequests,
         \/ \E k \in YamlTemplates : deleteK8sYamlTemplate(q, k)
         \/ \E t \in YamlTasks : applyK8sYamlTaskOne(q, t)
  PROVE  YamlInv'
<1>1. ASSUME NEW k \in YamlTemplates, deleteK8sYamlTemplate(q, k) PROVE YamlInv'
  BY <1>1, NoYamlReqIs, YamlBegun DEF deleteK8sYamlTemplate, Templates
<1>2. ASSUME NEW t \in YamlTasks, applyK8sYamlTaskOne(q, t) PROVE YamlInv'
  <2>1. PICK row : row = yamlTask[t]
    OBVIOUS
  <2>2. row \in TaskRows /\ row.state = "there" /\ YamlBegins(q, "apply", "template", t, row)
    BY <1>2, <2>1 DEF applyK8sYamlTaskOne, YamlTasksThere, YamlInv
  <2>. QED
    BY <2>1, <2>2, YamlBegun
<1>. QED
  BY <1>1, <1>2

LEMMA YamlIdle ==
  NoYamlReq \in YamlReqRecords /\ YamlReqInv(NoYamlReq)
BY NoYamlReqIs DEF YamlReqInv, YamlCalm, Applying

LEMMA DeleteTemplateStep ==
  ASSUME YamlInv, NEW q \in YamlRequests, DeleteYamlTemplate(q)
  PROVE  YamlInv'
<1>1. yamlReq[q].id \in YamlTemplates
  BY DEF YamlInv, YamlReqInv, DeleteYamlTemplate
<1>2. PICK x : x = [NoTemplate EXCEPT !.state = "gone"]
  OBVIOUS
<1>3. x \in TemplateRows /\ x.state = "gone"
  <2>1. NoTemplate \in TemplateRows
    BY DEF NoTemplate, TemplateRows
  <2>. QED
    BY <1>2, <2>1 DEF TemplateRows
<1>4. /\ yamlTemplate' = [yamlTemplate EXCEPT ![yamlReq[q].id] = x] \/ yamlTemplate' = yamlTemplate
      /\ UNCHANGED <<yamlTask, yamlLog, yamlObject, yamlEdits>> /\ YamlGoes(q, NoYamlReq)
  BY <1>2 DEF DeleteYamlTemplate, YamlGoes
<1>5. BornStay /\ yamlTemplate' \in [YamlTemplates -> TemplateRows]
  BY <1>1, <1>3, <1>4 DEF BornStay, YamlInv
<1>6. YamlReqInv(NoYamlReq)'
  BY YamlIdle, NoYamlReqIs DEF YamlReqInv, YamlCalm, Applying
<1>. QED
  BY <1>4, <1>5, <1>6, YamlIdle, YamlGoesOn DEF YamlInv, GoodTask, BornStay

LEMMA ReadTemplateStep ==
  ASSUME YamlInv, NEW q \in YamlRequests, ReadYamlTemplate(q)
  PROVE  YamlInv'
<1>. PICK y : y = yamlReq[q]
  OBVIOUS
<1>. DEFINE k == y.row.template
<1>1. y \in YamlReqRecords /\ YamlReqInv(y) /\ y.pc = "template"
  BY DEF YamlInv, ReadYamlTemplate
<1>2. UNCHANGED yamlRows
  BY DEF ReadYamlTemplate
<1>3. BornStay
  BY <1>2 DEF BornStay, yamlRows
<1>4. k \in YamlTemplates
  BY <1>1 DEF YamlReqInv, Applying, GoodTask
<1>5. CASE YamlGoes(q, [y EXCEPT !.pc = "apply", !.docs = yamlTemplate[k].docs]) /\ k \in Templates
  <2>. PICK x : x = [y EXCEPT !.pc = "apply", !.docs = yamlTemplate[k].docs]
    OBVIOUS
  <2>1. yamlTemplate[k].docs \in Seq(YamlObjects)
    BY <1>4 DEF YamlInv, TemplateRows
  <2>2. /\ x \in YamlReqRecords /\ x.pc = "apply" /\ x.docs = Docs(y.row)
        /\ x.id = y.id /\ x.row = y.row /\ x.ok = y.ok /\ x.calm = y.calm /\ ~x.logged
    BY <1>1, <2>1 DEF YamlReqRecords, YamlReqInv, Docs
  <2>3. ASSUME x.calm
        PROVE  /\ Len(Docs(x.row)) = 0 + Len(x.docs)
               /\ \A i \in 1 .. Len(x.docs) : x.docs[i] = Docs(x.row)[0 + i]
               /\ SetTo(Docs(x.row), 0, x.row.variables)
    <3>1. Len(x.docs) \in Nat
      BY <2>1, <2>2 DEF Docs
    <3>. QED
      BY <2>2, <3>1 DEF SetTo
  <2>4. YamlReqInv(x)
    BY <1>1, <2>2, <2>3 DEF YamlReqInv, YamlCalm, Applying, Docs
  <2>. QED
    BY <1>2, <1>3, <1>5, <2>2, <2>4, YamlReqStays, YamlGoesOn DEF YamlInv, GoodTask, yamlRows, YamlGoes
<1>6. CASE YamlGoes(q, NoYamlReq)
  BY <1>2, <1>3, <1>6, YamlIdle, YamlReqStays, YamlGoesOn DEF YamlInv, GoodTask, yamlRows, YamlGoes
<1>. QED
  BY <1>5, <1>6 DEF ReadYamlTemplate

(* One more document is applied, or the application fails.                  *)
LEMMA ApplyStep ==
  ASSUME YamlInv, NEW q \in YamlRequests, ApplyDocument(q)
  PROVE  YamlInv'
<1>. PICK y : y = yamlReq[q]
  OBVIOUS
<1>. DEFINE o == Head(y.docs)
            v == y.row.variables
<1>1. /\ y \in YamlReqRecords /\ YamlReqInv(y) /\ y.pc = "apply" /\ y.docs # <<>>
      /\ y.docs \in Seq(YamlObjects)
      /\ UNCHANGED <<yamlTemplate, yamlTask, yamlLog>>
  BY DEF YamlInv, ApplyDocument, YamlReqRecords
<1>2. /\ Len(y.docs) \in Nat \ {0} /\ o \in YamlObjects /\ o = y.docs[1]
      /\ Tail(y.docs) \in Seq(YamlObjects) /\ Len(Tail(y.docs)) = Len(y.docs) - 1
      /\ \A i \in 1 .. Len(Tail(y.docs)) : Tail(y.docs)[i] = y.docs[i + 1]
  BY <1>1, HeadTailProperties, EmptySeq
<1>3. v \in YamlVariables /\ BornStay
  BY <1>1 DEF YamlReqInv, Applying, GoodTask, BornStay
<1>4. yamlObject' \in [YamlObjects -> YamlVariables \cup {"none"}]
  BY <1>2, <1>3 DEF ApplyDocument, YamlInv, Set
<1>5. ASSUME NEW x \in YamlReqRecords, YamlGoes(q, x), YamlReqInv(x)' PROVE YamlInv'
  BY <1>1, <1>3, <1>4, <1>5, YamlGoesOn DEF YamlInv, GoodTask, YamlGoes
<1>6. CASE yamlObject' = Set(q) /\ YamlGoes(q, [y EXCEPT !.docs = Tail(@)])
  <2>. PICK x : x = [y EXCEPT !.docs = Tail(@)]
    OBVIOUS
  <2>1. /\ x \in YamlReqRecords /\ x.pc = "apply" /\ x.docs = Tail(y.docs)
        /\ x.id = y.id /\ x.row = y.row /\ x.ok = y.ok /\ x.calm = y.calm /\ ~x.logged
    BY <1>1, <1>2 DEF YamlReqRecords, YamlReqInv
  <2>2. ASSUME x.calm PROVE YamlCalm(x)'
    <3>1. YamlCalm(y)
      BY <1>1, <2>1, <2>2 DEF YamlReqInv
    <3>. PICK D : D = Docs(y.row)
      OBVIOUS
    <3>2. PICK n \in Nat : /\ Len(D) = n + Len(y.docs)
                           /\ \A i \in 1 .. Len(y.docs) : y.docs[i] = D[n + i]
                           /\ SetTo(D, n, v)
      BY <1>1, <3>1 DEF YamlCalm
    <3>3. Docs(x.row)' = D
      BY <1>1, <2>1 DEF Docs
    <3>4. Len(D) = (n + 1) + Len(x.docs)
      BY <1>2, <2>1, <3>2
    <3>5. \A i \in 1 .. Len(x.docs) : x.docs[i] = D[(n + 1) + i]
      <4>. TAKE i \in 1 .. Len(x.docs)
      <4>1. x.docs[i] = y.docs[i + 1] /\ i + 1 \in 1 .. Len(y.docs)
        BY <1>2, <2>1
      <4>2. PICK j \in 1 .. Len(y.docs) : j = i + 1
        BY <4>1
      <4>3. y.docs[j] = D[n + j]
        BY <3>2
      <4>4. n + j = (n + 1) + i
        BY <1>2, <2>1, <4>2
      <4>. QED
        BY <4>1, <4>2, <4>3, <4>4
    <3>6. D[n + 1] = o
      <4>1. PICK j \in 1 .. Len(y.docs) : j = 1
        BY <1>2
      <4>2. y.docs[j] = D[n + j]
        BY <3>2
      <4>. QED
        BY <1>2, <4>1, <4>2
    <3>7. \A i \in 1 .. n + 1 : yamlObject'[D[i]] = v
      <4>. TAKE i \in 1 .. n + 1
      <4>1. yamlObject' = [yamlObject EXCEPT ![o] = v]
        BY <1>6 DEF Set
      <4>2. CASE i = n + 1
        BY <1>2, <3>6, <4>1, <4>2 DEF YamlInv
      <4>3. CASE i \in 1 .. n
        <5>1. yamlObject[D[i]] = v
          BY <3>2, <4>3 DEF SetTo
        <5>2. DOMAIN yamlObject = YamlObjects /\ DOMAIN yamlObject' = YamlObjects
          BY <1>4 DEF YamlInv
        <5>3. D[i] \in YamlObjects
          <6>1. Docs(y.row) \in Seq(YamlObjects)
            BY <1>1 DEF Docs, YamlInv, TemplateRows, YamlReqInv, Applying, GoodTask
          <6>2. i \in 1 .. Len(D)
            BY <1>2, <3>2, <4>3
          <6>. QED
            BY <6>1, <6>2
        <5>. QED
          BY <4>1, <5>1, <5>2, <5>3
      <4>. QED
        BY <3>2, <4>2, <4>3
    <3>8. SetTo(D, n + 1, x.row.variables)'
      BY <2>1, <3>7 DEF SetTo
    <3>9. yamlTask'[x.id] = x.row
      BY <1>1, <2>1, <3>1 DEF YamlCalm, Applying
    <3>10. \E m \in Nat :
             /\ Len(Docs(x.row)') = m + Len(x.docs)
             /\ \A i \in 1 .. Len(x.docs) : x.docs[i] = Docs(x.row)'[m + i]
             /\ SetTo(Docs(x.row), m, x.row.variables)'
      BY <3>3, <3>4, <3>5, <3>8
    <3>. QED
      BY <2>1, <3>9, <3>10 DEF YamlCalm
  <2>3. YamlReqInv(x)'
    BY <1>1, <2>1, <2>2 DEF YamlReqInv, Applying, GoodTask
  <2>. QED
    BY <1>5, <1>6, <2>1, <2>3
<1>7. CASE YamlGoes(q, [y EXCEPT !.ok = FALSE, !.pc = "log"])
  <2>. PICK x : x = [y EXCEPT !.ok = FALSE, !.pc = "log"]
    OBVIOUS
  <2>1. /\ x \in YamlReqRecords /\ x.pc = "log" /\ ~x.ok
        /\ x.id = y.id /\ x.row = y.row /\ x.calm = y.calm /\ ~x.logged
    BY <1>1 DEF YamlReqRecords, YamlReqInv
  <2>2. x.calm => yamlTask'[x.id] = x.row
    BY <1>1, <2>1 DEF YamlReqInv, YamlCalm, Applying
  <2>3. YamlReqInv(x)'
    BY <1>1, <2>1, <2>2 DEF YamlReqInv, Applying, GoodTask, YamlCalm
  <2>. QED
    BY <1>5, <1>7, <2>1, <2>3
<1>. QED
  BY <1>6, <1>7 DEF ApplyDocument

LEMMA LogStep ==
  ASSUME YamlInv, NEW q \in YamlRequests, LogApplication(q)
  PROVE  YamlInv'
<1>. PICK y : y = yamlReq[q]
  OBVIOUS
<1>1. /\ y \in YamlReqRecords /\ YamlReqInv(y) /\ y.pc \in {"apply", "log"}
      /\ y.pc = "apply" => y.docs = <<>>
      /\ UNCHANGED <<yamlTemplate, yamlTask, yamlObject>>
  BY DEF YamlInv, LogApplication
<1>. PICK entry : entry = [variables |-> y.row.variables, status |-> Outcome(q)]
  OBVIOUS
<1>2. y.id \in YamlTasks /\ y.row.state = "there" /\ GoodTask(y.row)
  BY <1>1 DEF YamlReqInv, Applying
<1>3. entry \in LogRows
  BY <1>2 DEF LogRows, GoodTask, Outcome
<1>4. BornStay
  BY <1>1 DEF BornStay
<1>. DEFINE Written == yamlLog' = [yamlLog EXCEPT ![y.id] = entry]
            Next(l) == [y EXCEPT !.pc = "status", !.logged = l]
<1>0. ~y.logged
  BY <1>1 DEF YamlReqInv
<1>. PICK x : /\ YamlGoes(q, x)
              /\ \/ Written /\ x = Next(TRUE)
                 \/ UNCHANGED yamlLog /\ x = [y EXCEPT !.pc = "status"]
  BY DEF LogApplication
<1>5. /\ x \in YamlReqRecords /\ x.pc = "status"
      /\ x.id = y.id /\ x.row = y.row /\ x.ok = y.ok /\ x.calm = y.calm
      /\ x.logged => Written
  BY <1>0, <1>1 DEF YamlReqRecords
<1>6. yamlLog' \in [YamlTasks -> LogRows] /\ (x.logged => yamlLog'[y.id] = entry)
  BY <1>2, <1>3, <1>5 DEF YamlInv
<1>7. ASSUME x.calm PROVE YamlCalm(x)'
  <2>1. YamlCalm(y) /\ yamlTask'[x.id] = x.row
    BY <1>1, <1>5, <1>7 DEF YamlReqInv, YamlCalm, Applying
  <2>2. x.logged => yamlLog'[x.id] = [variables |-> x.row.variables,
                                      status |-> IF x.ok THEN "applied" ELSE "failed"]
    BY <1>5, <1>6 DEF Outcome
  <2>3. ASSUME x.ok PROVE SetTo(Docs(x.row), Len(Docs(x.row)), x.row.variables)
    <3>1. y.pc = "apply"
      BY <1>1, <1>5, <2>3 DEF YamlReqInv
    <3>2. PICK n \in Nat : /\ Len(Docs(y.row)) = n + Len(y.docs)
                           /\ SetTo(Docs(y.row), n, y.row.variables)
      BY <2>1, <3>1 DEF YamlCalm
    <3>3. Len(y.docs) = 0
      BY <1>1, <3>1
    <3>. QED
      BY <1>5, <3>2, <3>3
  <2>. QED
    BY <1>1, <1>5, <2>1, <2>2, <2>3 DEF YamlCalm, SetTo, Docs
<1>8. YamlReqInv(x)'
  BY <1>1, <1>2, <1>5, <1>7 DEF YamlReqInv, GoodTask
<1>9. YamlGoes(q, x)
  OBVIOUS
<1>. QED
  BY <1>1, <1>4, <1>5, <1>6, <1>8, <1>9, YamlGoesOn DEF YamlInv, GoodTask, YamlGoes

LEMMA StatusStep ==
  ASSUME YamlInv, NEW q \in YamlRequests, WriteYamlStatus(q)
  PROVE  YamlInv'
<1>. PICK y : y = yamlReq[q]
  OBVIOUS
<1>1. /\ y \in YamlReqRecords /\ YamlReqInv(y) /\ y.pc = "status" /\ YamlGoes(q, NoYamlReq)
      /\ UNCHANGED <<yamlTemplate, yamlLog, yamlObject>>
  BY DEF YamlInv, WriteYamlStatus
<1>2. y.id \in YamlTasks /\ y.row.state = "there" /\ GoodTask(y.row) /\ y.row \in TaskRows
  BY <1>1 DEF YamlReqInv, Applying, YamlReqRecords
<1>. PICK x : x = [y.row EXCEPT !.status = Outcome(q)]
  OBVIOUS
<1>3. x \in TaskRows /\ GoodTask(x)
  BY <1>2 DEF TaskRows, GoodTask, Outcome
<1>4. yamlTask' = yamlTask \/ yamlTask' = [yamlTask EXCEPT ![y.id] = x]
  BY DEF WriteYamlStatus
<1>5. yamlTask' \in [YamlTasks -> TaskRows] /\ \A t \in YamlTasks : GoodTask(yamlTask'[t])
  BY <1>2, <1>3, <1>4 DEF YamlInv
<1>6. BornStay
  BY <1>1 DEF BornStay
<1>7. YamlReqInv(NoYamlReq)'
  BY NoYamlReqIs DEF YamlReqInv, YamlCalm, Applying
<1>. QED
  BY <1>1, <1>5, <1>6, <1>7, YamlIdle, YamlGoesOn DEF YamlInv, GoodTask, YamlGoes

LEMMA YamlStutters ==
  ASSUME YamlInv, UNCHANGED yamlVars
  PROVE  YamlInv'
<1>1. UNCHANGED <<yamlRows, yamlTemplate, yamlTask, yamlLog, yamlObject, yamlReq, yamlEdits>>
  BY DEF yamlVars, yamlRows
<1>2. ASSUME NEW q \in YamlRequests PROVE YamlReqInv(yamlReq[q])'
  <2>1. PICK y : y = yamlReq[q]
    OBVIOUS
  <2>2. YamlReqInv(y)'
    BY <1>1, <2>1, YamlReqStays DEF YamlInv
  <2>. QED
    BY <1>1, <2>1, <2>2
<1>. QED
  BY <1>1, <1>2 DEF YamlInv, GoodTask

LEMMA YamlNextKeeps ==
  ASSUME YamlInv, YamlNext
  PROVE  YamlInv'
<1>1. ASSUME YamlHandlers PROVE YamlInv'
  BY <1>1, TemplateStep, TaskStep, YamlRequestsBegin, DeleteTemplateStep, ReadTemplateStep,
     ApplyStep, LogStep, StatusStep DEF YamlHandlers
<1>. QED
  BY <1>1, YamlStutters DEF YamlNext

(* A request that had something left to do and is idle now has ended.       *)
LEMMA YamlTells ==
  ASSUME YamlInv, YamlNext \/ UNCHANGED yamlVars
  PROVE  YamlTellsStep
<1>. SUFFICES ASSUME NEW q \in YamlRequests, yamlReq[q].calm, yamlReq'[q].pc = "idle",
                     yamlReq[q].pc \in {"status", "delete"}
              PROVE  LET x == yamlReq[q]
                         row == yamlTask'[x.id]
                     IN  /\ x.pc = "status" /\ row.status = Outcome(q) =>
                              /\ x.logged =>
                                   yamlLog[x.id] = [variables |-> row.variables,
                                                    status |-> row.status]
                              /\ row.status = "applied" =>
                                   \A i \in DOMAIN yamlTemplate[row.template].docs :
                                     yamlObject[yamlTemplate[row.template].docs[i]]
                                       = row.variables
                         /\ x.pc = "delete" =>
                              \A t \in YamlTasks : ~(/\ yamlTask'[t].state = "there"
                                                     /\ yamlTask'[t].template = x.id)
  BY DEF YamlTellsStep
<1>. PICK y : y = yamlReq[q]
  OBVIOUS
<1>1. y \in YamlReqRecords /\ YamlReqInv(y) /\ YamlCalm(y)
  BY DEF YamlInv, YamlReqInv
<1>2. ~YamlEdit /\ ~UNCHANGED yamlReq
  <2>1. ASSUME YamlEdit PROVE FALSE
    <3>1. yamlReq'[q] = [y EXCEPT !.calm = FALSE]
      BY <2>1 DEF YamlEdit
    <3>2. [y EXCEPT !.calm = FALSE].pc = y.pc
      BY <1>1 DEF YamlReqRecords
    <3>. QED
      BY <3>1, <3>2
  <2>. QED
    BY <2>1
<1>3. ASSUME NEW s \in YamlRequests, NEW x, YamlGoes(s, x) PROVE s = q
  <2>. SUFFICES ASSUME s # q PROVE FALSE
    OBVIOUS
  <2>1. yamlReq'[q] = [y EXCEPT !.calm = y.calm /\ UNCHANGED yamlRows]
    BY <1>3 DEF YamlGoes
  <2>2. [y EXCEPT !.calm = y.calm /\ UNCHANGED yamlRows].pc = y.pc
    BY <1>1 DEF YamlReqRecords
  <2>. QED
    BY <2>1, <2>2
<1>4. ASSUME NEW s \in YamlRequests, NEW op, NEW pc, NEW id, NEW row,
             YamlBegins(s, op, pc, id, row)
      PROVE  FALSE
  <2>1. s # q
    BY <1>4 DEF YamlBegins
  <2>. QED
    BY <1>4, <2>1 DEF YamlBegins
<1>5. YamlHandlers
  BY <1>2 DEF YamlNext, yamlVars
<1>6. DeleteYamlTemplate(q) \/ WriteYamlStatus(q)
  <2>1. PICK s \in YamlRequests :
          DeleteYamlTemplate(s) \/ WriteYamlStatus(s)
            \/ ReadYamlTemplate(s) \/ ApplyDocument(s) \/ LogApplication(s)
    BY <1>2, <1>4, <1>5 DEF YamlHandlers, createK8sYamlTemplate, updateK8sYamlTemplate,
       createK8sYamlTask, updateK8sYamlTask, deleteK8sYamlTask, deleteK8sYamlTemplate,
       applyK8sYamlTaskOne
  <2>2. s = q
    <3>1. CASE DeleteYamlTemplate(s)
      BY <1>3, <3>1 DEF DeleteYamlTemplate
    <3>2. CASE WriteYamlStatus(s)
      BY <1>3, <3>2 DEF WriteYamlStatus
    <3>3. CASE ReadYamlTemplate(s)
      BY <1>3, <3>3 DEF ReadYamlTemplate
    <3>4. CASE ApplyDocument(s)
      BY <1>3, <3>4 DEF ApplyDocument
    <3>5. CASE LogApplication(s)
      BY <1>3, <3>5 DEF LogApplication
    <3>. QED
      BY <2>1, <3>1, <3>2, <3>3, <3>4, <3>5
  <2>3. y.pc \in {"status", "delete"}
    OBVIOUS
  <2>. QED
    BY <2>1, <2>2, <2>3 DEF ReadYamlTemplate, ApplyDocument, LogApplication
<1>7. ASSUME y.pc = "delete"
      PROVE  \A t \in YamlTasks : ~(yamlTask'[t].state = "there" /\ yamlTask'[t].template = y.id)
  <2>1. DeleteYamlTemplate(q) /\ GetK8sYamlTaskByTemplateId(y.id) = {}
    BY <1>1, <1>6, <1>7 DEF WriteYamlStatus, YamlCalm
  <2>2. UNCHANGED yamlTask
    BY <2>1 DEF DeleteYamlTemplate
  <2>. QED
    BY <2>1, <2>2 DEF GetK8sYamlTaskByTemplateId, YamlTasksThere
<1>. PICK row : row = yamlTask'[y.id]
  OBVIOUS
<1>8. ASSUME y.pc = "status", row.status = Outcome(q)
      PROVE  /\ y.logged => yamlLog[y.id] = [variables |-> row.variables, status |-> row.status]
             /\ row.status = "applied" =>
                  \A i \in DOMAIN yamlTemplate[row.template].docs :
                    yamlObject[yamlTemplate[row.template].docs[i]] = row.variables
  <2>1. y.id \in YamlTasks /\ y.row.state = "there" /\ GoodTask(y.row) /\ y.row \in TaskRows
        /\ yamlTask[y.id] = y.row
    BY <1>1, <1>8 DEF YamlReqInv, Applying, YamlReqRecords, YamlCalm
  <2>2. WriteYamlStatus(q) /\ y.id \in YamlTasksThere
    BY <1>6, <1>8, <2>1 DEF DeleteYamlTemplate, YamlTasksThere
  <2>3. row = [y.row EXCEPT !.status = Outcome(q)] \/ row = y.row
    BY <2>1, <2>2 DEF WriteYamlStatus, YamlInv
  <2>4. /\ row.variables = y.row.variables /\ row.template = y.row.template
        /\ row.status = Outcome(q)
    BY <1>8, <2>1, <2>3 DEF TaskRows
  <2>5. y.logged => yamlLog[y.id] = [variables |-> row.variables, status |-> row.status]
    BY <1>1, <1>8, <2>4 DEF YamlCalm, Outcome
  <2>6. ASSUME row.status = "applied", NEW i \in DOMAIN Docs(row)
        PROVE  yamlObject[Docs(row)[i]] = row.variables
    <3>1. y.ok /\ Docs(row) = Docs(y.row)
      BY <2>4, <2>6 DEF Outcome, Docs
    <3>2. SetTo(Docs(row), Len(Docs(row)), row.variables)
      BY <1>1, <1>8, <2>4, <3>1 DEF YamlCalm
    <3>3. Docs(row) \in Seq(YamlObjects)
      BY <2>1, <2>4 DEF Docs, GoodTask, YamlInv, TemplateRows
    <3>. QED
      BY <2>6, <3>2, <3>3 DEF SetTo
  <2>. QED
    BY <2>5, <2>6 DEF Docs
<1>. QED
  BY <1>7, <1>8

-----------------------------------------------------------------------------
(* What a step of any part does to the clusters: they change by themselves, *)
(* and at most one version is handed out.                                   *)
ClusterMoves ==
  /\ ClusterNext \/ UNCHANGED clusterVars
  /\ UNCHANGED edits \/ Versioned

(* Only clusters that there are get a row, a client or an answer.           *)
LEMMA ClusterStart ==
  ASSUME ClusterInit
  PROVE  ClusterTypeOK
BY KubeClusterAssumption DEF ClusterInit, ClusterTypeOK

(* The client of a cluster is what its row and the last probe say.          *)
LEMMA ClientsRenewed ==
  ASSUME ReNewClientsMap
  PROVE  client' \in [Clusters -> {"none", "probed", "unreachable"}]
<1>. DEFINE Probed(c) == CASE c \notin registered -> "none"
                           [] c \in registered \cap up -> "probed"
                           [] OTHER -> "unreachable"
<1>1. client' = [c \in Clusters |-> Probed(c)]
  BY DEF ReNewClientsMap
<1>2. ASSUME NEW c \in Clusters PROVE Probed(c) \in {"none", "probed", "unreachable"}
  <2>1. CASE c \notin registered
    <3>1. Probed(c) = "none"
      BY <2>1
    <3>. QED
      BY <3>1
  <2>2. CASE c \in registered /\ c \in up
    <3>1. Probed(c) = "probed"
      BY <2>2
    <3>. QED
      BY <3>1
  <2>3. CASE c \in registered /\ c \notin up
    <3>1. Probed(c) = "unreachable"
      BY <2>3
    <3>. QED
      BY <3>1
  <2>. QED
    BY <2>1, <2>2, <2>3
<1>. HIDE DEF Probed
<1>. QED
  BY <1>1, <1>2

LEMMA ClusterKept ==
  ASSUME ClusterTypeOK, ClusterMoves
  PROVE  ClusterTypeOK'
<1>. USE KubeClusterAssumption
<1>1. edits' \in 0..MaxEdits
  BY DEF ClusterTypeOK, ClusterMoves, Versioned
<1>2. CASE UNCHANGED clusterVars
  BY <1>1, <1>2 DEF ClusterTypeOK, clusterVars
<1>3. CASE ReNewClientsMap
  <2>1. UNCHANGED <<registered, up, changes>>
    BY <1>3 DEF ReNewClientsMap
  <2>. QED
    BY <1>1, <1>3, <2>1, ClientsRenewed DEF ClusterTypeOK
<1>4. ASSUME Change PROVE changes' \in 0..MaxChanges
  BY <1>4 DEF Change, ClusterTypeOK
<1>5. CASE deleteK8sClusterBatch
  <2>1. /\ Change /\ UNCHANGED <<client, up>>
        /\ registered' \subseteq registered
    BY <1>5 DEF deleteK8sClusterBatch
  <2>. QED
    BY <1>1, <1>4, <2>1 DEF ClusterTypeOK
<1>6. ASSUME NEW c \in Clusters, createK8sCluster(c) PROVE ClusterTypeOK'
  BY <1>1, <1>4, <1>6 DEF ClusterTypeOK, createK8sCluster
<1>7. ASSUME NEW c \in Clusters, deleteK8sCluster(c) PROVE ClusterTypeOK'
  BY <1>1, <1>4, <1>7 DEF ClusterTypeOK, deleteK8sCluster
<1>8. ASSUME NEW c \in Clusters, ClusterSwitches(c) PROVE ClusterTypeOK'
  <2>1. Change /\ UNCHANGED <<registered, client>> /\ up' \subseteq up \cup {c}
    BY <1>8 DEF ClusterSwitches
  <2>. QED
    BY <1>1, <1>4, <2>1 DEF ClusterTypeOK
<1>. QED
  BY <1>2, <1>3, <1>5, <1>6, <1>7, <1>8 DEF ClusterMoves, ClusterNext

LEMMA StepsMoveClusters ==
  ASSUME UNCHANGED clusterVars, UNCHANGED edits \/ Versioned
  PROVE  ClusterMoves
BY DEF ClusterMoves

LEMMA NodesMoveClusters ==
  ASSUME NodeNext
  PROVE  ClusterMoves
<1>1. CASE ClusterNext
  BY <1>1, ClusterKeepsEdits DEF ClusterMoves
<1>2. ASSUME NEW r \in NodeRequests, NEW op, NEW mode, NEW arg, NodeRequest(r, op, mode, arg)
      PROVE  ClusterMoves
  BY <1>2, StepsMoveClusters, Zenon DEF NodeRequest
<1>3. ASSUME NEW r \in NodeRequests, UpdateNode(r) PROVE ClusterMoves
  <2>1. UNCHANGED clusterVars /\ \E now, sent : Counted(now, sent)
    BY <1>3, Zenon DEF UpdateNode
  <2>. QED
    BY <2>1, StepsMoveClusters, Zenon DEF Counted
<1>4. ASSUME NEW r \in NodeRequests, GetNode(r) \/ NodeCallFails(r) \/ ListPods(r) \/ drainK8sNodes(r)
      PROVE  ClusterMoves
  BY <1>4, StepsMoveClusters, Zenon DEF GetNode, NodeCallFails, ListPods, drainK8sNodes
<1>5. ASSUME NEW r \in NodeRequests, NEW p \in Pods, Evict(r, p) PROVE ClusterMoves
  BY <1>5, StepsMoveClusters, Zenon DEF Evict
<1>6. ASSUME NEW n \in Nodes, NEW p \in Pods, Schedules(p, n) PROVE ClusterMoves
  BY <1>6, StepsMoveClusters, Zenon DEF Schedules
<1>. QED
  BY <1>1, <1>2, <1>3, <1>4, <1>5, <1>6, Zenon DEF NodeNext

LEMMA WorkMovesClusters ==
  ASSUME WorkNext
  PROVE  ClusterMoves
<1>1. CASE ClusterNext
  BY <1>1, ClusterKeepsEdits DEF ClusterMoves
<1>2. ASSUME NEW kind, Apply(kind) \/ Delete(kind) \/ DeleteInBatch(kind) PROVE ClusterMoves
  BY <1>2, StepsMoveClusters, Zenon DEF Apply, Delete, DeleteInBatch, Removed
<1>3. ASSUME NEW r, NEW op, NEW todo, NEW arg, Begin(r, op, todo, arg) PROVE ClusterMoves
  BY <1>3, StepsMoveClusters, Zenon DEF Begin
<1>4. ASSUME NEW r, NEW kind, Scale(r, kind) \/ Restart(r, kind) PROVE ClusterMoves
  BY <1>3, <1>4, Zenon DEF Scale, Restart
<1>5. ASSUME NEW r, GetObject(r) \/ WorkCallFails(r) PROVE ClusterMoves
  BY <1>5, StepsMoveClusters, Zenon DEF GetObject, WorkCallFails
<1>6. ASSUME NEW r, UpdateObject(r) PROVE ClusterMoves
  <2>1. UNCHANGED clusterVars /\ \E now, sent : Counted(now, sent)
    BY <1>6, Zenon DEF UpdateObject
  <2>. QED
    BY <2>1, StepsMoveClusters, Zenon DEF Counted
<1>7. ASSUME NEW r, \/ scaleK8sDeployment(r) \/ scaleK8sStatefulSet(r)
                   \/ restartK8sDeployment(r) \/ restartK8sStatefulSet(r)
                   \/ restartK8sDaemonSet(r)
      PROVE  ClusterMoves
  BY <1>4, <1>7, Zenon
  DEF scaleK8sDeployment, scaleK8sStatefulSet, restartK8sDeployment,
      restartK8sStatefulSet, restartK8sDaemonSet
<1>8. ASSUME \/ createK8sDeployment \/ createStatefulSetHelper \/ createDaemonSetHelper
             \/ createConfigMapHelper \/ createSecretHelper \/ createServiceHelper
             \/ createIngressHelper \/ createK8sPod
             \/ deleteK8sDeployment \/ deleteK8sStatefulSet \/ deleteK8sDaemonSet
             \/ deleteK8sPod \/ deleteK8sConfigMap \/ deleteK8sSecret
             \/ deleteK8sService \/ deleteK8sIngress
             \/ deleteK8sDeploymentBatch \/ deleteK8sStatefulSetBatch
             \/ deleteK8sDaemonSetBatch \/ deleteK8sPodBatch \/ deleteK8sConfigMapBatch
             \/ deleteK8sSecretBatch \/ deleteK8sServiceBatch \/ deleteK8sIngressBatch
      PROVE  \E kind : Apply(kind) \/ Delete(kind) \/ DeleteInBatch(kind)
  BY <1>8, Zenon
  DEF createK8sDeployment, createStatefulSetHelper, createDaemonSetHelper,
      createConfigMapHelper, createSecretHelper, createServiceHelper,
      createIngressHelper, createK8sPod, deleteK8sDeployment, deleteK8sStatefulSet,
      deleteK8sDaemonSet, deleteK8sPod, deleteK8sConfigMap, deleteK8sSecret,
      deleteK8sService, deleteK8sIngress, deleteK8sDeploymentBatch,
      deleteK8sStatefulSetBatch, deleteK8sDaemonSetBatch, deleteK8sPodBatch,
      deleteK8sConfigMapBatch, deleteK8sSecretBatch, deleteK8sServiceBatch,
      deleteK8sIngressBatch
<1>. QED
  BY <1>1, <1>2, <1>5, <1>6, <1>7, <1>8, Zenon DEF WorkNext

LEMMA ReleasesMoveClusters ==
  ASSUME ReleaseNext
  PROVE  ClusterMoves
<1>1. CASE ClusterNext
  BY <1>1, ClusterKeepsEdits DEF ClusterMoves
<1>2. ASSUME NEW c, createK8sProject(c) PROVE ClusterMoves
  BY <1>2, StepsMoveClusters, Zenon DEF createK8sProject
<1>3. ASSUME deleteK8sProject \/ deleteK8sApp PROVE ClusterMoves
  BY <1>3, StepsMoveClusters, Zenon DEF deleteK8sProject, deleteK8sApp
<1>4. ASSUME NEW p, createK8sApp(p) \/ updateK8sApp(p) PROVE ClusterMoves
  BY <1>4, StepsMoveClusters, Zenon DEF createK8sApp, updateK8sApp
<1>5. ASSUME NEW r, NEW c, CheckProject(r, c) PROVE ClusterMoves
  BY <1>5, StepsMoveClusters, Zenon DEF CheckProject
<1>6. ASSUME NEW r, NEW i, NEW w, createK8sInstance(r, i, w) \/ updateK8sInstance(r, i, w)
      PROVE  ClusterMoves
  BY <1>6, StepsMoveClusters, Zenon DEF createK8sInstance, updateK8sInstance
<1>7. ASSUME NEW r, NEW i, deployK8sInstance(r, i) \/ deleteK8sInstance(r, i)
      PROVE  ClusterMoves
  BY <1>7, StepsMoveClusters, Zenon DEF deployK8sInstance, deleteK8sInstance
<1>8. ASSUME NEW r, \/ updateK8sProject(r) \/ LocateSync(r) \/ PutWorkload(r)
                   \/ PutService(r) \/ PutIngress(r) \/ LocateDelete(r) \/ DeleteRow(r)
      PROVE  ClusterMoves
  BY <1>8, StepsMoveClusters, Zenon
  DEF updateK8sProject, LocateSync, PutWorkload, PutService, PutIngress, LocateDelete,
      DeleteRow
<1>9. ASSUME NEW r, deleteK8sResources(r) PROVE ClusterMoves
  BY <1>9, StepsMoveClusters, Zenon DEF deleteK8sResources, Clean
<1>. QED
  BY <1>1, <1>2, <1>3, <1>4, <1>5, <1>6, <1>7, <1>8, <1>9, Zenon DEF ReleaseNext

LEMMA YamlMovesClusters ==
  ASSUME YamlNext
  PROVE  ClusterMoves
BY ClusterKeepsEdits, StepsMoveClusters DEF YamlNext, ClusterMoves

-----------------------------------------------------------------------------
(* A pod that is to stay has a node: a drain evicts no such pod.            *)
StaysPlaced == \A p \in Stays : place[p] # "none"

LEMMA NodesTyped ==
  ASSUME NodeInv, StaysPlaced
  PROVE  NodeTypeOK
<1>1. ASSUME NEW r \in NodeRequests
      PROVE  nodeReq[r].seen.version <= edits + 1 /\ nodeReq[r].pods \subseteq Pods \ Stays
  <2>1. PICK q : q = nodeReq[r]
    OBVIOUS
  <2>2. q \in NodeRequestRecord /\ q.seen.version <= edits + 1
    BY <2>1 DEF NodeInv, NodeRequestInv
  <2>3. q.pods \subseteq Pods \ Stays
    BY <2>2 DEF NodeRequestRecord
  <2>. QED
    BY <2>1, <2>2, <2>3
<1>. QED
  BY <1>1 DEF NodeInv, NodeTypeOK, StaysPlaced

LEMMA StaysPlacedFirst ==
  ASSUME NodeInit
  PROVE  StaysPlaced
BY K8sNodesAssumption DEF NodeInit, StaysPlaced

LEMMA StaysPlacedStep ==
  ASSUME NodeInv, StaysPlaced, NodeNext
  PROVE  StaysPlaced'
<1>1. CASE UNCHANGED place
  BY <1>1 DEF StaysPlaced
<1>2. ASSUME NEW r \in NodeRequests, NEW p \in Pods, Evict(r, p), place' # place
      PROVE  StaysPlaced'
  <2>1. PICK q : q = nodeReq[r]
    OBVIOUS
  <2>2. q \in NodeRequestRecord
    BY <2>1 DEF NodeInv, NodeRequestInv
  <2>3. p \in q.pods /\ q.pods \subseteq Pods \ Stays
    BY <1>2, <2>1, <2>2 DEF Evict, NodeRequestRecord
  <2>4. PICK w : place' = [place EXCEPT ![p] = w]
    BY <1>2, Zenon DEF Evict
  <2>5. \A x \in Pods : x # p => place'[x] = place[x]
    BY <2>4 DEF NodeInv
  <2>. QED
    BY <2>3, <2>5, K8sNodesAssumption DEF StaysPlaced
<1>3. ASSUME NEW p \in Pods, NEW n \in Nodes, Schedules(p, n) PROVE StaysPlaced'
  <2>1. place[p] = "none" /\ place' = [place EXCEPT ![p] = n]
    BY <1>3 DEF Schedules
  <2>2. \A x \in Pods : x # p => place'[x] = place[x]
    BY <2>1 DEF NodeInv
  <2>. QED
    BY <2>1, <2>2, K8sNodesAssumption DEF StaysPlaced
<1>4. ASSUME NEW r \in NodeRequests, NEW op, NEW mode, NEW arg, NodeRequest(r, op, mode, arg)
      PROVE  UNCHANGED place
  BY <1>4, Zenon DEF NodeRequest
<1>5. ASSUME NEW r \in NodeRequests,
             \/ GetNode(r) \/ UpdateNode(r) \/ NodeCallFails(r)
             \/ ListPods(r) \/ drainK8sNodes(r)
      PROVE  UNCHANGED place
  BY <1>5, Zenon DEF GetNode, UpdateNode, NodeCallFails, ListPods, drainK8sNodes
<1>6. CASE ClusterNext /\ UNCHANGED nodeVars
  BY <1>1, <1>6 DEF nodeVars
<1>. QED
  BY <1>1, <1>2, <1>3, <1>4, <1>5, <1>6, Zenon DEF NodeNext

LEMMA WorkTyped ==
  ASSUME WorkInv
  PROVE  WorkTypeOK
<1>1. ASSUME NEW r \in WorkRequests
      PROVE  /\ workReq[r].seen.version <= edits + 1
             /\ \A i \in 1..Len(workReq[r].todo) : workReq[r].todo[i] \in Objects
  <2>1. PICK q : q = workReq[r]
    OBVIOUS
  <2>2. q \in WorkRequestRecord /\ q.seen.version <= edits + 1
    BY <2>1 DEF WorkInv, WorkRequestInv
  <2>3. q.todo \in Seq(Objects)
    BY <2>2 DEF WorkRequestRecord
  <2>4. \A i \in 1..Len(q.todo) : q.todo[i] \in Objects
    BY <2>3, ElementOfSeq
  <2>. QED
    BY <2>1, <2>2, <2>4
<1>. QED
  BY <1>1 DEF WorkInv, WorkTypeOK, WorkObject

-----------------------------------------------------------------------------
(* What a goroutine has of its pass.                                        *)
Generator(g) ==
  /\ g = [pc |-> g.pc, todo |-> g.todo, rows |-> g.rows, at |-> g.at, files |-> g.files]
  /\ g.pc \in {"idle", "pool", "secrets"}
  /\ DOMAIN g.files = Machines /\ g.files = [ip \in Machines |-> g.files[ip]]

(* A request whose check has passed writes what it has checked.             *)
MonReqRow(q) ==
  /\ q.pc \in {"idle", "create", "update", "delete", "deleteGroup"}
  /\ q.pc \in {"create", "update"} => q.id \in Pools /\ q.row \in PoolRows(q.id)
  /\ q.pc = "delete" => q.id \in Pools
  /\ q.pc = "deleteGroup" => q.id \in Items

PoolTable(p, row) == row.state \in {"unborn", "gone"} \/ row \in PoolRows(p)

ItemTable(i, row) == row.state \in {"unborn", "gone"} \/ row \in ItemRows(i)

MonitorInv ==
  /\ pools = [p \in Pools |-> pools[p]] /\ \A p \in Pools : PoolTable(p, pools[p])
  /\ items = [i \in Items |-> items[i]] /\ \A i \in Items : ItemTable(i, items[i])
  /\ served = [f \in Files |-> served[f]] /\ \A f \in Files : DOMAIN served[f] = Machines
  /\ gen = [f \in Files |-> gen[f]]
  /\ \A f \in Files :
       /\ Generator(gen[f])
       /\ gen[f].pc = "secrets" => gen[f].todo # <<>> /\ f \in {"main", "alertmanager"}
  /\ calm \in [Files -> BOOLEAN]
  /\ tableEdits \in 0..MaxTableEdits
  /\ monReq = [r \in MonitorRequests |-> monReq[r]]
  /\ \A r \in MonitorRequests : MonReqRow(monReq[r])

LEMMA MonitorTyped ==
  ASSUME MonitorInv
  PROVE  MonitorTypeOK
BY DEF MonitorInv, MonitorTypeOK, PoolTable, ItemTable, Generator, MonReqRow

(* The states of the rows of a table.                                       *)
LEMMA TablesSame ==
  ASSUME NEW p, NEW row
  PROVE  PoolTable(p, row)' <=> PoolTable(p, row)
BY DEF PoolTable, PoolRows

LEMMA PoolRowsAre ==
  ASSUME NEW p, NEW row \in PoolRows(p)
  PROVE  row.state = "there"
BY DEF PoolRows

LEMMA NoPoolIs == NoPool.state = "unborn" /\ [NoPool EXCEPT !.state = "gone"].state = "gone"
BY DEF NoPool

LEMMA NoItemIs == NoItem.state = "unborn" /\ [NoItem EXCEPT !.state = "gone"].state = "gone"
BY DEF NoItem

LEMMA NoMonReqIs == MonReqRow(NoMonReq)
BY DEF NoMonReq, MonReqRow

LEMMA NoFilesIs == NoFiles = [ip \in Machines |-> NoFiles[ip]]
BY DEF NoFiles

(* A goroutine with what it has.                                            *)
LEMMA GeneratorIs ==
  ASSUME NEW pc \in {"idle", "pool", "secrets"}, NEW files,
         files = [ip \in Machines |-> files[ip]]
  PROVE  \A todo, rows, at, x :
           x = [pc |-> pc, todo |-> todo, rows |-> rows, at |-> at, files |-> files] =>
             Generator(x) /\ x.pc = pc /\ x.todo = todo /\ x.rows = rows /\ x.at = at /\ x.files = files
<1>. TAKE todo, rows, at, x
<1>. HAVE x = [pc |-> pc, todo |-> todo, rows |-> rows, at |-> at, files |-> files]
<1>1. x.pc = pc /\ x.todo = todo /\ x.rows = rows /\ x.at = at /\ x.files = files
  OBVIOUS
<1>2. DOMAIN x.files = Machines /\ x.files = [ip \in Machines |-> x.files[ip]]
  BY <1>1, Zenon
<1>. QED
  BY <1>1, <1>2 DEF Generator

(* An idle goroutine.                                                       *)
LEMMA IdleIs == Generator(IdleGenerator) /\ IdleGenerator.pc = "idle"
<1>1. PICK x : x = IdleGenerator
  OBVIOUS
<1>2. Generator(x) /\ x.pc = "idle"
  BY <1>1, NoFilesIs, GeneratorIs DEF IdleGenerator
<1>. QED
  BY <1>1, <1>2

(* What a goroutine has, by types.                                         *)
LEMMA GenTyped ==
  ASSUME NEW g, Generator(g), NEW T, NEW R, NEW A, NEW F
  PROVE  g \in [pc : {"idle", "pool", "secrets"}, todo : {g.todo} \cup T, rows : {g.rows} \cup R,
                at : {g.at} \cup A, files : {g.files} \cup F]
<1>1. PICK h : h = [pc |-> g.pc, todo |-> g.todo, rows |-> g.rows, at |-> g.at, files |-> g.files]
  OBVIOUS
<1>2. h = g
  BY <1>1 DEF Generator
<1>3. h \in [pc : {"idle", "pool", "secrets"}, todo : {g.todo} \cup T, rows : {g.rows} \cup R,
                at : {g.at} \cup A, files : {g.files} \cup F]
  BY <1>1 DEF Generator
<1>. QED
  BY <1>2, <1>3

(* It skips a pool.                                                        *)
Skipped(g, t) == [g EXCEPT !.todo = t]

LEMMA GenSkips ==
  ASSUME NEW g, Generator(g), NEW t,
         NEW y, y = Skipped(g, t)
  PROVE  /\ Generator(y) /\ y.pc = g.pc /\ y.todo = t
         /\ y.rows = g.rows /\ y.at = g.at /\ y.files = g.files
<1>1. ASSUME NEW x, x = [g EXCEPT !.todo = t]
      PROVE  x = [pc |-> g.pc, todo |-> t, rows |-> g.rows, at |-> g.at, files |-> g.files]
  <2>1. g \in [pc : {"idle", "pool", "secrets"}, todo : {g.todo} \cup {t}, rows : {g.rows} \cup {},
               at : {g.at} \cup {}, files : {g.files} \cup {}]
    BY GenTyped
  <2>. QED
    BY <1>1, <2>1
<1>2. g.files = [ip \in Machines |-> g.files[ip]] /\ g.pc \in {"idle", "pool", "secrets"}
  BY DEF Generator
<1>3. y = [pc |-> g.pc, todo |-> t, rows |-> g.rows, at |-> g.at, files |-> g.files]
  BY <1>1, Zenon DEF Skipped
<1>. QED
  BY <1>2, <1>3, GeneratorIs

(* It has the rules of a pool.                                             *)
WithRules(g, t, w) == [g EXCEPT !.todo = t, !.files = w]

LEMMA GenRules ==
  ASSUME NEW g, Generator(g), NEW t, NEW w,
         w = [ip \in Machines |-> w[ip]],
         NEW y, y = WithRules(g, t, w)
  PROVE  Generator(y) /\ y.pc = g.pc /\ y.todo = t /\ y.files = w
<1>1. ASSUME NEW x, x = [g EXCEPT !.todo = t, !.files = w]
      PROVE  x = [pc |-> g.pc, todo |-> t, rows |-> g.rows, at |-> g.at, files |-> w]
  <2>1. g \in [pc : {"idle", "pool", "secrets"}, todo : {g.todo} \cup {t}, rows : {g.rows} \cup {},
               at : {g.at} \cup {}, files : {g.files} \cup {w}]
    BY GenTyped
  <2>. QED
    BY <1>1, <2>1
<1>2. w = [ip \in Machines |-> w[ip]] /\ g.pc \in {"idle", "pool", "secrets"}
  BY DEF Generator
<1>3. y = [pc |-> g.pc, todo |-> t, rows |-> g.rows, at |-> g.at, files |-> w]
  BY <1>1, Zenon DEF WithRules
<1>. QED
  BY <1>2, <1>3, GeneratorIs

(* It goes on to the secrets of a pool.                                    *)
AtSecrets(g, w) == [g EXCEPT !.pc = "secrets", !.at = 1, !.rows = w]

LEMMA GenTurns ==
  ASSUME NEW g, Generator(g), NEW w,
         NEW y, y = AtSecrets(g, w)
  PROVE  /\ Generator(y) /\ y.pc = "secrets" /\ y.todo = g.todo
         /\ y.rows = w /\ y.at = 1 /\ y.files = g.files
<1>1. ASSUME NEW x, x = [g EXCEPT !.pc = "secrets", !.at = 1, !.rows = w]
      PROVE  x = [pc |-> "secrets", todo |-> g.todo, rows |-> w, at |-> 1, files |-> g.files]
  <2>1. g \in [pc : {"idle", "pool", "secrets"}, todo : {g.todo} \cup {}, rows : {g.rows} \cup {w},
               at : {g.at} \cup {1}, files : {g.files} \cup {}]
    BY GenTyped
  <2>. QED
    BY <1>1, <2>1
<1>2. g.files = [ip \in Machines |-> g.files[ip]] /\ g.pc \in {"idle", "pool", "secrets"}
  BY DEF Generator
<1>3. y = [pc |-> "secrets", todo |-> g.todo, rows |-> w, at |-> 1, files |-> g.files]
  BY <1>1, Zenon DEF AtSecrets
<1>. QED
  BY <1>2, <1>3, GeneratorIs

(* It has the file of an instance.                                         *)
Written(g, w, n) == [g EXCEPT !.files = w, !.at = n]

LEMMA GenWrites ==
  ASSUME NEW g, Generator(g), NEW w, NEW n,
         w = [ip \in Machines |-> w[ip]],
         NEW y, y = Written(g, w, n)
  PROVE  /\ Generator(y) /\ y.pc = g.pc /\ y.todo = g.todo
         /\ y.rows = g.rows /\ y.at = n /\ y.files = w
<1>1. ASSUME NEW x, x = [g EXCEPT !.files = w, !.at = n]
      PROVE  x = [pc |-> g.pc, todo |-> g.todo, rows |-> g.rows, at |-> n, files |-> w]
  <2>1. g \in [pc : {"idle", "pool", "secrets"}, todo : {g.todo} \cup {}, rows : {g.rows} \cup {},
               at : {g.at} \cup {n}, files : {g.files} \cup {w}]
    BY GenTyped
  <2>. QED
    BY <1>1, <2>1
<1>2. w = [ip \in Machines |-> w[ip]] /\ g.pc \in {"idle", "pool", "secrets"}
  BY DEF Generator
<1>3. y = [pc |-> g.pc, todo |-> g.todo, rows |-> g.rows, at |-> n, files |-> w]
  BY <1>1, Zenon DEF Written
<1>. QED
  BY <1>2, <1>3, GeneratorIs

(* It is done with a pool.                                                 *)
Returned(g, t) == [g EXCEPT !.pc = "pool", !.todo = t, !.rows = <<>>]

LEMMA GenReturns ==
  ASSUME NEW g, Generator(g), NEW t,
         NEW y, y = Returned(g, t)
  PROVE  Generator(y) /\ y.pc = "pool" /\ y.todo = t /\ y.files = g.files
<1>1. ASSUME NEW x, x = [g EXCEPT !.pc = "pool", !.todo = t, !.rows = <<>>]
      PROVE  x = [pc |-> "pool", todo |-> t, rows |-> <<>>, at |-> g.at, files |-> g.files]
  <2>1. g \in [pc : {"idle", "pool", "secrets"}, todo : {g.todo} \cup {t}, rows : {g.rows} \cup {<<>>},
               at : {g.at} \cup {}, files : {g.files} \cup {}]
    BY GenTyped
  <2>. QED
    BY <1>1, <2>1
<1>2. g.files = [ip \in Machines |-> g.files[ip]] /\ g.pc \in {"idle", "pool", "secrets"}
  BY DEF Generator
<1>3. y = [pc |-> "pool", todo |-> t, rows |-> <<>>, at |-> g.at, files |-> g.files]
  BY <1>1, Zenon DEF Returned
<1>. QED
  BY <1>2, <1>3, GeneratorIs

(* It has the file of a pool.                                              *)
Routed(g, t, w) == [g EXCEPT !.pc = "pool", !.todo = t, !.rows = <<>>, !.files = w]

LEMMA GenRoutes ==
  ASSUME NEW g, Generator(g), NEW t, NEW w,
         w = [ip \in Machines |-> w[ip]],
         NEW y, y = Routed(g, t, w)
  PROVE  Generator(y) /\ y.pc = "pool" /\ y.todo = t /\ y.files = w
<1>1. ASSUME NEW x, x = [g EXCEPT !.pc = "pool", !.todo = t, !.rows = <<>>, !.files = w]
      PROVE  x = [pc |-> "pool", todo |-> t, rows |-> <<>>, at |-> g.at, files |-> w]
  <2>1. g \in [pc : {"idle", "pool", "secrets"}, todo : {g.todo} \cup {t}, rows : {g.rows} \cup {<<>>},
               at : {g.at} \cup {}, files : {g.files} \cup {w}]
    BY GenTyped
  <2>. QED
    BY <1>1, <2>1
<1>2. w = [ip \in Machines |-> w[ip]] /\ g.pc \in {"idle", "pool", "secrets"}
  BY DEF Generator
<1>3. y = [pc |-> "pool", todo |-> t, rows |-> <<>>, at |-> g.at, files |-> w]
  BY <1>1, Zenon DEF Routed
<1>. QED
  BY <1>2, <1>3, GeneratorIs

(* The goroutine of one file goes on.                                       *)
LEMMA GenGoes ==
  ASSUME MonitorInv, NEW f \in Files, NEW y, gen' = [gen EXCEPT ![f] = y], Generator(y),
         y.pc = "secrets" => y.todo # <<>> /\ f \in {"main", "alertmanager"},
         calm' \in [Files -> BOOLEAN], UNCHANGED <<pools, items, monReq, tableEdits>>,
         \/ UNCHANGED served
         \/ served' = [served EXCEPT ![f] = gen[f].files]
  PROVE  MonitorInv'
<1>1. /\ gen' = [g \in Files |-> gen'[g]] /\ gen'[f] = y
      /\ \A g \in Files \ {f} : gen'[g] = gen[g]
  BY DEF MonitorInv
<1>2. \A g \in Files :
       /\ Generator(gen'[g])
       /\ gen'[g].pc = "secrets" => gen'[g].todo # <<>> /\ g \in {"main", "alertmanager"}
  BY <1>1 DEF MonitorInv
<1>3. served' = [g \in Files |-> served'[g]] /\ \A g \in Files : DOMAIN served'[g] = Machines
  <2>1. DOMAIN gen[f].files = Machines
    BY DEF MonitorInv, Generator
  <2>2. PICK w : w = gen[f].files
    OBVIOUS
  <2>3. served = [g \in Files |-> served[g]] /\ \A g \in Files : DOMAIN served[g] = Machines
    BY DEF MonitorInv
  <2>4. CASE UNCHANGED served
    BY <2>3, <2>4
  <2>5. CASE served' = [served EXCEPT ![f] = w]
    <3>1. served' = [g \in Files |-> IF g = f THEN w ELSE served[g]]
      BY <2>3, <2>5
    <3>2. \A g \in Files : served'[g] = IF g = f THEN w ELSE served[g]
      BY <3>1
    <3>. QED
      BY <2>1, <2>2, <2>3, <3>1, <3>2
  <2>. QED
    BY <2>2, <2>4, <2>5
<1>4. \A p \in Pools : PoolTable(p, pools[p])'
  BY DEF MonitorInv, PoolTable, PoolRows
<1>5. \A i \in Items : ItemTable(i, items[i])'
  BY DEF MonitorInv, ItemTable, ItemRows
<1>. QED
  BY <1>1, <1>2, <1>3, <1>4, <1>5 DEF MonitorInv

(* What becomes of calm.                                                    *)
LEMMA CalmIs ==
  ASSUME MonitorInv, NEW f \in Files, NEW ok \in BOOLEAN, calm' = [calm EXCEPT ![f] = @ /\ ok]
  PROVE  calm' \in [Files -> BOOLEAN]
<1>1. calm \in [Files -> BOOLEAN]
  BY DEF MonitorInv
<1>2. PICK b \in BOOLEAN : b = (calm[f] /\ ok)
  BY <1>1
<1>3. calm' = [calm EXCEPT ![f] = b]
  BY <1>2
<1>. QED
  BY <1>1, <1>3

(* What is known of the goroutine of a file.                                *)
LEMMA GenIs ==
  ASSUME MonitorInv, NEW f \in Files
  PROVE  /\ Generator(gen[f])
         /\ gen[f].files = [ip \in Machines |-> gen[f].files[ip]]
         /\ gen[f].pc = "secrets" => gen[f].todo # <<>> /\ f \in {"main", "alertmanager"}
BY DEF MonitorInv, Generator

(* A read of a pool.                                                        *)
LEMMA PoolReadStep ==
  ASSUME MonitorInv, NEW f \in Files, NEW ok \in BOOLEAN, NEW y, PoolRead(f, ok, y), Generator(y),
         y.pc = "secrets" => y.todo # <<>> /\ f \in {"main", "alertmanager"}
  PROVE  MonitorInv'
<1>1. calm' \in [Files -> BOOLEAN]
  BY CalmIs DEF PoolRead
<1>2. gen' = [gen EXCEPT ![f] = y]
  BY DEF PoolRead
<1>3. UNCHANGED <<pools, items, monReq, tableEdits>> /\ UNCHANGED served
  BY DEF PoolRead
<1>. QED
  BY <1>1, <1>2, <1>3, GenGoes

(* The jobs or the send groups of a pool are read.                          *)
LEMMA PoolsAreRead ==
  ASSUME MonitorInv, NEW f \in {"main", "alertmanager"}, NEW ok \in BOOLEAN, NEW y,
         PoolRead(f, ok, y),
         \/ y = Skipped(gen[f], Tail(gen[f].todo))
         \/ y = ToSecrets(f, RowsNow(f, ok))
  PROVE  MonitorInv'
<1>1. f \in Files
  BY DEF Files
<1>2. Generator(gen[f]) /\ gen[f].pc = "pool" /\ gen[f].todo # <<>>
  BY <1>1, GenIs DEF PoolRead
<1>3. Generator(y) /\ (y.pc = "secrets" => y.todo # <<>>)
  <2>1. CASE y = Skipped(gen[f], Tail(gen[f].todo))
    BY <1>2, <2>1, GenSkips
  <2>2. CASE y = ToSecrets(f, RowsNow(f, ok))
    <3>1. PICK w : w = Numbered([i \in RowsNow(f, ok) |-> Masked(i)])
      OBVIOUS
    <3>2. y = AtSecrets(gen[f], w)
      BY <2>2, <3>1, Zenon DEF ToSecrets, AtSecrets
    <3>. QED
      BY <1>2, <3>2, GenTurns
  <2>. QED
    BY <2>1, <2>2, Zenon
<1>. QED
  BY <1>1, <1>3, PoolReadStep, Zenon

(* The rules of a pool are read.                                            *)
LEMMA RulesAreRead ==
  ASSUME MonitorInv, NEW f \in {"alert", "record"}, NEW ok \in BOOLEAN, RulesOfPool(f, ok)
  PROVE  MonitorInv'
<1>1. f \in Files
  BY DEF Files
<1>2. PICK w : w = GeneratePrometheusRuleConfigYamlOnePool(
                     Head(gen[f].todo)[2], Sorted(RowsNow(f, ok)), gen[f].files)
  OBVIOUS
<1>3. PICK y : y = WithRules(gen[f], Tail(gen[f].todo), w)
  OBVIOUS
<1>4. PoolRead(f, ok, y)
  BY <1>2, <1>3, Zenon DEF RulesOfPool, WithRules
<1>5. Generator(gen[f]) /\ gen[f].pc = "pool"
  BY <1>1, <1>4, GenIs DEF PoolRead
<1>6. w = [ip \in Machines |-> w[ip]]
  BY <1>2 DEF GeneratePrometheusRuleConfigYamlOnePool
<1>7. Generator(y) /\ y.pc = gen[f].pc
  BY <1>3, <1>5, <1>6, GenRules
<1>8. Generator(y) /\ y.pc = "pool"
  BY <1>5, <1>7, Zenon
<1>. QED
  BY <1>1, <1>4, <1>8, PoolReadStep

(* The secrets of the jobs are read for an instance.                        *)
LEMMA MainIsWritten ==
  ASSUME MonitorInv, NEW ok \in BOOLEAN, GeneratePrometheusMainConfigYaml(ok)
  PROVE  MonitorInv'
<1>1. PICK f : f = "main"
  OBVIOUS
<1>2. f \in Files
  BY <1>1 DEF Files
<1>3. PICK g : g = gen[f]
  OBVIOUS
<1>4. PICK ips : ips = Head(g.todo)[2]
  OBVIOUS
<1>5. PICK new : new = WithSecrets(f, HashModScrapeConfig(Len(ips), g.at), g.rows, ok)
  OBVIOUS
<1>6. PICK w : w = [g.files EXCEPT ![ips[g.at]] = new]
  OBVIOUS
<1>7. PICK done : done = Written(g, w, g.at + 1)
  OBVIOUS
<1>8. PICK y : y = IF g.at = Len(ips)
                   THEN Returned(done, Tail(done.todo))
                   ELSE done
  OBVIOUS
<1>9. gen' = [gen EXCEPT ![f] = y]
  BY <1>1, <1>3, <1>4, <1>5, <1>6, <1>7, <1>8, Zenon
     DEF GeneratePrometheusMainConfigYaml, Written, Returned
<1>10. /\ g.pc = "secrets" /\ calm' = [calm EXCEPT ![f] = @ /\ ok]
       /\ UNCHANGED <<pools, items, monReq, tableEdits>> /\ UNCHANGED served
  BY <1>1, <1>3 DEF GeneratePrometheusMainConfigYaml
<1>11. Generator(g) /\ g.files = [ip \in Machines |-> g.files[ip]] /\ g.todo # <<>>
  BY <1>2, <1>3, <1>10, GenIs
<1>12. w = [ip \in Machines |-> w[ip]]
  BY <1>6, <1>11
<1>13. Generator(done) /\ done.pc = g.pc /\ done.todo = g.todo
  BY <1>7, <1>11, <1>12, GenWrites
<1>14. Generator(y) /\ (y.pc = "secrets" => y.todo # <<>>)
  <2>1. CASE y = Returned(done, Tail(done.todo))
    BY <1>13, <2>1, GenReturns
  <2>2. CASE y = done
    BY <1>11, <1>13, <2>2, Zenon
  <2>. QED
    BY <1>8, <2>1, <2>2, Zenon
<1>15. calm' \in [Files -> BOOLEAN]
  BY <1>2, <1>10, CalmIs
<1>. QED
  BY <1>1, <1>2, <1>9, <1>10, <1>14, <1>15, GenGoes

(* The secrets of the send groups are read.                                 *)
LEMMA RoutesAreWritten ==
  ASSUME MonitorInv, NEW ok \in BOOLEAN, GenerateAlertManagerMainConfigYaml(ok)
  PROVE  MonitorInv'
<1>1. PICK f : f = "alertmanager"
  OBVIOUS
<1>2. f \in Files
  BY <1>1 DEF Files
<1>3. PICK g : g = gen[f]
  OBVIOUS
<1>4. PICK new : new = WithSecrets(f, <<1, 0>>, g.rows, ok)
  OBVIOUS
<1>5. PICK w : w = [ip \in Machines |->
                      IF ip \in Seqs!Range(Head(g.todo)[2]) THEN new ELSE g.files[ip]]
  OBVIOUS
<1>6. PICK y : y = Routed(g, Tail(g.todo), w)
  OBVIOUS
<1>7. gen' = [gen EXCEPT ![f] = y]
  BY <1>1, <1>3, <1>4, <1>5, <1>6, Zenon DEF GenerateAlertManagerMainConfigYaml, Routed
<1>8. /\ calm' = [calm EXCEPT ![f] = @ /\ ok]
      /\ UNCHANGED <<pools, items, monReq, tableEdits>> /\ UNCHANGED served
  BY <1>1 DEF GenerateAlertManagerMainConfigYaml
<1>9. Generator(g)
  BY <1>2, <1>3, GenIs
<1>10. w = [ip \in Machines |-> w[ip]]
  BY <1>5
<1>11. Generator(y) /\ y.pc = "pool"
  BY <1>6, <1>9, <1>10, GenRoutes
<1>12. calm' \in [Files -> BOOLEAN]
  BY <1>2, <1>8, CalmIs
<1>. QED
  BY <1>2, <1>7, <1>8, <1>11, <1>12, GenGoes

(* A pass begins, and ends with what it serves.                             *)
LEMMA PassBegins ==
  ASSUME MonitorInv, NEW f \in Files, GenerateStarts(f)
  PROVE  MonitorInv'
<1>1. PICK t : t = LET ps == Sorted(PoolsFor(f)) IN [k \in DOMAIN ps |-> <<ps[k], pools[ps[k]].ips>>]
  OBVIOUS
<1>2. PICK y : y = [IdleGenerator EXCEPT !.pc = "pool", !.todo = t]
  OBVIOUS
<1>3. gen' = [gen EXCEPT ![f] = y]
  BY <1>1, <1>2, Zenon DEF GenerateStarts
<1>4. y = [pc |-> "pool", todo |-> t, rows |-> <<>>, at |-> 1, files |-> NoFiles]
  BY <1>2 DEF IdleGenerator
<1>5. Generator(y) /\ y.pc = "pool"
  BY <1>4, NoFilesIs, GeneratorIs
<1>6. UNCHANGED <<pools, items, monReq, tableEdits>> /\ UNCHANGED served
  BY DEF GenerateStarts
<1>7. calm' \in [Files -> BOOLEAN]
  BY DEF GenerateStarts, MonitorInv
<1>. QED
  BY <1>3, <1>5, <1>6, <1>7, GenGoes

LEMMA PassEnds ==
  ASSUME MonitorInv, NEW f \in Files, GenerateEnds(f)
  PROVE  MonitorInv'
<1>1. /\ gen' = [gen EXCEPT ![f] = IdleGenerator] /\ served' = [served EXCEPT ![f] = gen[f].files]
      /\ UNCHANGED <<pools, items, monReq, tableEdits>> /\ UNCHANGED calm
  BY DEF GenerateEnds
<1>2. calm' \in [Files -> BOOLEAN]
  BY <1>1 DEF MonitorInv
<1>. QED
  BY <1>1, <1>2, IdleIs, GenGoes

(* A request takes down what it has checked, or ends.                       *)
LEMMA MonReqGoes ==
  ASSUME MonitorInv, NEW r \in MonitorRequests, NEW q, MonReqRow(q),
         monReq' = [monReq EXCEPT ![r] = q]
  PROVE  /\ monReq' = [s \in MonitorRequests |-> monReq'[s]]
         /\ \A s \in MonitorRequests : MonReqRow(monReq'[s])
<1>1. monReq = [s \in MonitorRequests |-> monReq[s]] /\ \A s \in MonitorRequests : MonReqRow(monReq[s])
  BY DEF MonitorInv
<1>2. /\ monReq' = [s \in MonitorRequests |-> monReq'[s]] /\ monReq'[r] = q
      /\ \A s \in MonitorRequests \ {r} : monReq'[s] = monReq[s]
  BY <1>1
<1>. QED
  BY <1>1, <1>2

(* The rows of a pool are the same in the next state.                       *)
LEMMA RowsSame ==
  /\ \A p, row : PoolTable(p, row)' <=> PoolTable(p, row)
  /\ \A i, row : ItemTable(i, row)' <=> ItemTable(i, row)
  /\ \A q : MonReqRow(q)' <=> MonReqRow(q)
BY DEF PoolTable, ItemTable, MonReqRow, PoolRows, ItemRows

LEMMA MonitorKept ==
  ASSUME MonitorInv,
         pools' = [p \in Pools |-> pools'[p]], \A p \in Pools : PoolTable(p, pools'[p]),
         items' = [i \in Items |-> items'[i]], \A i \in Items : ItemTable(i, items'[i]),
         monReq' = [s \in MonitorRequests |-> monReq'[s]],
         \A s \in MonitorRequests : MonReqRow(monReq'[s]),
         UNCHANGED <<served, gen>>,
         UNCHANGED <<calm, tableEdits>> \/ TablesChange
  PROVE  MonitorInv'
<1>1. served = [f \in Files |-> served[f]] /\ \A f \in Files : DOMAIN served[f] = Machines
  BY DEF MonitorInv
<1>2. gen = [f \in Files |-> gen[f]]
      /\ \A f \in Files :
           /\ Generator(gen[f])
           /\ gen[f].pc = "secrets" => gen[f].todo # <<>> /\ f \in {"main", "alertmanager"}
  BY DEF MonitorInv
<1>3. calm' \in [Files -> BOOLEAN] /\ tableEdits' \in 0..MaxTableEdits
  <2>1. calm \in [Files -> BOOLEAN] /\ tableEdits \in 0..MaxTableEdits
    BY DEF MonitorInv
  <2>2. CASE UNCHANGED <<calm, tableEdits>>
    BY <2>1, <2>2
  <2>3. CASE TablesChange
    <3>1. calm' \in [Files -> BOOLEAN]
      BY <2>3 DEF TablesChange
    <3>2. tableEdits' \in 0..MaxTableEdits
      BY <2>1, <2>3, MonitorConfigAssumption DEF TablesChange
    <3>. QED
      BY <3>1, <3>2
  <2>. QED
    BY <2>2, <2>3
<1>4. \A p \in Pools : PoolTable(p, pools[p])'
  BY RowsSame DEF PoolTable
<1>5. \A i \in Items : ItemTable(i, items[i])'
  BY RowsSame DEF ItemTable
<1>6. \A s \in MonitorRequests : MonReqRow(monReq[s])'
  BY RowsSame DEF MonReqRow
<1>. QED
  BY <1>1, <1>2, <1>3, <1>4, <1>5, <1>6 DEF MonitorInv

(* The checks.                                                              *)
LEMMA CheckStep ==
  ASSUME MonitorInv, NEW r \in MonitorRequests, NEW op, NEW id, NEW row, Check(r, op, id, row),
         \/ op \in {"create", "update"} /\ id \in Pools /\ row \in PoolRows(id)
         \/ op = "delete" /\ id \in Pools
         \/ op = "deleteGroup" /\ id \in Items
  PROVE  MonitorInv'
<1>1. PICK q : q = [pc |-> op, id |-> id, row |-> row]
  OBVIOUS
<1>2. MonReqRow(q)
  BY <1>1 DEF MonReqRow
<1>3. monReq' = [monReq EXCEPT ![r] = q]
  BY <1>1 DEF Check
<1>4. /\ monReq' = [s \in MonitorRequests |-> monReq'[s]]
      /\ \A s \in MonitorRequests : MonReqRow(monReq'[s])
  BY <1>2, <1>3, MonReqGoes
<1>5. UNCHANGED <<pools, items>> /\ UNCHANGED <<served, gen>> /\ UNCHANGED <<calm, tableEdits>>
  BY DEF Check
<1>6. /\ pools = [p \in Pools |-> pools[p]] /\ \A p \in Pools : PoolTable(p, pools[p])
      /\ items = [i \in Items |-> items[i]] /\ \A i \in Items : ItemTable(i, items[i])
  BY DEF MonitorInv
<1>. QED
  BY <1>4, <1>5, <1>6, MonitorKept

(* The write of a pool.                                                     *)
LEMMA PoolWriteStep ==
  ASSUME MonitorInv, NEW r \in MonitorRequests, PoolWrite(r)
  PROVE  MonitorInv'
<1>1. PICK q : q = monReq[r]
  OBVIOUS
<1>2. MonReqRow(q) /\ q.pc \in {"create", "update", "delete"}
  BY <1>1 DEF MonitorInv, PoolWrite
<1>3. PICK id \in Pools : id = q.id
  BY <1>2 DEF MonReqRow
<1>4. PICK row : row = CASE q.pc = "create" -> q.row
                         [] q.pc = "update" /\ There(pools[id]) -> q.row
                         [] q.pc = "delete" -> [NoPool EXCEPT !.state = "gone"]
                         [] OTHER -> pools[id]
  OBVIOUS
<1>5. PoolTable(id, row)
  <2>1. CASE row = q.row /\ q.pc \in {"create", "update"}
    BY <1>2, <1>3, <2>1 DEF MonReqRow, PoolTable
  <2>2. CASE row = [NoPool EXCEPT !.state = "gone"]
    BY <2>2, NoPoolIs DEF PoolTable
  <2>3. CASE row = pools[id]
    BY <2>3 DEF MonitorInv
  <2>. QED
    BY <1>2, <1>4, <2>1, <2>2, <2>3
<1>6. pools' = [pools EXCEPT ![id] = row]
  BY <1>1, <1>3, <1>4 DEF PoolWrite
<1>7. pools = [p \in Pools |-> pools[p]] /\ \A p \in Pools : PoolTable(p, pools[p])
  BY DEF MonitorInv
<1>8. pools' = [p \in Pools |-> pools'[p]] /\ \A p \in Pools : PoolTable(p, pools'[p])
  BY <1>5, <1>6, <1>7
<1>9. /\ monReq' = [s \in MonitorRequests |-> monReq'[s]]
      /\ \A s \in MonitorRequests : MonReqRow(monReq'[s])
  BY NoMonReqIs, MonReqGoes DEF PoolWrite
<1>10. items = [i \in Items |-> items[i]] /\ \A i \in Items : ItemTable(i, items[i])
  BY DEF MonitorInv
<1>11. UNCHANGED items /\ UNCHANGED <<served, gen>> /\ TablesChange
  BY DEF PoolWrite
<1>. QED
  BY <1>8, <1>9, <1>10, <1>11, MonitorKept

(* The writes of the rows of a pool.                                        *)
LEMMA ItemsStep ==
  ASSUME MonitorInv, NEW new, new = [i \in Items |-> new[i]], \A i \in Items : ItemTable(i, new[i]),
         items' = new, TablesChange, UNCHANGED <<pools, served, gen>>,
         \/ UNCHANGED monReq
         \/ \E r \in MonitorRequests : monReq' = [monReq EXCEPT ![r] = NoMonReq]
  PROVE  MonitorInv'
<1>1. /\ monReq' = [s \in MonitorRequests |-> monReq'[s]]
      /\ \A s \in MonitorRequests : MonReqRow(monReq'[s])
  <2>1. CASE UNCHANGED monReq
    BY <2>1 DEF MonitorInv
  <2>2. CASE \E r \in MonitorRequests : monReq' = [monReq EXCEPT ![r] = NoMonReq]
    BY <2>2, NoMonReqIs, MonReqGoes
  <2>. QED
    BY <2>1, <2>2
<1>2. pools = [p \in Pools |-> pools[p]] /\ \A p \in Pools : PoolTable(p, pools[p])
  BY DEF MonitorInv
<1>3. UNCHANGED <<served, gen>> /\ UNCHANGED pools
  OBVIOUS
<1>. QED
  BY <1>1, <1>2, <1>3, MonitorKept

LEMMA ItemWritten ==
  ASSUME MonitorInv, NEW i \in Items, NEW row, ItemTable(i, row),
         items' = [items EXCEPT ![i] = row], TablesChange, UNCHANGED <<pools, served, gen>>,
         \/ UNCHANGED monReq
         \/ \E r \in MonitorRequests : monReq' = [monReq EXCEPT ![r] = NoMonReq]
  PROVE  MonitorInv'
<1>1. items = [k \in Items |-> items[k]] /\ \A k \in Items : ItemTable(k, items[k])
  BY DEF MonitorInv
<1>2. items' = [k \in Items |-> items'[k]] /\ \A k \in Items : ItemTable(k, items'[k])
  BY <1>1
<1>. QED
  BY <1>2, ItemsStep

LEMMA SendGroupDeleteStep ==
  ASSUME MonitorInv, NEW r \in MonitorRequests, SendGroupDelete(r)
  PROVE  MonitorInv'
<1>1. monReq[r].id \in Items
  BY DEF MonitorInv, MonReqRow, SendGroupDelete
<1>2. PICK row : row = [NoItem EXCEPT !.state = "gone"]
  OBVIOUS
<1>3. ItemTable(monReq[r].id, row)
  BY <1>2, NoItemIs DEF ItemTable
<1>. QED
  BY <1>1, <1>2, <1>3, ItemWritten DEF SendGroupDelete

(* What the rows of an item may be.                                         *)
RowOf(z, P, F, J) ==
  \E p \in P, o \in BOOLEAN, form \in F, j \in J :
    z = [state |-> "there", pool |-> p, on |-> o, sd |-> form.sd,
         token |-> form.token, group |-> j]

LEMMA ItemRowsAre ==
  ASSUME NEW i \in Items
  PROVE  \E P, F, J : \A z : z \in ItemRows(i) <=> RowOf(z, P, F, J)
<1>1. PICK P : P = {q \in Pools : PoolTypeOf(q) = PoolTypeOfFile(ItemTypeOf(i))}
  OBVIOUS
<1>2. PICK F : F = IF ItemTypeOf(i) = "main" THEN JobForms(i) ELSE {[sd |-> "none", token |-> FALSE]}
  OBVIOUS
<1>3. PICK J : J = IF ItemTypeOf(i) = "alert" THEN {k \in Items : ItemTypeOf(k) = "alertmanager"} ELSE {0}
  OBVIOUS
<1>4. \A z : z \in ItemRows(i) <=> RowOf(z, P, F, J)
  BY <1>1, <1>2, <1>3 DEF ItemRows, RowOf
<1>. QED
  BY <1>4, Zenon

(* A row of an item that is switched on or off is still one.                *)
LEMMA Switched ==
  ASSUME NEW i \in Items, NEW row \in ItemRows(i), NEW on \in BOOLEAN
  PROVE  \A y : y = [row EXCEPT !.on = on] => y \in ItemRows(i)
<1>1. PICK P, F, J : \A z : z \in ItemRows(i) <=> RowOf(z, P, F, J)
  BY ItemRowsAre
<1>2. PICK p \in P, o \in BOOLEAN, form \in F, j \in J :
        row = [state |-> "there", pool |-> p, on |-> o, sd |-> form.sd,
               token |-> form.token, group |-> j]
  BY <1>1 DEF RowOf
<1>3. PICK z : z = [state |-> "there", pool |-> p, on |-> on, sd |-> form.sd,
                    token |-> form.token, group |-> j]
  OBVIOUS
<1>4. ASSUME NEW y, y = [row EXCEPT !.on = on] PROVE y = z
  BY <1>2, <1>3, <1>4
<1>5. z \in ItemRows(i)
  BY <1>1, <1>3 DEF RowOf
<1>. QED
  BY <1>4, <1>5, Zenon

(* The requests about the rows of the pools.                                *)
LEMMA ItemWriteStep ==
  ASSUME MonitorInv, NEW f, NEW i \in Items, NEW row \in ItemRows(i),
         CreateItem(f, i, row) \/ UpdateItem(f, i, row)
  PROVE  MonitorInv'
<1>1. /\ items' = [items EXCEPT ![i] = row] /\ TablesChange
      /\ UNCHANGED <<pools, served, gen>> /\ UNCHANGED monReq
  BY DEF CreateItem, UpdateItem, WriteItems
<1>2. ItemTable(i, row)
  BY DEF ItemTable
<1>. QED
  BY <1>1, <1>2, ItemWritten

LEMMA ItemThere ==
  ASSUME MonitorInv, NEW i \in Items, There(items[i])
  PROVE  items[i] \in ItemRows(i)
BY DEF MonitorInv, ItemTable, There

LEMMA ItemsSwitchStep ==
  ASSUME MonitorInv, NEW f, NEW S, NEW on \in BOOLEAN, EnableItems(f, S, on)
  PROVE  MonitorInv'
<1>1. PICK new : new = [i \in Items |-> IF i \in S THEN [items[i] EXCEPT !.on = on] ELSE items[i]]
  OBVIOUS
<1>2. /\ items' = new /\ TablesChange
      /\ UNCHANGED <<pools, served, gen>> /\ UNCHANGED monReq
  BY <1>1 DEF EnableItems, WriteItems
<1>3. ASSUME NEW i \in Items PROVE ItemTable(i, new[i])
  <2>1. CASE i \in S
    <3>1. There(items[i])
      BY <2>1 DEF EnableItems
    <3>2. items[i] \in ItemRows(i)
      BY <3>1, ItemThere
    <3>3. new[i] = [items[i] EXCEPT !.on = on]
      BY <1>1, <2>1, Zenon
    <3>4. new[i] \in ItemRows(i)
      BY <3>2, <3>3, Switched, Zenon
    <3>. QED
      BY <3>4 DEF ItemTable
  <2>2. CASE i \notin S
    <3>1. new[i] = items[i]
      BY <1>1, <2>2, Zenon
    <3>. QED
      BY <3>1 DEF MonitorInv
  <2>. QED
    BY <2>1, <2>2
<1>4. new = [i \in Items |-> new[i]]
  BY <1>1, Zenon
<1>. QED
  BY <1>2, <1>3, <1>4, ItemsStep

LEMMA ItemsDeleteStep ==
  ASSUME MonitorInv, NEW f, NEW S, DeleteItems(f, S)
  PROVE  MonitorInv'
<1>1. PICK gone : gone = [NoItem EXCEPT !.state = "gone"]
  OBVIOUS
<1>2. PICK new : new = [i \in Items |-> IF i \in S THEN gone ELSE items[i]]
  OBVIOUS
<1>3. /\ items' = new /\ TablesChange
      /\ UNCHANGED <<pools, served, gen>> /\ UNCHANGED monReq
  BY <1>1, <1>2 DEF DeleteItems, WriteItems
<1>4. ASSUME NEW i \in Items PROVE ItemTable(i, new[i])
  BY <1>1, <1>2, NoItemIs DEF ItemTable, MonitorInv
<1>5. new = [i \in Items |-> new[i]]
  BY <1>2
<1>. QED
  BY <1>3, <1>4, <1>5, ItemsStep

LEMMA ItemHandlersStep ==
  ASSUME MonitorInv, ItemHandlers
  PROVE  MonitorInv'
<1>1. ASSUME NEW i \in Writable, NEW row \in ItemRows(i), NEW f,
             CreateItem(f, i, row) \/ UpdateItem(f, i, row)
      PROVE  MonitorInv'
  BY <1>1, ItemWriteStep DEF Writable
<1>2. ASSUME NEW f, NEW S, NEW on \in BOOLEAN, EnableItems(f, S, on) PROVE MonitorInv'
  BY <1>2, ItemsSwitchStep
<1>3. ASSUME NEW f, NEW S, DeleteItems(f, S) PROVE MonitorInv'
  BY <1>3, ItemsDeleteStep
<1>. QED
  BY <1>1, <1>2, <1>3
     DEF ItemHandlers, createMonitorPromScrapeJob, updateMonitorPromScrapeJob,
         setMonitorPromScrapeJobStatus, deleteMonitorPromScrapeJob,
         createMonitorPromAlertRule, updateMonitorPromAlertRule, setMonitorPromAlertRuleStatus,
         setMonitorPromAlertRuleStatusBatch, deleteMonitorPromAlertRule,
         deleteMonitorPromAlertRuleBatch, createMonitorPromRecordRule,
         updateMonitorPromRecordRule, setMonitorPromRecordRuleStatus,
         setMonitorPromRecordRuleStatusBatch, deleteMonitorPromRecordRule,
         deleteMonitorPromRecordRuleBatch, createMonitorAlertManagerSendGroup,
         updateMonitorAlertManagerSendGroup, setAlertManagerSendGroupStatus

(* The requests about pools and send groups.                                *)
LEMMA PoolHandlersStep ==
  ASSUME MonitorInv, PoolHandlers
  PROVE  MonitorInv'
<1>1. ASSUME NEW r \in MonitorRequests, NEW p \in Pools, NEW row \in PoolRows(p),
             CreatePool(r, p, row) \/ UpdatePool(r, p, row)
      PROVE  MonitorInv'
  <2>1. PICK op \in {"create", "update"} : Check(r, op, p, row)
    BY <1>1 DEF CreatePool, UpdatePool
  <2>. QED
    BY <2>1, CheckStep
<1>2. ASSUME NEW r \in MonitorRequests, NEW p \in Pools, NEW f, DeletePool(r, p, f)
      PROVE  MonitorInv'
  BY <1>2, CheckStep DEF DeletePool
<1>3. ASSUME NEW r \in MonitorRequests, NEW i \in Items, deleteMonitorAlertManagerSendGroup(r, i)
      PROVE  MonitorInv'
  BY <1>3, CheckStep DEF deleteMonitorAlertManagerSendGroup
<1>4. ASSUME NEW r \in MonitorRequests, PoolWrite(r) \/ SendGroupDelete(r) PROVE MonitorInv'
  BY <1>4, PoolWriteStep, SendGroupDeleteStep
<1>. QED
  BY <1>1, <1>2, <1>3, <1>4
     DEF PoolHandlers, createMonitorPromScrapePool, updateMonitorPromScrapePool,
         deleteMonitorPromScrapePool, createMonitorAlertManagerPool,
         updateMonitorAlertManagerPool, deleteMonitorAlertManagerPool

(* The goroutines.                                                          *)
LEMMA CacheStep ==
  ASSUME MonitorInv, MonitorCacheManager
  PROVE  MonitorInv'
<1>1. ASSUME NEW f \in Files, GenerateStarts(f) \/ GenerateEnds(f) PROVE MonitorInv'
  BY <1>1, PassBegins, PassEnds
<1>2. ASSUME NEW ok \in BOOLEAN, GeneratePrometheusScrapeConfigYamlOnePool(ok) PROVE MonitorInv'
  <2>1. PICK f : f = "main"
    OBVIOUS
  <2>2. PICK y : PoolRead(f, ok, y)
                 /\ y = IF RowsNow(f, ok) = {} THEN Skipped(gen[f], Tail(gen[f].todo))
                        ELSE ToSecrets(f, RowsNow(f, ok))
    BY <1>2, <2>1, Zenon DEF GeneratePrometheusScrapeConfigYamlOnePool, Skipped
  <2>3. \/ y = Skipped(gen[f], Tail(gen[f].todo))
        \/ y = ToSecrets(f, RowsNow(f, ok))
    BY <2>2
  <2>. QED
    BY <2>1, <2>2, <2>3, PoolsAreRead
<1>3. ASSUME NEW ok \in BOOLEAN, GenerateAlertManagerRouteConfigYamlOnePool(ok) PROVE MonitorInv'
  <2>1. PICK f : f = "alertmanager"
    OBVIOUS
  <2>2. PICK y : PoolRead(f, ok, y) /\ y = ToSecrets(f, RowsNow(f, ok))
    BY <1>3, <2>1, Zenon DEF GenerateAlertManagerRouteConfigYamlOnePool
  <2>. QED
    BY <2>1, <2>2, PoolsAreRead
<1>4. ASSUME NEW ok \in BOOLEAN, NEW f \in {"alert", "record"}, RulesOfPool(f, ok)
      PROVE  MonitorInv'
  BY <1>4, RulesAreRead
<1>5. ASSUME NEW ok \in BOOLEAN,
             GeneratePrometheusMainConfigYaml(ok) \/ GenerateAlertManagerMainConfigYaml(ok)
      PROVE  MonitorInv'
  BY <1>5, MainIsWritten, RoutesAreWritten
<1>. QED
  BY <1>1, <1>2, <1>3, <1>4, <1>5
     DEF MonitorCacheManager, GeneratePrometheusAlertRuleConfigYamlOnePool,
         GeneratePrometheusRecordRuleConfigYamlOnePool

(* The steps of the monitoring.                                             *)
LEMMA MonitorGoesOn ==
  ASSUME MonitorInv, MonitorNext
  PROVE  MonitorInv'
BY CacheStep, PoolHandlersStep, ItemHandlersStep DEF MonitorNext

LEMMA MonitorStutters ==
  ASSUME MonitorInv, UNCHANGED monitorVars
  PROVE  MonitorInv'
<1>1. UNCHANGED <<pools, items, served, gen, calm, monReq, tableEdits>>
  BY DEF monitorVars
<1>2. /\ pools = [p \in Pools |-> pools[p]] /\ \A p \in Pools : PoolTable(p, pools[p])
      /\ items = [i \in Items |-> items[i]] /\ \A i \in Items : ItemTable(i, items[i])
      /\ monReq = [s \in MonitorRequests |-> monReq[s]]
      /\ \A s \in MonitorRequests : MonReqRow(monReq[s])
  BY DEF MonitorInv
<1>. QED
  BY <1>1, <1>2, MonitorKept

(* What they begin with, for the file that a behaviour is about.            *)
LEMMA MonitorStart ==
  ASSUME NEW f, MonitorInitAbout(f)
  PROVE  MonitorInv
<1>1. pools = [p \in Pools |-> pools[p]] /\ \A p \in Pools : PoolTable(p, pools[p])
  <2>1. PICK gone : gone = [NoPool EXCEPT !.state = "gone"]
    OBVIOUS
  <2>2. pools = [p \in Pools |-> IF PoolTypeOf(p) = PoolTypeOfFile(f) THEN NoPool ELSE gone]
    BY <2>1, Zenon DEF MonitorInitAbout
  <2>. QED
    BY <2>1, <2>2, NoPoolIs DEF PoolTable
<1>2. items = [i \in Items |-> items[i]] /\ \A i \in Items : ItemTable(i, items[i])
  <2>1. PICK gone : gone = [NoItem EXCEPT !.state = "gone"]
    OBVIOUS
  <2>2. items = [i \in Items |-> IF i \in RowsOfFile(f) THEN NoItem ELSE gone]
    BY <2>1, Zenon DEF MonitorInitAbout
  <2>. QED
    BY <2>1, <2>2, NoItemIs DEF ItemTable
<1>3. served = [g \in Files |-> served[g]] /\ \A g \in Files : DOMAIN served[g] = Machines
  BY NoFilesIs DEF MonitorInitAbout
<1>4. gen = [g \in Files |-> gen[g]]
      /\ \A g \in Files : Generator(gen[g]) /\ gen[g].pc = "idle"
  BY IdleIs DEF MonitorInitAbout
<1>5. calm \in [Files -> BOOLEAN] /\ tableEdits \in 0..MaxTableEdits
  BY MonitorConfigAssumption DEF MonitorInitAbout
<1>6. /\ monReq = [r \in MonitorRequests |-> monReq[r]]
      /\ \A r \in MonitorRequests : MonReqRow(monReq[r])
  BY NoMonReqIs DEF MonitorInitAbout
<1>. QED
  BY <1>1, <1>2, <1>3, <1>4, <1>5, <1>6 DEF MonitorInv

-----------------------------------------------------------------------------
(* How many of S are smaller.                                               *)
Below(S, n) == {m \in S : m < n}

(* Sorted lists each of a finite set of numbers once.                       *)
LEMMA SortedIs ==
  ASSUME NEW S \in SUBSET Nat, IsFiniteSet(S)
  PROVE  /\ Cardinality(S) \in Nat
         /\ DOMAIN Sorted(S) = 1..Cardinality(S)
         /\ \A k \in 1..Cardinality(S) : Sorted(S)[k] \in S
         /\ \A n \in S : \E k \in 1..Cardinality(S) : Sorted(S)[k] = n
         /\ \A j, k \in 1..Cardinality(S) : Sorted(S)[j] = Sorted(S)[k] => j = k
<1>. DEFINE c == Cardinality(S)
<1>1. c \in Nat
  BY FS_CardinalityType
<1>2. \A n \in S : IsFiniteSet(Below(S, n)) /\ Cardinality(Below(S, n)) \in 0..c - 1
  <2>. TAKE n \in S
  <2>1. Below(S, n) \in SUBSET S /\ Below(S, n) # S
    <3>1. n \in Nat
      OBVIOUS
    <3>2. n \notin Below(S, n)
      BY <3>1 DEF Below
    <3>3. Below(S, n) \in SUBSET S
      BY DEF Below
    <3>. QED
      BY <3>2, <3>3, Zenon
  <2>2. IsFiniteSet(Below(S, n)) /\ Cardinality(Below(S, n)) <= c /\ Cardinality(Below(S, n)) # c
    BY <2>1, FS_Subset
  <2>3. Cardinality(Below(S, n)) \in Nat
    BY <2>2, FS_CardinalityType
  <2>. QED
    BY <1>1, <2>2, <2>3
<1>3. \A m, n \in S : m < n => Cardinality(Below(S, m)) < Cardinality(Below(S, n))
  <2>. SUFFICES ASSUME NEW m \in S, NEW n \in S, m < n
                PROVE  Cardinality(Below(S, m)) < Cardinality(Below(S, n))
    OBVIOUS
  <2>1. Below(S, m) \in SUBSET Below(S, n) /\ m \in Below(S, n) /\ m \notin Below(S, m)
    <3>1. \A x \in S : x \in Nat
      OBVIOUS
    <3>2. \A x \in Below(S, m) : x \in Below(S, n)
      BY <3>1 DEF Below
    <3>3. m \in Below(S, n) /\ m \notin Below(S, m)
      BY <3>1 DEF Below
    <3>. QED
      BY <3>2, <3>3
  <2>2. /\ Cardinality(Below(S, m)) <= Cardinality(Below(S, n))
        /\ Cardinality(Below(S, m)) # Cardinality(Below(S, n))
    BY <1>2, <2>1, FS_Subset
  <2>. QED
    BY <1>1, <1>2, <2>2
<1>4. \A m, n \in S : Cardinality(Below(S, m)) = Cardinality(Below(S, n)) => m = n
  <2>. TAKE m, n \in S
  <2>1. m \in Nat /\ n \in Nat
    OBVIOUS
  <2>2. Cardinality(Below(S, m)) \in Nat /\ Cardinality(Below(S, n)) \in Nat
    BY <1>1, <1>2
  <2>. QED
    BY <1>3, <2>1, <2>2
<1>5. \A k \in 1..c : \E n \in S : Cardinality(Below(S, n)) = k - 1
  <2>. SUFFICES ASSUME NEW k \in 1..c, \A n \in S : Cardinality(Below(S, n)) # k - 1
                PROVE  FALSE
    OBVIOUS
  <2>. DEFINE T == (0..c - 1) \ {k - 1}
              rank == [n \in S |-> Cardinality(Below(S, n))]
  <2>1. PICK U : U = 0..c - 1
    OBVIOUS
  <2>2. IsFiniteSet(T) /\ Cardinality(T) = c - 1
    <3>1. 0 \in Int /\ c - 1 \in Int /\ ~(0 > c - 1) /\ (c - 1) - 0 + 1 = c /\ k - 1 \in 0..c - 1
      BY <1>1
    <3>2. IsFiniteSet(0..c - 1) /\ Cardinality(0..c - 1) = c
      <4>. HIDE DEF c
      <4>1. PICK b : b = c - 1
        OBVIOUS
      <4>2. IsFiniteSet(0..b) /\ Cardinality(0..b) = IF 0 > b THEN 0 ELSE b - 0 + 1
        BY <3>1, <4>1, FS_Interval
      <4>. QED
        BY <3>1, <4>1, <4>2
    <3>3. IsFiniteSet(U) /\ Cardinality(U) = c /\ k - 1 \in U
      BY <2>1, <3>1, <3>2, Zenon
    <3>4. IsFiniteSet(U \ {k - 1}) /\ Cardinality(U \ {k - 1}) = c - 1
      <4>. HIDE DEF c
      <4>1. PICK e : e = k - 1
        OBVIOUS
      <4>. QED
        BY <3>3, <4>1, FS_RemoveElement
    <3>. QED
      BY <2>1, <3>4, Zenon
  <2>3. rank \in [S -> T]
    BY <1>2
  <2>4. Cardinality(T) < Cardinality(S)
    BY <1>1, <2>2
  <2>5. \E m, n \in S : m # n /\ rank[m] = rank[n]
    <3>. HIDE DEF T, rank
    <3>. QED
      BY <2>2, <2>3, <2>4, FS_PigeonHole
  <2>. QED
    BY <1>4, <2>5
<1>6. \A k \in 1..c : Sorted(S)[k] \in S /\ Cardinality(Below(S, Sorted(S)[k])) = k - 1
  <2>. TAKE k \in 1..c
  <2>1. Sorted(S)[k] = CHOOSE n \in S : Cardinality(Below(S, n)) = k - 1
    BY DEF Sorted, Below
  <2>. QED
    BY <1>5, <2>1
<1>7. \A n \in S : \E k \in 1..c : Sorted(S)[k] = n
  <2>. TAKE n \in S
  <2>1. PICK k \in 1..c : Cardinality(Below(S, n)) = k - 1
    <3>1. Cardinality(Below(S, n)) + 1 \in 1..c
      BY <1>1, <1>2
    <3>. QED
      BY <1>1, <1>2, <3>1
  <2>. QED
    BY <1>4, <1>6, <2>1
<1>8. \A j, k \in 1..c : Sorted(S)[j] = Sorted(S)[k] => j = k
  <2>. TAKE j, k \in 1..c
  <2>1. j - 1 = k - 1 => j = k
    OBVIOUS
  <2>. QED
    BY <1>6, <2>1
<1>9. DOMAIN Sorted(S) = 1..c
  BY DEF Sorted
<1>. QED
  BY <1>1, <1>6, <1>7, <1>8, <1>9

-----------------------------------------------------------------------------
(* A pass that nothing came between.  The pools before it are a list of     *)
(* Entries; of the first of them n instances have their files, and those of *)
(* the pools that are no longer in the list have theirs.                    *)
Entry(p) == <<p, pools[p].ips>>

Entries(f) == {Entry(p) : p \in PoolsFor(f)}

PlacesOf(p, f) == Numbered([i \in ItemsOf(p, f) |-> Masked(i)])

PoolFile(f, share, p) ==
  [part |-> share,
   items |-> [k \in DOMAIN PlacesOf(p, f) |-> PlacesOf(p, f)[k][1]],
   secrets |-> Replace(SecretPlaces(PlacesOf(p, f)),
                       SecretPlaces(Numbered([i \in ItemsOf(p, f) |-> Unmasked(i)])))]

(* The rules of the k-th instance of a pool.                                *)
Mine(f, p, k) ==
  {j \in DOMAIN Sorted(ItemsOf(p, f)) : (j - 1) % Len(pools[p].ips) = k - 1}

RuleFile(f, p, k) ==
  [part |-> <<1, 0>>, items |-> Sorted({Sorted(ItemsOf(p, f))[j] : j \in Mine(f, p, k)}),
   secrets |-> <<>>]

(* What the k-th instance of a pool is to have.                             *)
Given(f, p, k) ==
  IF f = "alertmanager" THEN PoolFile(f, <<1, 0>>, p)
  ELSE IF ItemsOf(p, f) = {} THEN NoFile
  ELSE IF f = "main" THEN PoolFile(f, HashModScrapeConfig(Len(pools[p].ips), k), p)
  ELSE RuleFile(f, p, k)

Before(e, todo) == \E j \in DOMAIN todo : todo[j] = e

Filled(p, k, todo, n) == ~Before(Entry(p), todo) \/ (Entry(p) = Head(todo) /\ k <= n)

Good(f, todo, n, files) ==
  /\ todo \in Seq(Entries(f))
  /\ \A j, k \in DOMAIN todo : todo[j] = todo[k] => j = k
  /\ \A p \in PoolsFor(f) : \A k \in DOMAIN pools[p].ips :
       files[pools[p].ips[k]] = IF Filled(p, k, todo, n) THEN Given(f, p, k) ELSE NoFile
  /\ \A ip \in Machines :
       (\A p \in PoolsFor(f) : ip \notin Seqs!Range(pools[p].ips)) => files[ip] = NoFile

Secrets(f, g) ==
  LET p == Head(g.todo)[1]
  IN  /\ g.todo # <<>>
      /\ g.rows = PlacesOf(p, f)
      /\ g.at \in 1..Len(pools[p].ips)
      /\ f = "main" => ItemsOf(p, f) # {}
      /\ f = "alertmanager" => g.at = 1

Through(f, g) ==
  /\ Good(f, g.todo, IF g.pc = "secrets" THEN g.at - 1 ELSE 0, g.files)
  /\ g.pc = "secrets" => Secrets(f, g)

PassInv(f) == calm[f] /\ gen[f].pc # "idle" /\ Apart => Through(f, gen[f])

-----------------------------------------------------------------------------
(* The rows of pools and items.                                             *)
LEMMA PoolIs ==
  ASSUME MonitorInv, NEW f, NEW p \in PoolsFor(f)
  PROVE  LET ips == pools[p].ips
         IN  /\ p \in Pools /\ There(pools[p]) /\ PoolTypeOf(p) = PoolTypeOfFile(f)
             /\ ips \in Seq(Machines) /\ ips # <<>>
             /\ Len(ips) \in Nat \ {0} /\ DOMAIN ips = 1..Len(ips)
             /\ \A k \in DOMAIN ips : ips[k] \in Machines
<1>1. p \in Pools /\ There(pools[p]) /\ PoolTypeOf(p) = PoolTypeOfFile(f)
  BY DEF PoolsFor
<1>2. pools[p] \in PoolRows(p)
  BY <1>1 DEF MonitorInv, PoolTable, There
<1>3. PICK form \in PoolForms(p) : pools[p].ips = form.ips
  BY <1>2 DEF PoolRows
<1>4. PICK ips : ips = pools[p].ips
  OBVIOUS
<1>5. ips \in Seq(Seqs!Range(ips)) /\ ips # <<>>
  BY <1>1, <1>3, <1>4, MonitorConfigAssumption
<1>6. Seqs!Range(ips) \subseteq Machines
  BY <1>1, <1>3, <1>4 DEF Machines
<1>7. ips \in Seq(Machines)
  BY <1>5, <1>6, SeqMonotonic
<1>8. Len(ips) \in Nat /\ DOMAIN ips = 1..Len(ips) /\ \A k \in DOMAIN ips : ips[k] \in Machines
  BY <1>7, LenProperties, ElementOfSeq
<1>9. Len(ips) # 0
  BY <1>5, <1>7, EmptySeq
<1>. QED
  BY <1>1, <1>4, <1>5, <1>7, <1>8, <1>9

(* Where no instance is named twice, each has one place in its pool.        *)
LEMMA NamedOnce ==
  ASSUME Apart, NEW f, NEW p \in PoolsFor(f)
  PROVE  \A j, k \in DOMAIN pools[p].ips : pools[p].ips[j] = pools[p].ips[k] => j = k
<1>1. p \in Pools /\ There(pools[p])
  BY DEF PoolsFor
<1>. QED
  BY <1>1 DEF Apart, Seqs!IsInjective

(* Where no instance is in two pools, two pools have no instance in common. *)
LEMMA PoolsApart ==
  ASSUME MonitorInv, Apart, NEW f, NEW p \in PoolsFor(f), NEW q \in PoolsFor(f),
         NEW j \in DOMAIN pools[p].ips, NEW k \in DOMAIN pools[q].ips,
         pools[p].ips[j] = pools[q].ips[k]
  PROVE  p = q /\ j = k
<1>1. p \in Pools /\ q \in Pools /\ There(pools[p]) /\ There(pools[q]) /\ PoolTypeOf(p) = PoolTypeOf(q)
  BY DEF PoolsFor
<1>2. p = q
  <2>. SUFFICES ASSUME p # q PROVE FALSE
    OBVIOUS
  <2>1. pools[q].ips[k] \in Seqs!Range(pools[q].ips) \cap Seqs!Range(pools[p].ips)
    BY DEF Seqs!Range
  <2>2. CheckInstanceIpExists(p, pools[p].ips)
    BY <1>1, <2>1 DEF CheckInstanceIpExists
  <2>. QED
    BY <1>1, <2>2 DEF Apart
<1>. QED
  BY <1>2, NamedOnce

LEMMA ItemsAre ==
  ASSUME NEW p, NEW f
  PROVE  ItemsOf(p, f) \in SUBSET Nat /\ IsFiniteSet(ItemsOf(p, f))
<1>1. ItemsOf(p, f) \subseteq Items /\ ItemsOf(p, f) \in SUBSET (Items \cup Pools)
  BY DEF ItemsOf
<1>. QED
  BY <1>1, FS_Subset, MonitorConfigAssumption

(* The file of a pool of jobs or send groups has the items of the pool, and *)
(* secrets where they belong if there are as many as places.                *)
LEMMA PoolFileIs ==
  ASSUME NEW f, NEW share, NEW p
  PROVE  /\ PoolFile(f, share, p).part = share
         /\ InFile(PoolFile(f, share, p)) = ItemsOf(p, f)
         /\ (\A i \in ItemsOf(p, f) : Masked(i) = Unmasked(i)) =>
               \A n \in DOMAIN PoolFile(f, share, p).secrets :
                 PoolFile(f, share, p).secrets[n][1] = PoolFile(f, share, p).secrets[n][2]
<1>1. PoolFile(f, share, p).part = share
  BY DEF PoolFile
<1>2. InFile(PoolFile(f, share, p)) = ItemsOf(p, f)
  <2>1. PICK S : S = ItemsOf(p, f)
    OBVIOUS
  <2>2. PICK s : s = Sorted(S)
    OBVIOUS
  <2>3. S \in SUBSET Nat /\ IsFiniteSet(S)
    BY <2>1, ItemsAre
  <2>4. /\ \A k \in DOMAIN s : s[k] \in S
        /\ \A n \in S : \E k \in DOMAIN s : s[k] = n
    BY <2>2, <2>3, SortedIs
  <2>5. PICK R : R = PlacesOf(p, f)
    OBVIOUS
  <2>6. DOMAIN R = DOMAIN s /\ \A k \in DOMAIN s : R[k][1] = s[k]
    <3>1. PICK number : number = [i \in S |-> Masked(i)]
      OBVIOUS
    <3>2. DOMAIN number = S
      BY <3>1
    <3>3. R = Numbered(number)
      BY <2>1, <2>5, <3>1 DEF PlacesOf
    <3>4. R = [k \in DOMAIN s |-> <<s[k], number[s[k]]>>]
      BY <2>2, <3>2, <3>3 DEF Numbered
    <3>. QED
      BY <3>4
  <2>7. PICK list : list = [k \in DOMAIN R |-> R[k][1]]
    OBVIOUS
  <2>8. DOMAIN list = DOMAIN s /\ \A k \in DOMAIN s : list[k] = s[k]
    BY <2>6, <2>7
  <2>9. PoolFile(f, share, p).items = list
    BY <2>5, <2>7 DEF PoolFile
  <2>10. Seqs!Range(list) = S
    BY <2>4, <2>8 DEF Seqs!Range
  <2>. QED
    BY <2>1, <2>9, <2>10, Zenon DEF InFile
<1>3. ASSUME \A i \in ItemsOf(p, f) : Masked(i) = Unmasked(i)
      PROVE  \A n \in DOMAIN PoolFile(f, share, p).secrets :
               PoolFile(f, share, p).secrets[n][1] = PoolFile(f, share, p).secrets[n][2]
  <2>1. PICK P : P = SecretPlaces(PlacesOf(p, f))
    OBVIOUS
  <2>2. [i \in ItemsOf(p, f) |-> Masked(i)] = [i \in ItemsOf(p, f) |-> Unmasked(i)]
    BY <1>3
  <2>3. P = SecretPlaces(Numbered([i \in ItemsOf(p, f) |-> Unmasked(i)]))
    BY <2>1, <2>2, Zenon DEF PlacesOf
  <2>4. PoolFile(f, share, p).secrets = Replace(P, P)
    BY <2>1, <2>3, Zenon DEF PoolFile
  <2>5. PICK r : r = Replace(P, P)
    OBVIOUS
  <2>6. DOMAIN r = 1..Len(P) /\ \A n \in 1..Len(P) : r[n] = <<P[n], P[n]>>
    <3>1. PICK m : m = Len(P)
      OBVIOUS
    <3>2. r = [n \in 1..m |-> <<P[n], IF n <= m THEN P[n] ELSE 0>>]
      BY <2>5, <3>1 DEF Replace
    <3>. QED
      BY <3>1, <3>2
  <2>7. \A n \in DOMAIN r : r[n][1] = r[n][2]
    BY <2>6
  <2>. QED
    BY <2>4, <2>5, <2>7, Zenon
<1>. QED
  BY <1>1, <1>2, <1>3

-----------------------------------------------------------------------------
(* The entries of a list and of what is left of it.                         *)
LEMMA EntriesAre ==
  ASSUME NEW f, NEW todo, todo \in Seq(Entries(f)), todo # <<>>,
         \A j, k \in DOMAIN todo : todo[j] = todo[k] => j = k
  PROVE  /\ \E p \in PoolsFor(f) : Head(todo) = Entry(p)
         /\ Before(Head(todo), todo)
         /\ Tail(todo) \in Seq(Entries(f))
         /\ \A j, k \in DOMAIN Tail(todo) : Tail(todo)[j] = Tail(todo)[k] => j = k
         /\ \A e : Before(e, Tail(todo)) <=> Before(e, todo) /\ e # Head(todo)
<1>. DEFINE E == Entries(f)
<1>1. todo \in Seq(E) /\ Len(todo) \in Nat \ {0} /\ DOMAIN todo = 1..Len(todo)
  BY LenProperties, EmptySeq
<1>2. Head(todo) = todo[1] /\ Head(todo) \in E
  <2>. HIDE DEF E
  <2>. QED
    BY <1>1, HeadTailProperties
<1>3. /\ Tail(todo) \in Seq(E) /\ DOMAIN Tail(todo) = 1..Len(todo) - 1
      /\ \A k \in 1..Len(todo) - 1 : Tail(todo)[k] = todo[k + 1]
  <2>. HIDE DEF E
  <2>1. Tail(todo) \in Seq(E) /\ Len(Tail(todo)) = Len(todo) - 1
    BY <1>1, HeadTailProperties
  <2>2. \A k \in 1..Len(todo) - 1 : Tail(todo)[k] = todo[k + 1]
    BY <1>1, HeadTailProperties
  <2>. QED
    BY <2>1, <2>2, LenProperties
<1>4. \E p \in PoolsFor(f) : Head(todo) = Entry(p)
  BY <1>2 DEF Entries
<1>5. Before(Head(todo), todo)
  BY <1>1, <1>2 DEF Before
<1>6. \A j, k \in DOMAIN Tail(todo) : Tail(todo)[j] = Tail(todo)[k] => j = k
  <2>. SUFFICES ASSUME NEW j \in 1..Len(todo) - 1, NEW k \in 1..Len(todo) - 1,
                       todo[j + 1] = todo[k + 1]
                PROVE  j = k
    BY <1>3
  <2>1. j + 1 \in DOMAIN todo /\ k + 1 \in DOMAIN todo
    BY <1>1
  <2>2. j + 1 = k + 1
    BY <2>1
  <2>. QED
    BY <2>2
<1>7. ASSUME NEW e
      PROVE  Before(e, Tail(todo)) <=> Before(e, todo) /\ e # Head(todo)
  <2>1. ASSUME NEW k \in 1..Len(todo) - 1, Tail(todo)[k] = e
        PROVE  Before(e, todo) /\ e # Head(todo)
    <3>1. k + 1 \in DOMAIN todo /\ todo[k + 1] = e /\ 1 \in DOMAIN todo /\ k + 1 # 1
      BY <1>1, <1>3, <2>1
    <3>. QED
      BY <1>2, <3>1 DEF Before
  <2>2. ASSUME NEW k \in DOMAIN todo, todo[k] = e, e # Head(todo)
        PROVE  Before(e, Tail(todo))
    <3>1. k - 1 \in 1..Len(todo) - 1 /\ (k - 1) + 1 = k
      BY <1>1, <1>2, <2>2
    <3>2. Tail(todo)[k - 1] = e
      BY <1>3, <2>2, <3>1
    <3>. QED
      BY <1>3, <3>1, <3>2 DEF Before
  <2>. QED
    BY <1>3, <2>1, <2>2 DEF Before
<1>. QED
  BY <1>3, <1>4, <1>5, <1>6, <1>7

(* The n + 1st to m-th instance of a pool are given their files.            *)
Gives(f, p, n, m, files, new) ==
  /\ \A k \in DOMAIN pools[p].ips :
       new[pools[p].ips[k]] =
         IF n < k /\ k <= m THEN Given(f, p, k) ELSE files[pools[p].ips[k]]
  /\ \A ip \in Machines : ip \notin Seqs!Range(pools[p].ips) => new[ip] = files[ip]

(* The files of more instances of the first pool are there.                 *)
LEMMA GoodFills ==
  ASSUME MonitorInv, Apart, NEW f, NEW todo, NEW n \in Nat, NEW m \in Nat, n <= m, NEW files, NEW new,
         Good(f, todo, n, files), todo # <<>>,
         NEW p \in PoolsFor(f), Head(todo) = Entry(p), Gives(f, p, n, m, files, new)
  PROVE  Good(f, todo, m, new)
<1>1. /\ todo \in Seq(Entries(f)) /\ \A j, k \in DOMAIN todo : todo[j] = todo[k] => j = k
      /\ Before(Entry(p), todo)
  BY EntriesAre DEF Good
<1>2. ASSUME NEW q \in PoolsFor(f), NEW k \in DOMAIN pools[q].ips
      PROVE  new[pools[q].ips[k]] = IF Filled(q, k, todo, m) THEN Given(f, q, k) ELSE NoFile
  <2>1. files[pools[q].ips[k]] = IF Filled(q, k, todo, n) THEN Given(f, q, k) ELSE NoFile
    BY DEF Good
  <2>2. pools[q].ips[k] \in Machines /\ k \in Nat
    BY PoolIs
  <2>3. CASE q = p
    <3>1. CASE n < k /\ k <= m
      <4>1. Filled(q, k, todo, m)
        BY <2>3, <3>1 DEF Filled
      <4>. QED
        BY <2>3, <3>1, <4>1 DEF Gives
    <3>2. CASE ~(n < k /\ k <= m)
      <4>1. new[pools[q].ips[k]] = files[pools[q].ips[k]]
        BY <2>3, <3>2 DEF Gives
      <4>2. k <= n <=> k <= m
        BY <2>2, <3>2
      <4>3. Filled(q, k, todo, n) <=> Filled(q, k, todo, m)
        BY <4>2 DEF Filled
      <4>. QED
        BY <2>1, <4>1, <4>3
    <3>. QED
      BY <3>1, <3>2
  <2>4. CASE q # p
    <3>1. pools[q].ips[k] \notin Seqs!Range(pools[p].ips)
      BY <2>4, PoolsApart DEF Seqs!Range
    <3>2. Entry(q) # Head(todo)
      BY <2>4 DEF Entry
    <3>3. Filled(q, k, todo, n) <=> Filled(q, k, todo, m)
      BY <3>2 DEF Filled
    <3>. QED
      BY <2>1, <2>2, <3>1, <3>3 DEF Gives
  <2>. QED
    BY <2>3, <2>4
<1>3. ASSUME NEW ip \in Machines, \A q \in PoolsFor(f) : ip \notin Seqs!Range(pools[q].ips)
      PROVE  new[ip] = NoFile
  BY <1>3 DEF Good, Gives
<1>. QED
  BY <1>1, <1>2, <1>3 DEF Good

(* The first pool is left.                                                  *)
LEMMA GoodLeaves ==
  ASSUME MonitorInv, NEW f, NEW todo, NEW files, NEW p \in PoolsFor(f), todo # <<>>,
         Head(todo) = Entry(p), Good(f, todo, Len(pools[p].ips), files)
  PROVE  Good(f, Tail(todo), 0, files)
<1>1. /\ todo \in Seq(Entries(f)) /\ \A j, k \in DOMAIN todo : todo[j] = todo[k] => j = k
  BY DEF Good
<1>2. /\ Tail(todo) \in Seq(Entries(f))
      /\ \A j, k \in DOMAIN Tail(todo) : Tail(todo)[j] = Tail(todo)[k] => j = k
      /\ \A e : Before(e, Tail(todo)) <=> Before(e, todo) /\ e # Head(todo)
  BY <1>1, EntriesAre
<1>3. ASSUME NEW q \in PoolsFor(f), NEW k \in DOMAIN pools[q].ips
      PROVE  Filled(q, k, Tail(todo), 0) <=> Filled(q, k, todo, Len(pools[p].ips))
  <2>1. k \in Nat \ {0} /\ k <= Len(pools[q].ips) /\ ~(k <= 0)
    BY PoolIs
  <2>2. Entry(q) = Head(todo) <=> q = p
    BY DEF Entry
  <2>3. Before(Entry(q), Tail(todo)) <=> Before(Entry(q), todo) /\ q # p
    BY <1>2, <2>2
  <2>. QED
    BY <2>1, <2>2, <2>3 DEF Filled
<1>4. \A q \in PoolsFor(f) : \A k \in DOMAIN pools[q].ips :
        files[pools[q].ips[k]] = IF Filled(q, k, Tail(todo), 0) THEN Given(f, q, k) ELSE NoFile
  BY <1>3 DEF Good
<1>. QED
  BY <1>2, <1>4 DEF Good

(* All files of the first pool are there at once.                           *)
LEMMA GoodSteps ==
  ASSUME MonitorInv, Apart, NEW f, NEW todo, NEW n \in Nat, NEW files, NEW new,
         Good(f, todo, n, files), todo # <<>>,
         NEW p \in PoolsFor(f), Head(todo) = Entry(p), n <= Len(pools[p].ips),
         Gives(f, p, n, Len(pools[p].ips), files, new)
  PROVE  Good(f, Tail(todo), 0, new)
<1>1. PICK m \in Nat : m = Len(pools[p].ips)
  BY PoolIs
<1>2. Good(f, todo, m, new)
  BY <1>1, GoodFills
<1>. QED
  BY <1>1, <1>2, GoodLeaves

-----------------------------------------------------------------------------
(* What the instances have at the end is what the tables say.               *)
LEMMA NoFileIs ==
  InFile(NoFile) = {} /\ NoFile.secrets = <<>> /\ DOMAIN NoFile.secrets = {} /\ NoFile.part = <<0, 0>>
BY DEF InFile, NoFile, Seqs!Range

LEMMA GivenIs ==
  ASSUME NEW f \in {"main", "alertmanager"}, NEW p, NEW k
  PROVE  /\ InFile(Given(f, p, k)) = ItemsOf(p, f)
         /\ (\A i \in ItemsOf(p, f) : Masked(i) = Unmasked(i)) =>
               \A n \in DOMAIN Given(f, p, k).secrets :
                 Given(f, p, k).secrets[n][1] = Given(f, p, k).secrets[n][2]
<1>1. CASE Given(f, p, k) = NoFile /\ ItemsOf(p, f) = {}
  BY <1>1, NoFileIs
<1>2. CASE \E share : Given(f, p, k) = PoolFile(f, share, p)
  BY <1>2, PoolFileIs
<1>. QED
  BY <1>1, <1>2 DEF Given

(* At the end each instance has its file, and no other machine any.         *)
LEMMA GoodAtEnd ==
  ASSUME MonitorInv, NEW f, NEW files, Good(f, <<>>, 0, files), NEW p \in PoolsFor(f),
         NEW k \in DOMAIN pools[p].ips
  PROVE  files[pools[p].ips[k]] = Given(f, p, k)
<1>1. Filled(p, k, <<>>, 0)
  BY DEF Filled, Before
<1>. QED
  BY <1>1 DEF Good

LEMMA ServesItems ==
  ASSUME MonitorInv, NEW f \in {"main", "alertmanager"}, NEW files, Good(f, <<>>, 0, files[f])
  PROVE  Complete(files, f) /\ Paired(files, f)
<1>1. ASSUME NEW p \in PoolsFor(f), NEW ip \in Seqs!Range(pools[p].ips)
      PROVE  /\ InFile(FileFor(files, f, ip)) = ItemsOf(p, f)
             /\ (\A i \in ItemsOf(p, f) : Masked(i) = Unmasked(i)) =>
                   \A n \in DOMAIN FileFor(files, f, ip).secrets :
                     LET spot == FileFor(files, f, ip).secrets[n] IN spot[1] = spot[2]
  <2>1. PICK k \in DOMAIN pools[p].ips : ip = pools[p].ips[k]
    BY DEF Seqs!Range
  <2>2. FileFor(files, f, ip) = Given(f, p, k)
    BY <2>1, GoodAtEnd DEF FileFor
  <2>. QED
    BY <2>2, GivenIs
<1>. QED
  BY <1>1 DEF Complete, Paired

(* The hash of a target is of one instance.                                 *)
LEMMA ServesTargets ==
  ASSUME MonitorInv, Apart, NEW files, Good("main", <<>>, 0, files["main"])
  PROVE  TargetsOnce(files)
<1>. SUFFICES ASSUME NEW p \in PoolsFor("main"), ItemsOf(p, "main") # {}, NEW hash \in 0..5
              PROVE  Cardinality({ip \in Seqs!Range(pools[p].ips) :
                                    Scrapes(FileFor(files, "main", ip), hash)}) = 1
  BY DEF TargetsOnce
<1>1. PICK ips : ips = pools[p].ips
  OBVIOUS
<1>2. /\ Len(ips) \in Nat \ {0} /\ DOMAIN ips = 1..Len(ips)
      /\ \A j, k \in DOMAIN ips : ips[j] = ips[k] => j = k
  BY <1>1, PoolIs, NamedOnce
<1>3. \A k \in DOMAIN ips : FileFor(files, "main", ips[k]).part = HashModScrapeConfig(Len(ips), k)
  BY <1>1, GoodAtEnd, PoolFileIs DEF FileFor, Given
<1>4. \A k \in DOMAIN ips : Scrapes(FileFor(files, "main", ips[k]), hash) <=> hash % Len(ips) = k - 1
  <2>. TAKE k \in DOMAIN ips
  <2>1. CASE Len(ips) > 1
    BY <1>2, <1>3, <2>1 DEF Scrapes, HashModScrapeConfig
  <2>2. CASE Len(ips) = 1
    BY <1>2, <1>3, <2>2 DEF Scrapes, HashModScrapeConfig
  <2>. QED
    BY <1>2, <2>1, <2>2
<1>5. PICK k \in DOMAIN ips : k = (hash % Len(ips)) + 1
  BY <1>2
<1>6. {ip \in Seqs!Range(ips) : Scrapes(FileFor(files, "main", ip), hash)} = {ips[k]}
  <2>1. ips[k] \in Seqs!Range(ips) /\ Scrapes(FileFor(files, "main", ips[k]), hash)
    BY <1>2, <1>4, <1>5 DEF Seqs!Range
  <2>2. ASSUME NEW ip \in Seqs!Range(ips), Scrapes(FileFor(files, "main", ip), hash)
        PROVE  ip = ips[k]
    <3>1. PICK j \in DOMAIN ips : ip = ips[j]
      BY DEF Seqs!Range
    <3>2. hash % Len(ips) = j - 1
      BY <1>4, <2>2, <3>1
    <3>. QED
      BY <1>2, <1>5, <3>1, <3>2
  <2>. QED
    BY <2>1, <2>2
<1>. QED
  BY <1>1, <1>6, FS_Singleton

(* The rules of an instance.                                                *)
LEMMA RulesAre ==
  ASSUME NEW f \in {"alert", "record"}, NEW p, NEW k
  PROVE  InFile(Given(f, p, k)) = {Sorted(ItemsOf(p, f))[j] : j \in Mine(f, p, k)}
<1>1. PICK T : T = {Sorted(ItemsOf(p, f))[j] : j \in Mine(f, p, k)}
  OBVIOUS
<1>2. ItemsOf(p, f) \in SUBSET Nat /\ IsFiniteSet(ItemsOf(p, f))
  BY ItemsAre
<1>3. T \in SUBSET ItemsOf(p, f)
  BY <1>1, <1>2, SortedIs DEF Mine
<1>4. CASE ItemsOf(p, f) = {}
  <2>1. T = {}
    BY <1>3, <1>4
  <2>2. Given(f, p, k) = NoFile
    BY <1>4 DEF Given
  <2>. QED
    BY <1>1, <2>1, <2>2, NoFileIs
<1>5. CASE ItemsOf(p, f) # {}
  <2>1. Given(f, p, k).items = Sorted(T)
    BY <1>1, <1>5 DEF Given, RuleFile
  <2>2. T \in SUBSET Nat /\ IsFiniteSet(T)
    BY <1>2, <1>3, FS_Subset
  <2>3. PICK s : s = Sorted(T)
    OBVIOUS
  <2>4. (\A k1 \in DOMAIN s : s[k1] \in T) /\ \A n \in T : \E k1 \in DOMAIN s : s[k1] = n
    BY <2>2, <2>3, SortedIs
  <2>5. Seqs!Range(s) = T
    BY <2>4 DEF Seqs!Range
  <2>. QED
    BY <1>1, <2>1, <2>3, <2>5, Zenon DEF InFile
<1>. QED
  BY <1>4, <1>5

(* Who has a rule: an instance of its pool, at the place that the rule has  *)
(* in the list.                                                             *)
LEMMA RuleHolder ==
  ASSUME MonitorInv, NEW f \in {"alert", "record"}, NEW files, Good(f, <<>>, 0, files[f]),
         NEW i, NEW ip \in Machines, i \in InFile(FileFor(files, f, ip))
  PROVE  \E p \in PoolsFor(f) : \E k \in DOMAIN pools[p].ips :
           /\ i \in ItemsOf(p, f) /\ ip = pools[p].ips[k]
           /\ \E j \in Mine(f, p, k) : Sorted(ItemsOf(p, f))[j] = i
<1>1. PICK p \in PoolsFor(f) : ip \in Seqs!Range(pools[p].ips)
  BY NoFileIs DEF Good, FileFor
<1>2. PICK k \in DOMAIN pools[p].ips : ip = pools[p].ips[k]
  BY <1>1 DEF Seqs!Range
<1>3. FileFor(files, f, ip) = Given(f, p, k)
  BY <1>2, GoodAtEnd DEF FileFor
<1>4. PICK j \in Mine(f, p, k) : Sorted(ItemsOf(p, f))[j] = i
  BY <1>3, RulesAre
<1>5. i \in ItemsOf(p, f)
  BY <1>4, ItemsAre, SortedIs DEF Mine
<1>. QED
  BY <1>2, <1>4, <1>5

LEMMA ServesRules ==
  ASSUME MonitorInv, NEW f \in {"alert", "record"}, NEW files, Good(f, <<>>, 0, files[f])
  PROVE  RulesOnce(files, f)
<1>. SUFFICES ASSUME NEW i \in Items, ItemTypeOf(i) = f
              PROVE  {ip \in Machines : i \in InFile(FileFor(files, f, ip))} \in
                       (UNION {IF i \in ItemsOf(p, f)
                               THEN {{ip} : ip \in Seqs!Range(pools[p].ips)} ELSE {} : p \in PoolsFor(f)})
                       \cup (IF \E p \in PoolsFor(f) : i \in ItemsOf(p, f) THEN {} ELSE {{}})
  BY DEF RulesOnce
<1>1. PICK W : W = {ip \in Machines : i \in InFile(FileFor(files, f, ip))}
  OBVIOUS
<1>2. CASE ~\E p \in PoolsFor(f) : i \in ItemsOf(p, f)
  <2>1. W = {}
    BY <1>1, <1>2, RuleHolder
  <2>2. PICK Y : Y = IF \E p \in PoolsFor(f) : i \in ItemsOf(p, f) THEN {} ELSE {{}}
    OBVIOUS
  <2>3. W \in Y
    BY <1>2, <2>1, <2>2
  <2>4. PICK Z : Z = UNION {IF i \in ItemsOf(p, f)
                            THEN {{ip} : ip \in Seqs!Range(pools[p].ips)} ELSE {} : p \in PoolsFor(f)}
    OBVIOUS
  <2>5. W \in Z \cup Y
    BY <2>3
  <2>. QED
    BY <1>1, <2>2, <2>4, <2>5, Zenon
<1>3. ASSUME NEW p \in PoolsFor(f), i \in ItemsOf(p, f)
      PROVE  \E ip \in Seqs!Range(pools[p].ips) : W = {ip}
  <2>1. PICK ips : ips = pools[p].ips
    OBVIOUS
  <2>2. /\ Len(ips) \in Nat \ {0} /\ DOMAIN ips = 1..Len(ips)
        /\ \A k \in DOMAIN ips : ips[k] \in Machines
    BY <2>1, PoolIs
  <2>3. PICK all : all = Sorted(ItemsOf(p, f))
    OBVIOUS
  <2>4. PICK j \in DOMAIN all : all[j] = i
    BY <1>3, <2>3, ItemsAre, SortedIs
  <2>5. j \in Nat \ {0} /\ \A l \in DOMAIN all : all[l] = i => l = j
    BY <2>3, <2>4, ItemsAre, SortedIs
  <2>6. PICK k \in DOMAIN ips : (j - 1) % Len(ips) = k - 1
    <3>1. (j - 1) % Len(ips) \in 0..Len(ips) - 1
      BY <2>2, <2>5
    <3>2. ((j - 1) % Len(ips)) + 1 \in DOMAIN ips
      BY <2>2, <3>1
    <3>. QED
      BY <3>1, <3>2
  <2>7. ips[k] \in W
    <3>1. j \in Mine(f, p, k)
      BY <2>1, <2>3, <2>6 DEF Mine
    <3>2. i \in InFile(Given(f, p, k))
      BY <2>3, <2>4, <3>1, RulesAre
    <3>3. FileFor(files, f, ips[k]) = Given(f, p, k)
      BY <2>1, GoodAtEnd DEF FileFor
    <3>. QED
      BY <1>1, <2>2, <3>2, <3>3
  <2>8. ASSUME NEW ip \in W
        PROVE  ip = ips[k]
    <3>0. PICK q \in PoolsFor(f) : \E m \in DOMAIN pools[q].ips :
            /\ i \in ItemsOf(q, f) /\ ip = pools[q].ips[m]
            /\ \E l \in Mine(f, q, m) : Sorted(ItemsOf(q, f))[l] = i
      BY <1>1, RuleHolder
    <3>1. PICK m \in DOMAIN pools[q].ips :
            /\ i \in ItemsOf(q, f) /\ ip = pools[q].ips[m]
            /\ \E l \in Mine(f, q, m) : Sorted(ItemsOf(q, f))[l] = i
      BY <3>0
    <3>2. q = p
      BY <1>3, <3>1 DEF ItemsOf
    <3>3. j \in Mine(f, p, m)
      BY <2>3, <2>5, <3>1, <3>2 DEF Mine
    <3>4. m - 1 = k - 1
      BY <2>1, <2>6, <3>3 DEF Mine
    <3>5. m \in Nat /\ k \in Nat
      BY <2>1, <2>2, <3>1, <3>2
    <3>6. m = k
      BY <3>4, <3>5
    <3>. QED
      BY <2>1, <3>1, <3>2, <3>6
  <2>9. W = {ips[k]} /\ ips[k] \in Seqs!Range(ips)
    BY <2>7, <2>8 DEF Seqs!Range
  <2>. QED
    BY <2>1, <2>9
<1>4. ASSUME NEW p \in PoolsFor(f), i \in ItemsOf(p, f)
      PROVE  W \in UNION {IF i \in ItemsOf(q, f)
                           THEN {{ip} : ip \in Seqs!Range(pools[q].ips)} ELSE {} : q \in PoolsFor(f)}
  <2>1. PICK X : X = IF i \in ItemsOf(p, f) THEN {{ip} : ip \in Seqs!Range(pools[p].ips)} ELSE {}
    OBVIOUS
  <2>2. W \in X
    BY <1>3, <1>4, <2>1
  <2>3. X \in {IF i \in ItemsOf(q, f)
                THEN {{ip} : ip \in Seqs!Range(pools[q].ips)} ELSE {} : q \in PoolsFor(f)}
    BY <2>1
  <2>. QED
    BY <2>2, <2>3
<1>. QED
  BY <1>1, <1>2, <1>4

LEMMA ServesAll ==
  ASSUME MonitorInv, Apart, NEW f \in Files, NEW files, Good(f, <<>>, 0, files[f])
  PROVE  AsConfigured(files, f)
BY ServesItems, ServesTargets, ServesRules DEF AsConfigured, Files

-----------------------------------------------------------------------------
(* While the tables do not change, neither does what is to be served.       *)
LEMMA TablesStay ==
  ASSUME UNCHANGED <<pools, items>>
  PROVE  /\ Apart' <=> Apart
         /\ \A f : PoolsFor(f)' = PoolsFor(f) /\ Entries(f)' = Entries(f)
         /\ \A p, f : ItemsOf(p, f)' = ItemsOf(p, f) /\ PlacesOf(p, f)' = PlacesOf(p, f)
         /\ \A f, p, k : Given(f, p, k)' = Given(f, p, k)
         /\ \A p, k, todo, n : Filled(p, k, todo, n)' <=> Filled(p, k, todo, n)
<1>1. Apart' <=> Apart
  BY DEF Apart, CheckInstanceIpExists
<1>2. \A f : PoolsFor(f)' = PoolsFor(f) /\ Entries(f)' = Entries(f)
  BY DEF PoolsFor, Entries, Entry
<1>3. \A p, f : ItemsOf(p, f)' = ItemsOf(p, f)
  BY DEF ItemsOf
<1>4. \A i : Masked(i)' = Masked(i) /\ Unmasked(i)' = Unmasked(i)
  BY DEF Masked, Unmasked
<1>5. \A p, f : PlacesOf(p, f)' = PlacesOf(p, f)
  BY <1>3, <1>4 DEF PlacesOf
<1>6. \A f, share, p : PoolFile(f, share, p)' = PoolFile(f, share, p)
  BY <1>3, <1>4, <1>5 DEF PoolFile
<1>7. \A f, p, k : RuleFile(f, p, k)' = RuleFile(f, p, k)
  BY <1>3 DEF RuleFile, Mine
<1>8. \A f, p, k : Given(f, p, k)' = Given(f, p, k)
  BY <1>3, <1>6, <1>7 DEF Given
<1>9. \A p, k, todo, n : Filled(p, k, todo, n)' <=> Filled(p, k, todo, n)
  BY DEF Filled, Entry
<1>. QED
  BY <1>1, <1>2, <1>3, <1>5, <1>8, <1>9

LEMMA GoodStays ==
  ASSUME UNCHANGED <<pools, items>>, NEW f, NEW todo, NEW n, NEW files, Good(f, todo, n, files)
  PROVE  Good(f, todo, n, files)'
BY TablesStay DEF Good

LEMMA ThroughStays ==
  ASSUME UNCHANGED <<pools, items>>, NEW f, NEW y, Through(f, y), gen'[f] = y
  PROVE  Through(f, gen[f])'
<1>1. Good(f, y.todo, IF y.pc = "secrets" THEN y.at - 1 ELSE 0, y.files)'
  BY GoodStays DEF Through
<1>2. y.pc = "secrets" => Secrets(f, y)'
  BY TablesStay DEF Through, Secrets
<1>. QED
  BY <1>1, <1>2 DEF Through, Good, Secrets

(* The steps of a pass.                                                     *)
LEMMA PassGoes ==
  ASSUME MonitorInv, \A g \in Files : PassInv(g), NEW f \in Files, NEW y,
         gen' = [gen EXCEPT ![f] = y], UNCHANGED <<pools, items>>,
         \A g \in Files \ {f} : calm'[g] = calm[g],
         calm'[f] /\ y.pc # "idle" /\ Apart => Through(f, y)
  PROVE  \A g \in Files : PassInv(g)'
<1>1. gen'[f] = y /\ \A g \in Files \ {f} : gen'[g] = gen[g]
  BY DEF MonitorInv
<1>2. Apart' <=> Apart
  BY TablesStay
<1>3. PassInv(f)'
  BY <1>1, <1>2, ThroughStays DEF PassInv
<1>4. ASSUME NEW g \in Files \ {f}
      PROVE  PassInv(g)'
  <2>1. PICK x : x = gen[g] /\ gen'[g] = x
    BY <1>1
  <2>2. calm'[g] /\ x.pc # "idle" /\ Apart => Through(g, x)
    BY <2>1 DEF PassInv
  <2>. QED
    BY <1>2, <2>1, <2>2, ThroughStays DEF PassInv
<1>. QED
  BY <1>3, <1>4

(* A read of a pool, if nothing came between: what is known before and what *)
(* is read.                                                                 *)
LEMMA PoolReadKnows ==
  ASSUME MonitorInv, NEW f \in Files, PassInv(f), NEW ok \in BOOLEAN, NEW y, PoolRead(f, ok, y),
         calm'[f], Apart
  PROVE  \E p \in PoolsFor(f) :
           /\ ok /\ gen[f].todo # <<>> /\ Head(gen[f].todo) = Entry(p)
           /\ RowsNow(f, ok) = ItemsOf(p, f)
           /\ Good(f, gen[f].todo, 0, gen[f].files)
           /\ \A k \in DOMAIN pools[p].ips : gen[f].files[pools[p].ips[k]] = NoFile
<1>1. calm[f] /\ ok
  <2>1. calm \in [Files -> BOOLEAN]
    BY DEF MonitorInv
  <2>2. calm'[f] = (calm[f] /\ ok)
    BY <2>1 DEF PoolRead
  <2>. QED
    BY <2>2
<1>2. gen[f].pc = "pool" /\ gen[f].todo # <<>>
  BY DEF PoolRead
<1>3. Good(f, gen[f].todo, 0, gen[f].files)
  BY <1>1, <1>2 DEF PassInv, Through
<1>4. PICK p \in PoolsFor(f) : Head(gen[f].todo) = Entry(p)
  BY <1>2, <1>3, EntriesAre DEF Good
<1>5. RowsNow(f, ok) = ItemsOf(p, f)
  BY <1>1, <1>4 DEF RowsNow, Entry
<1>6. ASSUME NEW k \in DOMAIN pools[p].ips
      PROVE  gen[f].files[pools[p].ips[k]] = NoFile
  <2>1. Before(Entry(p), gen[f].todo)
    BY <1>2, <1>3, <1>4, EntriesAre DEF Good
  <2>2. k \in Nat /\ ~(k <= 0)
    BY PoolIs
  <2>3. ~Filled(p, k, gen[f].todo, 0)
    BY <2>1, <2>2 DEF Filled
  <2>. QED
    BY <1>3, <2>3 DEF Good
<1>. QED
  BY <1>1, <1>2, <1>3, <1>4, <1>5, <1>6

(* The goroutine of a file has not ended.                                   *)
AtWork(f) == \E y : gen' = [gen EXCEPT ![f] = y] /\ y.pc # "idle"

LEMMA CalmTells ==
  ASSUME MonitorInv, NEW f \in Files, NEW ok \in BOOLEAN, calm' = [calm EXCEPT ![f] = @ /\ ok]
  PROVE  /\ calm'[f] => calm[f] /\ ok
         /\ \A g \in Files \ {f} : calm'[g] = calm[g]
<1>1. calm \in [Files -> BOOLEAN]
  BY DEF MonitorInv
<1>2. PICK b \in BOOLEAN : b = (calm[f] /\ ok)
  BY <1>1
<1>3. calm' = [calm EXCEPT ![f] = b]
  BY <1>2
<1>. QED
  BY <1>1, <1>2, <1>3

(* The jobs or the send groups of a pool are read.                          *)
LEMMA PassReads ==
  ASSUME MonitorInv, \A g \in Files : PassInv(g), NEW f \in {"main", "alertmanager"},
         NEW ok \in BOOLEAN, NEW y, PoolRead(f, ok, y),
         \/ f = "main" /\ RowsNow(f, ok) = {} /\ y = Skipped(gen[f], Tail(gen[f].todo))
         \/ (f = "main" => RowsNow(f, ok) # {}) /\ y = ToSecrets(f, RowsNow(f, ok))
  PROVE  (\A g \in Files : PassInv(g)') /\ AtWork(f)
<1>1. f \in Files
  BY DEF Files
<1>2. Generator(gen[f]) /\ gen[f].pc = "pool" /\ PassInv(f)
  BY <1>1, GenIs DEF PoolRead
<1>3. gen' = [gen EXCEPT ![f] = y] /\ UNCHANGED <<pools, items>>
  BY DEF PoolRead
<1>4. \A g \in Files \ {f} : calm'[g] = calm[g]
  BY <1>1, CalmTells DEF PoolRead
<1>5. ASSUME calm'[f], Apart PROVE Through(f, y)
  <2>1. PICK p \in PoolsFor(f) :
           /\ ok /\ gen[f].todo # <<>> /\ Head(gen[f].todo) = Entry(p)
           /\ RowsNow(f, ok) = ItemsOf(p, f)
           /\ Good(f, gen[f].todo, 0, gen[f].files)
           /\ \A k \in DOMAIN pools[p].ips : gen[f].files[pools[p].ips[k]] = NoFile
    BY <1>1, <1>2, <1>5, PoolReadKnows
  <2>2. Len(pools[p].ips) \in Nat \ {0}
    BY PoolIs
  <2>3. CASE f = "main" /\ RowsNow(f, ok) = {} /\ y = Skipped(gen[f], Tail(gen[f].todo))
    <3>1. y.pc = "pool" /\ y.todo = Tail(gen[f].todo) /\ y.files = gen[f].files
      BY <1>2, <2>3, GenSkips
    <3>2. \A k : Given(f, p, k) = NoFile
      BY <2>1, <2>3 DEF Given
    <3>3. Gives(f, p, 0, Len(pools[p].ips), gen[f].files, gen[f].files)
      BY <2>1, <3>2 DEF Gives
    <3>4. Good(f, Tail(gen[f].todo), 0, gen[f].files)
      BY <1>5, <2>1, <2>2, <3>3, GoodSteps
    <3>. QED
      BY <3>1, <3>4 DEF Through
  <2>4. CASE (f = "main" => RowsNow(f, ok) # {}) /\ y = ToSecrets(f, RowsNow(f, ok))
    <3>1. y = AtSecrets(gen[f], PlacesOf(p, f))
      BY <2>1, <2>4, Zenon DEF ToSecrets, AtSecrets, PlacesOf
    <3>2. /\ y.pc = "secrets" /\ y.todo = gen[f].todo
          /\ y.rows = PlacesOf(p, f) /\ y.at = 1 /\ y.files = gen[f].files
      BY <1>2, <3>1, GenTurns
    <3>3. Head(y.todo)[1] = p
      BY <2>1, <3>2 DEF Entry
    <3>4. Secrets(f, y)
      <4>1. y.todo # <<>> /\ y.rows = PlacesOf(p, f) /\ y.at = 1
        BY <2>1, <3>2
      <4>2. 1 \in 1..Len(pools[p].ips)
        BY <2>2
      <4>3. f = "main" => ItemsOf(p, f) # {}
        BY <2>1, <2>4
      <4>. QED
        BY <3>3, <4>1, <4>2, <4>3, Zenon DEF Secrets
    <3>5. Good(f, y.todo, y.at - 1, y.files)
      BY <2>1, <3>2
    <3>. QED
      BY <3>2, <3>4, <3>5 DEF Through
  <2>. QED
    BY <2>3, <2>4
<1>6. y.pc # "idle"
  <2>1. CASE y = Skipped(gen[f], Tail(gen[f].todo))
    BY <1>2, <2>1, GenSkips
  <2>2. CASE y = ToSecrets(f, RowsNow(f, ok))
    <3>1. PICK v : v = Numbered([i \in RowsNow(f, ok) |-> Masked(i)])
      OBVIOUS
    <3>2. y = AtSecrets(gen[f], v)
      BY <2>2, <3>1, Zenon DEF ToSecrets, AtSecrets
    <3>. QED
      BY <1>2, <3>2, GenTurns
  <2>. QED
    BY <2>1, <2>2
<1>7. AtWork(f)
  BY <1>3, <1>6 DEF AtWork
<1>. QED
  BY <1>1, <1>3, <1>4, <1>5, <1>7, PassGoes

(* The k-th of S.                                                           *)
Nth(S, k) == CHOOSE n \in S : Cardinality({m \in S : m < n}) = k - 1

(* A list is empty if and only if it is of nothing.                         *)
LEMMA NoneSorted ==
  ASSUME NEW S \in SUBSET Nat, IsFiniteSet(S)
  PROVE  Sorted(S) = <<>> <=> S = {}
<1>1. PICK s : s = Sorted(S)
  OBVIOUS
<1>2. PICK c \in Nat : c = Cardinality(S)
  BY SortedIs
<1>3. DOMAIN s = 1..c /\ (\A k \in 1..c : s[k] \in S) /\ \A n \in S : \E k \in 1..c : s[k] = n
  BY <1>1, <1>2, SortedIs
<1>4. s = [k \in 1..c |-> s[k]]
  <2>1. s = [k \in 1..c |-> Nth(S, k)]
    BY <1>1, <1>2, Zenon DEF Sorted, Nth
  <2>. QED
    BY <2>1
<1>5. s \in Seq(S) /\ Len(s) = c
  BY <1>3, <1>4, IsASeq, LenProperties
<1>6. s = <<>> <=> c = 0
  BY <1>5, EmptySeq
<1>7. c = 0 <=> S = {}
  <2>1. ASSUME c # 0 PROVE S # {}
    BY <1>3, <2>1
  <2>2. ASSUME c = 0, NEW n \in S PROVE FALSE
    <3>1. PICK k \in 1..c : s[k] = n
      BY <1>3
    <3>. QED
      BY <2>2
  <2>. QED
    BY <2>1, <2>2
<1>. QED
  BY <1>1, <1>6, <1>7

(* The file of an instance with its share of the rules.                     *)
RulesAt(ips, listed, ip) ==
  LET k == CHOOSE n \in DOMAIN ips :
             ips[n] = ip /\ \A m \in DOMAIN ips : ips[m] = ip => m <= n
      mine == {j \in DOMAIN listed : (j - 1) % Len(ips) = k - 1}
  IN  [NoFile EXCEPT !.part = <<1, 0>>, !.items = Sorted({listed[j] : j \in mine})]

(* The rules of a pool are shared out.                                      *)
LEMMA RulesGiven ==
  ASSUME MonitorInv, Apart, NEW f \in {"alert", "record"}, NEW p \in PoolsFor(f), NEW files,
         \A k \in DOMAIN pools[p].ips : files[pools[p].ips[k]] = NoFile, NEW w,
         w = GeneratePrometheusRuleConfigYamlOnePool(pools[p].ips, Sorted(ItemsOf(p, f)), files)
  PROVE  Gives(f, p, 0, Len(pools[p].ips), files, w)
<1>1. PICK ips : ips = pools[p].ips
  OBVIOUS
<1>2. PICK listed : listed = Sorted(ItemsOf(p, f))
  OBVIOUS
<1>3. listed = <<>> <=> ItemsOf(p, f) = {}
  BY <1>2, ItemsAre, NoneSorted
<1>4. /\ Len(ips) \in Nat \ {0} /\ DOMAIN ips = 1..Len(ips) /\ \A k \in DOMAIN ips : ips[k] \in Machines
      /\ \A j, k \in DOMAIN ips : ips[j] = ips[k] => j = k
  BY <1>1, PoolIs, NamedOnce
<1>5. \A ip \in Machines :
        w[ip] = IF listed # <<>> /\ ip \in Seqs!Range(ips) THEN RulesAt(ips, listed, ip) ELSE files[ip]
  <2>1. w = [ip \in Machines |->
               IF listed # <<>> /\ ip \in Seqs!Range(ips) THEN RulesAt(ips, listed, ip) ELSE files[ip]]
    <3>1. w = GeneratePrometheusRuleConfigYamlOnePool(ips, listed, files)
      BY <1>1, <1>2, Zenon
    <3>2. GeneratePrometheusRuleConfigYamlOnePool(ips, listed, files) =
            [ip \in Machines |->
               IF listed # <<>> /\ ip \in Seqs!Range(ips) THEN RulesAt(ips, listed, ip) ELSE files[ip]]
      BY DEF GeneratePrometheusRuleConfigYamlOnePool, RulesAt
    <3>. QED
      BY <3>1, <3>2, Zenon
  <2>. QED
    BY <2>1
<1>6. ASSUME NEW k \in DOMAIN ips, listed # <<>>
      PROVE  w[ips[k]] = RuleFile(f, p, k)
  <2>1. ips[k] \in Machines /\ ips[k] \in Seqs!Range(ips)
    BY <1>4 DEF Seqs!Range
  <2>2. PICK n : n = CHOOSE m \in DOMAIN ips :
                       ips[m] = ips[k] /\ \A l \in DOMAIN ips : ips[l] = ips[k] => l <= m
    OBVIOUS
  <2>9. n = k
    <3>1. \A m \in DOMAIN ips :
            (ips[m] = ips[k] /\ \A l \in DOMAIN ips : ips[l] = ips[k] => l <= m) <=> m = k
      BY <1>4
    <3>. QED
      BY <2>2, <3>1
  <2>3. PICK mine : mine = {j \in DOMAIN listed : (j - 1) % Len(ips) = k - 1}
    OBVIOUS
  <2>4. mine = Mine(f, p, k)
    BY <1>1, <1>2, <2>3, Zenon DEF Mine
  <2>5. PICK list : list = Sorted({listed[j] : j \in mine})
    OBVIOUS
  <2>6. w[ips[k]] = [NoFile EXCEPT !.part = <<1, 0>>, !.items = list]
    <3>1. w[ips[k]] = RulesAt(ips, listed, ips[k])
      BY <1>5, <1>6, <2>1
    <3>3. RulesAt(ips, listed, ips[k]) =
            [NoFile EXCEPT !.part = <<1, 0>>,
               !.items = Sorted({listed[j] : j \in {i \in DOMAIN listed : (i - 1) % Len(ips) = n - 1}})]
      BY <2>2, Zenon DEF RulesAt
    <3>4. mine = {i \in DOMAIN listed : (i - 1) % Len(ips) = n - 1}
      BY <2>3, <2>9, Zenon
    <3>. QED
      BY <2>5, <3>1, <3>3, <3>4, Zenon
  <2>7. [NoFile EXCEPT !.part = <<1, 0>>, !.items = list]
          = [part |-> <<1, 0>>, items |-> list, secrets |-> <<>>]
    <3>1. PICK one, none, empty : one = <<1, 0>> /\ none = <<0, 0>> /\ empty = <<>>
      OBVIOUS
    <3>2. PICK old : old = [part |-> none, items |-> empty, secrets |-> empty]
      OBVIOUS
    <3>3. NoFile = old
      BY <3>1, <3>2, Zenon DEF NoFile
    <3>4. old \in [part : {none, one}, items : {empty, list}, secrets : {empty}] /\ old.secrets = empty
      BY <3>2
    <3>5. ASSUME NEW x, x = [old EXCEPT !.part = one, !.items = list]
          PROVE  x = [part |-> one, items |-> list, secrets |-> old.secrets]
      BY <3>4, <3>5
    <3>. QED
      BY <3>1, <3>3, <3>4, <3>5, Zenon
  <2>8. RuleFile(f, p, k) = [part |-> <<1, 0>>, items |-> list, secrets |-> <<>>]
    BY <1>2, <2>4, <2>5, Zenon DEF RuleFile
  <2>. QED
    BY <2>6, <2>7, <2>8, Zenon
<1>7. ASSUME NEW k \in DOMAIN ips
      PROVE  w[ips[k]] = Given(f, p, k) /\ 0 < k /\ k <= Len(ips)
  <2>1. CASE listed = <<>>
    BY <1>1, <1>3, <1>4, <1>5, <2>1 DEF Given
  <2>2. CASE listed # <<>>
    BY <1>3, <1>4, <1>6, <2>2 DEF Given
  <2>. QED
    BY <2>1, <2>2
<1>. QED
  BY <1>1, <1>5, <1>7 DEF Gives

(* The rules of a pool are read.                                            *)
LEMMA PassRules ==
  ASSUME MonitorInv, \A g \in Files : PassInv(g), NEW f \in {"alert", "record"},
         NEW ok \in BOOLEAN, RulesOfPool(f, ok)
  PROVE  (\A g \in Files : PassInv(g)') /\ AtWork(f)
<1>1. f \in Files
  BY DEF Files
<1>2. PICK w : w = GeneratePrometheusRuleConfigYamlOnePool(
                     Head(gen[f].todo)[2], Sorted(RowsNow(f, ok)), gen[f].files)
  OBVIOUS
<1>3. PICK y : y = WithRules(gen[f], Tail(gen[f].todo), w)
  OBVIOUS
<1>4. PoolRead(f, ok, y)
  BY <1>2, <1>3, Zenon DEF RulesOfPool, WithRules
<1>5. Generator(gen[f]) /\ gen[f].pc = "pool" /\ PassInv(f)
  BY <1>1, <1>4, GenIs DEF PoolRead
<1>6. w = [ip \in Machines |-> w[ip]]
  BY <1>2 DEF GeneratePrometheusRuleConfigYamlOnePool
<1>7. y.pc = gen[f].pc /\ y.todo = Tail(gen[f].todo) /\ y.files = w
  BY <1>3, <1>5, <1>6, GenRules
<1>8. gen' = [gen EXCEPT ![f] = y] /\ UNCHANGED <<pools, items>>
  BY <1>4 DEF PoolRead
<1>9. \A g \in Files \ {f} : calm'[g] = calm[g]
  BY <1>1, <1>4, CalmTells DEF PoolRead
<1>10. ASSUME calm'[f], Apart PROVE Through(f, y)
  <2>1. PICK p \in PoolsFor(f) :
           /\ ok /\ gen[f].todo # <<>> /\ Head(gen[f].todo) = Entry(p)
           /\ RowsNow(f, ok) = ItemsOf(p, f)
           /\ Good(f, gen[f].todo, 0, gen[f].files)
           /\ \A k \in DOMAIN pools[p].ips : gen[f].files[pools[p].ips[k]] = NoFile
    BY <1>1, <1>4, <1>5, <1>10, PoolReadKnows
  <2>2. Head(gen[f].todo)[2] = pools[p].ips /\ Len(pools[p].ips) \in Nat
    BY <2>1, PoolIs DEF Entry
  <2>3. Gives(f, p, 0, Len(pools[p].ips), gen[f].files, w)
    <3>1. w = GeneratePrometheusRuleConfigYamlOnePool(pools[p].ips, Sorted(ItemsOf(p, f)), gen[f].files)
      BY <1>2, <2>1, <2>2, Zenon
    <3>. QED
      BY <1>10, <2>1, <3>1, RulesGiven
  <2>4. Good(f, Tail(gen[f].todo), 0, w)
    <3>1. 0 \in Nat /\ 0 <= Len(pools[p].ips)
      BY <2>2
    <3>2. PICK todo : todo = gen[f].todo
      OBVIOUS
    <3>3. Good(f, todo, 0, gen[f].files) /\ todo # <<>> /\ Head(todo) = Entry(p)
      BY <2>1, <3>2
    <3>4. Good(f, Tail(todo), 0, w)
      BY <1>10, <2>1, <2>3, <3>1, <3>3, GoodSteps
    <3>. QED
      BY <3>2, <3>4
  <2>. QED
    BY <1>5, <1>7, <2>4 DEF Through
<1>11. AtWork(f)
  BY <1>5, <1>7, <1>8 DEF AtWork
<1>. QED
  BY <1>1, <1>8, <1>9, <1>10, <1>11, PassGoes

(* What is known while the secrets of a pool are read.                      *)
PoolInHand(f, g, ok, p) ==
  /\ g.todo # <<>> /\ Head(g.todo) = Entry(p) /\ Head(g.todo)[2] = pools[p].ips
  /\ g.at \in 1..Len(pools[p].ips) /\ Good(f, g.todo, g.at - 1, g.files)
  /\ g.rows = PlacesOf(p, f)
  /\ f = "main" => ItemsOf(p, f) # {}
  /\ f = "alertmanager" => g.at = 1
  /\ g.todo = gen[f].todo =>
       \A share : WithSecrets(f, share, g.rows, ok) = PoolFile(f, share, p)

LEMMA SecretsKnow ==
  ASSUME MonitorInv, NEW f \in Files, Apart, NEW ok \in BOOLEAN, ok, NEW g, Through(f, g), g.pc = "secrets"
  PROVE  \E p \in PoolsFor(f) : PoolInHand(f, g, ok, p)
<1>1. Good(f, g.todo, g.at - 1, g.files) /\ Secrets(f, g)
  BY DEF Through
<1>2. g.todo # <<>>
  BY <1>1 DEF Secrets
<1>3. PICK p \in PoolsFor(f) : Head(g.todo) = Entry(p)
  BY <1>1, <1>2, EntriesAre DEF Good
<1>4. Head(g.todo)[1] = p /\ Head(g.todo)[2] = pools[p].ips
  BY <1>3 DEF Entry
<1>5. /\ g.at \in 1..Len(pools[p].ips)
      /\ g.rows = PlacesOf(p, f)
      /\ f = "main" => ItemsOf(p, f) # {}
      /\ f = "alertmanager" => g.at = 1
  BY <1>1, <1>4, Zenon DEF Secrets
<1>6. ASSUME g.todo = gen[f].todo, NEW share
      PROVE  WithSecrets(f, share, g.rows, ok) = PoolFile(f, share, p)
  <2>1. RowsNow(f, ok) = ItemsOf(p, f)
    BY <1>4, <1>6 DEF RowsNow
  <2>. QED
    BY <1>5, <2>1, Zenon DEF WithSecrets, PoolFile
<1>. QED
  BY <1>1, <1>2, <1>3, <1>4, <1>5, <1>6 DEF PoolInHand

(* The jobs of an instance are written.                                     *)
LEMMA PassWrites ==
  ASSUME MonitorInv, \A g \in Files : PassInv(g), NEW ok \in BOOLEAN, GeneratePrometheusMainConfigYaml(ok)
  PROVE  (\A g \in Files : PassInv(g)') /\ AtWork("main")
<1>1. PICK f : f = "main"
  OBVIOUS
<1>2. f \in Files
  BY <1>1 DEF Files
<1>3. PICK g : g = gen[f]
  OBVIOUS
<1>4. PICK ips : ips = Head(g.todo)[2]
  OBVIOUS
<1>5. PICK new : new = WithSecrets(f, HashModScrapeConfig(Len(ips), g.at), g.rows, ok)
  OBVIOUS
<1>6. PICK w : w = [g.files EXCEPT ![ips[g.at]] = new]
  OBVIOUS
<1>7. PICK done : done = Written(g, w, g.at + 1)
  OBVIOUS
<1>8. PICK y : y = IF g.at = Len(ips)
                   THEN Returned(done, Tail(done.todo))
                   ELSE done
  OBVIOUS
<1>9. gen' = [gen EXCEPT ![f] = y]
  BY <1>1, <1>3, <1>4, <1>5, <1>6, <1>7, <1>8, Zenon
     DEF GeneratePrometheusMainConfigYaml, Written, Returned
<1>10. g.pc = "secrets" /\ UNCHANGED <<pools, items>>
  BY <1>1, <1>3 DEF GeneratePrometheusMainConfigYaml
<1>11. (calm'[f] => calm[f] /\ ok) /\ \A h \in Files \ {f} : calm'[h] = calm[h]
  BY <1>1, <1>2, CalmTells DEF GeneratePrometheusMainConfigYaml
<1>12. Generator(g) /\ g.files = [ip \in Machines |-> g.files[ip]]
  BY <1>2, <1>3, GenIs
<1>13. w = [ip \in Machines |-> w[ip]]
  BY <1>6, <1>12
<1>14. /\ Generator(done) /\ done.pc = "secrets" /\ done.todo = g.todo
       /\ done.rows = g.rows /\ done.at = g.at + 1 /\ done.files = w
  BY <1>7, <1>10, <1>12, <1>13, GenWrites
<1>15. ASSUME calm'[f], Apart PROVE Through(f, y)
  <2>1. ok /\ Through(f, g)
    BY <1>2, <1>3, <1>10, <1>11, <1>15 DEF PassInv
  <2>2. PICK p \in PoolsFor(f) :
           /\ g.todo # <<>> /\ Head(g.todo) = Entry(p) /\ Head(g.todo)[2] = pools[p].ips
           /\ g.at \in 1..Len(pools[p].ips) /\ Good(f, g.todo, g.at - 1, g.files)
           /\ g.rows = PlacesOf(p, f)
           /\ f = "main" => ItemsOf(p, f) # {}
           /\ f = "alertmanager" => g.at = 1
           /\ g.todo = gen[f].todo =>
                \A share : WithSecrets(f, share, g.rows, ok) = PoolFile(f, share, p)
    <3>1. PICK p \in PoolsFor(f) : PoolInHand(f, g, ok, p)
      BY <1>2, <1>10, <1>15, <2>1, SecretsKnow
    <3>. QED
      BY <3>1 DEF PoolInHand
  <2>3. /\ ips = pools[p].ips /\ Len(ips) \in Nat \ {0} /\ DOMAIN ips = 1..Len(ips)
        /\ \A k \in DOMAIN ips : ips[k] \in Machines
        /\ \A j, k \in DOMAIN ips : ips[j] = ips[k] => j = k
    BY <1>4, <1>15, <2>2, PoolIs, NamedOnce
  <2>4. new = Given(f, p, g.at)
    BY <1>1, <1>3, <1>5, <2>2, <2>3 DEF Given
  <2>5. Gives(f, p, g.at - 1, g.at, g.files, w)
    <3>1. ips[g.at] \in Machines /\ g.at \in Nat /\ g.at \in DOMAIN ips
      BY <2>2, <2>3
    <3>2. \A ip \in Machines : w[ip] = IF ip = ips[g.at] THEN new ELSE g.files[ip]
      BY <1>6, <1>12, <3>1
    <3>3. ASSUME NEW k \in DOMAIN ips
          PROVE  w[ips[k]] = IF g.at - 1 < k /\ k <= g.at THEN Given(f, p, k) ELSE g.files[ips[k]]
      <4>1. ips[k] = ips[g.at] <=> k = g.at
        BY <2>3, <3>1
      <4>2. k = g.at <=> g.at - 1 < k /\ k <= g.at
        BY <2>3, <3>1
      <4>. QED
        BY <2>3, <2>4, <3>2, <4>1, <4>2
    <3>4. \A ip \in Machines : ip \notin Seqs!Range(ips) => w[ip] = g.files[ip]
      BY <3>1, <3>2 DEF Seqs!Range
    <3>. QED
      BY <2>3, <3>3, <3>4 DEF Gives
  <2>6. g.at - 1 \in Nat /\ g.at \in Nat /\ g.at - 1 <= g.at /\ g.at <= Len(ips)
    BY <2>2, <2>3
  <2>7. CASE g.at = Len(ips)
    <3>1. y.pc = "pool" /\ y.todo = Tail(g.todo) /\ y.files = w
      BY <1>8, <1>14, <2>7, GenReturns
    <3>2. Good(f, Tail(g.todo), 0, w)
      <4>1. Gives(f, p, g.at - 1, Len(pools[p].ips), g.files, w)
        BY <2>3, <2>5, <2>7
      <4>2. g.at - 1 <= Len(pools[p].ips)
        BY <2>3, <2>6
      <4>. QED
        BY <1>15, <2>2, <2>6, <4>1, <4>2, GoodSteps
    <3>. QED
      BY <3>1, <3>2 DEF Through
  <2>8. CASE g.at # Len(ips)
    <3>1. y = done
      BY <1>8, <2>8, Zenon
    <3>2. y.pc = "secrets" /\ y.todo = g.todo /\ y.rows = g.rows /\ y.at = g.at + 1 /\ y.files = w
      BY <1>14, <3>1
    <3>3. Good(f, g.todo, g.at, w)
      BY <1>15, <2>2, <2>5, <2>6, GoodFills
    <3>4. y.at - 1 = g.at
      BY <2>6, <3>2
    <3>5. Good(f, y.todo, y.at - 1, y.files)
      BY <3>2, <3>3, <3>4, Zenon
    <3>6. Secrets(f, y)
      <4>1. y.at \in 1..Len(pools[p].ips)
        BY <2>3, <2>6, <2>8, <3>2
      <4>2. Head(y.todo)[1] = p
        BY <2>2, <3>2 DEF Entry
      <4>3. y.todo # <<>> /\ y.rows = PlacesOf(p, f) /\ ItemsOf(p, f) # {} /\ f # "alertmanager"
        BY <1>1, <2>2, <3>2
      <4>. QED
        BY <4>1, <4>2, <4>3, Zenon DEF Secrets
    <3>. QED
      BY <3>2, <3>5, <3>6, Zenon DEF Through
  <2>. QED
    BY <2>7, <2>8
<1>16. AtWork(f)
  <2>1. CASE y = Returned(done, Tail(done.todo))
    BY <1>9, <1>14, <2>1, GenReturns DEF AtWork
  <2>2. CASE y = done
    BY <1>9, <1>14, <2>2 DEF AtWork
  <2>. QED
    BY <1>8, <2>1, <2>2, Zenon
<1>. QED
  BY <1>1, <1>2, <1>9, <1>10, <1>11, <1>15, <1>16, PassGoes

(* The send groups of a pool are written.                                   *)
LEMMA PassRoutes ==
  ASSUME MonitorInv, \A g \in Files : PassInv(g), NEW ok \in BOOLEAN, GenerateAlertManagerMainConfigYaml(ok)
  PROVE  (\A g \in Files : PassInv(g)') /\ AtWork("alertmanager")
<1>1. PICK f : f = "alertmanager"
  OBVIOUS
<1>2. f \in Files
  BY <1>1 DEF Files
<1>3. PICK g : g = gen[f]
  OBVIOUS
<1>4. PICK new : new = WithSecrets(f, <<1, 0>>, g.rows, ok)
  OBVIOUS
<1>5. PICK w : w = [ip \in Machines |->
                      IF ip \in Seqs!Range(Head(g.todo)[2]) THEN new ELSE g.files[ip]]
  OBVIOUS
<1>6. PICK y : y = Routed(g, Tail(g.todo), w)
  OBVIOUS
<1>7. gen' = [gen EXCEPT ![f] = y]
  BY <1>1, <1>3, <1>4, <1>5, <1>6, Zenon DEF GenerateAlertManagerMainConfigYaml, Routed
<1>8. g.pc = "secrets" /\ UNCHANGED <<pools, items>>
  BY <1>1, <1>3 DEF GenerateAlertManagerMainConfigYaml
<1>9. (calm'[f] => calm[f] /\ ok) /\ \A h \in Files \ {f} : calm'[h] = calm[h]
  BY <1>1, <1>2, CalmTells DEF GenerateAlertManagerMainConfigYaml
<1>10. w = [ip \in Machines |-> w[ip]]
  BY <1>5
<1>11. y.pc = "pool" /\ y.todo = Tail(g.todo) /\ y.files = w
  <2>1. Generator(g)
    BY <1>2, <1>3, GenIs
  <2>. QED
    BY <1>6, <1>10, <2>1, GenRoutes
<1>12. ASSUME calm'[f], Apart PROVE Through(f, y)
  <2>1. ok /\ Through(f, g)
    BY <1>2, <1>3, <1>8, <1>9, <1>12 DEF PassInv
  <2>2. PICK p \in PoolsFor(f) :
           /\ g.todo # <<>> /\ Head(g.todo) = Entry(p) /\ Head(g.todo)[2] = pools[p].ips
           /\ g.at \in 1..Len(pools[p].ips) /\ Good(f, g.todo, g.at - 1, g.files)
           /\ g.rows = PlacesOf(p, f)
           /\ f = "main" => ItemsOf(p, f) # {}
           /\ f = "alertmanager" => g.at = 1
           /\ g.todo = gen[f].todo =>
                \A share : WithSecrets(f, share, g.rows, ok) = PoolFile(f, share, p)
    <3>1. PICK p \in PoolsFor(f) : PoolInHand(f, g, ok, p)
      BY <1>2, <1>8, <1>12, <2>1, SecretsKnow
    <3>. QED
      BY <3>1 DEF PoolInHand
  <2>3. PICK ips : /\ ips = pools[p].ips /\ Len(ips) \in Nat \ {0} /\ DOMAIN ips = 1..Len(ips)
                   /\ \A k \in DOMAIN ips : ips[k] \in Machines
    BY PoolIs
  <2>4. \A k : new = Given(f, p, k)
    BY <1>1, <1>3, <1>4, <2>2 DEF Given
  <2>5. \A ip \in Machines : w[ip] = IF ip \in Seqs!Range(ips) THEN new ELSE g.files[ip]
    BY <1>5, <2>2, <2>3
  <2>6. Gives(f, p, 0, Len(ips), g.files, w)
    <3>1. ASSUME NEW k \in DOMAIN ips
          PROVE  w[ips[k]] = Given(f, p, k) /\ 0 < k /\ k <= Len(ips)
      <4>1. ips[k] \in Machines /\ ips[k] \in Seqs!Range(ips)
        BY <2>3 DEF Seqs!Range
      <4>. QED
        BY <2>3, <2>4, <2>5, <4>1
    <3>. QED
      BY <2>3, <2>5, <3>1 DEF Gives
  <2>7. Good(f, g.todo, 0, g.files)
    BY <1>1, <2>2
  <2>8. Good(f, Tail(g.todo), 0, w)
    BY <1>12, <2>2, <2>3, <2>6, <2>7, GoodSteps
  <2>. QED
    BY <1>11, <2>8 DEF Through
<1>13. AtWork(f)
  BY <1>7, <1>11 DEF AtWork
<1>. QED
  BY <1>1, <1>2, <1>7, <1>8, <1>9, <1>12, <1>13, PassGoes

LEMMA PoolsAre ==
  ASSUME NEW f
  PROVE  PoolsFor(f) \in SUBSET Nat /\ IsFiniteSet(PoolsFor(f))
<1>1. PoolsFor(f) \subseteq Pools /\ PoolsFor(f) \in SUBSET (Items \cup Pools)
  BY DEF PoolsFor
<1>. QED
  BY <1>1, FS_Subset, MonitorConfigAssumption

(* All pools are before a pass that begins.                                 *)
LEMMA PassOpens ==
  ASSUME MonitorInv, \A g \in Files : PassInv(g), NEW f \in Files, GenerateStarts(f)
  PROVE  (\A g \in Files : PassInv(g)') /\ AtWork(f)
<1>1. PICK ps : ps = Sorted(PoolsFor(f))
  OBVIOUS
<1>2. PICK t : t = [k \in DOMAIN ps |-> <<ps[k], pools[ps[k]].ips>>]
  OBVIOUS
<1>3. PICK y : y = [IdleGenerator EXCEPT !.pc = "pool", !.todo = t]
  OBVIOUS
<1>4. gen' = [gen EXCEPT ![f] = y]
  BY <1>1, <1>2, <1>3, Zenon DEF GenerateStarts
<1>5. y = [pc |-> "pool", todo |-> t, rows |-> <<>>, at |-> 1, files |-> NoFiles]
  BY <1>3 DEF IdleGenerator
<1>6. UNCHANGED <<pools, items>>
  BY DEF GenerateStarts
<1>7. \A g \in Files \ {f} : calm'[g] = calm[g]
  BY DEF GenerateStarts, MonitorInv
<1>8. /\ \A k \in DOMAIN ps : ps[k] \in PoolsFor(f)
      /\ \A p \in PoolsFor(f) : \E k \in DOMAIN ps : ps[k] = p
      /\ \A j, k \in DOMAIN ps : ps[j] = ps[k] => j = k
      /\ \E c \in Nat : DOMAIN ps = 1..c
  BY <1>1, PoolsAre, SortedIs
<1>9. DOMAIN t = DOMAIN ps /\ \A k \in DOMAIN ps : t[k] = Entry(ps[k])
  BY <1>2 DEF Entry
<1>10. t \in Seq(Entries(f))
  <2>1. PICK c \in Nat : DOMAIN t = 1..c
    BY <1>8, <1>9
  <2>2. t = [k \in 1..c |-> t[k]]
    BY <1>2, <2>1
  <2>3. \A k \in 1..c : t[k] \in Entries(f)
    <3>. TAKE k \in 1..c
    <3>1. PICK p \in PoolsFor(f) : t[k] = Entry(p)
      BY <1>8, <1>9, <2>1
    <3>. QED
      BY <3>1 DEF Entries
  <2>. QED
    BY <2>2, <2>3, IsASeq
<1>11. \A j, k \in DOMAIN t : t[j] = t[k] => j = k
  BY <1>8, <1>9 DEF Entry
<1>12. \A p \in PoolsFor(f) : \A k \in DOMAIN pools[p].ips :
         NoFiles[pools[p].ips[k]] = IF Filled(p, k, t, 0) THEN Given(f, p, k) ELSE NoFile
  <2>. TAKE p \in PoolsFor(f)
  <2>. TAKE k \in DOMAIN pools[p].ips
  <2>1. pools[p].ips[k] \in Machines /\ k \in Nat /\ ~(k <= 0)
    BY PoolIs
  <2>2. Before(Entry(p), t)
    BY <1>8, <1>9 DEF Before
  <2>. QED
    BY <2>1, <2>2 DEF Filled, NoFiles
<1>13. Good(f, t, 0, NoFiles)
  BY <1>10, <1>11, <1>12 DEF Good, NoFiles
<1>14. Through(f, y)
  BY <1>5, <1>13 DEF Through
<1>15. AtWork(f)
  <2>1. y.pc = "pool"
    BY <1>5
  <2>. QED
    BY <1>4, <2>1, Zenon DEF AtWork
<1>. QED
  BY <1>4, <1>6, <1>7, <1>14, <1>15, PassGoes

(* It is over.                                                              *)
LEMMA PassCloses ==
  ASSUME MonitorInv, \A g \in Files : PassInv(g), NEW f \in Files, GenerateEnds(f)
  PROVE  \A g \in Files : PassInv(g)'
<1>1. gen' = [gen EXCEPT ![f] = IdleGenerator] /\ UNCHANGED <<pools, items>> /\ UNCHANGED calm
  BY DEF GenerateEnds
<1>. QED
  BY <1>1, IdleIs, PassGoes

(* The goroutines.                                                          *)
Passes ==
  /\ \A g \in Files : PassInv(g)'
  /\ (\E f \in Files : AtWork(f)) \/ \E f \in Files : GenerateEnds(f)

LEMMA PassCacheStep ==
  ASSUME MonitorInv, \A g \in Files : PassInv(g), MonitorCacheManager
  PROVE  Passes
<1>1. ASSUME NEW f \in Files, GenerateStarts(f) \/ GenerateEnds(f)
      PROVE  Passes
  BY <1>1, PassOpens, PassCloses DEF Passes
<1>2. ASSUME NEW ok \in BOOLEAN, GeneratePrometheusScrapeConfigYamlOnePool(ok)
      PROVE  Passes
  <2>1. PICK f : f = "main"
    OBVIOUS
  <2>2. PICK y : PoolRead(f, ok, y)
                 /\ y = IF RowsNow(f, ok) = {} THEN Skipped(gen[f], Tail(gen[f].todo))
                        ELSE ToSecrets(f, RowsNow(f, ok))
    BY <1>2, <2>1, Zenon DEF GeneratePrometheusScrapeConfigYamlOnePool, Skipped
  <2>3. \/ RowsNow(f, ok) = {} /\ y = Skipped(gen[f], Tail(gen[f].todo))
        \/ RowsNow(f, ok) # {} /\ y = ToSecrets(f, RowsNow(f, ok))
    BY <2>2
  <2>. QED
    BY <2>1, <2>2, <2>3, PassReads DEF Passes, Files
<1>3. ASSUME NEW ok \in BOOLEAN, GenerateAlertManagerRouteConfigYamlOnePool(ok)
      PROVE  Passes
  <2>1. PICK f : f = "alertmanager"
    OBVIOUS
  <2>2. PICK y : PoolRead(f, ok, y) /\ y = ToSecrets(f, RowsNow(f, ok))
    BY <1>3, <2>1, Zenon DEF GenerateAlertManagerRouteConfigYamlOnePool
  <2>. QED
    BY <2>1, <2>2, PassReads DEF Passes, Files
<1>4. ASSUME NEW ok \in BOOLEAN, NEW f \in {"alert", "record"}, RulesOfPool(f, ok)
      PROVE  Passes
  BY <1>4, PassRules DEF Passes, Files
<1>5. ASSUME NEW ok \in BOOLEAN,
             GeneratePrometheusMainConfigYaml(ok) \/ GenerateAlertManagerMainConfigYaml(ok)
      PROVE  Passes
  BY <1>5, PassWrites, PassRoutes DEF Passes, Files
<1>. QED
  BY <1>1, <1>2, <1>3, <1>4, <1>5
     DEF MonitorCacheManager, GeneratePrometheusAlertRuleConfigYamlOnePool,
         GeneratePrometheusRecordRuleConfigYamlOnePool

(* The requests leave the goroutines alone, and write to the tables only    *)
(* where nothing is calm any more.                                          *)
Edited == UNCHANGED gen /\ (UNCHANGED <<pools, items, calm>> \/ TablesChange)

LEMMA PoolHandlersEdit ==
  ASSUME PoolHandlers
  PROVE  Edited
<1>1. ASSUME NEW r, NEW op, NEW id, NEW row, Check(r, op, id, row) PROVE Edited
  BY <1>1 DEF Check, Edited
<1>2. ASSUME NEW r, NEW p, NEW row, CreatePool(r, p, row) \/ UpdatePool(r, p, row) PROVE Edited
  BY <1>1, <1>2 DEF CreatePool, UpdatePool
<1>3. ASSUME NEW r, NEW p, NEW f, DeletePool(r, p, f) PROVE Edited
  BY <1>1, <1>3 DEF DeletePool
<1>4. ASSUME NEW r, NEW i, deleteMonitorAlertManagerSendGroup(r, i) PROVE Edited
  BY <1>1, <1>4 DEF deleteMonitorAlertManagerSendGroup
<1>5. ASSUME NEW r, PoolWrite(r) \/ SendGroupDelete(r) PROVE Edited
  BY <1>5 DEF PoolWrite, SendGroupDelete, Edited
<1>. QED
  BY <1>2, <1>3, <1>4, <1>5
     DEF PoolHandlers, createMonitorPromScrapePool, updateMonitorPromScrapePool,
         deleteMonitorPromScrapePool, createMonitorAlertManagerPool,
         updateMonitorAlertManagerPool, deleteMonitorAlertManagerPool

LEMMA ItemHandlersEdit ==
  ASSUME ItemHandlers
  PROVE  Edited
<1>1. ASSUME NEW new, WriteItems(new) PROVE Edited
  BY <1>1 DEF WriteItems, Edited
<1>2. ASSUME NEW i, NEW row, NEW f, CreateItem(f, i, row) \/ UpdateItem(f, i, row) PROVE Edited
  BY <1>1, <1>2 DEF CreateItem, UpdateItem
<1>3. ASSUME NEW f, NEW S, NEW on, EnableItems(f, S, on) PROVE Edited
  BY <1>1, <1>3 DEF EnableItems
<1>4. ASSUME NEW f, NEW S, DeleteItems(f, S) PROVE Edited
  BY <1>1, <1>4 DEF DeleteItems
<1>. QED
  BY <1>2, <1>3, <1>4
     DEF ItemHandlers, createMonitorPromScrapeJob, updateMonitorPromScrapeJob,
         setMonitorPromScrapeJobStatus, deleteMonitorPromScrapeJob,
         createMonitorPromAlertRule, updateMonitorPromAlertRule, setMonitorPromAlertRuleStatus,
         setMonitorPromAlertRuleStatusBatch, deleteMonitorPromAlertRule,
         deleteMonitorPromAlertRuleBatch, createMonitorPromRecordRule,
         updateMonitorPromRecordRule, setMonitorPromRecordRuleStatus,
         setMonitorPromRecordRuleStatusBatch, deleteMonitorPromRecordRule,
         deleteMonitorPromRecordRuleBatch, createMonitorAlertManagerSendGroup,
         updateMonitorAlertManagerSendGroup, setAlertManagerSendGroupStatus

LEMMA PassEdited ==
  ASSUME \A g \in Files : PassInv(g), Edited
  PROVE  \A g \in Files : PassInv(g)'
<1>1. CASE TablesChange
  BY <1>1 DEF TablesChange, PassInv
<1>2. CASE UNCHANGED <<pools, items, calm>> /\ UNCHANGED gen
  <2>. TAKE g \in Files
  <2>1. PICK x : x = gen[g] /\ gen'[g] = x
    BY <1>2
  <2>2. Apart' <=> Apart
    BY <1>2, TablesStay
  <2>3. calm[g] /\ x.pc # "idle" /\ Apart => Through(g, x)
    BY <2>1 DEF PassInv
  <2>. QED
    BY <1>2, <2>1, <2>2, <2>3, ThroughStays DEF PassInv
<1>. QED
  BY <1>1, <1>2 DEF Edited

(* Every step of the monitoring leaves the passes as they should be.        *)
LEMMA PassGoesOn ==
  ASSUME MonitorInv, \A g \in Files : PassInv(g), MonitorNext \/ UNCHANGED monitorVars
  PROVE  \A g \in Files : PassInv(g)'
<1>1. UNCHANGED monitorVars => Edited
  BY DEF monitorVars, Edited
<1>. QED
  BY <1>1, PassCacheStep, PoolHandlersEdit, ItemHandlersEdit, PassEdited DEF MonitorNext, Passes

(* What a pass serves, if nothing came between, is what the tables say.     *)
LEMMA PassServes ==
  ASSUME MonitorInv, \A g \in Files : PassInv(g), MonitorNext \/ UNCHANGED monitorVars
  PROVE  ServesAsConfiguredStep
<1>. SUFFICES ASSUME NEW f \in Files, calm[f], gen[f].pc = "pool", gen'[f].pc = "idle", Apart
              PROVE  AsConfigured(served', f)
  BY DEF ServesAsConfiguredStep
<1>1. ASSUME NEW g \in Files, GenerateEnds(g), g = f
      PROVE  AsConfigured(served', f)
  <2>1. PICK files : files = gen[f].files
    OBVIOUS
  <2>2. gen[f].todo = <<>> /\ served' = [served EXCEPT ![f] = files]
    BY <1>1, <2>1 DEF GenerateEnds
  <2>3. served'[f] = files
    BY <2>2 DEF MonitorInv
  <2>4. Good(f, <<>>, 0, files)
    BY <2>1, <2>2 DEF PassInv, Through
  <2>5. PICK now : now = served'
    OBVIOUS
  <2>6. AsConfigured(now, f)
    BY <2>3, <2>4, <2>5, ServesAll
  <2>. QED
    BY <2>5, <2>6, Zenon
<1>2. ASSUME NEW g \in Files, AtWork(g) PROVE FALSE
  <2>1. PICK y : gen' = [gen EXCEPT ![g] = y] /\ y.pc # "idle"
    BY <1>2 DEF AtWork
  <2>2. gen'[g] = y /\ (g # f => gen'[f] = gen[f])
    BY <2>1 DEF MonitorInv
  <2>. QED
    BY <2>1, <2>2
<1>3. ASSUME NEW g \in Files, GenerateEnds(g), g # f PROVE FALSE
  <2>1. gen'[f] = gen[f]
    BY <1>3 DEF GenerateEnds, MonitorInv
  <2>. QED
    BY <2>1
<1>4. ~UNCHANGED gen
  OBVIOUS
<1>5. MonitorCacheManager
  BY <1>4, PoolHandlersEdit, ItemHandlersEdit DEF MonitorNext, monitorVars, Edited
<1>6. Passes
  BY <1>5, PassCacheStep
<1>. QED
  BY <1>1, <1>2, <1>3, <1>6 DEF Passes

(* No pass is under way where they begin.                                   *)
LEMMA PassStart ==
  ASSUME NEW f, MonitorInitAbout(f)
  PROVE  \A g \in Files : PassInv(g)
BY DEF MonitorInitAbout, PassInv

-----------------------------------------------------------------------------
(* Roles, APIs and policies.                                                *)
RoleRecords == [state : {"unborn", "there", "gone"}, value : RoleValues \cup {"none"},
                apis : SUBSET ApiRows]

ApiRecords == [state : {"unborn", "there", "gone"}, path : ApiPaths \cup {"none"}]

RoleOps == {"createRole", "updateRole", "setRoleStatus"}
ApiOps  == {"createApi", "updateApi", "deleteApi"}

RoleReqRecords ==
  [pc : {"idle", "create", "row", "apis", "remove", "add", "move"},
   op : {"none"} \cup RoleOps \cup ApiOps,
   id : Nat, value : RoleValues \cup {"none"}, apis : SUBSET (ApiRows \X ApiPaths),
   old : ApiPaths \cup {"none"}, calm : BOOLEAN, agreed : SUBSET RoleRows]

RowsOfRoles ==
  /\ roleRow \in [RoleRows -> RoleRecords]
  /\ apiRow \in [ApiRows -> ApiRecords]
  /\ policy \subseteq RoleValues \X ApiPaths
  /\ \A r \in RoleRows : roleRow[r].apis \subseteq ApisThere
  /\ \A r \in RolesThere : roleRow[r].value \in RoleValues
  /\ \A r, s \in RolesThere : roleRow[r].value = roleRow[s].value => r = s
  /\ \A a \in ApisThere : apiRow[a].path \in ApiPaths

(* What a request has read.                                                 *)
HasRead(x) ==
  /\ x.op = "none" => x.pc = "idle" /\ ~x.calm
  /\ x.op \in RoleOps => x.id \in RoleRows /\ x.value \in RoleValues
  /\ x.op \in ApiOps => x.id \in ApiRows /\ x.old \in ApiPaths
  /\ x.op = "createRole" => x.pc = "create"
  /\ x.op = "updateRole" => x.pc \in {"row", "apis", "remove", "add"}
  /\ x.op = "setRoleStatus" => x.pc = "row"
  /\ x.op = "createApi" => x.pc \in {"create", "add"}
  /\ x.op = "updateApi" => x.pc \in {"row", "move"} /\ \E p \in ApiPaths : x.apis = {<<x.id, p>>}
  /\ x.op = "deleteApi" => x.pc \in {"row", "remove"}

Born(x) == \A a \in x.apis : apiRow[a[1]].state # "unborn"

(* A request that nothing came between: what it read is so, the roles that  *)
(* agreed still do but for what it has done itself.                         *)
CalmRole(x) ==
  /\ x.op = "createRole" => roleRow[x.id].state = "unborn" /\ x.agreed \subseteq AgreeingRoles
  /\ x.op \in {"createRole", "updateRole"} =>
       \A a \in x.apis : a[1] \in ApisThere /\ a[2] = apiRow[a[1]].path
  /\ x.op = "setRoleStatus" =>
       x.value = roleRow[x.id].value /\ x.agreed \subseteq AgreeingRoles
  /\ x.op = "updateRole" =>
       /\ OnePathEach /\ x.id \in RolesThere /\ x.agreed \ {x.id} \subseteq AgreeingRoles
       /\ x.pc # "row" => roleRow[x.id].value = x.value
       /\ x.pc \in {"remove", "add"} => roleRow[x.id].apis = Ids(x.apis)
       /\ x.pc = "add" => Allowed(x.value) = {}

Paths(S) == {apiRow[a].path : a \in S}

CalmApi(x) ==
  /\ x.op = "createApi" /\ x.pc = "create" =>
       apiRow[x.id].state = "unborn" /\ x.agreed \subseteq AgreeingRoles
  /\ x.op = "createApi" /\ x.pc = "add" /\ apiRow[x.id].state # "there" =>
       x.agreed \subseteq AgreeingRoles
  /\ x.op = "createApi" /\ x.pc = "add" /\ apiRow[x.id].state = "there" =>
       \A r \in x.agreed :
         /\ r \in RolesThere
         /\ roleRow[r].value = "super" => Allowed("super") \cup {x.old} = PermCodes(r)
         /\ roleRow[r].value # "super" => Agree(r)
  /\ x.op \in {"updateApi", "deleteApi"} /\ x.pc = "row" =>
       /\ OnePathEach /\ x.agreed \subseteq AgreeingRoles
       /\ x.id \in ApisThere /\ x.old = apiRow[x.id].path
  /\ x.op = "updateApi" /\ x.pc = "move" =>
       /\ x.id \in ApisThere /\ x.apis = {<<x.id, apiRow[x.id].path>>}
       /\ \A a \in ApisThere \ {x.id} : apiRow[a].path # x.old
       /\ apiRow[x.id].path # x.old
       /\ \A r \in x.agreed :
            /\ r \in RolesThere
            /\ roleRow[r].value = "super" =>
                 Allowed("super") = Paths(ApisThere \ {x.id}) \cup {x.old}
            /\ roleRow[r].value # "super" /\ x.id \notin roleRow[r].apis => Agree(r)
  /\ x.op = "deleteApi" /\ x.pc = "remove" =>
       \A r \in x.agreed :
         r \in RolesThere /\ Allowed(roleRow[r].value) \ {x.old} = PermCodes(r)

RoleReqInv(x) == HasRead(x) /\ Born(x) /\ (x.calm => CalmRole(x) /\ CalmApi(x))

RoleInv ==
  /\ RowsOfRoles
  /\ roleReq \in [RoleRequests -> RoleReqRecords]
  /\ roleEdits \in 0 .. MaxRoleEdits
  /\ \A q \in RoleRequests : RoleReqInv(roleReq[q])

LEMMA NoRoleReqIs ==
  /\ NoRoleReq \in RoleReqRecords /\ NoRoleReq.op = "none" /\ NoRoleReq.pc = "idle"
  /\ ~NoRoleReq.calm /\ NoRoleReq.apis = {}
BY DEF NoRoleReq, RoleReqRecords

LEMMA NoRoleReqInv == RoleReqInv(NoRoleReq)
BY NoRoleReqIs DEF RoleReqInv, HasRead, Born, RoleOps, ApiOps

LEMMA RoleTyped ==
  ASSUME RoleInv
  PROVE  RoleTypeOK
BY DEF RoleInv, RowsOfRoles, RoleTypeOK, RoleRecords

LEMMA RoleStart ==
  ASSUME RoleInit
  PROVE  RoleInv
<1>. USE RolePoliciesAssumption DEF RoleInit
<1>1. ASSUME NEW r \in RoleRows PROVE roleRow[r] \in RoleRecords
  <2>1. CASE r \in DOMAIN SeedRoles
    BY <2>1 DEF RoleRecords
  <2>2. CASE r \notin DOMAIN SeedRoles
    BY <2>2 DEF RoleRecords, NoRole
  <2>. QED
    BY <2>1, <2>2
<1>2. ASSUME NEW a \in ApiRows PROVE apiRow[a] \in ApiRecords
  BY DEF ApiRecords, NoApi
<1>3. ApisThere = DOMAIN SeedPath
  BY DEF ApisThere, NoApi
<1>4. RolesThere = DOMAIN SeedRoles
  BY DEF RolesThere, NoRole
<1>5. \A r \in RoleRows : roleRow[r].apis \subseteq ApisThere
  BY <1>3 DEF NoRole
<1>6. \A r \in RolesThere : roleRow[r].value = SeedRoles[r]
  BY <1>4
<1>7. RowsOfRoles
  BY <1>1, <1>2, <1>3, <1>4, <1>5, <1>6 DEF RowsOfRoles
<1>8. \A q \in RoleRequests : roleReq[q] = NoRoleReq
  OBVIOUS
<1>. QED
  BY <1>7, <1>8, NoRoleReqIs, NoRoleReqInv DEF RoleInv

(* What a request relies on is in the tables.                               *)
LEMMA RoleReqStays ==
  ASSUME NEW x, RoleReqInv(x), UNCHANGED <<roleRow, apiRow, policy>>
  PROVE  RoleReqInv(x)'
BY DEF RoleReqInv, HasRead, Born, CalmRole, CalmApi, Paths, AgreeingRoles, Agree, Allowed, PermCodes,
       RolesThere, ApisThere, OnePathEach

LEMMA RoleBegins ==
  ASSUME RoleInv, NEW q \in RoleRequests, NEW x \in RoleReqRecords, RoleReqInv(x),
         UNCHANGED <<roleRow, apiRow, policy>>, roleReq' = [roleReq EXCEPT ![q] = x],
         roleEdits < MaxRoleEdits, roleEdits' = roleEdits + 1
  PROVE  RoleInv'
<1>1. RowsOfRoles'
  BY DEF RoleInv, RowsOfRoles, ApisThere, RolesThere
<1>2. roleReq' \in [RoleRequests -> RoleReqRecords]
  BY DEF RoleInv
<1>3. roleEdits' \in 0 .. MaxRoleEdits
  BY RolePoliciesAssumption DEF RoleInv
<1>4. ASSUME NEW s \in RoleRequests PROVE RoleReqInv(roleReq[s])'
  <2>1. CASE s = q
    <3>1. roleReq'[s] = x
      BY <2>1 DEF RoleInv
    <3>2. RoleReqInv(x)'
      BY RoleReqStays
    <3>. QED
      BY <3>1, <3>2
  <2>2. CASE s # q
    <3>1. PICK y \in RoleReqRecords : y = roleReq[s] /\ RoleReqInv(y)
      BY DEF RoleInv
    <3>2. roleReq'[s] = y
      BY <3>1, <2>2 DEF RoleInv
    <3>3. RoleReqInv(y)'
      BY <3>1, RoleReqStays
    <3>. QED
      BY <3>2, <3>3
  <2>. QED
    BY <2>1, <2>2
<1>. QED
  BY <1>1, <1>2, <1>3, <1>4 DEF RoleInv

(* Nobody comes back to an id: an API that was born stays so.               *)
ApisStayBorn == \A a \in ApiRows : apiRow[a].state # "unborn" => apiRow'[a].state # "unborn"

LEMMA RoleDisturbed ==
  ASSUME NEW x \in RoleReqRecords, RoleReqInv(x), ApisStayBorn,
         NEW y, y = [x EXCEPT !.calm = FALSE]
  PROVE  y \in RoleReqRecords /\ RoleReqInv(y)' /\ y.pc = x.pc
<1>1. y \in RoleReqRecords /\ ~y.calm /\ y.pc = x.pc /\ y.op = x.op /\ y.id = x.id
      /\ y.value = x.value /\ y.apis = x.apis /\ y.old = x.old
  BY DEF RoleReqRecords
<1>2. HasRead(y)
  BY <1>1 DEF RoleReqInv, HasRead
<1>3. \A a \in x.apis : a[1] \in ApiRows
  BY DEF RoleReqRecords
<1>4. Born(y)'
  BY <1>1, <1>3 DEF RoleReqInv, Born, ApisStayBorn
<1>. QED
  BY <1>1, <1>2, <1>4 DEF RoleReqInv, HasRead

LEMMA RoleGoes ==
  ASSUME RoleInv, NEW q \in RoleRequests,
         NEW pc \in {"idle", "create", "row", "apis", "remove", "add", "move"},
         RoleEditGoes(q, pc), RowsOfRoles', ApisStayBorn,
         \A y \in RoleReqRecords :
           pc # "idle" /\ y = [roleReq[q] EXCEPT !.pc = pc] => RoleReqInv(y)'
  PROVE  RoleInv'
<1>1. ASSUME NEW s \in RoleRequests
      PROVE  roleReq'[s] \in RoleReqRecords /\ RoleReqInv(roleReq[s])'
  <2>1. PICK x \in RoleReqRecords : x = roleReq[s] /\ RoleReqInv(x)
    BY DEF RoleInv
  <2>2. CASE s # q
    <3>1. PICK y : y = [x EXCEPT !.calm = FALSE]
      OBVIOUS
    <3>2. roleReq'[s] = y
      BY <2>1, <2>2, <3>1 DEF RoleEditGoes
    <3>3. y \in RoleReqRecords /\ RoleReqInv(y)'
      BY <2>1, <3>1, RoleDisturbed
    <3>. QED
      BY <3>2, <3>3
  <2>3. CASE s = q /\ pc = "idle"
    <3>1. roleReq'[s] = NoRoleReq
      BY <2>3 DEF RoleEditGoes
    <3>2. RoleReqInv(NoRoleReq)'
      BY NoRoleReqIs DEF RoleReqInv, HasRead, Born, RoleOps, ApiOps
    <3>. QED
      BY <3>1, <3>2, NoRoleReqIs
  <2>4. CASE s = q /\ pc # "idle"
    <3>1. PICK y : y = [x EXCEPT !.pc = pc]
      OBVIOUS
    <3>2. y \in RoleReqRecords
      BY <3>1 DEF RoleReqRecords
    <3>3. roleReq'[s] = y
      BY <2>1, <2>4, <3>1 DEF RoleEditGoes
    <3>4. RoleReqInv(y)'
      BY <2>1, <2>4, <3>1, <3>2
    <3>. QED
      BY <3>2, <3>3, <3>4
  <2>. QED
    BY <2>2, <2>3, <2>4
<1>2. roleReq' \in [RoleRequests -> RoleReqRecords]
  BY <1>1 DEF RoleEditGoes
<1>. QED
  BY <1>1, <1>2 DEF RoleInv, RoleEditGoes

(* The rows of the APIs that a role is saved with.                          *)
LEMMA WithApisIs ==
  ASSUME RowsOfRoles, NEW S \in SUBSET (ApiRows \X ApiPaths),
         \A a \in S : apiRow[a[1]].state # "unborn", apiRow' = WithApis(S)
  PROVE  /\ apiRow' \in [ApiRows -> ApiRecords]
         /\ ApisStayBorn
         /\ ApisThere \cup Ids(S) \subseteq ApisThere'
         /\ \A a \in ApisThere : apiRow'[a] = apiRow[a]
         /\ \A a \in ApisThere' : apiRow'[a].path \in ApiPaths
         /\ (\A a \in S : a[1] \in ApisThere) => apiRow' = apiRow
<1>1. ASSUME NEW a \in ApiRows, apiRow[a].state = "gone", NEW p \in ApiPaths, <<a, p>> \in S
      PROVE  apiRow'[a].state = "there" /\ apiRow'[a].path \in ApiPaths /\ apiRow'[a] \in ApiRecords
  BY <1>1 DEF WithApis, ApiRecords
<1>2. ASSUME NEW a \in ApiRows,
             apiRow[a].state # "gone" \/ \A p \in ApiPaths : <<a, p>> \notin S
      PROVE  apiRow'[a] = apiRow[a]
  BY <1>2 DEF WithApis
<1>3. \A a \in ApiRows : apiRow'[a] \in ApiRecords
  BY <1>1, <1>2 DEF RowsOfRoles
<1>4. apiRow' \in [ApiRows -> ApiRecords]
  BY <1>3 DEF WithApis
<1>5. ApisStayBorn
  BY <1>1, <1>2 DEF ApisStayBorn
<1>6. \A a \in ApisThere : apiRow'[a] = apiRow[a]
  BY <1>2 DEF ApisThere
<1>7. ASSUME NEW i \in Ids(S) PROVE i \in ApisThere'
  <2>1. PICK a \in S : i = a[1]
    BY DEF Ids
  <2>2. i \in ApiRows /\ a[2] \in ApiPaths /\ a = <<i, a[2]>>
    BY <2>1
  <2>3. apiRow[i] \in ApiRecords /\ apiRow[i].state # "unborn"
    BY <2>1, <2>2 DEF RowsOfRoles
  <2>4. CASE apiRow[i].state = "gone"
    BY <2>1, <2>2, <2>4, <1>1 DEF ApisThere
  <2>5. CASE apiRow[i].state = "there"
    BY <2>2, <2>5, <1>2 DEF ApisThere
  <2>. QED
    BY <2>3, <2>4, <2>5 DEF ApiRecords
<1>8. ApisThere \subseteq ApisThere'
  BY <1>6 DEF ApisThere
<1>9. \A a \in ApisThere' : apiRow'[a].path \in ApiPaths
  BY <1>1, <1>2 DEF ApisThere, RowsOfRoles
<1>10. ASSUME \A a \in S : a[1] \in ApisThere PROVE apiRow' = apiRow
  <2>1. \A a \in ApiRows : \A p \in ApiPaths : <<a, p>> \in S => apiRow[a].state = "there"
    BY <1>10 DEF ApisThere
  <2>2. \A a \in ApiRows : apiRow'[a] = apiRow[a]
    BY <2>1, <1>2
  <2>. QED
    BY <2>2, <1>4 DEF RowsOfRoles
<1>. QED
  BY <1>4, <1>5, <1>6, <1>7, <1>8, <1>9, <1>10

(* The role that a request saves, or the roles that it does not change.     *)
AgreeAfter(q) ==
  roleReq[q].calm /\ roleReq'[q].pc = "idle" /\ OnePathEach' => \A r \in LeftInOrder(q) : Agree(r)'

(* What a request leaves, but for a role super with a policy and no row.    *)
EndsInOrder(q) ==
  roleReq[q].calm /\ roleReq'[q].pc = "idle" /\ OnePathEach' =>
    \A r \in LeftInOrder(q) :
      /\ MayWhatItSees(r)'
      /\ roleReq[q].op # "createApi" \/ apiRow'[roleReq[q].id].state = "there" => Agree(r)'

LEMMA AgreeingIsInOrder ==
  ASSUME NEW q, AgreeAfter(q)
  PROVE  EndsInOrder(q)
<1>1. ASSUME NEW r, Agree(r)' PROVE MayWhatItSees(r)'
  BY <1>1 DEF Agree, MayWhatItSees
<1>. QED
  BY <1>1 DEF AgreeAfter, EndsInOrder

LEMMA CreateRoleStep ==
  ASSUME RoleInv, NEW q \in RoleRequests, CreateRoleRow(q)
  PROVE  RoleInv' /\ AgreeAfter(q)
<1>1. PICK x \in RoleReqRecords : x = roleReq[q] /\ RoleReqInv(x)
  BY DEF RoleInv
<1>2. x.op = "createRole" /\ x.pc = "create" /\ RoleEditGoes(q, "idle")
  BY <1>1 DEF CreateRoleRow, At
<1>3. x.id \in RoleRows /\ x.value \in RoleValues /\ x.apis \subseteq ApiRows \X ApiPaths
  BY <1>1, <1>2 DEF RoleReqInv, HasRead, RoleOps, RoleReqRecords
<1>4. \A a \in x.apis : apiRow[a[1]].state # "unborn"
  BY <1>1 DEF RoleReqInv, Born
<1>5. CASE ValueTaken(x.id, x.value)
  <2>1. UNCHANGED <<roleRow, apiRow, policy>>
    BY <1>1, <1>5 DEF CreateRoleRow
  <2>2. RowsOfRoles' /\ ApisStayBorn
    BY <2>1 DEF RoleInv, RowsOfRoles, ApisThere, RolesThere, ApisStayBorn
  <2>3. RoleInv'
    BY <1>2, <2>2, RoleGoes
  <2>4. AgreeAfter(q)
    BY <1>1, <1>2, <2>1 DEF AgreeAfter, LeftInOrder, At, RoleReqInv, CalmRole, AgreeingRoles,
       Agree, Allowed, PermCodes, ApisThere, RolesThere
  <2>. QED
    BY <2>3, <2>4
<1>6. CASE ~ValueTaken(x.id, x.value)
  <2>1. PICK n : n = [state |-> "there", value |-> x.value, apis |-> Ids(x.apis)]
    OBVIOUS
  <2>2. roleRow' = [roleRow EXCEPT ![x.id] = n] /\ apiRow' = WithApis(x.apis) /\ policy' = policy
    BY <1>1, <1>6, <2>1 DEF CreateRoleRow
  <2>3. Ids(x.apis) \subseteq ApiRows
    BY <1>3 DEF Ids
  <2>4. n \in RoleRecords /\ n.value = x.value /\ n.state = "there" /\ n.apis = Ids(x.apis)
    BY <1>3, <2>1, <2>3 DEF RoleRecords
  <2>5. /\ apiRow' \in [ApiRows -> ApiRecords]
        /\ ApisStayBorn
        /\ ApisThere \cup Ids(x.apis) \subseteq ApisThere'
        /\ \A a \in ApisThere : apiRow'[a] = apiRow[a]
        /\ \A a \in ApisThere' : apiRow'[a].path \in ApiPaths
        /\ (\A a \in x.apis : a[1] \in ApisThere) => apiRow' = apiRow
    <3>1. RowsOfRoles
      BY DEF RoleInv
    <3>. QED
      BY <1>3, <1>4, <2>2, <3>1, WithApisIs
  <2>6. \A r \in RoleRows : roleRow'[r] = IF r = x.id THEN n ELSE roleRow[r]
    BY <1>3, <2>2 DEF RoleInv, RowsOfRoles
  <2>7. RolesThere' = RolesThere \cup {x.id}
    BY <1>3, <2>4, <2>6 DEF RolesThere
  <2>8. roleRow' \in [RoleRows -> RoleRecords]
    BY <2>2, <2>4 DEF RoleInv, RowsOfRoles
  <2>9. \A r \in RoleRows : roleRow'[r].apis \subseteq ApisThere'
    BY <2>4, <2>5, <2>6 DEF RoleInv, RowsOfRoles
  <2>10. \A r \in RolesThere' : roleRow'[r].value \in RoleValues
    BY <1>3, <2>4, <2>6, <2>7 DEF RoleInv, RowsOfRoles, RolesThere
  <2>11. \A s \in RolesThere \ {x.id} : roleRow[s].value # x.value
    BY <1>6 DEF ValueTaken
  <2>12. \A r, s \in RolesThere' : roleRow'[r].value = roleRow'[s].value => r = s
    BY <1>3, <2>4, <2>6, <2>7, <2>11 DEF RoleInv, RowsOfRoles, RolesThere
  <2>13. RowsOfRoles'
    BY <2>2, <2>5, <2>8, <2>9, <2>10, <2>12 DEF RoleInv, RowsOfRoles
  <2>14. RoleInv'
    BY <1>2, <2>5, <2>13, RoleGoes
  <2>15. ASSUME x.calm PROVE \A r \in LeftInOrder(q) : Agree(r)'
    <3>1. roleRow[x.id].state = "unborn" /\ x.agreed \subseteq AgreeingRoles /\ apiRow' = apiRow
      BY <1>1, <1>2, <2>5, <2>15 DEF RoleReqInv, CalmRole
    <3>2. LeftInOrder(q) \subseteq AgreeingRoles
      BY <1>1, <1>2, <3>1 DEF LeftInOrder, At
    <3>3. ASSUME NEW r \in AgreeingRoles PROVE Agree(r)'
      <4>1. r \in RoleRows /\ roleRow'[r] = roleRow[r] /\ Agree(r)
        BY <2>6, <3>1 DEF AgreeingRoles, RolesThere
      <4>. QED
        BY <4>1, <3>1, <2>2 DEF Agree, Allowed, PermCodes, ApisThere
    <3>. QED
      BY <3>2, <3>3
  <2>. QED
    BY <1>1, <2>14, <2>15 DEF AgreeAfter
<1>. QED
  BY <1>5, <1>6

(* A role that keeps its row, with the same APIs and its own policies.      *)
LEMMA AgreeStays ==
  ASSUME NEW r, Agree(r), roleRow'[r] = roleRow[r], UNCHANGED apiRow,
         \A p \in ApiPaths : <<roleRow[r].value, p>> \in policy' <=> <<roleRow[r].value, p>> \in policy
  PROVE  Agree(r)'
BY DEF Agree, Allowed, PermCodes, ApisThere

(* What an update of a role has read and done.                              *)
LEMMA UpdateHas ==
  ASSUME RoleInv, NEW q \in RoleRequests, roleReq[q].op = "updateRole"
  PROVE  \E x \in RoleReqRecords :
           /\ x = roleReq[q] /\ RoleReqInv(x) /\ x.op = "updateRole"
           /\ x.id \in RoleRows /\ x.value \in RoleValues /\ x.apis \subseteq ApiRows \X ApiPaths
           /\ \A a \in x.apis : apiRow[a[1]].state # "unborn"
           /\ x.calm =>
                /\ \A a \in x.apis : a[1] \in ApisThere /\ a[2] = apiRow[a[1]].path
                /\ OnePathEach /\ x.id \in RolesThere /\ x.agreed \ {x.id} \subseteq AgreeingRoles
                /\ x.pc # "row" => roleRow[x.id].value = x.value
                /\ x.pc \in {"remove", "add"} => roleRow[x.id].apis = Ids(x.apis)
                /\ x.pc = "add" => Allowed(x.value) = {}
<1>1. PICK x \in RoleReqRecords : x = roleReq[q] /\ RoleReqInv(x) /\ x.op = "updateRole"
  BY DEF RoleInv
<1>2. x.id \in RoleRows /\ x.value \in RoleValues /\ x.apis \subseteq ApiRows \X ApiPaths
  BY <1>1 DEF RoleReqInv, HasRead, RoleOps, RoleReqRecords
<1>3. \A a \in x.apis : apiRow[a[1]].state # "unborn"
  BY <1>1 DEF RoleReqInv, Born
<1>. QED
  BY <1>1, <1>2, <1>3 DEF RoleReqInv, CalmRole

(* ... and what it needs to have for its next step.                         *)
LEMMA UpdateGoesOn ==
  ASSUME NEW x \in RoleReqRecords, RoleReqInv(x), x.op = "updateRole",
         NEW pc \in {"apis", "remove", "add"}, NEW y, y = [x EXCEPT !.pc = pc],
         \A a \in x.apis : apiRow'[a[1]].state # "unborn",
         x.calm =>
           /\ \A a \in x.apis : a[1] \in ApisThere' /\ a[2] = apiRow'[a[1]].path
           /\ OnePathEach' /\ x.id \in RolesThere'
           /\ \A r \in x.agreed \ {x.id} : r \in RolesThere' /\ Agree(r)'
           /\ roleRow'[x.id].value = x.value
           /\ pc \in {"remove", "add"} => roleRow'[x.id].apis = Ids(x.apis)
           /\ pc = "add" => \A p \in ApiPaths : <<x.value, p>> \notin policy'
  PROVE  RoleReqInv(y)'
<1>1. /\ y.op = "updateRole" /\ y.pc = pc /\ y.calm = x.calm /\ y.apis = x.apis /\ y.id = x.id
      /\ y.value = x.value /\ y.agreed = x.agreed
  BY DEF RoleReqRecords
<1>2. HasRead(y)
  BY <1>1 DEF RoleReqInv, HasRead, RoleOps, ApiOps
<1>3. Born(y)'
  BY <1>1 DEF Born
<1>4. CASE x.calm
  <2>1. y.agreed \ {y.id} \subseteq AgreeingRoles'
    BY <1>1, <1>4 DEF AgreeingRoles
  <2>2. pc = "add" => Allowed(y.value)' = {}
    BY <1>1, <1>4 DEF Allowed
  <2>3. CalmRole(y)'
    BY <1>1, <1>4, <2>1, <2>2 DEF CalmRole
  <2>4. CalmApi(y)'
    BY <1>1 DEF CalmApi
  <2>. QED
    BY <1>2, <1>3, <2>3, <2>4 DEF RoleReqInv, HasRead
<1>. QED
  BY <1>1, <1>2, <1>3, <1>4 DEF RoleReqInv, HasRead

(* A role's value as a request gives it, if no other has it.                *)
LEMMA RoleWrites ==
  ASSUME RowsOfRoles, NEW id \in RolesThere, NEW v \in RoleValues, ~ValueTaken(id, v),
         NEW n, n.state = "there", n.value = v, n \in RoleRecords, n.apis \subseteq ApisThere',
         roleRow' = [roleRow EXCEPT ![id] = n], UNCHANGED policy,
         apiRow' \in [ApiRows -> ApiRecords], ApisThere \subseteq ApisThere',
         \A a \in ApisThere' : apiRow'[a].path \in ApiPaths
  PROVE  RowsOfRoles' /\ RolesThere' = RolesThere /\ roleRow'[id] = n
<1>1. id \in RoleRows
  BY DEF RolesThere
<1>2. \A r \in RoleRows : roleRow'[r] = IF r = id THEN n ELSE roleRow[r]
  BY <1>1 DEF RowsOfRoles
<1>3. RolesThere' = RolesThere
  BY <1>2 DEF RolesThere
<1>4. roleRow' \in [RoleRows -> RoleRecords]
  BY DEF RowsOfRoles
<1>5. \A r \in RoleRows : roleRow'[r].apis \subseteq ApisThere'
  BY <1>2 DEF RowsOfRoles
<1>6. \A r \in RolesThere' : roleRow'[r].value \in RoleValues
  BY <1>2, <1>3 DEF RowsOfRoles, RolesThere
<1>7. \A s \in RolesThere \ {id} : roleRow[s].value # v
  BY DEF ValueTaken
<1>8. \A r, s \in RolesThere' : roleRow'[r].value = roleRow'[s].value => r = s
  BY <1>2, <1>3, <1>7 DEF RowsOfRoles, RolesThere
<1>. QED
  BY <1>1, <1>2, <1>3, <1>4, <1>5, <1>6, <1>8 DEF RowsOfRoles

LEMMA UpdateRoleStep ==
  ASSUME RoleInv, NEW q \in RoleRequests, UpdateRoleRow(q)
  PROVE  RoleInv' /\ AgreeAfter(q)
<1>1. roleReq[q].op = "updateRole" /\ roleReq[q].pc = "row"
  BY DEF UpdateRoleRow, At
<1>2. PICK x \in RoleReqRecords :
           /\ x = roleReq[q] /\ RoleReqInv(x) /\ x.op = "updateRole"
           /\ x.id \in RoleRows /\ x.value \in RoleValues /\ x.apis \subseteq ApiRows \X ApiPaths
           /\ \A a \in x.apis : apiRow[a[1]].state # "unborn"
           /\ x.calm =>
                /\ \A a \in x.apis : a[1] \in ApisThere /\ a[2] = apiRow[a[1]].path
                /\ OnePathEach /\ x.id \in RolesThere /\ x.agreed \ {x.id} \subseteq AgreeingRoles
  BY <1>1, UpdateHas
<1>3. UNCHANGED <<apiRow, policy>> /\ ApisStayBorn
  BY DEF UpdateRoleRow, ApisStayBorn
<1>4. CASE ValueTaken(x.id, x.value)
  <2>1. UNCHANGED roleRow /\ RoleEditGoes(q, "idle")
    BY <1>2, <1>4 DEF UpdateRoleRow
  <2>2. RowsOfRoles'
    BY <1>3, <2>1 DEF RoleInv, RowsOfRoles, ApisThere, RolesThere
  <2>3. RoleInv'
    BY <1>3, <2>1, <2>2, RoleGoes
  <2>4. x.calm => LeftInOrder(q) \subseteq AgreeingRoles
    BY <1>1, <1>2 DEF LeftInOrder, At
  <2>5. ASSUME NEW r \in AgreeingRoles PROVE Agree(r)'
    BY <1>3, <2>1, AgreeStays DEF AgreeingRoles
  <2>. QED
    BY <1>2, <2>3, <2>4, <2>5 DEF AgreeAfter
<1>5. CASE ~ValueTaken(x.id, x.value)
  <2>1. RoleEditGoes(q, "apis")
    BY <1>2, <1>5 DEF UpdateRoleRow
  <2>2. roleReq'[q].pc = "apis"
    <3>1. PICK y : y = [x EXCEPT !.pc = "apis"]
      OBVIOUS
    <3>2. roleReq'[q] = y
      BY <1>2, <2>1, <3>1 DEF RoleEditGoes
    <3>. QED
      BY <3>1, <3>2 DEF RoleReqRecords
  <2>3. CASE x.id \in RolesThere
    <3>1. PICK n : n = [roleRow[x.id] EXCEPT !.value = x.value]
      OBVIOUS
    <3>2. roleRow[x.id] \in RoleRecords /\ roleRow[x.id].state = "there"
          /\ roleRow[x.id].apis \subseteq ApisThere
      BY <1>2, <2>3 DEF RoleInv, RowsOfRoles, RolesThere
    <3>3. n \in RoleRecords /\ n.state = "there" /\ n.value = x.value /\ n.apis = roleRow[x.id].apis
      BY <1>2, <3>1, <3>2 DEF RoleRecords
    <3>4. roleRow' = [roleRow EXCEPT ![x.id] = n]
      BY <1>2, <1>5, <2>3, <3>1 DEF UpdateRoleRow
    <3>5. ApisThere' = ApisThere
      BY <1>3 DEF ApisThere
    <3>6. RowsOfRoles' /\ RolesThere' = RolesThere /\ roleRow'[x.id] = n
      <4>1. RowsOfRoles
        BY DEF RoleInv
      <4>2. apiRow' \in [ApiRows -> ApiRecords] /\ \A a \in ApisThere' : apiRow'[a].path \in ApiPaths
        BY <1>3, <3>5, <4>1 DEF RowsOfRoles
      <4>3. n.apis \subseteq ApisThere' /\ ApisThere \subseteq ApisThere' /\ UNCHANGED policy
        BY <1>3, <3>2, <3>3, <3>5
      <4>4. n \in RoleRecords /\ n.state = "there" /\ n.value = x.value /\ x.value \in RoleValues
        BY <1>2, <3>3
      <4>. QED
        BY <1>5, <2>3, <3>4, <4>1, <4>2, <4>3, <4>4, RoleWrites
    <3>7. ASSUME x.calm, NEW r \in x.agreed \ {x.id} PROVE r \in RolesThere' /\ Agree(r)'
      <4>1. r \in AgreeingRoles
        BY <1>2, <3>7
      <4>2. r \in RolesThere /\ Agree(r) /\ roleRow'[r] = roleRow[r]
        BY <3>4, <3>7, <4>1 DEF AgreeingRoles, RolesThere, RoleInv, RowsOfRoles
      <4>. QED
        BY <1>3, <3>6, <4>2, AgreeStays
    <3>8. ASSUME NEW y \in RoleReqRecords, y = [roleReq[q] EXCEPT !.pc = "apis"]
          PROVE  RoleReqInv(y)'
      <4>1. y = [x EXCEPT !.pc = "apis"]
        BY <1>2, <3>8
      <4>2. x.calm => OnePathEach'
        BY <1>2, <1>3 DEF OnePathEach, ApisThere
      <4>. QED
        BY <1>2, <1>3, <3>3, <3>5, <3>6, <3>7, <4>1, <4>2, UpdateGoesOn
    <3>9. RoleInv'
      BY <1>3, <2>1, <3>6, <3>8, RoleGoes
    <3>. QED
      BY <2>2, <3>9 DEF AgreeAfter
  <2>4. CASE x.id \notin RolesThere
    <3>1. UNCHANGED roleRow /\ ~x.calm
      BY <1>2, <1>5, <2>4 DEF UpdateRoleRow
    <3>2. RowsOfRoles'
      BY <1>3, <3>1 DEF RoleInv, RowsOfRoles, ApisThere, RolesThere
    <3>3. ASSUME NEW y \in RoleReqRecords, y = [roleReq[q] EXCEPT !.pc = "apis"]
          PROVE  RoleReqInv(y)'
      <4>1. y = [x EXCEPT !.pc = "apis"]
        BY <1>2, <3>3
      <4>. QED
        BY <1>2, <1>3, <3>1, <4>1, UpdateGoesOn
    <3>4. RoleInv'
      BY <1>3, <2>1, <3>2, <3>3, RoleGoes
    <3>. QED
      BY <2>2, <3>4 DEF AgreeAfter
  <2>. QED
    BY <2>3, <2>4
<1>. QED
  BY <1>4, <1>5

(* A request that goes on has not ended.                                    *)
LEMMA RoleGoesTo ==
  ASSUME RoleInv, NEW q \in RoleRequests,
         NEW pc \in {"create", "row", "apis", "remove", "add", "move"}, RoleEditGoes(q, pc)
  PROVE  roleReq'[q].pc = pc
<1>1. PICK x \in RoleReqRecords : x = roleReq[q]
  BY DEF RoleInv
<1>2. PICK y : y = [x EXCEPT !.pc = pc]
  OBVIOUS
<1>3. roleReq'[q] = y
  BY <1>1, <1>2 DEF RoleEditGoes
<1>. QED
  BY <1>2, <1>3 DEF RoleReqRecords

LEMMA UpdateApisStep ==
  ASSUME RoleInv, NEW q \in RoleRequests, UpdateApis(q)
  PROVE  RoleInv' /\ AgreeAfter(q)
<1>1. roleReq[q].op = "updateRole" /\ roleReq[q].pc = "apis"
  BY DEF UpdateApis, At
<1>2. PICK x \in RoleReqRecords :
           /\ x = roleReq[q] /\ RoleReqInv(x) /\ x.op = "updateRole"
           /\ x.id \in RoleRows /\ x.value \in RoleValues /\ x.apis \subseteq ApiRows \X ApiPaths
           /\ \A a \in x.apis : apiRow[a[1]].state # "unborn"
           /\ x.calm =>
                /\ \A a \in x.apis : a[1] \in ApisThere /\ a[2] = apiRow[a[1]].path
                /\ OnePathEach /\ x.id \in RolesThere /\ x.agreed \ {x.id} \subseteq AgreeingRoles
  BY <1>1, UpdateHas
<1>3. UNCHANGED policy /\ RowsOfRoles
  BY DEF UpdateApis, RoleInv
<1>4. CASE ValueTaken(x.id, x.value) \/ (x.id \notin RolesThere /\ x.apis # {})
  <2>1. UNCHANGED <<roleRow, apiRow>> /\ RoleEditGoes(q, "idle")
    BY <1>2, <1>4 DEF UpdateApis
  <2>2. RowsOfRoles' /\ ApisStayBorn
    BY <1>3, <2>1 DEF RoleInv, RowsOfRoles, ApisThere, RolesThere, ApisStayBorn
  <2>3. RoleInv'
    BY <2>1, <2>2, RoleGoes
  <2>4. x.calm => LeftInOrder(q) \subseteq AgreeingRoles
    BY <1>1, <1>2 DEF LeftInOrder, At
  <2>5. ASSUME NEW r \in AgreeingRoles PROVE Agree(r)'
    BY <1>3, <2>1, AgreeStays DEF AgreeingRoles
  <2>. QED
    BY <1>2, <2>3, <2>4, <2>5 DEF AgreeAfter
<1>5. CASE ~(ValueTaken(x.id, x.value) \/ (x.id \notin RolesThere /\ x.apis # {}))
  <2>1. RoleEditGoes(q, "remove") /\ apiRow' = WithApis(x.apis)
    BY <1>2, <1>5 DEF UpdateApis
  <2>2. roleReq'[q].pc = "remove"
    BY <2>1, RoleGoesTo
  <2>3. /\ apiRow' \in [ApiRows -> ApiRecords]
        /\ ApisStayBorn
        /\ ApisThere \cup Ids(x.apis) \subseteq ApisThere'
        /\ \A a \in ApisThere' : apiRow'[a].path \in ApiPaths
        /\ (\A a \in x.apis : a[1] \in ApisThere) => apiRow' = apiRow
    BY <1>2, <1>3, <2>1, WithApisIs
  <2>4. \A a \in x.apis : apiRow'[a[1]].state # "unborn"
    BY <1>2, <2>3 DEF ApisStayBorn
  <2>5. CASE x.id \in RolesThere
    <3>1. PICK m : m = [roleRow[x.id] EXCEPT !.value = x.value]
      OBVIOUS
    <3>2. PICK n : n = [m EXCEPT !.apis = Ids(x.apis)]
      OBVIOUS
    <3>3. roleRow[x.id] \in RoleRecords /\ roleRow[x.id].state = "there"
      BY <1>2, <1>3, <2>5 DEF RowsOfRoles, RolesThere
    <3>4. m \in RoleRecords /\ m.state = "there" /\ m.value = x.value
      BY <1>2, <3>1, <3>3 DEF RoleRecords
    <3>5. Ids(x.apis) \subseteq ApiRows
      BY <1>2 DEF Ids
    <3>6. n \in RoleRecords /\ n.state = "there" /\ n.value = x.value /\ n.apis = Ids(x.apis)
      BY <3>2, <3>4, <3>5 DEF RoleRecords
    <3>7. roleRow' = [roleRow EXCEPT ![x.id] = n]
      <4>1. roleRow' = [roleRow EXCEPT ![x.id].value = x.value, ![x.id].apis = Ids(x.apis)]
        BY <1>2, <1>5, <2>5 DEF UpdateApis
      <4>. QED
        BY <1>2, <1>3, <3>1, <3>2, <4>1 DEF RowsOfRoles
    <3>8. n.apis \subseteq ApisThere' /\ ApisThere \subseteq ApisThere'
      BY <2>3, <3>6
    <3>9. RowsOfRoles' /\ RolesThere' = RolesThere /\ roleRow'[x.id] = n
      <4>1. n \in RoleRecords /\ n.state = "there" /\ n.value = x.value /\ x.value \in RoleValues
        BY <1>2, <3>6
      <4>2. apiRow' \in [ApiRows -> ApiRecords] /\ \A a \in ApisThere' : apiRow'[a].path \in ApiPaths
        BY <2>3
      <4>. QED
        BY <1>3, <1>5, <2>5, <3>7, <3>8, <4>1, <4>2, RoleWrites
    <3>10. ASSUME x.calm, NEW r \in x.agreed \ {x.id} PROVE r \in RolesThere' /\ Agree(r)'
      <4>1. r \in AgreeingRoles /\ apiRow' = apiRow
        BY <1>2, <2>3, <3>10
      <4>2. r \in RolesThere /\ Agree(r) /\ roleRow'[r] = roleRow[r]
        BY <1>3, <3>7, <3>10, <4>1 DEF AgreeingRoles, RolesThere, RowsOfRoles
      <4>. QED
        BY <1>3, <3>9, <4>1, <4>2, AgreeStays
    <3>11. ASSUME NEW y \in RoleReqRecords, y = [roleReq[q] EXCEPT !.pc = "remove"]
           PROVE  RoleReqInv(y)'
      <4>1. y = [x EXCEPT !.pc = "remove"]
        BY <1>2, <3>11
      <4>2. x.calm => OnePathEach' /\ \A a \in x.apis : a[1] \in ApisThere' /\ a[2] = apiRow'[a[1]].path
        BY <1>2, <2>3 DEF OnePathEach, ApisThere
      <4>3. roleRow'[x.id].value = x.value /\ roleRow'[x.id].apis = Ids(x.apis)
        BY <3>6, <3>9
      <4>4. x.calm => x.id \in RolesThere'
        BY <2>5, <3>9
      <4>. QED
        BY <1>2, <2>4, <3>10, <4>1, <4>2, <4>3, <4>4, UpdateGoesOn
    <3>12. RoleInv'
      BY <2>1, <2>3, <3>9, <3>11, RoleGoes
    <3>. QED
      BY <2>2, <3>12 DEF AgreeAfter
  <2>6. CASE x.id \notin RolesThere
    <3>1. UNCHANGED roleRow /\ ~x.calm
      BY <1>2, <1>5, <2>6 DEF UpdateApis
    <3>2. RowsOfRoles'
      BY <1>3, <2>3, <3>1 DEF RowsOfRoles, RolesThere
    <3>3. ASSUME NEW y \in RoleReqRecords, y = [roleReq[q] EXCEPT !.pc = "remove"]
          PROVE  RoleReqInv(y)'
      <4>1. y = [x EXCEPT !.pc = "remove"]
        BY <1>2, <3>3
      <4>. QED
        BY <1>2, <2>4, <3>1, <4>1, UpdateGoesOn
    <3>4. RoleInv'
      BY <2>1, <2>3, <3>2, <3>3, RoleGoes
    <3>. QED
      BY <2>2, <3>4 DEF AgreeAfter
  <2>. QED
    BY <2>5, <2>6
<1>. QED
  BY <1>4, <1>5

LEMMA RemoveRolePoliciesStep ==
  ASSUME RoleInv, NEW q \in RoleRequests, RemoveRolePolicies(q)
  PROVE  RoleInv' /\ AgreeAfter(q)
<1>1. roleReq[q].op = "updateRole" /\ roleReq[q].pc = "remove"
  BY DEF RemoveRolePolicies, At
<1>2. PICK x \in RoleReqRecords :
           /\ x = roleReq[q] /\ RoleReqInv(x) /\ x.op = "updateRole"
           /\ x.id \in RoleRows /\ x.value \in RoleValues /\ x.apis \subseteq ApiRows \X ApiPaths
           /\ \A a \in x.apis : apiRow[a[1]].state # "unborn"
           /\ x.calm =>
                /\ \A a \in x.apis : a[1] \in ApisThere /\ a[2] = apiRow[a[1]].path
                /\ OnePathEach /\ x.id \in RolesThere /\ x.agreed \ {x.id} \subseteq AgreeingRoles
                /\ roleRow[x.id].value = x.value
                /\ roleRow[x.id].apis = Ids(x.apis)
  BY <1>1, UpdateHas
<1>3. UNCHANGED <<roleRow, apiRow>> /\ RowsOfRoles /\ ApisStayBorn
  BY DEF RemoveRolePolicies, RoleInv, ApisStayBorn
<1>4. policy' = {rule \in policy : rule[1] # x.value} /\ RoleEditGoes(q, "add")
  BY <1>2 DEF RemoveRolePolicies
<1>5. RowsOfRoles'
  BY <1>3, <1>4 DEF RowsOfRoles, ApisThere, RolesThere
<1>6. ASSUME x.calm, NEW r \in x.agreed \ {x.id} PROVE r \in RolesThere' /\ Agree(r)'
  <2>1. r \in RolesThere /\ Agree(r) /\ RolesThere' = RolesThere
    BY <1>2, <1>3, <1>6 DEF AgreeingRoles, RolesThere
  <2>2. roleRow[r].value # x.value
    BY <1>2, <1>3, <1>6, <2>1 DEF RowsOfRoles
  <2>3. \A p \in ApiPaths : <<roleRow[r].value, p>> \in policy' <=> <<roleRow[r].value, p>> \in policy
    BY <1>4, <2>2
  <2>. QED
    BY <1>3, <2>1, <2>3, AgreeStays
<1>7. ASSUME NEW y \in RoleReqRecords, y = [roleReq[q] EXCEPT !.pc = "add"]
      PROVE  RoleReqInv(y)'
  <2>1. y = [x EXCEPT !.pc = "add"]
    BY <1>2, <1>7
  <2>2. \A a \in x.apis : apiRow'[a[1]].state # "unborn"
    BY <1>2, <1>3
  <2>3. x.calm =>
          /\ \A a \in x.apis : a[1] \in ApisThere' /\ a[2] = apiRow'[a[1]].path
          /\ OnePathEach' /\ x.id \in RolesThere'
          /\ roleRow'[x.id].value = x.value /\ roleRow'[x.id].apis = Ids(x.apis)
    BY <1>2, <1>3 DEF OnePathEach, ApisThere, RolesThere
  <2>4. \A p \in ApiPaths : <<x.value, p>> \notin policy'
    BY <1>4
  <2>. QED
    BY <1>2, <1>6, <2>1, <2>2, <2>3, <2>4, UpdateGoesOn
<1>8. RoleInv'
  BY <1>3, <1>4, <1>5, <1>7, RoleGoes
<1>9. roleReq'[q].pc = "add"
  BY <1>4, RoleGoesTo
<1>. QED
  BY <1>8, <1>9 DEF AgreeAfter

(* No two of the APIs have one path and none has a policy yet: all get one. *)
LEMMA WithPoliciesIs ==
  ASSUME RowsOfRoles, OnePathEach, NEW S \in SUBSET (ApiRows \X ApiPaths),
         \A a \in S : a[1] \in ApisThere /\ a[2] = apiRow[a[1]].path,
         NEW v, Allowed(v) = {}
  PROVE  WithPolicies(v, S) = policy \cup {<<v, a[2]>> : a \in S}
<1>. DEFINE new == {<<v, a[2]>> : a \in S}
            rowOf == [a \in S |-> a[1]]
            rule == [a \in S |-> <<v, a[2]>>]
<1>1. \A a \in S : a = <<a[1], a[2]>> /\ a[1] \in ApiRows /\ a[2] \in ApiPaths
  OBVIOUS
<1>2. \A a, b \in S : a[2] = b[2] => a = b
  <2>. SUFFICES ASSUME NEW a \in S, NEW b \in S, a[2] = b[2] PROVE a = b
    OBVIOUS
  <2>1. apiRow[a[1]].path = apiRow[b[1]].path /\ a[1] \in ApisThere /\ b[1] \in ApisThere
    OBVIOUS
  <2>2. a[1] = b[1]
    BY <2>1 DEF OnePathEach
  <2>. QED
    BY <1>1, <2>2
<1>3. \A a, b \in S : a[1] = b[1] => a = b
  BY <1>1
<1>4. rowOf \in Injection(S, ApiRows)
  BY <1>1, <1>3 DEF Injection, IsInjective
<1>5. IsFiniteSet(S)
  BY <1>4, FS_Injection, RolePoliciesAssumption
<1>6. rule \in Surjection(S, new)
  BY DEF Surjection
<1>7. rule \in Injection(S, new)
  BY <1>2 DEF Injection, IsInjective
<1>8. Cardinality(new) = Cardinality(S)
  <2>. HIDE DEF new, rule
  <2>. QED
    BY <1>5, <1>6, <1>7, FS_Surjection
<1>9. new \cap policy = {}
  BY <1>1 DEF Allowed
<1>. QED
  BY <1>8, <1>9 DEF WithPolicies

LEMMA AddRolePoliciesStep ==
  ASSUME RoleInv, NEW q \in RoleRequests, AddRolePolicies(q)
  PROVE  RoleInv' /\ AgreeAfter(q)
<1>1. roleReq[q].op = "updateRole" /\ roleReq[q].pc = "add"
  BY DEF AddRolePolicies, At
<1>2. PICK x \in RoleReqRecords :
           /\ x = roleReq[q] /\ RoleReqInv(x) /\ x.op = "updateRole"
           /\ x.id \in RoleRows /\ x.value \in RoleValues /\ x.apis \subseteq ApiRows \X ApiPaths
           /\ x.calm =>
                /\ \A a \in x.apis : a[1] \in ApisThere /\ a[2] = apiRow[a[1]].path
                /\ OnePathEach /\ x.id \in RolesThere /\ x.agreed \ {x.id} \subseteq AgreeingRoles
                /\ roleRow[x.id].value = x.value
                /\ roleRow[x.id].apis = Ids(x.apis)
                /\ Allowed(x.value) = {}
  BY <1>1, UpdateHas
<1>3. UNCHANGED <<roleRow, apiRow>> /\ RowsOfRoles /\ ApisStayBorn
  BY DEF AddRolePolicies, RoleInv, ApisStayBorn
<1>4. policy' = WithPolicies(x.value, x.apis) /\ RoleEditGoes(q, "idle")
  BY <1>2 DEF AddRolePolicies
<1>5. policy' = policy \/ policy' = policy \cup {<<x.value, a[2]>> : a \in x.apis}
  BY <1>4 DEF WithPolicies
<1>6. policy' \subseteq RoleValues \X ApiPaths
  BY <1>2, <1>3, <1>5 DEF RowsOfRoles
<1>7. RowsOfRoles'
  BY <1>3, <1>6 DEF RowsOfRoles, ApisThere, RolesThere
<1>8. RoleInv'
  BY <1>3, <1>4, <1>7, RoleGoes
<1>9. ASSUME x.calm, NEW r \in LeftInOrder(q) PROVE Agree(r)'
  <2>1. (r = x.id /\ x.value # "super") \/ r \in x.agreed \ {x.id}
    BY <1>2, <1>9 DEF LeftInOrder
  <2>2. CASE r \in x.agreed \ {x.id}
    <3>1. r \in RolesThere /\ Agree(r)
      BY <1>2, <1>9, <2>2 DEF AgreeingRoles
    <3>2. roleRow[r].value # x.value
      BY <1>2, <1>3, <1>9, <2>2, <3>1 DEF RowsOfRoles
    <3>3. \A p \in ApiPaths : <<roleRow[r].value, p>> \in policy' <=> <<roleRow[r].value, p>> \in policy
      BY <1>5, <3>2
    <3>. QED
      BY <1>3, <3>1, <3>3, AgreeStays
  <2>3. CASE r = x.id /\ x.value # "super"
    <3>1. policy' = policy \cup {<<x.value, a[2]>> : a \in x.apis}
      BY <1>2, <1>3, <1>4, <1>9, WithPoliciesIs
    <3>2. \A p \in ApiPaths : <<x.value, p>> \notin policy
      BY <1>2, <1>9 DEF Allowed
    <3>3. {p \in ApiPaths : <<x.value, p>> \in policy'} = {a[2] : a \in x.apis}
      BY <1>2, <3>1, <3>2
    <3>4. {apiRow[i].path : i \in Ids(x.apis)} = {a[2] : a \in x.apis}
      BY <1>2, <1>9 DEF Ids
    <3>5. roleRow'[r].value = x.value /\ roleRow'[r].apis = Ids(x.apis)
      BY <1>2, <1>3, <1>9, <2>3
    <3>. QED
      BY <1>3, <2>3, <3>3, <3>4, <3>5 DEF Agree, Allowed, PermCodes
  <2>. QED
    BY <2>1, <2>2, <2>3
<1>. QED
  BY <1>2, <1>8, <1>9 DEF AgreeAfter

LEMMA WriteAsReadStep ==
  ASSUME RoleInv, NEW q \in RoleRequests, WriteRoleAsRead(q)
  PROVE  RoleInv' /\ AgreeAfter(q)
<1>1. PICK x \in RoleReqRecords : x = roleReq[q] /\ RoleReqInv(x)
  BY DEF RoleInv
<1>2. x.op = "setRoleStatus" /\ x.pc = "row" /\ RoleEditGoes(q, "idle")
  BY <1>1 DEF WriteRoleAsRead, At
<1>3. x.id \in RoleRows /\ x.value \in RoleValues
  BY <1>1, <1>2 DEF RoleReqInv, HasRead, RoleOps
<1>4. UNCHANGED <<apiRow, policy>> /\ RowsOfRoles /\ ApisStayBorn
  BY DEF WriteRoleAsRead, RoleInv, ApisStayBorn
<1>5. RowsOfRoles' /\ (x.value = roleRow[x.id].value => UNCHANGED roleRow)
  <2>1. CASE x.id \in RolesThere /\ ~ValueTaken(x.id, x.value)
    <3>1. PICK n : n = [roleRow[x.id] EXCEPT !.value = x.value]
      OBVIOUS
    <3>2. roleRow[x.id] \in RoleRecords /\ roleRow[x.id].state = "there"
          /\ roleRow[x.id].apis \subseteq ApisThere
      BY <1>3, <1>4, <2>1 DEF RowsOfRoles, RolesThere
    <3>3. n \in RoleRecords /\ n.state = "there" /\ n.value = x.value /\ n.apis = roleRow[x.id].apis
      BY <1>3, <3>1, <3>2 DEF RoleRecords
    <3>4. roleRow' = [roleRow EXCEPT ![x.id] = n]
      BY <1>1, <2>1, <3>1 DEF WriteRoleAsRead
    <3>5. n.apis \subseteq ApisThere' /\ ApisThere \subseteq ApisThere' /\ UNCHANGED policy
      BY <1>4, <3>2, <3>3 DEF ApisThere
    <3>6. apiRow' \in [ApiRows -> ApiRecords] /\ \A a \in ApisThere' : apiRow'[a].path \in ApiPaths
      BY <1>4 DEF RowsOfRoles, ApisThere
    <3>7. RowsOfRoles'
      BY <1>3, <1>4, <2>1, <3>3, <3>4, <3>5, <3>6, RoleWrites
    <3>8. x.value = roleRow[x.id].value => n = roleRow[x.id]
      BY <3>1, <3>2 DEF RoleRecords
    <3>. QED
      BY <1>3, <1>4, <3>4, <3>7, <3>8 DEF RowsOfRoles
  <2>2. CASE ~(x.id \in RolesThere /\ ~ValueTaken(x.id, x.value))
    <3>1. UNCHANGED roleRow
      BY <1>1, <2>2 DEF WriteRoleAsRead
    <3>. QED
      BY <1>4, <3>1 DEF RowsOfRoles, RolesThere, ApisThere
  <2>. QED
    BY <2>1, <2>2
<1>6. RoleInv'
  BY <1>2, <1>4, <1>5, RoleGoes
<1>7. ASSUME x.calm, NEW r \in LeftInOrder(q) PROVE Agree(r)'
  <2>1. x.value = roleRow[x.id].value /\ x.agreed \subseteq AgreeingRoles
    BY <1>1, <1>2, <1>7 DEF RoleReqInv, CalmRole
  <2>2. UNCHANGED roleRow /\ r \in AgreeingRoles
    BY <1>1, <1>2, <1>5, <1>7, <2>1 DEF LeftInOrder, At
  <2>. QED
    BY <1>4, <2>2, AgreeStays DEF AgreeingRoles
<1>. QED
  BY <1>1, <1>6, <1>7 DEF AgreeAfter

LEMMA DeleteRoleStep ==
  ASSUME RoleInv, NEW r \in RoleRows, deleteRole(r)
  PROVE  RoleInv' /\ \A q \in RoleRequests : roleReq'[q].pc = roleReq[q].pc
<1>1. RowsOfRoles /\ UNCHANGED <<apiRow, policy>> /\ ApisStayBorn
  BY DEF deleteRole, RoleInv, ApisStayBorn
<1>2. PICK n : n = [NoRole EXCEPT !.state = "gone"]
  OBVIOUS
<1>3. n \in RoleRecords /\ n.state = "gone" /\ n.apis = {}
  BY <1>2 DEF NoRole, RoleRecords
<1>4. roleRow' = [roleRow EXCEPT ![r] = n]
  BY <1>2 DEF deleteRole
<1>5. RowsOfRoles'
  <2>1. \A s \in RoleRows : roleRow'[s] = IF s = r THEN n ELSE roleRow[s]
    BY <1>1, <1>4 DEF RowsOfRoles
  <2>2. RolesThere' = RolesThere \ {r}
    BY <1>3, <2>1 DEF RolesThere
  <2>3. roleRow' \in [RoleRows -> RoleRecords]
    BY <1>1, <1>3, <1>4 DEF RowsOfRoles
  <2>4. \A s \in RoleRows : roleRow'[s].apis \subseteq ApisThere
    BY <1>1, <1>3, <2>1 DEF RowsOfRoles
  <2>5. \A s \in RolesThere' : s \in RolesThere /\ roleRow'[s] = roleRow[s]
    BY <2>1, <2>2 DEF RolesThere
  <2>. QED
    BY <1>1, <2>3, <2>4, <2>5 DEF RowsOfRoles, ApisThere
<1>6. ASSUME NEW s \in RoleRequests
      PROVE  roleReq'[s] \in RoleReqRecords /\ RoleReqInv(roleReq[s])' /\ roleReq'[s].pc = roleReq[s].pc
  <2>1. PICK x \in RoleReqRecords : x = roleReq[s] /\ RoleReqInv(x)
    BY DEF RoleInv
  <2>2. PICK y : y = [x EXCEPT !.calm = FALSE]
    OBVIOUS
  <2>3. roleReq'[s] = y
    BY <2>1, <2>2 DEF deleteRole
  <2>4. y \in RoleReqRecords /\ RoleReqInv(y)' /\ y.pc = x.pc
    BY <1>1, <2>1, <2>2, RoleDisturbed
  <2>. QED
    BY <2>1, <2>3, <2>4
<1>7. roleReq' \in [RoleRequests -> RoleReqRecords]
  BY <1>6 DEF deleteRole
<1>8. roleEdits' \in 0 .. MaxRoleEdits
  BY RolePoliciesAssumption DEF deleteRole, RoleInv
<1>. QED
  BY <1>5, <1>6, <1>7, <1>8 DEF RoleInv

(* One API is written.                                                      *)
LEMMA ApiWrites ==
  ASSUME RowsOfRoles, NEW id \in ApiRows, NEW n \in ApiRecords, n.state = "there", n.path \in ApiPaths,
         apiRow' = [apiRow EXCEPT ![id] = n], UNCHANGED <<roleRow, policy>>
  PROVE  /\ RowsOfRoles' /\ ApisStayBorn /\ ApisThere' = ApisThere \cup {id}
         /\ \A a \in ApiRows : apiRow'[a] = IF a = id THEN n ELSE apiRow[a]
<1>1. \A a \in ApiRows : apiRow'[a] = IF a = id THEN n ELSE apiRow[a]
  BY DEF RowsOfRoles
<1>2. ApisThere' = ApisThere \cup {id}
  BY <1>1 DEF ApisThere
<1>3. apiRow' \in [ApiRows -> ApiRecords]
  BY DEF RowsOfRoles
<1>4. \A a \in ApisThere' : apiRow'[a].path \in ApiPaths
  BY <1>1, <1>2 DEF RowsOfRoles, ApisThere
<1>5. \A r \in RoleRows : roleRow'[r].apis \subseteq ApisThere'
  BY <1>2 DEF RowsOfRoles
<1>6. RolesThere' = RolesThere
  BY DEF RolesThere
<1>7. ApisStayBorn
  BY <1>1 DEF ApisStayBorn
<1>. QED
  BY <1>1, <1>2, <1>3, <1>4, <1>5, <1>6, <1>7 DEF RowsOfRoles

LEMMA CreateApiStep ==
  ASSUME RoleInv, NEW q \in RoleRequests, CreateApiRow(q)
  PROVE  RoleInv' /\ AgreeAfter(q)
<1>1. PICK x \in RoleReqRecords : x = roleReq[q] /\ RoleReqInv(x)
  BY DEF RoleInv
<1>2. x.op = "createApi" /\ x.pc = "create" /\ RoleEditGoes(q, "add")
  BY <1>1 DEF CreateApiRow, At
<1>3. x.id \in ApiRows /\ x.old \in ApiPaths
  BY <1>1, <1>2 DEF RoleReqInv, HasRead, ApiOps
<1>4. PICK n : n = [state |-> "there", path |-> x.old]
  OBVIOUS
<1>5. n \in ApiRecords /\ n.state = "there" /\ n.path = x.old
  BY <1>3, <1>4 DEF ApiRecords
<1>6. apiRow' = [apiRow EXCEPT ![x.id] = n] /\ UNCHANGED <<roleRow, policy>> /\ RowsOfRoles
  BY <1>1, <1>4 DEF CreateApiRow, RoleInv
<1>7. /\ RowsOfRoles' /\ ApisStayBorn /\ ApisThere' = ApisThere \cup {x.id}
      /\ \A a \in ApiRows : apiRow'[a] = IF a = x.id THEN n ELSE apiRow[a]
  BY <1>3, <1>5, <1>6, ApiWrites
<1>8. ASSUME NEW y \in RoleReqRecords, y = [roleReq[q] EXCEPT !.pc = "add"]
      PROVE  RoleReqInv(y)'
  <2>1. /\ y.op = x.op /\ y.pc = "add" /\ y.calm = x.calm /\ y.apis = x.apis /\ y.id = x.id
        /\ y.old = x.old /\ y.agreed = x.agreed
    BY <1>1, <1>8 DEF RoleReqRecords
  <2>2. HasRead(y)
    BY <1>2, <1>3, <2>1 DEF HasRead, RoleOps, ApiOps
  <2>3. Born(y)'
    <3>1. \A a \in x.apis : a[1] \in ApiRows
      BY DEF RoleReqRecords
    <3>. QED
      BY <1>1, <1>7, <2>1, <3>1 DEF RoleReqInv, Born, ApisStayBorn
  <2>4. CalmRole(y)'
    BY <1>2, <2>1 DEF CalmRole
  <2>5. CASE y.calm
    <3>1. apiRow[x.id].state = "unborn" /\ x.agreed \subseteq AgreeingRoles
      BY <1>1, <1>2, <2>1, <2>5 DEF RoleReqInv, CalmApi
    <3>2. x.id \notin ApisThere
      BY <3>1 DEF ApisThere
    <3>3. ASSUME NEW r \in x.agreed
          PROVE  /\ r \in RolesThere'
                 /\ roleRow'[r].value = "super" => Allowed("super")' \cup {x.old} = PermCodes(r)'
                 /\ roleRow'[r].value # "super" => Agree(r)'
      <4>1. r \in RoleRows /\ r \in RolesThere /\ Agree(r)
        BY <3>1, <3>3 DEF AgreeingRoles, RolesThere
      <4>2. CASE roleRow[r].value = "super"
        <5>1. {apiRow'[a].path : a \in ApisThere \cup {x.id}} = {apiRow[a].path : a \in ApisThere} \cup {x.old}
          BY <1>3, <1>5, <1>7, <3>2 DEF ApisThere
        <5>2. Allowed("super")' = {apiRow[a].path : a \in ApisThere}
          BY <1>6, <4>1, <4>2 DEF Agree, Allowed, PermCodes
        <5>. QED
          BY <1>6, <1>7, <4>1, <4>2, <5>1, <5>2 DEF PermCodes, RolesThere
      <4>3. CASE roleRow[r].value # "super"
        <5>1. \A a \in roleRow[r].apis : a \in ApiRows /\ apiRow'[a] = apiRow[a]
          BY <1>6, <1>7, <3>2, <4>1 DEF RowsOfRoles, ApisThere
        <5>2. {apiRow'[a].path : a \in roleRow[r].apis} = {apiRow[a].path : a \in roleRow[r].apis}
          BY <5>1
        <5>. QED
          BY <1>6, <4>1, <4>3, <5>2 DEF Agree, Allowed, PermCodes, RolesThere
      <4>. QED
        BY <4>2, <4>3
    <3>4. apiRow'[y.id].state = "there"
      BY <1>3, <1>5, <1>7, <2>1
    <3>5. CalmApi(y)'
      BY <1>2, <2>1, <3>3, <3>4 DEF CalmApi
    <3>. QED
      BY <2>2, <2>3, <2>4, <3>5 DEF RoleReqInv, HasRead
  <2>. QED
    BY <2>2, <2>3, <2>5 DEF RoleReqInv, HasRead
<1>9. RoleInv'
  BY <1>2, <1>7, <1>8, RoleGoes
<1>10. roleReq'[q].pc = "add"
  BY <1>2, RoleGoesTo
<1>. QED
  BY <1>9, <1>10 DEF AgreeAfter

LEMMA AddSuperStep ==
  ASSUME RoleInv, NEW q \in RoleRequests, AddSuperPolicy(q)
  PROVE  RoleInv' /\ EndsInOrder(q)
<1>1. PICK x \in RoleReqRecords : x = roleReq[q] /\ RoleReqInv(x)
  BY DEF RoleInv
<1>2. x.op = "createApi" /\ x.pc = "add" /\ RoleEditGoes(q, "idle")
  BY <1>1 DEF AddSuperPolicy, At
<1>3. x.old \in ApiPaths /\ UNCHANGED <<roleRow, apiRow>> /\ RowsOfRoles /\ ApisStayBorn
  BY <1>1, <1>2 DEF AddSuperPolicy, RoleInv, RoleReqInv, HasRead, ApiOps, ApisStayBorn
<1>4. policy' = policy \cup {<<"super", x.old>>}
  <2>1. {<<"super", a[2]>> : a \in {<<0, x.old>>}} = {<<"super", x.old>>}
    OBVIOUS
  <2>2. Cardinality({<<"super", x.old>>}) = Cardinality({<<0, x.old>>})
    BY FS_Singleton
  <2>3. policy' = WithPolicies("super", {<<0, x.old>>})
    BY <1>1 DEF AddSuperPolicy
  <2>. QED
    BY <2>1, <2>2, <2>3 DEF WithPolicies
<1>5. RowsOfRoles'
  BY <1>3, <1>4, RolePoliciesAssumption DEF RowsOfRoles, ApisThere, RolesThere
<1>6. RoleInv'
  BY <1>2, <1>3, <1>5, RoleGoes
<1>7. ASSUME x.calm, NEW r \in LeftInOrder(q), apiRow[x.id].state = "there" PROVE Agree(r)'
  <2>1. r \in x.agreed
    BY <1>1, <1>2 DEF LeftInOrder, At
  <2>2. /\ r \in RolesThere
        /\ roleRow[r].value = "super" => Allowed("super") \cup {x.old} = PermCodes(r)
        /\ roleRow[r].value # "super" => Agree(r)
    BY <1>1, <1>2, <1>7, <2>1 DEF RoleReqInv, CalmApi
  <2>3. CASE roleRow[r].value = "super"
    <3>1. Allowed("super")' = Allowed("super") \cup {x.old}
      BY <1>3, <1>4 DEF Allowed
    <3>2. PermCodes(r)' = PermCodes(r)
      BY <1>3 DEF PermCodes, ApisThere
    <3>. QED
      BY <1>3, <2>2, <2>3, <3>1, <3>2 DEF Agree
  <2>4. CASE roleRow[r].value # "super"
    <3>1. \A p \in ApiPaths : <<roleRow[r].value, p>> \in policy' <=> <<roleRow[r].value, p>> \in policy
      BY <1>4, <2>4
    <3>. QED
      BY <1>3, <2>2, <2>4, <3>1, AgreeStays
  <2>. QED
    BY <2>3, <2>4
<1>8. ASSUME x.calm, NEW r \in LeftInOrder(q), apiRow[x.id].state # "there"
      PROVE  MayWhatItSees(r)'
  <2>1. r \in x.agreed
    BY <1>1, <1>2 DEF LeftInOrder, At
  <2>2. Agree(r)
    BY <1>1, <1>2, <1>8, <2>1 DEF RoleReqInv, CalmApi, AgreeingRoles
  <2>3. PermCodes(r)' = PermCodes(r) /\ roleRow'[r] = roleRow[r]
    BY <1>3 DEF PermCodes, ApisThere
  <2>4. Allowed(roleRow[r].value) \subseteq Allowed(roleRow[r].value)'
    BY <1>3, <1>4 DEF Allowed
  <2>. QED
    BY <2>2, <2>3, <2>4 DEF Agree, MayWhatItSees, Allowed
<1>9. ASSUME NEW r, Agree(r)' PROVE MayWhatItSees(r)'
  BY <1>9 DEF Agree, MayWhatItSees
<1>10. ASSUME x.calm, NEW r \in LeftInOrder(q)
       PROVE  MayWhatItSees(r)' /\ (apiRow[x.id].state = "there" => Agree(r)')
  <2>1. CASE apiRow[x.id].state = "there"
    BY <1>7, <1>9, <1>10, <2>1
  <2>2. CASE apiRow[x.id].state # "there"
    BY <1>8, <1>10, <2>2
  <2>. QED
    BY <2>1, <2>2
<1>11. x.op = "createApi" /\ apiRow' = apiRow
  BY <1>2, <1>3
<1>. QED
  BY <1>1, <1>6, <1>10, <1>11 DEF EndsInOrder

LEMMA PathOfIs ==
  ASSUME NEW q, NEW id, NEW p, roleReq[q].apis = {<<id, p>>}
  PROVE  PathOf(q) = p
<1>1. PICK c : c = <<id, p>>
  OBVIOUS
<1>2. roleReq[q].apis = {c}
  BY <1>1
<1>3. (CHOOSE a \in {c} : TRUE) \in {c}
  OBVIOUS
<1>4. (CHOOSE a \in roleReq[q].apis : TRUE) = c
  BY <1>2, <1>3
<1>5. PathOf(q) = c[2]
  BY <1>4 DEF PathOf
<1>. QED
  BY <1>1, <1>5

LEMMA UpdateApiStep ==
  ASSUME RoleInv, NEW q \in RoleRequests, UpdateApiRow(q)
  PROVE  RoleInv' /\ AgreeAfter(q)
<1>1. PICK x \in RoleReqRecords : x = roleReq[q] /\ RoleReqInv(x)
  BY DEF RoleInv
<1>2. x.op = "updateApi" /\ x.pc = "row"
  BY <1>1 DEF UpdateApiRow, At
<1>3. x.id \in ApiRows /\ x.old \in ApiPaths
  BY <1>1, <1>2 DEF RoleReqInv, HasRead, ApiOps
<1>4. PICK p \in ApiPaths : x.apis = {<<x.id, p>>}
  BY <1>1, <1>2 DEF RoleReqInv, HasRead
<1>5. PathOf(q) = p
  BY <1>1, <1>4, PathOfIs
<1>6. RoleEditGoes(q, IF x.old = p THEN "idle" ELSE "move") /\ UNCHANGED <<roleRow, policy>> /\ RowsOfRoles
  BY <1>1, <1>5 DEF UpdateApiRow, RoleInv
<1>7. x.calm => /\ OnePathEach /\ x.agreed \subseteq AgreeingRoles
                /\ x.id \in ApisThere /\ x.old = apiRow[x.id].path
  BY <1>1, <1>2 DEF RoleReqInv, CalmApi
<1>8. apiRow[x.id].state # "unborn"
  BY <1>1, <1>4 DEF RoleReqInv, Born
<1>9. CASE x.id \notin ApisThere
  <2>1. UNCHANGED apiRow /\ ~x.calm
    BY <1>1, <1>7, <1>9 DEF UpdateApiRow
  <2>2. RowsOfRoles' /\ ApisStayBorn
    BY <1>6, <2>1 DEF RowsOfRoles, RolesThere, ApisThere, ApisStayBorn
  <2>3. ASSUME NEW y \in RoleReqRecords, y = [roleReq[q] EXCEPT !.pc = "move"] PROVE RoleReqInv(y)'
    <3>1. /\ y.op = x.op /\ y.pc = "move" /\ ~y.calm /\ y.apis = x.apis /\ y.id = x.id /\ y.old = x.old
      BY <1>1, <2>1, <2>3 DEF RoleReqRecords
    <3>2. HasRead(y)
      BY <1>2, <1>3, <1>4, <3>1 DEF HasRead, RoleOps, ApiOps
    <3>. QED
      BY <1>1, <2>1, <3>1, <3>2 DEF RoleReqInv, HasRead, Born
  <2>4. RoleInv'
    BY <1>6, <2>2, <2>3, RoleGoes
  <2>. QED
    BY <1>1, <2>1, <2>4 DEF AgreeAfter
<1>10. CASE x.id \in ApisThere
  <2>1. PICK n : n = [apiRow[x.id] EXCEPT !.path = p]
    OBVIOUS
  <2>2. apiRow[x.id] \in ApiRecords /\ apiRow[x.id].state = "there"
    BY <1>3, <1>6, <1>10 DEF RowsOfRoles, ApisThere
  <2>3. n \in ApiRecords /\ n.state = "there" /\ n.path = p
    BY <2>1, <2>2 DEF ApiRecords
  <2>4. apiRow' = [apiRow EXCEPT ![x.id] = n]
    BY <1>1, <1>5, <1>10, <2>1 DEF UpdateApiRow
  <2>5. /\ RowsOfRoles' /\ ApisStayBorn /\ ApisThere' = ApisThere \cup {x.id}
        /\ \A a \in ApiRows : apiRow'[a] = IF a = x.id THEN n ELSE apiRow[a]
    BY <1>3, <1>6, <2>3, <2>4, ApiWrites
  <2>6. CASE x.old = p
    <3>1. RoleInv'
      BY <1>6, <2>5, <2>6, RoleGoes
    <3>2. ASSUME x.calm PROVE apiRow' = apiRow
      <4>1. n = apiRow[x.id]
        BY <1>7, <2>1, <2>2, <2>6, <3>2 DEF ApiRecords
      <4>. QED
        BY <1>3, <1>6, <2>4, <4>1 DEF RowsOfRoles
    <3>3. ASSUME x.calm, NEW r \in LeftInOrder(q) PROVE Agree(r)'
      <4>1. r \in AgreeingRoles
        BY <1>1, <1>2, <1>7, <3>3 DEF LeftInOrder, At
      <4>. QED
        BY <1>6, <3>2, <3>3, <4>1, AgreeStays DEF AgreeingRoles
    <3>. QED
      BY <1>1, <3>1, <3>3 DEF AgreeAfter
  <2>7. CASE x.old # p
    <3>1. ASSUME NEW y \in RoleReqRecords, y = [roleReq[q] EXCEPT !.pc = "move"] PROVE RoleReqInv(y)'
      <4>1. /\ y.op = x.op /\ y.pc = "move" /\ y.calm = x.calm /\ y.apis = x.apis /\ y.id = x.id
            /\ y.old = x.old /\ y.agreed = x.agreed
        BY <1>1, <3>1 DEF RoleReqRecords
      <4>2. HasRead(y)
        BY <1>2, <1>3, <1>4, <4>1 DEF HasRead, RoleOps, ApiOps
      <4>3. Born(y)'
        BY <1>3, <1>4, <2>3, <2>5, <4>1 DEF Born
      <4>4. CalmRole(y)'
        BY <1>2, <4>1 DEF CalmRole
      <4>5. CASE x.calm
        <5>1. x.id \in ApisThere' /\ x.apis = {<<x.id, apiRow'[x.id].path>>} /\ apiRow'[x.id].path # x.old
          BY <1>3, <1>4, <2>3, <2>5, <2>7
        <5>2. ASSUME NEW a \in ApisThere' \ {x.id}
              PROVE  a \in ApisThere /\ apiRow'[a] = apiRow[a] /\ apiRow'[a].path # x.old
          <6>1. a \in ApisThere /\ a \in ApiRows
            BY <2>5, <5>2 DEF ApisThere
          <6>2. apiRow[a].path # apiRow[x.id].path
            BY <1>7, <1>10, <4>5, <5>2, <6>1 DEF OnePathEach
          <6>. QED
            BY <1>7, <2>5, <4>5, <5>2, <6>1, <6>2
        <5>3. ASSUME NEW r \in x.agreed
              PROVE  /\ r \in RolesThere'
                     /\ roleRow'[r].value = "super" =>
                          Allowed("super")' = Paths(ApisThere \ {x.id})' \cup {x.old}
                     /\ roleRow'[r].value # "super" /\ x.id \notin roleRow'[r].apis => Agree(r)'
          <6>1. r \in RoleRows /\ r \in RolesThere /\ Agree(r)
            BY <1>7, <4>5, <5>3 DEF AgreeingRoles, RolesThere
          <6>2. CASE roleRow[r].value = "super"
            <7>1. {apiRow'[a].path : a \in ApisThere' \ {x.id}} = {apiRow[a].path : a \in ApisThere \ {x.id}}
              BY <2>5, <5>2
            <7>2. {apiRow[a].path : a \in ApisThere} = {apiRow[a].path : a \in ApisThere \ {x.id}} \cup {x.old}
              BY <1>7, <1>10, <4>5
            <7>3. Allowed("super")' = {apiRow[a].path : a \in ApisThere}
              BY <1>6, <6>1, <6>2 DEF Agree, Allowed, PermCodes
            <7>. QED
              BY <1>6, <6>1, <6>2, <7>1, <7>2, <7>3 DEF Paths, RolesThere
          <6>3. CASE roleRow[r].value # "super"
            <7>1. ASSUME x.id \notin roleRow[r].apis PROVE Agree(r)'
              <8>1. \A a \in roleRow[r].apis : apiRow'[a] = apiRow[a]
                BY <1>6, <2>5, <6>1, <7>1 DEF RowsOfRoles, ApisThere
              <8>2. {apiRow'[a].path : a \in roleRow[r].apis} = {apiRow[a].path : a \in roleRow[r].apis}
                BY <8>1
              <8>. QED
                BY <1>6, <6>1, <6>3, <8>2 DEF Agree, Allowed, PermCodes
            <7>. QED
              BY <1>6, <6>1, <6>3, <7>1 DEF RolesThere
          <6>. QED
            BY <6>2, <6>3
        <5>4. CalmApi(y)'
          BY <1>2, <4>1, <5>1, <5>2, <5>3 DEF CalmApi
        <5>. QED
          BY <4>2, <4>3, <4>4, <5>4 DEF RoleReqInv, HasRead
      <4>. QED
        BY <4>1, <4>2, <4>3, <4>5 DEF RoleReqInv, HasRead
    <3>2. RoleEditGoes(q, "move")
      BY <1>6, <2>7
    <3>3. RoleInv'
      BY <2>5, <3>1, <3>2, RoleGoes
    <3>. QED
      BY <3>2, <3>3, RoleGoesTo DEF AgreeAfter
  <2>. QED
    BY <2>6, <2>7
<1>. QED
  BY <1>9, <1>10

LEMMA MoveSuperStep ==
  ASSUME RoleInv, NEW q \in RoleRequests, MoveSuperPolicy(q)
  PROVE  RoleInv' /\ AgreeAfter(q)
<1>1. PICK x \in RoleReqRecords : x = roleReq[q] /\ RoleReqInv(x)
  BY DEF RoleInv
<1>2. x.op = "updateApi" /\ x.pc = "move" /\ RoleEditGoes(q, "idle")
  BY <1>1 DEF MoveSuperPolicy, At
<1>3. PICK p \in ApiPaths : x.apis = {<<x.id, p>>}
  BY <1>1, <1>2 DEF RoleReqInv, HasRead
<1>4. PathOf(q) = p
  BY <1>1, <1>3, PathOfIs
<1>5. x.old \in ApiPaths /\ UNCHANGED <<roleRow, apiRow>> /\ RowsOfRoles /\ ApisStayBorn
  BY <1>1, <1>2 DEF MoveSuperPolicy, RoleInv, RoleReqInv, HasRead, ApiOps, ApisStayBorn
<1>6. policy' = IF <<"super", x.old>> \in policy /\ <<"super", p>> \notin policy
                THEN (policy \ {<<"super", x.old>>}) \cup {<<"super", p>>} ELSE policy
  BY <1>1, <1>4 DEF MoveSuperPolicy, WithPolicyMoved
<1>7. RowsOfRoles'
  BY <1>5, <1>6, RolePoliciesAssumption DEF RowsOfRoles, ApisThere, RolesThere
<1>8. RoleInv'
  BY <1>2, <1>5, <1>7, RoleGoes
<1>9. ASSUME x.calm, OnePathEach', NEW r \in LeftInOrder(q) PROVE Agree(r)'
  <2>1. r \in x.agreed /\ (roleRow[r].value = "super" \/ x.id \notin roleRow[r].apis)
    BY <1>1, <1>2 DEF LeftInOrder, At
  <2>2. /\ x.id \in ApisThere /\ x.apis = {<<x.id, apiRow[x.id].path>>}
        /\ \A a \in ApisThere \ {x.id} : apiRow[a].path # x.old
        /\ apiRow[x.id].path # x.old
        /\ r \in RolesThere
        /\ roleRow[r].value = "super" => Allowed("super") = Paths(ApisThere \ {x.id}) \cup {x.old}
        /\ roleRow[r].value # "super" => Agree(r)
    BY <1>1, <1>2, <1>9, <2>1 DEF RoleReqInv, CalmApi
  <2>3. p = apiRow[x.id].path
    <3>1. <<x.id, p>> = <<x.id, apiRow[x.id].path>>
      BY <1>3, <2>2
    <3>. QED
      BY <3>1
  <2>4. CASE roleRow[r].value = "super"
    <3>1. \A a \in ApisThere \ {x.id} : apiRow[a].path # p
      BY <1>5, <1>9, <2>2, <2>3 DEF OnePathEach, ApisThere
    <3>2. p \notin Allowed("super") /\ x.old \in Allowed("super")
      BY <2>2, <2>3, <2>4, <3>1 DEF Paths
    <3>3. <<"super", x.old>> \in policy /\ <<"super", p>> \notin policy
      BY <3>2 DEF Allowed
    <3>4. Allowed("super")' = (Allowed("super") \ {x.old}) \cup {p}
      BY <1>5, <1>6, <3>3 DEF Allowed
    <3>5. Allowed("super")' = {apiRow[a].path : a \in ApisThere}
      BY <2>2, <2>3, <2>4, <3>4 DEF Paths
    <3>6. PermCodes(r)' = {apiRow[a].path : a \in ApisThere}
      BY <1>5, <2>4 DEF PermCodes, ApisThere
    <3>. QED
      BY <1>5, <2>4, <3>5, <3>6 DEF Agree
  <2>5. CASE roleRow[r].value # "super"
    <3>1. \A o \in ApiPaths : <<roleRow[r].value, o>> \in policy' <=> <<roleRow[r].value, o>> \in policy
      BY <1>6, <2>5
    <3>. QED
      BY <1>5, <2>2, <2>5, <3>1, AgreeStays
  <2>. QED
    BY <2>4, <2>5
<1>. QED
  BY <1>1, <1>8, <1>9 DEF AgreeAfter

LEMMA DeleteApiStep ==
  ASSUME RoleInv, NEW q \in RoleRequests, DeleteApiRow(q)
  PROVE  RoleInv' /\ AgreeAfter(q)
<1>1. PICK x \in RoleReqRecords : x = roleReq[q] /\ RoleReqInv(x)
  BY DEF RoleInv
<1>2. x.op = "deleteApi" /\ x.pc = "row" /\ RoleEditGoes(q, "remove")
  BY <1>1 DEF DeleteApiRow, At
<1>3. x.id \in ApiRows /\ x.old \in ApiPaths /\ UNCHANGED policy /\ RowsOfRoles
  BY <1>1, <1>2 DEF DeleteApiRow, RoleInv, RoleReqInv, HasRead, ApiOps
<1>4. PICK n : n = [NoApi EXCEPT !.state = "gone"]
  OBVIOUS
<1>5. n \in ApiRecords /\ n.state = "gone"
  BY <1>4 DEF NoApi, ApiRecords
<1>6. apiRow' = [apiRow EXCEPT ![x.id] = n]
  BY <1>1, <1>4 DEF DeleteApiRow
<1>7. \A a \in ApiRows : apiRow'[a] = IF a = x.id THEN n ELSE apiRow[a]
  BY <1>3, <1>6 DEF RowsOfRoles
<1>8. ApisThere' = ApisThere \ {x.id} /\ ApisStayBorn
  BY <1>5, <1>7 DEF ApisThere, ApisStayBorn
<1>9. apiRow' \in [ApiRows -> ApiRecords]
  BY <1>3, <1>5, <1>6 DEF RowsOfRoles
<1>10. ASSUME NEW r \in RoleRows
       PROVE  /\ roleRow'[r] \in RoleRecords
              /\ roleRow'[r].state = roleRow[r].state /\ roleRow'[r].value = roleRow[r].value
              /\ roleRow'[r].apis = roleRow[r].apis \ {x.id}
  <2>1. PICK y \in RoleRecords : y = roleRow[r]
    BY <1>3 DEF RowsOfRoles
  <2>2. PICK z : z = [y EXCEPT !.apis = @ \ {x.id}]
    OBVIOUS
  <2>3. roleRow'[r] = z
    BY <1>1, <2>1, <2>2 DEF DeleteApiRow
  <2>4. z \in RoleRecords /\ z.state = y.state /\ z.value = y.value /\ z.apis = y.apis \ {x.id}
    BY <2>2 DEF RoleRecords
  <2>. QED
    BY <2>1, <2>3, <2>4
<1>11. RolesThere' = RolesThere
  BY <1>10 DEF RolesThere
<1>12. RowsOfRoles'
  <2>1. roleRow' \in [RoleRows -> RoleRecords]
    BY <1>10 DEF DeleteApiRow
  <2>2. \A r \in RoleRows : roleRow'[r].apis \subseteq ApisThere'
    BY <1>3, <1>8, <1>10 DEF RowsOfRoles
  <2>3. \A r \in RolesThere : r \in RoleRows /\ roleRow'[r].value = roleRow[r].value
    BY <1>10 DEF RolesThere
  <2>4. \A a \in ApisThere' : apiRow'[a].path \in ApiPaths
    BY <1>3, <1>7, <1>8 DEF RowsOfRoles, ApisThere
  <2>. QED
    BY <1>3, <1>9, <1>11, <2>1, <2>2, <2>3, <2>4 DEF RowsOfRoles
<1>13. ASSUME NEW y \in RoleReqRecords, y = [roleReq[q] EXCEPT !.pc = "remove"]
       PROVE  RoleReqInv(y)'
  <2>1. /\ y.op = x.op /\ y.pc = "remove" /\ y.calm = x.calm /\ y.apis = x.apis /\ y.id = x.id
        /\ y.old = x.old /\ y.agreed = x.agreed
    BY <1>1, <1>13 DEF RoleReqRecords
  <2>2. HasRead(y)
    BY <1>2, <1>3, <2>1 DEF HasRead, RoleOps, ApiOps
  <2>3. Born(y)'
    <3>1. \A a \in x.apis : a[1] \in ApiRows
      BY DEF RoleReqRecords
    <3>. QED
      BY <1>1, <1>8, <2>1, <3>1 DEF RoleReqInv, Born, ApisStayBorn
  <2>4. CalmRole(y)'
    BY <1>2, <2>1 DEF CalmRole
  <2>5. CASE x.calm
    <3>1. OnePathEach /\ x.agreed \subseteq AgreeingRoles /\ x.id \in ApisThere /\ x.old = apiRow[x.id].path
      BY <1>1, <1>2, <2>5 DEF RoleReqInv, CalmApi
    <3>2. \A a \in ApisThere \ {x.id} : apiRow'[a] = apiRow[a] /\ apiRow[a].path # x.old
      BY <1>7, <3>1 DEF OnePathEach, ApisThere
    <3>3. ASSUME NEW S \in SUBSET ApisThere, x.id \in S \/ x.id \notin S
          PROVE  {apiRow'[a].path : a \in S \ {x.id}} = {apiRow[a].path : a \in S} \ {x.old}
      <4>1. \A a \in S \ {x.id} : apiRow'[a] = apiRow[a] /\ apiRow[a].path # x.old
        BY <3>2
      <4>. QED
        BY <3>1, <4>1
    <3>4. ASSUME NEW r \in x.agreed
          PROVE  r \in RolesThere' /\ Allowed(roleRow[r].value)' \ {x.old} = PermCodes(r)'
      <4>1. r \in RoleRows /\ r \in RolesThere /\ Agree(r) /\ roleRow[r].apis \subseteq ApisThere
        BY <1>3, <3>1, <3>4 DEF AgreeingRoles, RolesThere, RowsOfRoles
      <4>2. Allowed(roleRow[r].value)' = Allowed(roleRow[r].value)
        BY <1>3, <1>10, <4>1 DEF Allowed
      <4>3. CASE roleRow[r].value = "super"
        <5>1. PermCodes(r)' = {apiRow'[a].path : a \in ApisThere \ {x.id}}
          BY <1>8, <1>10, <4>1, <4>3 DEF PermCodes
        <5>2. PermCodes(r)' = {apiRow[a].path : a \in ApisThere} \ {x.old}
          BY <3>3, <5>1
        <5>. QED
          BY <1>11, <4>1, <4>2, <4>3, <5>2 DEF Agree, PermCodes
      <4>4. CASE roleRow[r].value # "super"
        <5>1. PermCodes(r)' = {apiRow'[a].path : a \in roleRow[r].apis \ {x.id}}
          BY <1>10, <4>1, <4>4 DEF PermCodes
        <5>2. PermCodes(r)' = {apiRow[a].path : a \in roleRow[r].apis} \ {x.old}
          BY <3>3, <4>1, <5>1
        <5>. QED
          BY <1>11, <4>1, <4>2, <4>4, <5>2 DEF Agree, PermCodes
      <4>. QED
        BY <4>3, <4>4
    <3>5. CalmApi(y)'
      BY <1>2, <2>1, <3>4 DEF CalmApi
    <3>. QED
      BY <2>2, <2>3, <2>4, <3>5 DEF RoleReqInv, HasRead
  <2>. QED
    BY <2>1, <2>2, <2>3, <2>5 DEF RoleReqInv, HasRead
<1>14. RoleInv'
  BY <1>2, <1>8, <1>12, <1>13, RoleGoes
<1>15. roleReq'[q].pc = "remove"
  BY <1>2, RoleGoesTo
<1>. QED
  BY <1>14, <1>15 DEF AgreeAfter

LEMMA RemoveApiPoliciesStep ==
  ASSUME RoleInv, NEW q \in RoleRequests, RemoveApiPolicies(q)
  PROVE  RoleInv' /\ AgreeAfter(q)
<1>1. PICK x \in RoleReqRecords : x = roleReq[q] /\ RoleReqInv(x)
  BY DEF RoleInv
<1>2. x.op = "deleteApi" /\ x.pc = "remove" /\ RoleEditGoes(q, "idle")
  BY <1>1 DEF RemoveApiPolicies, At
<1>3. UNCHANGED <<roleRow, apiRow>> /\ RowsOfRoles /\ ApisStayBorn
  BY DEF RemoveApiPolicies, RoleInv, ApisStayBorn
<1>4. policy' = {rule \in policy : rule[2] # x.old}
  BY <1>1 DEF RemoveApiPolicies
<1>5. RowsOfRoles'
  BY <1>3, <1>4 DEF RowsOfRoles, ApisThere, RolesThere
<1>6. RoleInv'
  BY <1>2, <1>3, <1>5, RoleGoes
<1>7. ASSUME x.calm, NEW r \in LeftInOrder(q) PROVE Agree(r)'
  <2>1. r \in x.agreed
    BY <1>1, <1>2 DEF LeftInOrder, At
  <2>2. r \in RolesThere /\ Allowed(roleRow[r].value) \ {x.old} = PermCodes(r)
    BY <1>1, <1>2, <1>7, <2>1 DEF RoleReqInv, CalmApi
  <2>3. {p \in ApiPaths : <<roleRow[r].value, p>> \in policy'} = Allowed(roleRow[r].value) \ {x.old}
    BY <1>4 DEF Allowed
  <2>4. PermCodes(r)' = PermCodes(r)
    BY <1>3 DEF PermCodes, ApisThere
  <2>. QED
    BY <1>3, <2>2, <2>3, <2>4 DEF Agree, Allowed
<1>. QED
  BY <1>1, <1>6, <1>7 DEF AgreeAfter

LEMMA RestartStep ==
  ASSUME RoleInv, RestartRoles
  PROVE  RoleInv'
<1>1. UNCHANGED <<roleRow, apiRow, policy, roleEdits>> /\ \A q \in RoleRequests : roleReq'[q] = NoRoleReq
  BY DEF RestartRoles
<1>2. RowsOfRoles'
  BY <1>1 DEF RoleInv, RowsOfRoles, ApisThere, RolesThere
<1>3. RoleReqInv(NoRoleReq)'
  BY NoRoleReqIs DEF RoleReqInv, HasRead, Born, RoleOps, ApiOps
<1>4. roleReq' \in [RoleRequests -> RoleReqRecords]
  BY NoRoleReqIs DEF RestartRoles
<1>. QED
  BY <1>1, <1>2, <1>3, <1>4 DEF RoleInv

(* A write of rows that fails leaves them as they are.                      *)
LEMMA RowsFailStep ==
  ASSUME RoleInv, NEW q \in RoleRequests, RowsFail(q)
  PROVE  RoleInv' /\ EndsInOrder(q)
<1>1. PICK x \in RoleReqRecords : x = roleReq[q] /\ RoleReqInv(x)
  BY DEF RoleInv
<1>2. /\ UNCHANGED <<roleRow, apiRow, policy>> /\ x.pc \in {"create", "row", "apis"}
      /\ RoleEditGoes(q, IF x.op = "createApi" THEN "add" ELSE "idle")
  BY <1>1 DEF RowsFail
<1>3. RowsOfRoles' /\ ApisStayBorn
  BY <1>2 DEF RoleInv, RowsOfRoles, ApisThere, RolesThere, ApisStayBorn
<1>4. CASE x.op = "createApi"
  <2>1. x.pc = "create" /\ RoleEditGoes(q, "add")
    BY <1>1, <1>2, <1>4 DEF RoleReqInv, HasRead
  <2>2. ASSUME NEW y \in RoleReqRecords, y = [roleReq[q] EXCEPT !.pc = "add"]
        PROVE  RoleReqInv(y)'
    <3>1. /\ y.op = x.op /\ y.pc = "add" /\ y.calm = x.calm /\ y.apis = x.apis /\ y.id = x.id
          /\ y.old = x.old /\ y.agreed = x.agreed
      BY <1>1, <2>2 DEF RoleReqRecords
    <3>2. HasRead(y) /\ Born(y)
      BY <1>1, <1>4, <2>1, <3>1 DEF RoleReqInv, HasRead, Born, RoleOps, ApiOps
    <3>3. y.calm => CalmRole(y) /\ CalmApi(y)
      BY <1>1, <1>4, <2>1, <3>1 DEF RoleReqInv, CalmRole, CalmApi
    <3>4. RoleReqInv(y)
      BY <3>2, <3>3 DEF RoleReqInv
    <3>. QED
      BY <1>2, <3>4, RoleReqStays
  <2>3. RoleInv'
    BY <1>3, <2>1, <2>2, RoleGoes
  <2>4. roleReq'[q].pc = "add"
    BY <2>1, RoleGoesTo
  <2>. QED
    BY <2>3, <2>4 DEF EndsInOrder
<1>5. CASE x.op # "createApi"
  <2>1. RoleEditGoes(q, "idle")
    BY <1>2, <1>5
  <2>2. RoleInv'
    BY <1>3, <2>1, RoleGoes
  <2>3. ASSUME x.calm PROVE LeftInOrder(q) \subseteq AgreeingRoles
    <3>1. HasRead(x) /\ CalmRole(x) /\ CalmApi(x)
      BY <1>1, <2>3 DEF RoleReqInv
    <3>2. x.op \in {"createRole", "updateRole", "setRoleStatus", "updateApi", "deleteApi"}
      BY <1>5, <2>3, <3>1 DEF HasRead, RoleReqRecords, RoleOps, ApiOps
    <3>3. x.op \in {"updateApi", "deleteApi"} => x.pc = "row"
      BY <1>2, <3>1 DEF HasRead
    <3>4. IF x.op = "updateRole" THEN x.agreed \ {x.id} \subseteq AgreeingRoles
                                 ELSE x.agreed \subseteq AgreeingRoles
      BY <3>1, <3>2, <3>3 DEF CalmRole, CalmApi
    <3>5. x.pc # "add"
      BY <1>2
    <3>. QED
      BY <1>1, <3>4, <3>5 DEF LeftInOrder, At
  <2>4. ASSUME NEW r \in AgreeingRoles PROVE Agree(r)'
    BY <1>2, AgreeStays DEF AgreeingRoles
  <2>5. AgreeAfter(q)
    BY <1>1, <2>3, <2>4 DEF AgreeAfter
  <2>. QED
    BY <2>2, <2>5, AgreeingIsInOrder
<1>. QED
  BY <1>4, <1>5

(* One of policies that fails leaves the request disturbed, or ends it.     *)
LEMMA PoliciesFailStep ==
  ASSUME RoleInv, NEW q \in RoleRequests, PoliciesFail(q)
  PROVE  RoleInv' /\ \A s \in RoleRequests \ {q} : roleReq'[s] = roleReq[s]
<1>1. PICK x \in RoleReqRecords : x = roleReq[q] /\ RoleReqInv(x)
  BY DEF RoleInv
<1>2. /\ UNCHANGED <<roleRow, apiRow, policy, roleEdits>>
      /\ roleReq' = [roleReq EXCEPT ![q] = IF x.pc = "remove" /\ x.op = "updateRole"
                                           THEN [x EXCEPT !.pc = "add", !.calm = FALSE]
                                           ELSE NoRoleReq]
  BY <1>1 DEF PoliciesFail
<1>3. PICK y : y = [x EXCEPT !.pc = "add", !.calm = FALSE]
  OBVIOUS
<1>4. y \in RoleReqRecords /\ y.pc = "add" /\ y.op = x.op /\ ~y.calm /\ y.apis = x.apis
      /\ y.id = x.id /\ y.value = x.value
  BY <1>3 DEF RoleReqRecords
<1>5. x.op = "updateRole" => RoleReqInv(y)
  BY <1>1, <1>4 DEF RoleReqInv, HasRead, Born, RoleOps, ApiOps
<1>6. PICK z \in RoleReqRecords : RoleReqInv(z) /\ roleReq' = [roleReq EXCEPT ![q] = z]
  BY <1>2, <1>3, <1>4, <1>5, NoRoleReqIs, NoRoleReqInv
<1>7. ASSUME NEW s \in RoleRequests PROVE RoleReqInv(roleReq[s])'
  <2>1. PICK w : w = roleReq'[s]
    OBVIOUS
  <2>2. RoleReqInv(w)
    BY <1>6, <2>1 DEF RoleInv
  <2>3. RoleReqInv(w)'
    BY <1>2, <2>2, RoleReqStays
  <2>. QED
    BY <2>1, <2>3
<1>8. RowsOfRoles'
  BY <1>2 DEF RoleInv, RowsOfRoles, ApisThere, RolesThere
<1>. QED
  BY <1>2, <1>6, <1>7, <1>8 DEF RoleInv

(* A request begins with what it reads.                                     *)
LEMMA RoleRequestBegins ==
  ASSUME RoleInv, NEW q \in RoleRequests, NEW op, NEW pc, NEW id, NEW value, NEW apis, NEW old,
         BeginRoleEdit(q, op, pc, id, value, apis, old),
         \A x \in RoleReqRecords :
           /\ x.pc = pc /\ x.op = op /\ x.id = id /\ x.value = value /\ x.apis = apis /\ x.old = old
           /\ x.calm = OnePathEach /\ x.agreed = AgreeingRoles
           => RoleReqInv(x),
         pc \in {"create", "row"}, op \in RoleOps \cup ApiOps, id \in Nat,
         value \in RoleValues \cup {"none"}, apis \in SUBSET (ApiRows \X ApiPaths),
         old \in ApiPaths \cup {"none"}
  PROVE  RoleInv' /\ roleReq[q].pc = "idle" /\ \A s \in RoleRequests \ {q} : roleReq'[s] = roleReq[s]
<1>1. PICK c : c = OnePathEach
  OBVIOUS
<1>2. c \in BOOLEAN
  BY <1>1 DEF OnePathEach
<1>3. AgreeingRoles \subseteq RoleRows
  BY DEF AgreeingRoles, RolesThere
<1>4. PICK x : x = [pc |-> pc, op |-> op, id |-> id, value |-> value, apis |-> apis,
                    old |-> old, calm |-> c, agreed |-> AgreeingRoles]
  OBVIOUS
<1>5. x \in RoleReqRecords
  BY <1>2, <1>3, <1>4 DEF RoleReqRecords
<1>6. RoleReqInv(x)
  BY <1>1, <1>4, <1>5
<1>7. roleReq' = [roleReq EXCEPT ![q] = x]
  BY <1>1, <1>4 DEF BeginRoleEdit
<1>8. UNCHANGED <<roleRow, apiRow, policy>> /\ roleEdits < MaxRoleEdits /\ roleEdits' = roleEdits + 1
      /\ roleReq[q].pc = "idle"
  BY DEF BeginRoleEdit, MayBegin
<1>9. RoleInv'
  BY <1>5, <1>6, <1>7, <1>8, RoleBegins
<1>. QED
  BY <1>7, <1>8, <1>9 DEF RoleInv

RoleRequestStarts(q) ==
  RoleInv' /\ roleReq[q].pc = "idle" /\ \A s \in RoleRequests \ {q} : roleReq'[s] = roleReq[s]

LEMMA RoleEditsBegin ==
  ASSUME RoleInv, NEW q \in RoleRequests, NEW r \in RoleRows, NEW v \in RoleValues,
         NEW S \in SUBSET ApisThere,
         createRole(q, r, v, S) \/ updateRole(q, r, v, S) \/ setRoleStatus(q, r)
  PROVE  RoleRequestStarts(q)
<1>. USE DEF RoleRequestStarts
<1>1. RowsOfRoles /\ r \in Nat /\ S \subseteq ApiRows /\ AgreeingRoles \subseteq RolesThere
  BY RolePoliciesAssumption DEF RoleInv, ApisThere, AgreeingRoles
<1>2. PICK apis : apis = ApisAsRead(S)
  OBVIOUS
<1>3. apis \in SUBSET (ApiRows \X ApiPaths)
  BY <1>1, <1>2 DEF ApisAsRead, RowsOfRoles
<1>4. \A a \in apis : a[1] \in ApisThere /\ a[2] = apiRow[a[1]].path /\ apiRow[a[1]].state # "unborn"
  BY <1>2 DEF ApisAsRead, ApisThere
<1>5. CASE createRole(q, r, v, S)
  <2>1. BeginRoleEdit(q, "createRole", "create", r, v, apis, "none") /\ roleRow[r].state = "unborn"
    BY <1>2, <1>5 DEF createRole
  <2>2. ASSUME NEW x \in RoleReqRecords, x.pc = "create", x.op = "createRole", x.id = r,
               x.value = v, x.apis = apis, x.agreed = AgreeingRoles
        PROVE  RoleReqInv(x)
    BY <1>4, <2>1, <2>2 DEF RoleReqInv, HasRead, Born, CalmRole, CalmApi, RoleOps, ApiOps
  <2>. QED
    BY <1>1, <1>3, <2>1, <2>2, RoleRequestBegins DEF RoleOps
<1>6. CASE updateRole(q, r, v, S)
  <2>1. BeginRoleEdit(q, "updateRole", "row", r, v, apis, "none") /\ r \in RolesThere
    BY <1>2, <1>6 DEF updateRole
  <2>2. ASSUME NEW x \in RoleReqRecords, x.pc = "row", x.op = "updateRole", x.id = r,
               x.value = v, x.apis = apis, x.calm = OnePathEach, x.agreed = AgreeingRoles
        PROVE  RoleReqInv(x)
    <3>1. HasRead(x) /\ Born(x) /\ CalmApi(x)
      BY <1>4, <2>2 DEF HasRead, Born, CalmApi, RoleOps, ApiOps
    <3>2. x.calm => CalmRole(x)
      BY <1>4, <2>1, <2>2 DEF CalmRole
    <3>. QED
      BY <3>1, <3>2 DEF RoleReqInv
  <2>. QED
    BY <1>1, <1>3, <2>1, <2>2, RoleRequestBegins DEF RoleOps
<1>7. CASE setRoleStatus(q, r)
  <2>1. BeginRoleEdit(q, "setRoleStatus", "row", r, roleRow[r].value, {}, "none") /\ r \in RolesThere
    BY <1>7 DEF setRoleStatus
  <2>2. roleRow[r].value \in RoleValues
    BY <1>1, <2>1 DEF RowsOfRoles
  <2>3. ASSUME NEW x \in RoleReqRecords, x.pc = "row", x.op = "setRoleStatus", x.id = r,
               x.value = roleRow[r].value, x.apis = {}, x.agreed = AgreeingRoles
        PROVE  RoleReqInv(x)
    BY <2>2, <2>3 DEF RoleReqInv, HasRead, Born, CalmRole, CalmApi, RoleOps, ApiOps
  <2>. QED
    BY <1>1, <2>1, <2>2, <2>3, RoleRequestBegins DEF RoleOps
<1>. QED
  BY <1>5, <1>6, <1>7

LEMMA ApiEditsBegin ==
  ASSUME RoleInv, NEW q \in RoleRequests, NEW a \in ApiRows, NEW p \in ApiPaths,
         createApi(q, a, p) \/ updateApi(q, a, p) \/ deleteApi(q, a)
  PROVE  RoleRequestStarts(q)
<1>. USE DEF RoleRequestStarts
<1>1. RowsOfRoles /\ a \in Nat
  BY RolePoliciesAssumption DEF RoleInv
<1>2. CASE createApi(q, a, p)
  <2>1. BeginRoleEdit(q, "createApi", "create", a, "none", {}, p) /\ apiRow[a].state = "unborn"
    BY <1>2 DEF createApi
  <2>2. ASSUME NEW x \in RoleReqRecords, x.pc = "create", x.op = "createApi", x.id = a,
               x.apis = {}, x.old = p, x.agreed = AgreeingRoles
        PROVE  RoleReqInv(x)
    BY <2>1, <2>2 DEF RoleReqInv, HasRead, Born, CalmRole, CalmApi, RoleOps, ApiOps
  <2>. QED
    BY <1>1, <2>1, <2>2, RoleRequestBegins DEF ApiOps
<1>3. CASE updateApi(q, a, p)
  <2>1. BeginRoleEdit(q, "updateApi", "row", a, "none", {<<a, p>>}, apiRow[a].path) /\ a \in ApisThere
    BY <1>3 DEF updateApi
  <2>2. apiRow[a].path \in ApiPaths /\ apiRow[a].state = "there"
    BY <1>1, <2>1 DEF RowsOfRoles, ApisThere
  <2>3. ASSUME NEW x \in RoleReqRecords, x.pc = "row", x.op = "updateApi", x.id = a,
               x.apis = {<<a, p>>}, x.old = apiRow[a].path, x.calm = OnePathEach,
               x.agreed = AgreeingRoles
        PROVE  RoleReqInv(x)
    <3>1. HasRead(x) /\ CalmRole(x)
      BY <2>2, <2>3 DEF HasRead, CalmRole, RoleOps, ApiOps
    <3>2. Born(x)
      BY <2>2, <2>3 DEF Born
    <3>3. x.calm => CalmApi(x)
      BY <2>1, <2>3 DEF CalmApi
    <3>. QED
      BY <3>1, <3>2, <3>3 DEF RoleReqInv
  <2>. QED
    BY <1>1, <2>1, <2>2, <2>3, RoleRequestBegins DEF ApiOps
<1>4. CASE deleteApi(q, a)
  <2>1. BeginRoleEdit(q, "deleteApi", "row", a, "none", {}, apiRow[a].path) /\ a \in ApisThere
    BY <1>4 DEF deleteApi
  <2>2. apiRow[a].path \in ApiPaths
    BY <1>1, <2>1 DEF RowsOfRoles
  <2>3. ASSUME NEW x \in RoleReqRecords, x.pc = "row", x.op = "deleteApi", x.id = a,
               x.apis = {}, x.old = apiRow[a].path, x.calm = OnePathEach, x.agreed = AgreeingRoles
        PROVE  RoleReqInv(x)
    <3>1. HasRead(x) /\ CalmRole(x) /\ Born(x)
      BY <2>2, <2>3 DEF HasRead, CalmRole, Born, RoleOps, ApiOps
    <3>2. x.calm => CalmApi(x)
      BY <2>1, <2>3 DEF CalmApi
    <3>. QED
      BY <3>1, <3>2 DEF RoleReqInv
  <2>. QED
    BY <1>1, <2>1, <2>2, <2>3, RoleRequestBegins DEF ApiOps
<1>. QED
  BY <1>2, <1>3, <1>4

(* A request that is undisturbed has not ended; one that another comes      *)
(* between is where it was.                                                 *)
LEMMA CalmGoesOn ==
  ASSUME RoleInv, NEW q \in RoleRequests, roleReq[q].calm
  PROVE  roleReq[q].pc # "idle"
BY DEF RoleInv, RoleReqRecords, RoleReqInv, HasRead, RoleOps, ApiOps

LEMMA OthersStay ==
  ASSUME RoleInv, NEW q \in RoleRequests, NEW s \in RoleRequests \ {q}, NEW pc, RoleEditGoes(q, pc)
  PROVE  roleReq'[s].pc = roleReq[s].pc
<1>1. PICK x \in RoleReqRecords : x = roleReq[s]
  BY DEF RoleInv
<1>2. PICK y : y = [x EXCEPT !.calm = FALSE]
  OBVIOUS
<1>3. roleReq'[s] = y
  BY <1>1, <1>2 DEF RoleEditGoes
<1>. QED
  BY <1>1, <1>2, <1>3 DEF RoleReqRecords

RoleWritesRow(q) ==
  \/ CreateRoleRow(q) \/ UpdateRoleRow(q) \/ UpdateApis(q)
  \/ RemoveRolePolicies(q) \/ AddRolePolicies(q) \/ WriteRoleAsRead(q)
  \/ CreateApiRow(q) \/ AddSuperPolicy(q) \/ UpdateApiRow(q) \/ MoveSuperPolicy(q)
  \/ DeleteApiRow(q) \/ RemoveApiPolicies(q) \/ RowsFail(q)

LEMMA RoleWriteStep ==
  ASSUME RoleInv, NEW q \in RoleRequests, RoleWritesRow(q)
  PROVE  RoleInv' /\ \A s \in RoleRequests : EndsInOrder(s)
<1>1. RoleInv' /\ EndsInOrder(q)
  BY CreateRoleStep, UpdateRoleStep, UpdateApisStep, RemoveRolePoliciesStep, AddRolePoliciesStep,
     WriteAsReadStep, CreateApiStep, AddSuperStep, UpdateApiStep, MoveSuperStep, DeleteApiStep,
     RemoveApiPoliciesStep, RowsFailStep, AgreeingIsInOrder DEF RoleWritesRow
<1>2. \E pc : RoleEditGoes(q, pc)
  <2>1. CASE CreateRoleRow(q) \/ UpdateRoleRow(q) \/ UpdateApis(q)
    BY <2>1 DEF CreateRoleRow, UpdateRoleRow, UpdateApis
  <2>2. CASE RemoveRolePolicies(q) \/ AddRolePolicies(q) \/ WriteRoleAsRead(q)
    BY <2>2 DEF RemoveRolePolicies, AddRolePolicies, WriteRoleAsRead
  <2>3. CASE CreateApiRow(q) \/ AddSuperPolicy(q) \/ UpdateApiRow(q)
    BY <2>3 DEF CreateApiRow, AddSuperPolicy, UpdateApiRow
  <2>4. CASE MoveSuperPolicy(q) \/ DeleteApiRow(q) \/ RemoveApiPolicies(q) \/ RowsFail(q)
    BY <2>4 DEF MoveSuperPolicy, DeleteApiRow, RemoveApiPolicies, RowsFail
  <2>. QED
    BY <2>1, <2>2, <2>3, <2>4 DEF RoleWritesRow
<1>3. PICK pc : RoleEditGoes(q, pc)
  BY <1>2
<1>4. ASSUME NEW s \in RoleRequests \ {q} PROVE EndsInOrder(s)
  BY <1>3, <1>4, OthersStay, CalmGoesOn DEF EndsInOrder
<1>. QED
  BY <1>1, <1>4

LEMMA RoleBeginStep ==
  ASSUME RoleInv, NEW q \in RoleRequests, RoleRequestStarts(q)
  PROVE  \A s \in RoleRequests : EndsInOrder(s)
<1>1. ~roleReq[q].calm
  BY CalmGoesOn DEF RoleRequestStarts
<1>2. \A s \in RoleRequests \ {q} : roleReq'[s] = roleReq[s]
  BY DEF RoleRequestStarts
<1>3. ASSUME NEW s \in RoleRequests PROVE EndsInOrder(s)
  BY <1>1, <1>2, <1>3, CalmGoesOn DEF EndsInOrder
<1>. QED
  BY <1>3

(* A step of a handler, or the deletion of a role.                          *)
LEMMA RoleHandlerStep ==
  ASSUME RoleInv,
         \/ \E q \in RoleRequests : RoleHandlers(q) \/ ApiHandlers(q) \/ RowsFail(q)
         \/ \E r \in RoleRows : deleteRole(r)
  PROVE  RoleInv' /\ \A s \in RoleRequests : EndsInOrder(s)
<1>1. CASE \E r \in RoleRows : deleteRole(r)
  <2>1. PICK r \in RoleRows : deleteRole(r)
    BY <1>1
  <2>2. RoleInv' /\ \A q \in RoleRequests : roleReq'[q].pc = roleReq[q].pc
    BY <2>1, DeleteRoleStep
  <2>3. ASSUME NEW s \in RoleRequests PROVE EndsInOrder(s)
    BY <2>2, CalmGoesOn DEF EndsInOrder
  <2>. QED
    BY <2>2, <2>3
<1>2. CASE \E q \in RoleRequests : RoleHandlers(q) \/ ApiHandlers(q) \/ RowsFail(q)
  <2>1. PICK q \in RoleRequests : RoleHandlers(q) \/ ApiHandlers(q) \/ RowsFail(q)
    BY <1>2
  <2>2. CASE RoleWritesRow(q)
    BY <2>2, RoleWriteStep
  <2>3. CASE RoleRequestStarts(q)
    BY <2>3, RoleBeginStep DEF RoleRequestStarts
  <2>4. CASE \E r \in RoleRows, v \in RoleValues, S \in SUBSET ApisThere :
               createRole(q, r, v, S) \/ updateRole(q, r, v, S)
    <3>1. PICK r \in RoleRows, v \in RoleValues, S \in SUBSET ApisThere :
            createRole(q, r, v, S) \/ updateRole(q, r, v, S)
      BY <2>4
    <3>2. RoleRequestStarts(q)
      BY <3>1, RoleEditsBegin
    <3>. QED
      BY <2>3, <3>2
  <2>5. CASE \E r \in RoleRows : setRoleStatus(q, r)
    <3>1. PICK r \in RoleRows : setRoleStatus(q, r)
      BY <2>5
    <3>2. {} \in SUBSET ApisThere
      OBVIOUS
    <3>3. RoleRequestStarts(q)
      BY <3>1, <3>2, RoleEditsBegin, RolePoliciesAssumption
    <3>. QED
      BY <2>3, <3>3
  <2>6. CASE \E a \in ApiRows, p \in ApiPaths : createApi(q, a, p) \/ updateApi(q, a, p)
    <3>1. PICK a \in ApiRows, p \in ApiPaths : createApi(q, a, p) \/ updateApi(q, a, p)
      BY <2>6
    <3>2. RoleRequestStarts(q)
      BY <3>1, ApiEditsBegin
    <3>. QED
      BY <2>3, <3>2
  <2>7. CASE \E a \in ApiRows : deleteApi(q, a)
    <3>1. PICK a \in ApiRows : deleteApi(q, a)
      BY <2>7
    <3>2. a \in ApisThere
      BY <3>1 DEF deleteApi
    <3>3. apiRow[a].path \in ApiPaths
      BY <3>2 DEF RoleInv, RowsOfRoles
    <3>4. RoleRequestStarts(q)
      BY <3>1, <3>3, ApiEditsBegin
    <3>. QED
      BY <2>3, <3>4
  <2>8. RoleHandlers(q) => \/ RoleWritesRow(q)
                           \/ \E r \in RoleRows, v \in RoleValues, S \in SUBSET ApisThere :
                                createRole(q, r, v, S) \/ updateRole(q, r, v, S)
                           \/ \E r \in RoleRows : setRoleStatus(q, r)
    BY DEF RoleHandlers, RoleWritesRow
  <2>9. ApiHandlers(q) => \/ RoleWritesRow(q)
                          \/ \E a \in ApiRows, p \in ApiPaths : createApi(q, a, p) \/ updateApi(q, a, p)
                          \/ \E a \in ApiRows : deleteApi(q, a)
    BY DEF ApiHandlers, RoleWritesRow
  <2>10. RowsFail(q) => RoleWritesRow(q)
    BY DEF RoleWritesRow
  <2>. QED
    BY <2>1, <2>2, <2>4, <2>5, <2>6, <2>7, <2>8, <2>9, <2>10
<1>. QED
  BY <1>1, <1>2

LEMMA RoleGoesOn ==
  ASSUME RoleInv, RoleNext
  PROVE  RoleInv'
BY RoleHandlerStep, PoliciesFailStep, RestartStep DEF RoleNext

LEMMA RoleStutters ==
  ASSUME RoleInv, UNCHANGED roleVars
  PROVE  RoleInv'
BY DEF roleVars, RoleInv, RowsOfRoles, RoleReqInv, HasRead, Born, CalmRole, CalmApi, Paths,
       AgreeingRoles, Agree, Allowed, PermCodes, RolesThere, ApisThere, OnePathEach

LEMMA RolesLeftInOrder ==
  ASSUME RoleInv, RoleNext \/ UNCHANGED roleVars
  PROVE  RolesInOrderStep
<1>1. ASSUME NEW q \in RoleRequests, ~RestartRoles, ~PoliciesFail(q) PROVE EndsInOrder(q)
  <2>1. CASE UNCHANGED roleVars
    BY <2>1, CalmGoesOn DEF roleVars, EndsInOrder
  <2>2. ASSUME NEW s \in RoleRequests, PoliciesFail(s) PROVE EndsInOrder(q)
    <3>1. roleReq'[q] = roleReq[q]
      BY <1>1, <2>2, PoliciesFailStep
    <3>. QED
      BY <3>1, CalmGoesOn DEF EndsInOrder
  <2>3. CASE \/ \E s \in RoleRequests : RoleHandlers(s) \/ ApiHandlers(s) \/ RowsFail(s)
             \/ \E r \in RoleRows : deleteRole(r)
    BY <2>3, RoleHandlerStep
  <2>. QED
    BY <1>1, <2>1, <2>2, <2>3 DEF RoleNext
<1>. QED
  BY <1>1 DEF RolesInOrderStep, EndsInOrder

=============================================================================
