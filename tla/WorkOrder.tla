------------------------------- MODULE WorkOrder -------------------------------
(***************************************************************************)
(* A work order (models/tbl_workorder_instance.go): the handlers that       *)
(* approve it, act on it, comment on it, edit it and delete it              *)
(* (web/view_server/api_workorder_instance.go), the goroutine that executes *)
(* it in Jenkins (api_workorder_auto_pipeline.go) and the cron job that     *)
(* executes it (cron/auto_order.go).                                        *)
(*                                                                         *)
(* Each of them reads the whole row, and writes it later from its copy.     *)
(* Orders do not meet, so the module is about one.                          *)
(***************************************************************************)
EXTENDS Integers, Sequences

CONSTANTS
  Flows,           (* the flows of the templates: sequences of nodes        *)
  Names,           (* users and roles                                       *)
  Robot,           (* "auto_order_robot"                                    *)
  ServiceAccount,  (* the account of the cron job                           *)
  OrderRequests,   (* the requests that may be in progress at once          *)
  Goroutines,      (* bound: the robot goroutines that may run at once      *)
  OrderFaults      (* "restart": the server process restarts; "db": a write *)
                   (* of the row fails                                      *)

Nobody == 0

NodeTypes == {"start", "approval", "action", "stop"}

ASSUME WorkOrderAssumption ==
  /\ Nobody \notin Names
  /\ {Robot, ServiceAccount} \subseteq Names
  /\ Flows \subseteq Seq([type : NodeTypes, who : Names]) \ {<<>>}
  /\ OrderFaults \subseteq {"restart", "db"}

VARIABLES
  workOrder,  (* the row of work_order_instances                            *)
  request,    (* the local variables of the requests in progress            *)
  robot,      (* those of the goroutines of autoExecuteOrderRobotTask       *)
  cron        (* those of RunAutoOrderOne                                   *)

orderVars == <<workOrder, request, robot, cron>>

-----------------------------------------------------------------------------
(* mark is what ActualFlowData says of each node: open is an empty          *)
(* ActualUser, the others are IsPassOrIsSuccess.                            *)
OrderStatuses ==
  {"pendingApproval", "pendingAction", "approvalReject", "finished"}

NoOrder == [status |-> "none", current |-> Nobody, flow |-> <<>>, mark |-> <<>>]

Exists(o)  == o.status \in OrderStatuses
Pending(o) == o.status \in {"pendingApproval", "pendingAction"}
Open(o)    == {i \in DOMAIN o.flow : o.mark[i] = "open"}

Lowest(S) == CHOOSE i \in S : \A k \in S : i <= k

(* A mutant of FirstOpen: the last one.                                     *)
LastOpen(o) == CHOOSE i \in Open(o) : \A k \in Open(o) : k <= i

(* thisNodeIndex: the first node with an empty ActualUser.                  *)
FirstOpen(o) == Lowest(Open(o))

(* Mutants of Ahead: the search begins with the node itself; it does not    *)
(* know the type of the action nodes.                                       *)
AheadFromHere(o, i)  ==
  {k \in DOMAIN o.flow : k >= i /\ o.flow[k].type # "start"}
AheadApprovals(o, i) ==
  {k \in DOMAIN o.flow : k > i /\ o.flow[k].type \in {"approval", "stop"}}

(* The nodes after i that the search for the next one looks at: it skips    *)
(* the start nodes.                                                         *)
Ahead(o, i) == {k \in DOMAIN o.flow : k > i /\ o.flow[k].type # "start"}

EndedAs(o, status) == [o EXCEPT !.status = status, !.current = Nobody]

(* The order moves on to the next node for somebody, or is finished.        *)
Advanced(o, i) ==
  LET next == Lowest(Ahead(o, i))
  IN  IF Ahead(o, i) = {} \/ o.flow[next].type = "stop"
      THEN EndedAs(o, "finished")
      ELSE [o EXCEPT
              !.status  = IF o.flow[next].type = "approval"
                          THEN "pendingApproval" ELSE "pendingAction",
              !.current = o.flow[next].who]

Verdict(ok) == IF ok THEN "passed" ELSE "failed"

(* A mutant of Decided: a rejected order moves on.                          *)
DecidedAnyway(o, ok) ==
  LET i == FirstOpen(o) IN Advanced([o EXCEPT !.mark[i] = Verdict(ok)], i)

(* What an approval, and the result of an action, make of the order: its    *)
(* first open node is processed, whatever its type and the order's status.  *)
Decided(o, ok) ==
  LET i == FirstOpen(o)
      marked == [o EXCEPT !.mark[i] = Verdict(ok)]
  IN  IF ok THEN Advanced(marked, i) ELSE EndedAs(marked, "approvalReject")

(* The first open node with the property is marked, if there is one.        *)
MarkFirst(o, S, ok) ==
  IF S = {} THEN o ELSE [o EXCEPT !.mark[Lowest(S)] = Verdict(ok)]

-----------------------------------------------------------------------------
(* Updates(map): all three fields are written, if the row still exists.     *)
UpdateMap(o) == workOrder' = IF Exists(workOrder) THEN o ELSE workOrder

(* Updates(struct) in UpdateOne: an empty current_flow_node is not written. *)
UpdateOrder(o) ==
  workOrder' =
    IF Exists(workOrder)
    THEN [o EXCEPT !.current = IF @ = Nobody THEN workOrder.current ELSE @]
    ELSE workOrder

IdleProcess == [pc |-> "idle", ok |-> FALSE, copy |-> NoOrder]

EndRequest(r) == request' = [request EXCEPT ![r] = IdleProcess]

(* go autoExecuteOrderRobotTask                                             *)
Spawn ==
  \E g \in Goroutines :
    /\ robot[g].pc = "idle"
    /\ robot' = [robot EXCEPT ![g] = [IdleProcess EXCEPT !.pc = "read"]]

(* A handler reads the row, and returns at once if there is none.           *)
Read(r, pc, ok) ==
  /\ request[r].pc = "idle"
  /\ Exists(workOrder)
  /\ request' = [request EXCEPT ![r] =
                   [pc |-> pc, ok |-> ok, copy |-> workOrder]]
  /\ UNCHANGED <<workOrder, robot, cron>>

-----------------------------------------------------------------------------
(* A mutant of NewOrder: the status is left to the column's default.        *)
NewOrderByDefault(f) ==
  [status |-> "default", current |-> f[1].who, flow |-> f,
   mark |-> [i \in DOMAIN f |-> "open"]]

(* What CreateOne makes of the template's flow.                             *)
NewOrder(f) ==
  [status |-> "pendingApproval", current |-> f[1].who, flow |-> f,
   mark |-> [i \in DOMAIN f |-> "open"]]

createWorkOrderInstance(f) ==
  /\ workOrder = NoOrder
  /\ workOrder' = NewOrder(f)
  /\ IF f[1].who = Robot THEN Spawn ELSE UNCHANGED robot
  /\ UNCHANGED <<request, cron>>

(* Nobody checks that the order is pending, nor of what type the node is.   *)
approvalWorkOrderInstance(r, ok) ==
  Open(workOrder) # {} /\ Read(r, "approval", ok)

SaveApproval(r) ==
  LET o == Decided(request[r].copy, request[r].ok)
  IN  /\ request[r].pc = "approval"
      /\ UpdateMap(o)
      /\ IF request[r].ok /\ o.status = "pendingAction" /\ o.current = Robot
         THEN Spawn
         ELSE UNCHANGED robot
      /\ EndRequest(r)
      /\ UNCHANGED cron

actionWorkOrderInstance(r, ok) ==
  Open(workOrder) # {} /\ Read(r, "action", ok)

SaveAction(r) ==
  /\ request[r].pc = "action"
  /\ UpdateMap(Decided(request[r].copy, request[r].ok))
  /\ EndRequest(r)
  /\ UNCHANGED <<robot, cron>>

commentWorkOrderInstance(r) == Read(r, "comment", TRUE)

(* The comment goes into a column of its own, the others are written back.  *)
SaveComment(r) ==
  /\ request[r].pc = "comment"
  /\ UpdateOrder(request[r].copy)
  /\ EndRequest(r)
  /\ UNCHANGED <<robot, cron>>

(* A page shows the row, and its form sends the row back, however long it   *)
(* was open: updateWorkOrderInstance asks only whether there still is one.  *)
ShowForm(r) == Read(r, "form", TRUE)

updateWorkOrderInstance(r) ==
  /\ request[r].pc = "form"
  /\ UpdateOrder(request[r].copy)
  /\ EndRequest(r)
  /\ UNCHANGED <<robot, cron>>

deleteWorkOrderInstance ==
  /\ Exists(workOrder)
  /\ workOrder' = [NoOrder EXCEPT !.status = "deleted"]
  /\ UNCHANGED <<request, robot, cron>>

-----------------------------------------------------------------------------
(* The goroutine reads the order afresh, and works in Jenkins for up to two *)
(* minutes.                                                                 *)
autoExecuteOrderRobotTask(g) ==
  /\ robot[g].pc = "read"
  /\ robot' = [robot EXCEPT ![g] =
                 IF Exists(workOrder)
                 THEN [IdleProcess EXCEPT !.pc = "work", !.copy = workOrder]
                 ELSE IdleProcess]
  /\ UNCHANGED <<workOrder, request, cron>>

RobotNodes(o) == {i \in Open(o) : o.flow[i].who = Robot}

(* recordRobotExecutionSuccess and recordRobotExecutionFailure.             *)
recordRobotExecution(g, ok) ==
  LET o == robot[g].copy
  IN  /\ robot[g].pc = "work"
      /\ UpdateMap(EndedAs(MarkFirst(o, RobotNodes(o), ok),
                         IF ok THEN "finished" ELSE "approvalReject"))
      /\ robot' = [robot EXCEPT ![g] = IdleProcess]
      /\ UNCHANGED <<request, cron>>

(* RunAutoOrder waits for its workers, so there is one at a time.           *)
RunAutoOrder ==
  /\ cron.pc = "idle"
  /\ workOrder.status = "pendingAction"
  /\ workOrder.current = ServiceAccount
  /\ cron' = [IdleProcess EXCEPT !.pc = "work", !.copy = workOrder]
  /\ UNCHANGED <<workOrder, request, robot>>

ActionNodes(o) == {i \in Open(o) : o.flow[i].type = "action"}

(* After a failure the order stays with the account.                        *)
finishAutoAction(ok) ==
  LET o == cron.copy
  IN  /\ cron.pc = "work"
      /\ UpdateOrder(EndedAs(MarkFirst(o, ActionNodes(o), ok),
                         IF ok THEN "finished" ELSE "pendingAction"))
      /\ cron' = IdleProcess
      /\ UNCHANGED <<request, robot>>

(* A write that fails: the handlers tell it, the others pass over it.       *)
OrderWriteFails ==
  /\ "db" \in OrderFaults
  /\ \/ \E r \in OrderRequests : request[r].pc # "idle" /\ EndRequest(r)
        /\ UNCHANGED <<robot, cron>>
     \/ /\ \E g \in Goroutines :
             robot[g].pc = "work" /\ robot' = [robot EXCEPT ![g] = IdleProcess]
        /\ UNCHANGED <<request, cron>>
     \/ cron.pc = "work" /\ cron' = IdleProcess /\ UNCHANGED <<request, robot>>
  /\ UNCHANGED workOrder

(* The forms that pages show outlive the server.                            *)
RestartOrderServer ==
  /\ "restart" \in OrderFaults
  /\ request' = [r \in OrderRequests |->
                   IF request[r].pc = "form" THEN request[r] ELSE IdleProcess]
  /\ robot' = [g \in Goroutines |-> IdleProcess]
  /\ cron' = IdleProcess
  /\ UNCHANGED workOrder

-----------------------------------------------------------------------------
OrderInit ==
  /\ workOrder = NoOrder
  /\ request = [r \in OrderRequests |-> IdleProcess]
  /\ robot = [g \in Goroutines |-> IdleProcess]
  /\ cron = IdleProcess

OrderNext ==
  \/ \E f \in Flows : createWorkOrderInstance(f)
  \/ deleteWorkOrderInstance
  \/ \E r \in OrderRequests :
       \/ \E ok \in BOOLEAN :
            approvalWorkOrderInstance(r, ok) \/ actionWorkOrderInstance(r, ok)
       \/ commentWorkOrderInstance(r) \/ ShowForm(r)
       \/ SaveApproval(r) \/ SaveAction(r) \/ SaveComment(r)
       \/ updateWorkOrderInstance(r)
  \/ \E g \in Goroutines :
       \/ autoExecuteOrderRobotTask(g)
       \/ \E ok \in BOOLEAN : recordRobotExecution(g, ok)
  \/ RunAutoOrder
  \/ \E ok \in BOOLEAN : finishAutoAction(ok)
  \/ OrderWriteFails
  \/ RestartOrderServer

OrderSpec == OrderInit /\ [][OrderNext]_orderVars

-----------------------------------------------------------------------------
Orders == [status  : OrderStatuses \cup {"none", "deleted"},
           current : Names \cup {Nobody},
           flow    : Flows \cup {<<>>},
           mark    : Seq({"open", "passed", "failed"})]

Process(pcs) == [pc : pcs, ok : BOOLEAN, copy : Orders]

OrderTypeOK ==
  /\ workOrder \in Orders
  /\ request \in
       [OrderRequests -> Process({"idle", "approval", "action", "comment", "form"})]
  /\ robot \in [Goroutines -> Process({"idle", "read", "work"})]
  /\ cron \in Process({"idle", "work"})
  /\ \A o \in {workOrder, cron.copy}
               \cup {request[r].copy : r \in OrderRequests} :
       DOMAIN o.mark = DOMAIN o.flow

-----------------------------------------------------------------------------
(* The nodes that recordRobotExecution and finishAutoAction look for; they  *)
(* do not ask whether it is their turn.                                     *)
ForExecutors(o) ==
  {i \in DOMAIN o.flow : o.flow[i].type = "action" \/ o.flow[i].who = Robot}

(* No node of the executors has an answer yet.                              *)
Untouched(o) ==
  \A i \in DOMAIN o.flow :
    o.flow[i].who \in {Robot, ServiceAccount} => o.mark[i] = "open"

(* The open nodes that wait for somebody: start nodes are passed over, but  *)
(* for the first node of the flow.                                          *)
Waiting(o) == {i \in Open(o) : i = 1 \/ o.flow[i].type # "start"}

(* Nodes are answered in the order of the flow, except by an executor.      *)
AnswersInOrder(o) ==
  \A i, k \in DOMAIN o.flow :
    i < k /\ o.mark[i] = "open" /\ o.mark[k] # "open" =>
      k \in ForExecutors(o) /\ ~Untouched(o)

(* A pending order names the first who has to answer.                       *)
NamesFirst(o) ==
  Pending(o) /\ Untouched(o) =>
    /\ Waiting(o) # {}
    /\ LET i == Lowest(Waiting(o))
       IN /\ o.current = o.flow[i].who
          /\ i # 1 => /\ o.status = IF o.flow[i].type = "approval"
                                    THEN "pendingApproval" ELSE "pendingAction"
                      /\ o.mark[FirstOpen(o) - 1] = "passed"

(* A finished order waits for nobody before its stop node.                  *)
FinishesLast(o) ==
  o.status = "finished" /\ Untouched(o) =>
    \A i \in Waiting(o) : \E k \in 1..i : o.flow[k].type = "stop"

NodesInOrder == AnswersInOrder(workOrder)
PendingNamesFirstOpen == NamesFirst(workOrder)
FinishedMeansProcessed == FinishesLast(workOrder)
ExecutedWhenApproved ==
  cron.pc = "work" /\ Untouched(cron.copy) =>
    \E k \in ActionNodes(cron.copy) :
      /\ k = Lowest(ActionNodes(cron.copy))
      /\ k = Lowest(Waiting(cron.copy))
      /\ k > 1 /\ cron.copy.mark[FirstOpen(cron.copy) - 1] = "passed"

(* cron/auto_order.go:171: finishAutoAction moves the order on, to prevent  *)
(* an endless loop.  The cron job takes an order only for a node that is    *)
(* still to be executed.                                                    *)
ExecutedOnce == cron.pc = "work" => ActionNodes(cron.copy) # {}

=============================================================================
