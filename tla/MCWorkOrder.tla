----------------------------- MODULE MCWorkOrder -----------------------------
(* WorkOrder with the flows of models/db_mock_workorder.go, one that asks   *)
(* the service account before and after an approval, and one with two       *)
(* approvals.                                                               *)
EXTENDS WorkOrder, FiniteSets

CONSTANTS admin, test, account

Node(t, w) == [type |-> t, who |-> w]

MCNames == {admin, test, account}

MCFlows ==
  {<<Node("approval", admin), Node("action", account)>>,
   <<Node("start", test), Node("approval", admin), Node("stop", test)>>,
   <<Node("start", test), Node("approval", admin), Node("action", admin),
     Node("stop", test)>>,
   <<Node("start", test), Node("action", account), Node("stop", test)>>,
   <<Node("action", account), Node("approval", admin), Node("action", account)>>,
   <<Node("approval", admin), Node("approval", test), Node("action", account)>>}

(* Bound: of the requests, the robots and the cron job, two work at once.   *)
OrderBound ==
  Cardinality({r \in OrderRequests : request[r].pc # "idle"})
    + Cardinality({g \in Goroutines : robot[g].pc # "idle"})
    + Cardinality({c \in {cron} : c.pc # "idle"}) <= 2

=============================================================================
