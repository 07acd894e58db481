--------------------------- MODULE MCMonitorConfig ---------------------------
(* MonitorConfig with two pools of Prometheus, one of which may name an     *)
(* instance twice, and one of the Alertmanager.                             *)
EXTENDS MonitorConfig

MCPools == {1, 2, 3}
MCPoolTypeOf(p) == IF p = 3 THEN "alertm" ELSE "scrape"
MCPoolForms(p) ==
  CASE p = 1 -> {[ips |-> <<1, 2>>, supports |-> {"alert", "record"}]}
    [] p = 2 -> {[ips |-> <<2>>, supports |-> {}],
                 [ips |-> <<3, 3>>, supports |-> {"alert", "record"}],
                 [ips |-> <<3>>, supports |-> {"alert", "record"}]}
    [] p = 3 -> {[ips |-> <<1, 2>>, supports |-> {}]}
MCJobForms(i) ==
  {[sd |-> "apiserver", token |-> TRUE]}
    \cup (IF i = 1 THEN {[sd |-> "http", token |-> FALSE]} ELSE {})
MCItems == 1..7
MCItemTypeOf(i) ==
  CASE i \in {1, 2} -> "main"
    [] i \in {3, 4} -> "alert"
    [] i = 5 -> "record"
    [] i \in {6, 7} -> "alertmanager"

(* Bounds: a behaviour is about one file, and the pools and rows that it is *)
(* of, or that a rule names; nobody edits a pool while a pass goes on that  *)
(* another edit, or a fault, came between.                                  *)
RowsOfFile(f) == {i \in Items : ItemTypeOf(i) = f} \cup (IF f = "alert" THEN {6} ELSE {})

MonitorInitAbout(f) ==
  /\ pools = [p \in Pools |-> IF PoolTypeOf(p) = PoolTypeOfFile(f) THEN NoPool
                             ELSE [NoPool EXCEPT !.state = "gone"]]
  /\ items = [i \in Items |-> IF i \in RowsOfFile(f) THEN NoItem
                             ELSE [NoItem EXCEPT !.state = "gone"]]
  /\ served = [g \in Files |-> NoFiles]
  /\ gen = [g \in Files |-> IdleGenerator]
  /\ calm = [g \in Files |-> FALSE]
  /\ monReq = [r \in MonitorRequests |-> NoMonReq]
  /\ tableEdits = 0

MonitorBound(f) ==
  /\ \A i \in Items : items[i].group \in {0, 6}
  /\ \A g \in Files \ {f} : gen[g].pc = "idle"
  /\ \A r \in MonitorRequests :
       monReq[r].pc # "idle" => gen[f].pc = "idle" \/ calm[f]

=============================================================================
