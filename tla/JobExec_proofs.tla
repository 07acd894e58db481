---------------------------- MODULE JobExec_proofs ----------------------------
(***************************************************************************)
(* Proofs about JobExec, for any number of jobs, machines, calls and Task   *)
(* objects.  The server meets in an agent one of the environments that      *)
(* JobServer_proofs allows for, an agent in the server one of those         *)
(* that JobAgent_proofs allows for, so that what is proved of either half   *)
(* holds of the whole; what links a report to its result, its receipt and   *)
(* its row is proved here.                                                  *)
(***************************************************************************)
EXTENDS JobExec, TLAPS

(* The halves with their proofs; to the server agents may report anything.  *)
ServerP == INSTANCE JobServer_proofs
             WITH Reported <- Agent!Reports \ {"absent"}
AgentP  == INSTANCE JobAgent_proofs

-----------------------------------------------------------------------------
(* What the proofs of the halves assume.                                    *)
LEMMA SameReports == Agent!Reports = ServerP!Reports /\ Agent!Reports = AgentP!Reports
BY Zenon DEF Agent!Reports, Agent!Unset, ServerP!Reports, AgentP!Reports, AgentP!Unset

LEMMA SameFinite == Server!IsFiniteSet(Hosts) => ServerP!IsFiniteSet(Hosts)
BY Zenon DEF Server!IsFiniteSet, ServerP!IsFiniteSet

-----------------------------------------------------------------------------
(* The operations of the server are those that its proofs are about.        *)
LEMMA SameOperator ==
  /\ Server!Operator <=> ServerP!Operator
  /\ \A j : Server!MinutePasses(j) <=> ServerP!MinutePasses(j)
  /\ Server!RestartServer <=> ServerP!RestartServer
BY Zenon DEF Server!Operator, Server!createJobExecTask, Server!updateJobExecTask,
       Server!deleteJobExecTask, Server!DeleteOne, Server!actionJobExecTaskOne,
       Server!UpdateOne, Server!Exists, Server!NoRow, Server!Overwrite,
       Server!NextStatus, Server!MinutePasses, Server!RestartServer, Server!Nothing,
       Server!IdleSync, Server!FreeCall, Server!NoReport, Server!NoTasks,
       ServerP!Operator, ServerP!createJobExecTask, ServerP!updateJobExecTask,
       ServerP!deleteJobExecTask, ServerP!DeleteOne, ServerP!actionJobExecTaskOne,
       ServerP!UpdateOne, ServerP!Exists, ServerP!NoRow, ServerP!Overwrite,
       ServerP!NextStatus, ServerP!MinutePasses, ServerP!RestartServer, ServerP!Nothing,
       ServerP!IdleSync, ServerP!FreeCall, ServerP!NoReport, ServerP!NoTasks

LEMMA SameScheduler == Server!Scheduler <=> ServerP!Scheduler
<1>1. Server!SyncScan <=> ServerP!SyncScan
  BY Zenon DEF Server!SyncScan, Server!Nothing, Server!NoRow,
         ServerP!SyncScan, ServerP!Nothing, ServerP!NoRow
<1>2. \A j : Server!SyncTask(j) <=> ServerP!SyncTask(j)
  BY Zenon DEF Server!SyncTask, Server!UpdateOne, Server!Exists, Server!Overwrite,
         Server!Enlist, Server!FirstHosts, Server!Unscheduled,
         Server!Cardinality,
         ServerP!SyncTask, ServerP!UpdateOne, ServerP!Exists, ServerP!Overwrite,
         ServerP!Enlist, ServerP!FirstHosts, ServerP!Unscheduled,
         ServerP!Cardinality
<1>3. Server!SyncSwap <=> ServerP!SyncSwap
  BY Zenon DEF Server!SyncSwap, Server!IdleSync, Server!NoRow, Server!Nothing,
         ServerP!SyncSwap, ServerP!IdleSync, ServerP!NoRow, ServerP!Nothing
<1>. QED
  BY <1>1, <1>2, <1>3, Zenon DEF Server!Scheduler, ServerP!Scheduler

LEMMA SameHandler == \A c : Server!Handle(c) <=> ServerP!Handle(c)
<1>0. \A c : Server!NextResult(c) <=> ServerP!NextResult(c)
  BY Zenon DEF Server!NextResult, Server!NoRow, ServerP!NextResult, ServerP!NoRow
<1>1. \A c, j : Server!SaveResult(c, j) <=> ServerP!SaveResult(c, j)
  BY Zenon DEF Server!SaveResult, Server!Recorded, ServerP!SaveResult, ServerP!Recorded
<1>2. \A c : Server!JudgeByOnErrorStrategy(c) <=> ServerP!JudgeByOnErrorStrategy(c)
  BY Zenon DEF Server!JudgeByOnErrorStrategy, Server!Exists, Server!StrategyStatus, Server!Goto,
         ServerP!JudgeByOnErrorStrategy, ServerP!Exists, ServerP!StrategyStatus, ServerP!Goto
<1>3. \A c : Server!JudgeWrite(c) <=> ServerP!JudgeWrite(c)
  BY Zenon DEF Server!JudgeWrite, Server!UpdateOne, Server!Exists, Server!Overwrite, Server!NoRow,
         ServerP!JudgeWrite, ServerP!UpdateOne, ServerP!Exists, ServerP!Overwrite, ServerP!NoRow
<1>4. \A c : Server!RereadJob(c) <=> ServerP!RereadJob(c)
  BY <1>0, Zenon DEF Server!RereadJob, ServerP!RereadJob
<1>5. \A c : Server!CheckAndComplete(c) <=> ServerP!CheckAndComplete(c)
  BY <1>0, Zenon DEF Server!CheckAndComplete, Server!Completed, Server!Results, Server!Cardinality,
         ServerP!CheckAndComplete, ServerP!Completed, ServerP!Results, ServerP!Cardinality
<1>6. \A c : Server!CompleteWrite(c) <=> ServerP!CompleteWrite(c)
  BY <1>0, Zenon DEF Server!CompleteWrite, Server!UpdateOne, Server!Exists, Server!Overwrite,
         ServerP!CompleteWrite, ServerP!UpdateOne, ServerP!Exists, ServerP!Overwrite
<1>7. \A c : Server!GetTaskByIp(c) <=> ServerP!GetTaskByIp(c)
  BY Zenon DEF Server!GetTaskByIp, Server!NoReport, ServerP!GetTaskByIp, ServerP!NoReport
<1>8. \A c : Server!AssignTasks(c) <=> ServerP!AssignTasks(c)
  BY Zenon DEF Server!AssignTasks, Server!GetOrCreate, ServerP!AssignTasks, ServerP!GetOrCreate
<1>. QED
  BY <1>1, <1>2, <1>3, <1>4, <1>5, <1>6, <1>7, <1>8, Zenon DEF Server!Handle, ServerP!Handle

LEMMA SameCalls ==
  /\ \A c, h, r : Server!Receive(c, h, r) <=> ServerP!Receive(c, h, r)
  /\ \A c : Server!Return(c) <=> ServerP!Return(c)
BY Zenon DEF Server!Receive, Server!Return, Server!FreeCall, Server!NoReport, Server!NoTasks,
       Server!NoRow, ServerP!Receive, ServerP!Return, ServerP!FreeCall, ServerP!NoReport,
       ServerP!NoTasks, ServerP!NoRow

(* And so are those of an agent.                                            *)
LEMMA SameReport ==
  \A h : /\ Agent!GetResults(h) = AgentP!GetResults(h)
         /\ Agent!SendReport(h) <=> AgentP!SendReport(h)
         /\ Agent!StartsAreOver(h) <=> AgentP!StartsAreOver(h)
         /\ Agent!ReportFails(h) <=> AgentP!ReportFails(h)
         /\ \A tasks, acked :
              Agent!ReceiveResponse(h, tasks, acked) <=> AgentP!ReceiveResponse(h, tasks, acked)
BY Zenon DEF Agent!GetResults, Agent!SendReport, Agent!StartsAreOver, Agent!ReportFails,
       Agent!IdleAgent, Agent!ReceiveResponse, Agent!OnDisk,
       AgentP!GetResults, AgentP!SendReport, AgentP!StartsAreOver, AgentP!ReportFails,
       AgentP!IdleAgent, AgentP!ReceiveResponse, AgentP!OnDisk

LEMMA SameAssign == \A h : Agent!AssignTask(h) <=> AgentP!AssignTask(h)
BY Zenon DEF Agent!AssignTask, Agent!Unknown, Agent!Unused, Agent!FreeTask, Agent!Unset,
       Agent!IdleAgent, AgentP!AssignTask, AgentP!Unknown, AgentP!Unused, AgentP!FreeTask,
       AgentP!Unset, AgentP!IdleAgent

LEMMA SameRestart == \A h : Agent!Restart(h) <=> AgentP!Restart(h)
BY Zenon DEF Agent!Restart, Agent!OnDisk, Agent!Live, Agent!Unused, Agent!FreeTask, Agent!Unset,
       Agent!IdleAgent, AgentP!Restart, AgentP!OnDisk, AgentP!Live, AgentP!Unused,
       AgentP!FreeTask, AgentP!Unset, AgentP!IdleAgent

LEMMA SameTasks ==
  \A t : /\ Agent!Prepare(t) <=> AgentP!Prepare(t)
         /\ Agent!StartProcess(t) <=> AgentP!StartProcess(t)
         /\ \A s : Agent!ProcessExits(t, s) <=> AgentP!ProcessExits(t, s)
         /\ Agent!PersistResult(t) <=> AgentP!PersistResult(t)
         /\ Agent!OrphanExits(t) <=> AgentP!OrphanExits(t)
         /\ Agent!Kill(t) <=> AgentP!Kill(t)
BY Zenon DEF Agent!Prepare, Agent!StartProcess, Agent!ProcessExits, Agent!PersistResult,
       Agent!OrphanExits, Agent!Kill, Agent!FreeTask, Agent!Unset,
       AgentP!Prepare, AgentP!StartProcess, AgentP!ProcessExits, AgentP!PersistResult,
       AgentP!OrphanExits, AgentP!Kill, AgentP!FreeTask, AgentP!Unset

LEMMA SameInit ==
  /\ Server!Init => ServerP!Init
  /\ Agent!Init => AgentP!Init
<1>1. Server!Init => ServerP!Init
  BY Zenon DEF Server!Init, Server!NoRow, Server!Nothing, Server!IdleSync, Server!FreeCall,
         Server!NoReport, Server!NoTasks, ServerP!Init, ServerP!NoRow, ServerP!Nothing,
         ServerP!IdleSync, ServerP!FreeCall, ServerP!NoReport, ServerP!NoTasks
<1>2. Agent!Init => AgentP!Init
  BY Zenon DEF Agent!Init, Agent!FreeTask, Agent!Unset, Agent!IdleAgent,
         AgentP!Init, AgentP!FreeTask, AgentP!Unset, AgentP!IdleAgent
<1>. QED
  BY <1>1, <1>2

-----------------------------------------------------------------------------
(* The steps of JobExec, by what they do to either half and to who waits.   *)
Reporting(h, c) ==
  /\ AgentP!SendReport(h)
  /\ ServerP!Receive(c, h, AgentP!GetResults(h))
  /\ waits' = [waits EXCEPT ![h] = c]

Answering(h, c) ==
  /\ waits[h] = c
  /\ ServerP!Return(c)
  /\ IF call[c].err THEN AgentP!ReportFails(h)
     ELSE AgentP!ReceiveResponse(h, call[c].tasks, call[c].acked)
  /\ waits' = [waits EXCEPT ![h] = NoCall]

Discarding(c) ==
  /\ \A h \in Hosts : waits[h] # c
  /\ ServerP!Return(c)
  /\ UNCHANGED <<agentVars, waits>>

ServerActs == ServerP!Inner /\ UNCHANGED <<agentVars, waits>>

ServerAgain ==
  /\ ServerP!RestartServer
  /\ waits' = [h \in Hosts |-> NoCall]
  /\ UNCHANGED agentVars

GivingUp(h) ==
  /\ \/ AgentP!ReportFails(h)
     \/ AgentP!Crash(h)
     \/ \E t \in TaskIds : task[t].host = h /\ AgentP!KillPanics(t)
  /\ waits' = [waits EXCEPT ![h] = NoCall]
  /\ UNCHANGED serverVars

AgentActs ==
  /\ \/ \E h \in Hosts :
          AgentP!AssignTask(h) \/ \E j \in Jobs : AgentP!HourPasses(h, j)
     \/ \E t \in TaskIds :
          \/ AgentP!Prepare(t)
          \/ AgentP!StartProcess(t)
          \/ \E s \in Reported : AgentP!ProcessExits(t, s)
          \/ AgentP!PersistResult(t)
          \/ AgentP!OrphanExits(t)
          \/ AgentP!Kill(t)
  /\ UNCHANGED <<serverVars, waits>>

Step ==
  \/ \E h \in Hosts, c \in Calls : Reporting(h, c) \/ Answering(h, c)
  \/ \E c \in Calls : Discarding(c)
  \/ ServerActs
  \/ ServerAgain
  \/ \E h \in Hosts : GivingUp(h)
  \/ AgentActs

LEMMA SameHours ==
  \A h, j : Agent!HourPasses(h, j) <=> AgentP!HourPasses(h, j)
BY Zenon DEF Agent!HourPasses, AgentP!HourPasses

LEMMA SameCrash ==
  /\ \A h : Agent!Crash(h) <=> AgentP!Crash(h)
  /\ \A t : Agent!KillPanics(t) <=> AgentP!KillPanics(t)
BY SameRestart, Zenon DEF Agent!Crash, AgentP!Crash, Agent!KillPanics, AgentP!KillPanics

LEMMA NextSteps == Next => Step
<1>1. ServerStep => ServerActs
  BY SameOperator, SameScheduler, SameHandler, Zenon DEF ServerStep, ServerActs, ServerP!Inner
<1>2. ServerRestarts => ServerAgain
  BY SameOperator, Zenon DEF ServerRestarts, ServerAgain
<1>3. \A h, c : Report(h, c) => Reporting(h, c)
  <2>. SUFFICES ASSUME NEW h, NEW c, Report(h, c) PROVE Reporting(h, c)
    OBVIOUS
  <2>1. /\ AgentP!SendReport(h) /\ waits' = [waits EXCEPT ![h] = c]
        /\ Server!Receive(c, h, Agent!GetResults(h))
    BY SameReport DEF Report
  <2>2. Agent!GetResults(h) = AgentP!GetResults(h)
    BY SameReport
  <2>3. Server!Receive(c, h, AgentP!GetResults(h))
    BY <2>1, <2>2
  <2>. QED
    BY <2>1, <2>3, SameCalls DEF Reporting
<1>4. \A h, c : Deliver(h, c) => Answering(h, c)
  BY SameCalls, SameReport, Zenon DEF Deliver, Answering
<1>5. \A c : Discard(c) => Discarding(c)
  BY SameCalls, Zenon DEF Discard, Discarding
<1>6. \A h : Timeout(h) \/ AgentRestarts(h) => GivingUp(h)
  BY SameReport, SameCrash, Zenon DEF Timeout, AgentRestarts, GivingUp
<1>7. \A h \in Hosts : AgentStep(h) => AgentActs
  BY SameAssign, SameHours, Zenon DEF AgentStep, AgentActs
<1>8. \A t \in TaskIds : TaskStep(t) => AgentActs
  BY SameTasks, Zenon DEF TaskStep, AgentActs
<1>. QED
  BY <1>1, <1>2, <1>3, <1>4, <1>5, <1>6, <1>7, <1>8 DEF Next, Step

-----------------------------------------------------------------------------
(* Who waits for what.                                                      *)

(* The agent of h waits for the call c: it is the call that the agent made, *)
(* its results and its receipts are for what the agent sent.                *)
Link(h, c) ==
  /\ agent[h].pc = "calling"
  /\ call[c].pc # "free"
  /\ call[c].host = h
  /\ \A j \in Jobs :
       /\ call[c].todo[j] # "absent" => call[c].todo[j] = agent[h].sent[j]
       /\ j \in call[c].acked => agent[h].sent[j] # "absent"

Links ==
  /\ waits \in [Hosts -> Calls \cup {NoCall}]
  /\ \A h \in Hosts : waits[h] # NoCall => Link(h, waits[h])

Halves == ServerP!Inv /\ AgentP!AgentInv /\ Links

LEMMA CallTypes ==
  ASSUME ServerP!Inv, NEW c \in Calls
  PROVE  /\ call[c].tasks \in [Jobs -> {"no", "run", "kill"}]
         /\ call[c].acked \in SUBSET Jobs
         /\ call[c].todo \in [Jobs -> ServerP!Reports]
         /\ call[c].pc # "free" => call[c].host \in Hosts
<1>1. call[c] \in ServerP!CallRecord /\ (call[c].pc # "free" => call[c].host # 0)
  BY DEF ServerP!Inv, ServerP!TypeOK
<1>. QED
  BY <1>1 DEF ServerP!CallRecord, ServerP!CacheEntries

LEMMA GetResultsType ==
  ASSUME AgentP!AgentInv, NEW h \in Hosts
  PROVE  AgentP!GetResults(h) \in [Jobs -> AgentP!Reports]
<1>. SUFFICES ASSUME NEW j \in Jobs, lm[h][j] # NoTask, task[lm[h][j]].status # "running"
              PROVE  task[lm[h][j]].status \in AgentP!Reports
  BY DEF AgentP!GetResults, AgentP!Reports
<1>1. lm[h][j] \in TaskIds /\ task \in [TaskIds -> AgentP!TaskRecord]
  BY DEF AgentP!AgentInv, AgentP!TypeOK
<1>2. task[lm[h][j]].status \in AgentP!Statuses
  BY <1>1 DEF AgentP!TaskRecord
<1>. QED
  BY <1>2 DEF AgentP!Statuses, AgentP!Reports

(* What the proofs of the server say of its steps.                          *)
LEMMA ReceiveEffect ==
  ASSUME ServerP!TypeOK, NEW c \in Calls, NEW h, NEW results, ServerP!Receive(c, h, results)
  PROVE  /\ call[c].pc = "free"
         /\ call'[c].pc = "next" /\ call'[c].host = h /\ call'[c].todo = results
         /\ call'[c].acked = {}
         /\ \A d \in Calls : d # c => call'[d] = call[d]
         /\ row' = row
BY ServerP!ReceiveEffect, SameReports, SameFinite, ExecAssumption

LEMMA ReturnEffect ==
  ASSUME ServerP!TypeOK, NEW c \in Calls, ServerP!Return(c)
  PROVE  /\ call[c].pc = "reply"
         /\ call'[c].pc = "free"
         /\ \A d \in Calls : d # c => call'[d] = call[d]
         /\ row' = row
BY ServerP!ReturnEffect, SameReports, SameFinite, ExecAssumption

LEMMA InnerEffect ==
  ASSUME ServerP!TypeOK, ServerP!Inner
  PROVE  \/ UNCHANGED <<row, call>>
         \/ \E c \in Calls :
              /\ ServerP!Handled(c)
              /\ \A d \in Calls : d # c => call'[d] = call[d]
BY ServerP!InnerEffect, SameReports, SameFinite, ExecAssumption

LEMMA RestartEffect ==
  ServerP!RestartServer => row' = row /\ \A c \in Calls : call'[c].pc = "free"
BY ServerP!RestartEffect, SameReports, SameFinite, ExecAssumption

(* What a restart, or the end of a wait, does to the agents.                *)
LEMMA OtherAgents ==
  ASSUME AgentP!AgentInv, NEW k \in Hosts, NEW h \in Hosts, h # k,
         \/ AgentP!SendReport(k) \/ AgentP!ReportFails(k)
         \/ \E tasks, acked : AgentP!ReceiveResponse(k, tasks, acked)
         \/ AgentP!AssignTask(k) \/ AgentP!Restart(k)
  PROVE  agent'[h] = agent[h]
<1>1. agent \in [Hosts -> AgentP!AgentRecord]
  BY DEF AgentP!AgentInv, AgentP!TypeOK
<1>. QED
  BY <1>1 DEF AgentP!SendReport, AgentP!ReportFails, AgentP!ReceiveResponse,
     AgentP!AssignTask, AgentP!Restart

LEMMA GivingUpMoves ==
  \A h : GivingUp(h) => AgentP!ReportFails(h) \/ AgentP!Restart(h)
BY DEF GivingUp, AgentP!Crash, AgentP!KillPanics

LEMMA Waiting ==
  ASSUME Halves, Step, NEW h \in Hosts, waits'[h] # NoCall
  PROVE  \/ Reporting(h, waits'[h])
         \/ /\ waits'[h] = waits[h]
            /\ agent'[h] = agent[h]
            /\ \/ call'[waits[h]] = call[waits[h]]
               \/ ServerP!Handled(waits[h])
<1>. DEFINE Goal == \/ Reporting(h, waits'[h])
                    \/ /\ waits'[h] = waits[h]
                       /\ agent'[h] = agent[h]
                       /\ \/ call'[waits[h]] = call[waits[h]]
                          \/ ServerP!Handled(waits[h])
<1>0. /\ ServerP!Inv /\ AgentP!AgentInv /\ ServerP!TypeOK
      /\ waits \in [Hosts -> Calls \cup {NoCall}]
      /\ \A k \in Hosts : waits[k] # NoCall => Link(k, waits[k])
      /\ NoCall \notin Calls
  BY ExecAssumption DEF Halves, Links, ServerP!Inv
<1>1. ASSUME NEW k \in Hosts, NEW c \in Calls, Reporting(k, c) PROVE Goal
  <2>1. /\ call[c].pc = "free" /\ \A d \in Calls : d # c => call'[d] = call[d]
        /\ waits' = [waits EXCEPT ![k] = c] /\ AgentP!SendReport(k)
    BY <1>0, <1>1, ReceiveEffect DEF Reporting
  <2>2. CASE k = h
    BY <1>0, <1>1, <2>1, <2>2
  <2>3. CASE k # h
    BY <1>0, <2>1, <2>3, OtherAgents DEF Link
  <2>. QED
    BY <2>2, <2>3
<1>2. ASSUME NEW k \in Hosts, NEW c \in Calls, Answering(k, c) PROVE Goal
  <2>1. /\ waits[k] = c /\ waits' = [waits EXCEPT ![k] = NoCall]
        /\ \A d \in Calls : d # c => call'[d] = call[d]
    BY <1>0, <1>2, ReturnEffect DEF Answering
  <2>2. \/ AgentP!ReportFails(k)
        \/ \E tasks, acked : AgentP!ReceiveResponse(k, tasks, acked)
    BY <1>2 DEF Answering
  <2>3. k # h
    BY <1>0, <2>1
  <2>4. waits[h] # c
    BY <1>0, <2>1, <2>3 DEF Link
  <2>. QED
    BY <1>0, <2>1, <2>2, <2>3, <2>4, OtherAgents
<1>3. ASSUME NEW c \in Calls, Discarding(c) PROVE Goal
  <2>1. /\ waits[h] # c /\ \A d \in Calls : d # c => call'[d] = call[d]
        /\ waits' = waits /\ agent' = agent
    BY <1>0, <1>3, ReturnEffect DEF Discarding, agentVars
  <2>. QED
    BY <1>0, <2>1
<1>4. CASE ServerActs
  <2>1. waits' = waits /\ agent' = agent /\ ServerP!Inner
    BY <1>4 DEF ServerActs, agentVars
  <2>2. \/ call' = call
        \/ \E c \in Calls :
             /\ ServerP!Handled(c)
             /\ \A d \in Calls : d # c => call'[d] = call[d]
    BY <1>0, <2>1, InnerEffect
  <2>. QED
    BY <1>0, <2>1, <2>2
<1>5. ~ServerAgain
  BY DEF ServerAgain
<1>6. ASSUME NEW k \in Hosts, GivingUp(k) PROVE Goal
  <2>1. waits' = [waits EXCEPT ![k] = NoCall] /\ call' = call
    BY <1>6 DEF GivingUp, serverVars
  <2>2. k # h
    BY <1>0, <2>1
  <2>. QED
    BY <1>0, <1>6, <2>1, <2>2, GivingUpMoves, OtherAgents
<1>7. CASE AgentActs
  <2>1. waits' = waits /\ call' = call
    BY <1>7 DEF AgentActs, serverVars
  <2>2. agent[h].pc = "calling"
    BY <1>0, <2>1 DEF Link
  <2>3. agent' = agent \/ \E k \in Hosts : AgentP!AssignTask(k)
    BY <1>7 DEF AgentActs, AgentP!HourPasses, AgentP!Prepare, AgentP!StartProcess,
       AgentP!ProcessExits, AgentP!PersistResult, AgentP!OrphanExits, AgentP!Kill
  <2>4. ~AgentP!AssignTask(h)
    BY <2>2 DEF AgentP!AssignTask
  <2>. QED
    BY <1>0, <2>1, <2>3, <2>4, OtherAgents
<1>. QED
  BY <1>1, <1>2, <1>3, <1>4, <1>5, <1>6, <1>7 DEF Step

LEMMA LinksKept ==
  ASSUME Halves, Step
  PROVE  Links'
<1>0. /\ ServerP!Inv /\ AgentP!AgentInv /\ ServerP!TypeOK
      /\ waits \in [Hosts -> Calls \cup {NoCall}]
      /\ \A h \in Hosts : waits[h] # NoCall => Link(h, waits[h])
      /\ agent \in [Hosts -> AgentP!AgentRecord]
      /\ NoCall \notin Calls
  BY ExecAssumption DEF Halves, Links, ServerP!Inv, AgentP!AgentInv, AgentP!TypeOK
<1>1. waits' \in [Hosts -> Calls \cup {NoCall}]
  BY <1>0 DEF Step, Reporting, Answering, Discarding, ServerActs, ServerAgain, GivingUp, AgentActs
<1>2. ASSUME NEW h \in Hosts, NEW c \in Calls, waits'[h] = c PROVE Link(h, c)'
  <2>0. waits'[h] # NoCall
    BY <1>0, <1>2
  <2>1. CASE Reporting(h, c)
    <3>1. /\ call'[c].pc = "next" /\ call'[c].host = h
          /\ call'[c].todo = AgentP!GetResults(h) /\ call'[c].acked = {}
      BY <1>0, <2>1, ReceiveEffect DEF Reporting
    <3>2. agent'[h].pc = "calling" /\ agent'[h].sent = AgentP!GetResults(h)
      BY <1>0, <2>1 DEF Reporting, AgentP!SendReport, AgentP!AgentRecord
    <3>. QED
      BY <3>1, <3>2 DEF Link
  <2>2. CASE waits'[h] = waits[h] /\ agent'[h] = agent[h] /\ call'[waits[h]] = call[waits[h]]
    BY <1>0, <1>2, <2>0, <2>2 DEF Link
  <2>3. CASE waits'[h] = waits[h] /\ agent'[h] = agent[h] /\ ServerP!Handled(waits[h])
    <3>1. c = waits[h] /\ Link(h, c) /\ ServerP!Handled(c) /\ call[c].todo \in [Jobs -> ServerP!Reports]
      BY <1>0, <1>2, <2>0, <2>3, CallTypes
    <3>2. \A j \in Jobs : call'[c].todo[j] \in {call[c].todo[j], "absent"}
      BY <3>1 DEF ServerP!Handled, ServerP!Goes, ServerP!Saves, ServerP!Assigns
    <3>3. \A j \in Jobs :
            j \in call'[c].acked => j \in call[c].acked \/ call[c].todo[j] # "absent"
      BY <3>1 DEF ServerP!Handled, ServerP!Goes, ServerP!Saves, ServerP!Assigns
    <3>. QED
      BY <2>3, <3>1, <3>2, <3>3 DEF Link, ServerP!Handled
  <2>. QED
    BY <1>2, <2>0, <2>1, <2>2, <2>3, Waiting
<1>3. \A h \in Hosts : waits'[h] # NoCall => Link(h, waits[h])'
  BY <1>1, <1>2 DEF Link
<1>. QED
  BY <1>1, <1>3 DEF Links

(* Either half takes a step of its own, or none.                            *)
LEMMA ServerSteps ==
  ASSUME Halves, Step
  PROVE  ServerP!Next \/ UNCHANGED serverVars
<1>1. ASSUME NEW h \in Hosts, NEW c \in Calls, Reporting(h, c) PROVE ServerP!Next
  <2>1. AgentP!GetResults(h) \in [Jobs -> (Agent!Reports \ {"absent"}) \cup {"absent"}]
    BY GetResultsType, SameReports DEF Halves
  <2>. QED
    BY <1>1, <2>1 DEF Reporting, ServerP!Next
<1>2. ASSUME NEW c \in Calls, ServerP!Return(c) PROVE ServerP!Next
  BY <1>2 DEF ServerP!Next
<1>3. ServerActs => ServerP!Next
  BY DEF ServerActs, ServerP!Inner, ServerP!Next
<1>4. ServerAgain => ServerP!Next
  BY DEF ServerAgain, ServerP!Next
<1>5. AgentActs \/ (\E h \in Hosts : GivingUp(h)) => UNCHANGED serverVars
  BY DEF AgentActs, GivingUp
<1>. QED
  BY <1>1, <1>2, <1>3, <1>4, <1>5 DEF Step, Answering, Discarding

LEMMA AgentSteps ==
  ASSUME Halves, Step
  PROVE  AgentP!Next \/ UNCHANGED agentVars
<1>1. \A h \in Hosts, c \in Calls : Reporting(h, c) => AgentP!Next
  BY DEF Reporting, AgentP!Next
<1>2. ASSUME NEW h \in Hosts, NEW c \in Calls, Answering(h, c) PROVE AgentP!Next
  <2>1. Link(h, c)
    BY <1>2, ExecAssumption DEF Halves, Links, Answering
  <2>2. /\ call[c].tasks \in [Jobs -> {"no", "run", "kill"}]
        /\ call[c].acked \in SUBSET {j \in Jobs : agent[h].sent[j] # "absent"}
    BY <2>1, CallTypes DEF Halves, Link
  <2>3. \/ AgentP!ReportFails(h)
        \/ AgentP!ReceiveResponse(h, call[c].tasks, call[c].acked)
    BY <1>2 DEF Answering
  <2>4. AgentP!ReportFails(h) \/ AgentP!AnyResponse(h)
    BY <2>2, <2>3 DEF AgentP!AnyResponse
  <2>. QED
    BY <2>4 DEF AgentP!Next
<1>3. \A h \in Hosts : GivingUp(h) => AgentP!Next
  BY DEF GivingUp, AgentP!Next, AgentP!TaskStep
<1>4. AgentActs => AgentP!Next
  BY DEF AgentActs, AgentP!Next, AgentP!TaskStep
<1>5. \/ \E c \in Calls : Discarding(c)
      \/ ServerActs
      \/ ServerAgain
      => UNCHANGED agentVars
  BY DEF Discarding, ServerActs, ServerAgain
<1>. QED
  BY <1>1, <1>2, <1>3, <1>4, <1>5 DEF Step

LEMMA InitHalves == Init => Halves
<1>. SUFFICES ASSUME Init PROVE Halves
  OBVIOUS
<1>1. ServerP!Init /\ AgentP!Init /\ waits = [h \in Hosts |-> NoCall]
  BY SameInit DEF Init
<1>2. ServerP!Inv
  BY <1>1, ServerP!InitInv, SameReports, SameFinite, ExecAssumption
<1>3. AgentP!AgentInv
  BY <1>1, AgentP!InitAgentInv, ExecAssumption
<1>4. Links
  BY <1>1 DEF Links
<1>. QED
  BY <1>2, <1>3, <1>4 DEF Halves

LEMMA ServerInvKept ==
  ASSUME ServerP!Inv, ServerP!Next \/ UNCHANGED serverVars
  PROVE  ServerP!Inv'
<1>1. [ServerP!Next]_(ServerP!vars)
  BY DEF serverVars, ServerP!vars
<1>. QED
  BY <1>1, ServerP!NextInv, SameReports, SameFinite, ExecAssumption

LEMMA AgentInvKept ==
  ASSUME AgentP!AgentInv, AgentP!Next \/ UNCHANGED agentVars, "slow_start" \notin Faults
  PROVE  AgentP!AgentInv'
<1>1. CASE AgentP!Next
  <2>1. AgentP!AgentMoves \/ AgentP!Aging
    BY <1>1, AgentP!NextMoves, ExecAssumption
  <2>. QED
    BY <2>1, AgentP!MovesKeepAgentInv, ExecAssumption
<1>2. CASE UNCHANGED agentVars
  BY <1>2, AgentP!AgentInvStutters, ExecAssumption DEF agentVars
<1>. QED
  BY <1>1, <1>2

LEMMA HalvesKept ==
  ASSUME Halves, Next \/ UNCHANGED vars, "slow_start" \notin Faults
  PROVE  Halves'
<1>1. CASE Next
  <2>1. Step
    BY <1>1, NextSteps
  <2>2. ServerP!Next \/ UNCHANGED serverVars
    BY <2>1, ServerSteps
  <2>3. AgentP!Next \/ UNCHANGED agentVars
    BY <2>1, AgentSteps
  <2>4. ServerP!Inv'
    BY <2>2, ServerInvKept DEF Halves
  <2>5. AgentP!AgentInv'
    BY <2>3, AgentInvKept DEF Halves
  <2>. QED
    BY <2>1, <2>4, <2>5, LinksKept DEF Halves
<1>2. CASE UNCHANGED vars
  <2>1. UNCHANGED serverVars /\ UNCHANGED agentVars /\ UNCHANGED <<call, agent, waits>>
    BY <1>2 DEF vars, serverVars, agentVars
  <2>2. ServerP!Inv' /\ AgentP!AgentInv'
    BY <2>1, ServerInvKept, AgentInvKept DEF Halves
  <2>3. Links'
    BY <2>1 DEF Halves, Links, Link
  <2>. QED
    BY <2>2, <2>3 DEF Halves
<1>. QED
  BY <1>1, <1>2

-----------------------------------------------------------------------------
(* What is true of the rows, the reports and the receipts as long as the    *)
(* directory of a run counts.                                               *)

(* A recorded result, or one on its way, is of a run that has ended; one    *)
(* that was killed is of a run that had begun, after which no other will.   *)
Results ==
  /\ \A h \in Hosts, j \in Jobs :
       /\ row[j][h] \in {"success", "failed"} => AgentP!Ended(h, j)
       /\ row[j][h] = "killed" => AgentP!Started(h, j)
  /\ \A c \in Calls, h \in Hosts, j \in Jobs :
       call[c].pc # "free" /\ call[c].host = h =>
         /\ call[c].todo[j] \in {"success", "failed"} => AgentP!Ended(h, j)
         /\ call[c].todo[j] = "killed" => AgentP!Started(h, j)

Final(j, h) == row[j][h] \notin {"none", "running"}

(* A receipt is for a result that is recorded, or for an empty one.         *)
Receipted ==
  \A h \in Hosts, j \in Jobs :
    /\ waits[h] # NoCall /\ j \in call[waits[h]].acked
         => agent[h].sent[j] = AgentP!Unset \/ Final(j, h)
    /\ agent[h].pc = "assigning" /\ j \in agent[h].acked
         => task[lm[h][j]].status = AgentP!Unset \/ Final(j, h)

History ==
  /\ Halves
  /\ AgentP!DiskInv
  /\ AgentP!Commands
  /\ AgentP!EmptyReports
  /\ Results
  /\ Receipted

(* What was handed out has its row, on the way to the machine and there.    *)
Booked ==
  /\ \A t \in TaskIds, h \in Hosts, j \in Jobs :
       AgentP!Active(t, h, j) => row[j][h] # "none"
  /\ \A h \in Hosts, j \in Jobs :
       agent[h].pc = "assigning" /\ agent[h].tasks[j] # "no" => row[j][h] # "none"
  /\ \A c \in Calls, h \in Hosts, j \in Jobs :
       /\ call[c].pc = "reply" /\ call[c].host = h
       /\ ~call[c].err /\ call[c].tasks[j] # "no"
       => row[j][h] # "none"

-----------------------------------------------------------------------------
(* What a step does to a call, to a row and to an agent.                    *)
LEMMA CallSteps ==
  ASSUME Halves, Step, NEW c \in Calls
  PROVE  \/ call'[c] = call[c]
         \/ call'[c].pc = "free"
         \/ ServerP!Handled(c)
         \/ \E h \in Hosts : Reporting(h, c)
<1>0. ServerP!TypeOK
  BY DEF Halves, ServerP!Inv
<1>1. ASSUME NEW h \in Hosts, NEW d \in Calls, Reporting(h, d)
      PROVE  call'[c] = call[c] \/ Reporting(h, c)
  BY <1>0, <1>1, ReceiveEffect DEF Reporting
<1>2. ASSUME NEW d \in Calls, ServerP!Return(d) PROVE call'[c] = call[c] \/ call'[c].pc = "free"
  BY <1>0, <1>2, ReturnEffect
<1>3. ServerActs => call'[c] = call[c] \/ ServerP!Handled(c)
  BY <1>0, InnerEffect DEF ServerActs
<1>4. ServerAgain => call'[c].pc = "free"
  BY RestartEffect DEF ServerAgain
<1>5. AgentActs \/ (\E h \in Hosts : GivingUp(h)) => call'[c] = call[c]
  BY DEF AgentActs, GivingUp, serverVars
<1>. QED
  BY <1>1, <1>2, <1>3, <1>4, <1>5 DEF Step, Answering, Discarding

LEMMA RowsKept ==
  ASSUME Halves, Step, NEW j \in Jobs, NEW h \in Hosts
  PROVE  /\ row[j][h] # "none" => row'[j][h] # "none"
         /\ Final(j, h) => Final(j, h)'
<1>1. [ServerP!Next]_(ServerP!vars)
  BY ServerSteps DEF serverVars, ServerP!vars
<1>. QED
  BY <1>1, ServerP!StepsSettleRows, SameReports, SameFinite, ExecAssumption DEF Halves, Final

LEMMA RecordedIs ==
  \A old, res : /\ ServerP!Recorded(old, res) \in {old, res}
                /\ res # AgentP!Unset => ServerP!Recorded(old, res) = res
BY Zenon DEF ServerP!Recorded, AgentP!Unset

LEMMA RowSteps ==
  ASSUME Halves, Step, NEW j \in Jobs, NEW h \in Hosts
  PROVE  \/ row'[j][h] \in {row[j][h], "running"}
         \/ \E c \in Calls :
              call[c].pc # "free" /\ call[c].host = h /\ call[c].todo[j] = row'[j][h]
<1>0. ServerP!TypeOK /\ row \in [Jobs -> [Hosts -> ServerP!RowStatuses]]
  BY DEF Halves, ServerP!Inv, ServerP!TypeOK
<1>1. row' = row \/ (ServerActs /\ \E c \in Calls : ServerP!Handled(c))
  BY <1>0, ReceiveEffect, ReturnEffect, InnerEffect, RestartEffect
     DEF Step, Reporting, Answering, Discarding, ServerActs, ServerAgain, GivingUp, AgentActs,
         serverVars
<1>2. ASSUME NEW c \in Calls, ServerP!Handled(c)
      PROVE  \/ row'[j][h] \in {row[j][h], "running"}
             \/ call[c].pc # "free" /\ call[c].host = h /\ call[c].todo[j] = row'[j][h]
  <2>1. CASE ServerP!Goes(c)
    BY <2>1 DEF ServerP!Goes
  <2>2. CASE ServerP!Saves(c)
    <3>1. PICK i \in Jobs :
            row' = [row EXCEPT ![i][call[c].host] =
                      ServerP!Recorded(row[i][call[c].host], call[c].todo[i])]
      BY <2>2 DEF ServerP!Saves
    <3>2. CASE i = j /\ call[c].host = h
      <4>1. row'[j][h] = ServerP!Recorded(row[j][h], call[c].todo[j])
        BY <1>0, <3>1, <3>2
      <4>. QED
        BY <1>2, <3>2, <4>1, RecordedIs DEF ServerP!Handled
    <3>3. CASE ~(i = j /\ call[c].host = h)
      BY <1>0, <3>1, <3>3
    <3>. QED
      BY <3>2, <3>3
  <2>3. CASE ServerP!Assigns(c)
    <3>1. \/ row'[j][h] = row[j][h]
          \/ row'[j][h] = ServerP!GetOrCreate(row[j][h])
      BY <2>3 DEF ServerP!Assigns
    <3>. QED
      BY <3>1 DEF ServerP!GetOrCreate
  <2>. QED
    BY <1>2, <2>1, <2>2, <2>3 DEF ServerP!Handled
<1>. QED
  BY <1>1, <1>2

LEMMA AgentMoves ==
  ASSUME Halves, Step, "slow_start" \notin Faults, "hour" \notin Faults
  PROVE  AgentP!AgentMoves \/ UNCHANGED agentVars
BY AgentSteps, AgentP!NextMoves, ExecAssumption DEF Halves

LEMMA AssigningSteps ==
  ASSUME Halves, Step, NEW h \in Hosts, agent'[h].pc = "assigning"
  PROVE  \/ agent'[h] = agent[h]
         \/ \E c \in Calls :
              /\ Answering(h, c)
              /\ ~call[c].err
              /\ agent'[h].tasks = call[c].tasks
              /\ agent'[h].acked = call[c].acked
              /\ UNCHANGED <<lm, task>>
<1>0. AgentP!AgentInv /\ agent \in [Hosts -> AgentP!AgentRecord]
  BY DEF Halves, AgentP!AgentInv, AgentP!TypeOK
<1>1. ASSUME NEW k \in Hosts, AgentP!SendReport(k) PROVE agent'[h] = agent[h]
  <2>1. agent'[k].pc = "calling"
    BY <1>0, <1>1 DEF AgentP!SendReport, AgentP!AgentRecord
  <2>. QED
    BY <1>0, <1>1, <2>1, OtherAgents
<1>2. ASSUME NEW k \in Hosts, AgentP!ReportFails(k) \/ AgentP!AssignTask(k) \/ AgentP!Restart(k)
      PROVE  agent'[h] = agent[h]
  <2>1. AgentP!IdleAgent.pc = "idle"
    BY DEF AgentP!IdleAgent
  <2>2. agent'[k].pc = "idle"
    BY <1>0, <1>2, <2>1 DEF AgentP!ReportFails, AgentP!AssignTask, AgentP!Restart
  <2>. QED
    BY <1>0, <1>2, <2>2, OtherAgents
<1>3. ASSUME NEW k \in Hosts, NEW c \in Calls, Answering(k, c), ~call[c].err
      PROVE  \/ agent'[h] = agent[h]
             \/ /\ k = h
                /\ agent'[h].tasks = call[c].tasks /\ agent'[h].acked = call[c].acked
                /\ UNCHANGED <<lm, task>>
  <2>1. AgentP!ReceiveResponse(k, call[c].tasks, call[c].acked)
    BY <1>3 DEF Answering
  <2>2. CASE k = h
    BY <1>0, <2>1, <2>2 DEF AgentP!ReceiveResponse, AgentP!IdleAgent
  <2>. QED
    BY <1>0, <2>1, <2>2, OtherAgents
<1>4. AgentActs => agent' = agent \/ \E k \in Hosts : AgentP!AssignTask(k)
  BY DEF AgentActs, AgentP!HourPasses, AgentP!Prepare, AgentP!StartProcess,
     AgentP!ProcessExits, AgentP!PersistResult, AgentP!OrphanExits, AgentP!Kill
<1>5. ServerActs \/ ServerAgain \/ (\E c \in Calls : Discarding(c)) => agent' = agent
  BY DEF ServerActs, ServerAgain, Discarding, agentVars
<1>6. \A k \in Hosts, c \in Calls :
        /\ Reporting(k, c) => AgentP!SendReport(k)
        /\ Answering(k, c) /\ call[c].err => AgentP!ReportFails(k)
  BY DEF Reporting, Answering
<1>. QED
  BY <1>1, <1>2, <1>3, <1>4, <1>5, <1>6, GivingUpMoves DEF Step

-----------------------------------------------------------------------------
(* The history is kept.                                                     *)
LEMMA EndedKept ==
  ASSUME Halves, AgentP!DiskInv, AgentP!AgentMoves \/ UNCHANGED agentVars,
         NEW h \in Hosts, NEW j \in Jobs
  PROVE  /\ AgentP!Ended(h, j) => AgentP!Ended(h, j)'
         /\ AgentP!Started(h, j) => AgentP!Started(h, j)'
<1>1. CASE AgentP!AgentMoves
  BY <1>1, AgentP!EndedStays, AgentP!StartedStays, ExecAssumption DEF Halves
<1>2. CASE UNCHANGED agentVars
  BY <1>2 DEF agentVars, AgentP!Ended, AgentP!Started, AgentP!Active
<1>. QED
  BY <1>1, <1>2

LEMMA SentIsOver ==
  ASSUME Halves, AgentP!DiskInv, AgentP!Commands, NEW h \in Hosts, NEW j \in Jobs
  PROVE  /\ AgentP!GetResults(h)[j] \in {"success", "failed"} => AgentP!Ended(h, j)
         /\ AgentP!GetResults(h)[j] = "killed" => AgentP!Started(h, j)
<1>1. AgentP!GetResults(h)[j] # "absent"
        => lm[h][j] # NoTask /\ AgentP!GetResults(h)[j] = task[lm[h][j]].status
  BY DEF AgentP!GetResults
<1>. QED
  BY <1>1, AgentP!ResultMeansEnded, AgentP!StatusMeansStarted, ExecAssumption DEF Halves

LEMMA ResultsKept ==
  ASSUME History, Step, "slow_start" \notin Faults, "hour" \notin Faults
  PROVE  Results'
<1>0. Halves /\ AgentP!DiskInv /\ AgentP!Commands /\ Results /\ ServerP!Inv /\ ServerP!TypeOK
  BY DEF History, Halves, ServerP!Inv
<1>1. AgentP!AgentMoves \/ UNCHANGED agentVars
  BY <1>0, AgentMoves
<1>2. \A h \in Hosts, j \in Jobs :
        /\ AgentP!Ended(h, j) => AgentP!Ended(h, j)'
        /\ AgentP!Started(h, j) => AgentP!Started(h, j)'
  BY <1>0, <1>1, EndedKept
<1>3. ASSUME NEW h \in Hosts, NEW j \in Jobs
      PROVE  /\ row'[j][h] \in {"success", "failed"} => AgentP!Ended(h, j)'
             /\ row'[j][h] = "killed" => AgentP!Started(h, j)'
  BY <1>0, <1>2, RowSteps DEF Results
<1>4. ASSUME NEW c \in Calls, NEW h \in Hosts, NEW j \in Jobs,
             call'[c].pc # "free", call'[c].host = h
      PROVE  /\ call'[c].todo[j] \in {"success", "failed"} => AgentP!Ended(h, j)'
             /\ call'[c].todo[j] = "killed" => AgentP!Started(h, j)'
  <2>1. CASE call'[c] = call[c]
    BY <1>0, <1>2, <1>4, <2>1 DEF Results
  <2>2. CASE ServerP!Handled(c)
    <3>1. /\ call'[c].todo[j] \in {call[c].todo[j], "absent"}
          /\ call[c].host = h /\ call[c].pc # "free"
      BY <1>4, <2>2 DEF ServerP!Handled, ServerP!Goes, ServerP!Saves, ServerP!Assigns
    <3>. QED
      BY <1>0, <1>2, <3>1 DEF Results
  <2>3. ASSUME NEW k \in Hosts, Reporting(k, c)
        PROVE  /\ call'[c].todo[j] \in {"success", "failed"} => AgentP!Ended(h, j)'
               /\ call'[c].todo[j] = "killed" => AgentP!Started(h, j)'
    <3>1. k = h /\ call'[c].todo = AgentP!GetResults(h)
      BY <1>0, <1>4, <2>3, ReceiveEffect DEF Reporting
    <3>2. /\ AgentP!GetResults(h)[j] \in {"success", "failed"} => AgentP!Ended(h, j)
          /\ AgentP!GetResults(h)[j] = "killed" => AgentP!Started(h, j)
      BY <1>0, SentIsOver
    <3>. QED
      BY <1>2, <3>1, <3>2
  <2>. QED
    BY <1>0, <1>4, <2>1, <2>2, <2>3, CallSteps
<1>. QED
  BY <1>3, <1>4 DEF Results

(* The task of an empty result keeps no status until the agent is done.     *)
LEMMA EmptyKept ==
  ASSUME Halves, AgentP!Commands, AgentP!AgentMoves \/ UNCHANGED agentVars,
         NEW h \in Hosts, NEW j \in Jobs, lm[h][j] # NoTask, AgentP!Settled(lm[h][j]),
         task[lm[h][j]].status = AgentP!Unset, agent'[h].pc # "idle"
  PROVE  task'[lm'[h][j]].status = AgentP!Unset
<1>1. CASE AgentP!AgentMoves
  BY <1>1, AgentP!EmptyStays, ExecAssumption DEF Halves
<1>2. CASE UNCHANGED agentVars
  BY <1>2 DEF agentVars
<1>. QED
  BY <1>1, <1>2

LEMMA ReceiptedKept ==
  ASSUME History, Step, "slow_start" \notin Faults, "hour" \notin Faults
  PROVE  Receipted'
<1>0. /\ Halves /\ AgentP!Commands /\ AgentP!EmptyReports /\ Receipted /\ ServerP!TypeOK
      /\ ServerP!Inv /\ AgentP!Receipts /\ row \in [Jobs -> [Hosts -> ServerP!RowStatuses]]
      /\ waits \in [Hosts -> Calls \cup {NoCall}]
      /\ \A h \in Hosts : waits[h] # NoCall => Link(h, waits[h])
      /\ NoCall \notin Calls
  BY ExecAssumption
     DEF History, Halves, Links, AgentP!AgentInv, ServerP!Inv, ServerP!TypeOK
<1>1. AgentP!AgentMoves \/ UNCHANGED agentVars
  BY <1>0, AgentMoves
<1>2. \A j \in Jobs, h \in Hosts : Final(j, h) => Final(j, h)'
  BY <1>0, RowsKept
<1>3. ASSUME NEW h \in Hosts, NEW j \in Jobs, waits'[h] # NoCall, j \in call'[waits'[h]].acked
      PROVE  agent'[h].sent[j] = AgentP!Unset \/ Final(j, h)'
  <2>1. ~Reporting(h, waits'[h])
    <3>1. ASSUME NEW c \in Calls, Reporting(h, c), c = waits'[h] PROVE FALSE
      BY <1>0, <1>3, <3>1, ReceiveEffect DEF Reporting
    <3>2. ASSUME Reporting(h, waits'[h]) PROVE waits'[h] \in Calls
      <4>1. Links'
        BY <1>0, LinksKept
      <4>. QED
        BY <1>3, <4>1 DEF Links
    <3>. QED
      BY <3>1, <3>2
  <2>2. /\ waits'[h] = waits[h] /\ agent'[h] = agent[h]
        /\ call'[waits[h]] = call[waits[h]] \/ ServerP!Handled(waits[h])
    BY <1>0, <1>3, <2>1, Waiting
  <2>3. PICK c \in Calls : c = waits[h]
    BY <1>0, <1>3, <2>2
  <2>4. Link(h, c) /\ call[c].host = h /\ waits[h] # NoCall /\ j \in call'[c].acked
    BY <1>0, <1>3, <2>2, <2>3 DEF Link
  <2>5. CASE j \in call[c].acked
    BY <1>0, <1>2, <2>2, <2>3, <2>4, <2>5 DEF Receipted
  <2>6. CASE j \notin call[c].acked
    <3>1. ServerP!Handled(c)
      BY <2>2, <2>3, <2>4, <2>6
    <3>2. PICK i \in Jobs :
            /\ call[c].todo[i] # "absent"
            /\ row' = [row EXCEPT ![i][call[c].host] =
                         ServerP!Recorded(row[i][call[c].host], call[c].todo[i])]
            /\ call'[c].acked = call[c].acked \cup {i}
      BY <2>4, <2>6, <3>1 DEF ServerP!Handled, ServerP!Goes, ServerP!Saves, ServerP!Assigns
    <3>3. i = j
      BY <2>4, <2>6, <3>2
    <3>4. row'[j][h] = ServerP!Recorded(row[j][h], call[c].todo[j]) /\ call[c].todo[j] # "absent"
      BY <1>0, <2>4, <3>2, <3>3
    <3>5. call[c].todo[j] = agent[h].sent[j] /\ call[c].todo[j] \in Agent!Reports
      BY <1>0, <2>4, <3>4, CallTypes, SameReports DEF Link
    <3>6. call[c].todo[j] \in {AgentP!Unset, "killed", "success", "failed"}
      BY <3>4, <3>5, SameReports DEF AgentP!Reports
    <3>7. call[c].todo[j] = AgentP!Unset \/ row'[j][h] = call[c].todo[j]
      BY <3>4, RecordedIs
    <3>. QED
      BY <2>2, <3>5, <3>6, <3>7 DEF Final
  <2>. QED
    BY <2>5, <2>6
<1>4. ASSUME NEW h \in Hosts, NEW j \in Jobs, agent'[h].pc = "assigning", j \in agent'[h].acked
      PROVE  task'[lm'[h][j]].status = AgentP!Unset \/ Final(j, h)'
  <2>1. CASE agent'[h] = agent[h]
    <3>1. lm[h][j] # NoTask /\ AgentP!Settled(lm[h][j])
      BY <1>0, <1>4, <2>1 DEF AgentP!Receipts
    <3>2. task[lm[h][j]].status = AgentP!Unset \/ Final(j, h)
      BY <1>0, <1>4, <2>1 DEF Receipted
    <3>. QED
      BY <1>0, <1>1, <1>2, <1>4, <3>1, <3>2, EmptyKept
  <2>2. ASSUME NEW c \in Calls, Answering(h, c), agent'[h].acked = call[c].acked,
               UNCHANGED <<lm, task>>
        PROVE  task'[lm'[h][j]].status = AgentP!Unset \/ Final(j, h)'
    <3>1. waits[h] = c /\ waits[h] # NoCall /\ j \in call[c].acked
      BY <1>0, <1>4, <2>2 DEF Answering
    <3>2. agent[h].pc = "calling"
      BY <1>0, <3>1 DEF Link
    <3>3. agent[h].sent[j] = AgentP!Unset \/ Final(j, h)
      BY <1>0, <3>1 DEF Receipted
    <3>4. CASE agent[h].sent[j] = AgentP!Unset
      BY <1>0, <2>2, <3>2, <3>4 DEF AgentP!EmptyReports
    <3>. QED
      BY <1>2, <3>3, <3>4
  <2>. QED
    BY <1>0, <1>4, <2>1, <2>2, AssigningSteps
<1>5. /\ \A h \in Hosts, j \in Jobs :
           waits'[h] # NoCall /\ j \in call'[waits'[h]].acked
             => agent'[h].sent[j] = AgentP!Unset \/ Final(j, h)'
      /\ \A h \in Hosts, j \in Jobs :
           agent'[h].pc = "assigning" /\ j \in agent'[h].acked
             => task'[lm'[h][j]].status = AgentP!Unset \/ Final(j, h)'
  BY <1>3, <1>4
<1>. QED
  BY <1>5 DEF Receipted

LEMMA FilesKept ==
  ASSUME History, AgentP!AgentMoves \/ UNCHANGED agentVars
  PROVE  AgentP!DiskInv' /\ AgentP!Commands' /\ AgentP!EmptyReports'
<1>0. AgentP!AgentInv /\ AgentP!DiskInv /\ AgentP!Commands /\ AgentP!EmptyReports
  BY DEF History, Halves
<1>1. CASE AgentP!AgentMoves
  BY <1>0, <1>1, AgentP!MovesKeepDiskInv, AgentP!MovesKeepCommands,
     AgentP!MovesKeepEmptyReports, ExecAssumption
<1>2. CASE UNCHANGED agentVars
  <2>1. AgentP!DiskInv'
    BY <1>0, <1>2, AgentP!DiskInvStutters, ExecAssumption DEF agentVars
  <2>2. AgentP!Commands' /\ AgentP!EmptyReports'
    BY <1>0, <1>2 DEF agentVars, AgentP!Commands, AgentP!EmptyReports
  <2>. QED
    BY <2>1, <2>2
<1>. QED
  BY <1>1, <1>2

(* A call that succeeds has a row for each task that it hands out, as long  *)
(* as none but the last of them can fail to get one.                        *)
LEMMA AllAssigned ==
  ASSUME Halves, NEW c \in Calls, NEW j \in Jobs, ServerP!Assigns(c), call[c].host \in Hosts,
         call[c].tasks[j] # "no", ~call'[c].err,
         "db" \notin Faults \/ \A i, k \in Jobs : i = k
  PROVE  row'[j][call[c].host] # "none"
<1>1. PICK failed \in SUBSET {i \in Jobs : call[c].tasks[i] # "no"} :
        /\ failed # {} => "db" \in Faults
        /\ call'[c].err = \E i \in failed :
             \A k \in {n \in Jobs : call[c].tasks[n] # "no"} : k <= i
        /\ \A i \in Jobs, h \in Hosts :
             row'[i][h] = IF h = call[c].host /\ call[c].tasks[i] # "no" /\ i \notin failed
                          THEN ServerP!GetOrCreate(row[i][h]) ELSE row[i][h]
  BY DEF ServerP!Assigns
<1>2. j \notin failed
  <2>1. ASSUME j \in failed PROVE FALSE
    <3>1. \A i, k \in Jobs : i = k
      BY <1>1, <2>1
    <3>2. \A k \in {n \in Jobs : call[c].tasks[n] # "no"} : k <= j
      <4>1. j <= j
        BY ExecAssumption
      <4>. QED
        BY <3>1, <4>1
    <3>. QED
      BY <1>1, <2>1, <3>2
  <2>. QED
    BY <2>1
<1>3. row'[j][call[c].host] = ServerP!GetOrCreate(row[j][call[c].host])
  BY <1>1, <1>2
<1>. QED
  BY <1>3 DEF ServerP!GetOrCreate

LEMMA BookedKept ==
  ASSUME Halves, Booked, Step, "slow_start" \notin Faults, "hour" \notin Faults,
         "db" \notin Faults \/ \A i, k \in Jobs : i = k
  PROVE  Booked'
<1>0. /\ ServerP!TypeOK /\ ServerP!Inv
      /\ \A h \in Hosts : waits[h] # NoCall => Link(h, waits[h])
      /\ NoCall \notin Calls
  BY ExecAssumption DEF Halves, Links, ServerP!Inv
<1>1. AgentP!AgentMoves \/ UNCHANGED agentVars
  BY AgentMoves
<1>2. \A j \in Jobs, h \in Hosts : row[j][h] # "none" => row'[j][h] # "none"
  BY RowsKept
<1>3. ASSUME NEW t \in TaskIds, NEW h \in Hosts, NEW j \in Jobs, AgentP!Active(t, h, j)'
      PROVE  row'[j][h] # "none"
  <2>1. CASE AgentP!AgentMoves
    <3>1. \/ AgentP!Active(t, h, j)
          \/ AgentP!AssignTask(h) /\ j \in AgentP!NewJobs(h)
      BY <1>3, <2>1, AgentP!ActiveFrom, ExecAssumption DEF Halves
    <3>2. AgentP!AssignTask(h) /\ j \in AgentP!NewJobs(h)
            => agent[h].pc = "assigning" /\ agent[h].tasks[j] # "no"
      BY DEF AgentP!AssignTask, AgentP!NewJobs
    <3>. QED
      BY <1>2, <3>1, <3>2 DEF Booked
  <2>2. CASE UNCHANGED agentVars
    <3>1. AgentP!Active(t, h, j)
      BY <1>3, <2>2 DEF agentVars, AgentP!Active
    <3>. QED
      BY <1>2, <3>1 DEF Booked
  <2>. QED
    BY <1>1, <2>1, <2>2
<1>4. ASSUME NEW h \in Hosts, NEW j \in Jobs,
             agent'[h].pc = "assigning", agent'[h].tasks[j] # "no"
      PROVE  row'[j][h] # "none"
  <2>1. CASE agent'[h] = agent[h]
    BY <1>2, <1>4, <2>1 DEF Booked
  <2>2. ASSUME NEW c \in Calls, Answering(h, c), ~call[c].err, agent'[h].tasks = call[c].tasks
        PROVE  row'[j][h] # "none"
    <3>1. call[c].pc = "reply" /\ call[c].host = h
      BY <1>0, <2>2, ReturnEffect DEF Answering, Link
    <3>. QED
      BY <1>2, <1>4, <2>2, <3>1 DEF Booked
  <2>. QED
    BY <1>4, <2>1, <2>2, AssigningSteps
<1>5. ASSUME NEW c \in Calls, NEW h \in Hosts, NEW j \in Jobs, call'[c].host = h,
             call'[c].pc = "reply", ~call'[c].err, call'[c].tasks[j] # "no"
      PROVE  row'[j][h] # "none"
  <2>1. CASE call'[c] = call[c]
    BY <1>2, <1>5, <2>1 DEF Booked
  <2>2. CASE ServerP!Handled(c)
    <3>1. ServerP!Assigns(c) /\ call[c].host = h
      BY <1>5, <2>2 DEF ServerP!Handled, ServerP!Goes, ServerP!Saves
    <3>2. call[c].tasks[j] # "no"
      BY <1>5, <3>1 DEF ServerP!Assigns
    <3>. QED
      BY <1>5, <3>1, <3>2, AllAssigned
  <2>3. ASSUME NEW k \in Hosts, Reporting(k, c) PROVE FALSE
    BY <1>0, <1>5, <2>3, ReceiveEffect DEF Reporting
  <2>. QED
    BY <1>5, <2>1, <2>2, <2>3, CallSteps
<1>. QED
  BY <1>3, <1>4, <1>5 DEF Booked

LEMMA HistoryStutters ==
  ASSUME UNCHANGED vars
  PROVE  /\ Results => Results'
         /\ Receipted => Receipted'
         /\ Booked => Booked'
<1>1. UNCHANGED <<row, call, waits, agent, task, lm, disk>>
  BY DEF vars, serverVars, agentVars
<1>. QED
  BY <1>1 DEF Results, Receipted, Booked, Final, AgentP!Ended, AgentP!Started, AgentP!Active

LEMMA HistoryKept ==
  ASSUME History, Next \/ UNCHANGED vars, "slow_start" \notin Faults, "hour" \notin Faults
  PROVE  History'
<1>1. Halves'
  BY HalvesKept DEF History
<1>2. CASE Next
  <2>1. Step
    BY <1>2, NextSteps
  <2>2. AgentP!AgentMoves \/ UNCHANGED agentVars
    BY <2>1, AgentMoves DEF History
  <2>. QED
    BY <1>1, <2>1, <2>2, FilesKept, ResultsKept, ReceiptedKept DEF History
<1>3. CASE UNCHANGED vars
  <2>1. UNCHANGED agentVars
    BY <1>3 DEF vars
  <2>. QED
    BY <1>1, <1>3, <2>1, FilesKept, HistoryStutters DEF History
<1>. QED
  BY <1>2, <1>3

LEMMA InitHistory == Init => History /\ Booked
<1>. SUFFICES ASSUME Init PROVE History /\ Booked
  OBVIOUS
<1>1. Halves /\ ServerP!Init /\ AgentP!Init /\ waits = [h \in Hosts |-> NoCall]
  BY InitHalves, SameInit DEF Init
<1>2. AgentP!DiskInv /\ AgentP!Commands /\ AgentP!EmptyReports
  BY <1>1, AgentP!InitDiskInv, AgentP!InitCommands, ExecAssumption
<1>3. /\ \A j \in Jobs, h \in Hosts : row[j][h] = "none"
      /\ \A c \in Calls : call[c].pc = "free"
  BY <1>1 DEF ServerP!Init, ServerP!FreeCall
<1>4. /\ \A t \in TaskIds : task[t].pc = "free"
      /\ \A h \in Hosts : agent[h].pc = "idle"
  BY <1>1 DEF AgentP!Init, AgentP!FreeTask, AgentP!IdleAgent
<1>5. Results
  BY <1>3 DEF Results
<1>6. Receipted
  BY <1>1, <1>4 DEF Receipted
<1>7. Booked
  BY <1>3, <1>4 DEF Booked, AgentP!Active
<1>. QED
  BY <1>1, <1>2, <1>5, <1>6, <1>7 DEF History

-----------------------------------------------------------------------------
(* The invariants of the halves hold of the whole, and an agent that waits  *)
(* for a call waits for the one it made (agent/cron/task_report.go): no     *)
(* loss, repetition or late answer makes it take another for its own.       *)
THEOREM Invariance ==
  ASSUME "slow_start" \notin Faults
  PROVE  Spec => []Halves
<1>1. Halves /\ [Next]_vars => Halves'
  BY HalvesKept
<1>. QED
  BY <1>1, InitHalves, PTL DEF Spec

(* The server of the whole is a server that agents report anything to: what *)
(* JobServer_proofs proves of that one holds of this one.                   *)
THEOREM ServerServes ==
  ASSUME "slow_start" \notin Faults
  PROVE  Spec => ServerP!Spec
<1>1. Init => ServerP!Init
  BY SameInit DEF Init
<1>2. Halves /\ [Next]_vars => [ServerP!Next]_(ServerP!vars)
  <2>. SUFFICES ASSUME Halves, Next \/ UNCHANGED vars
                PROVE  ServerP!Next \/ UNCHANGED ServerP!vars
    OBVIOUS
  <2>1. Next => ServerP!Next \/ UNCHANGED serverVars
    BY NextSteps, ServerSteps
  <2>2. UNCHANGED vars => UNCHANGED serverVars
    BY DEF vars
  <2>. QED
    BY <2>1, <2>2 DEF serverVars, ServerP!vars
<1>. QED
  BY <1>1, <1>2, Invariance, PTL DEF Spec, ServerP!Spec

(* An agent of the whole is an agent whose server answers anything, with    *)
(* receipts for what it was sent only: what JobAgent_proofs proves of that  *)
(* one holds of this one.                                                   *)
THEOREM AgentsServe ==
  ASSUME "slow_start" \notin Faults
  PROVE  Spec => AgentP!Spec
<1>1. Init => AgentP!Init
  BY SameInit DEF Init
<1>2. Halves /\ [Next]_vars => [AgentP!Next]_(AgentP!agentVars)
  <2>. SUFFICES ASSUME Halves, Next \/ UNCHANGED vars
                PROVE  AgentP!Next \/ UNCHANGED AgentP!agentVars
    OBVIOUS
  <2>1. Next => AgentP!Next \/ UNCHANGED agentVars
    BY NextSteps, AgentSteps
  <2>2. UNCHANGED vars => UNCHANGED agentVars
    BY DEF vars
  <2>. QED
    BY <2>1, <2>2 DEF agentVars, AgentP!agentVars
<1>. QED
  BY <1>1, <1>2, Invariance, PTL DEF Spec, AgentP!Spec

(* So, with agents that run what they are given and a server that they      *)
(* report to: a job is marked success or failed when all its machines have  *)
(* reported, at most BatchSize machines are offered it between refreshes,   *)
(* one agent runs it once at a time, and the tables obey the ledger.        *)
THEOREM HalvesHold ==
  ASSUME "slow_start" \notin Faults
  PROVE  Spec => /\ [](/\ ServerP!CompletedMeansAllReported
                       /\ ServerP!BatchHonoured
                       /\ AgentP!OneRunPerAgent)
                 /\ ServerP!ImplementsLedger
<1>1. ServerP!Spec => []ServerP!CompletedMeansAllReported
  BY ServerP!Completion, SameReports, SameFinite, ExecAssumption
<1>2. ServerP!Spec => []ServerP!BatchHonoured
  BY ServerP!Batches, SameReports, SameFinite, ExecAssumption
<1>3. ServerP!Spec => ServerP!ImplementsLedger
  BY ServerP!Refinement, SameReports, SameFinite, ExecAssumption
<1>4. AgentP!Spec => []AgentP!OneRunPerAgent
  BY AgentP!OneRunAlways, ExecAssumption
<1>. QED
  BY <1>1, <1>2, <1>3, <1>4, ServerServes, AgentsServe, PTL

(* Within the hour, results, receipts and the files on the machines agree,  *)
(* whatever is lost, repeated, late, killed or restarted.                   *)
THEOREM HistoryInvariance ==
  ASSUME "slow_start" \notin Faults, "hour" \notin Faults
  PROVE  Spec => []History
<1>1. History /\ [Next]_vars => History'
  BY HistoryKept
<1>. QED
  BY <1>1, InitHistory, PTL DEF Spec

(* Within the hour, the result that the server shows for a machine is that  *)
(* of a process that has ended.                                             *)
THEOREM RecordedAlways ==
  ASSUME "slow_start" \notin Faults, "hour" \notin Faults
  PROVE  Spec => []RecordedMeansStopped
<1>1. History => RecordedMeansStopped
  BY DEF History, Results, RecordedMeansStopped, RunsOn, Agent!Live, AgentP!Ended, AgentP!Active
<1>. QED
  BY <1>1, HistoryInvariance, PTL

(* Within the hour, an agent forgets a finished task only when the server   *)
(* has its result (manager.go:145).                                         *)
THEOREM ReceiptAlways ==
  ASSUME "slow_start" \notin Faults, "hour" \notin Faults
  PROVE  Spec => ReceiptMeansRecorded
<1>. DEFINE Forgets == \A h \in Hosts, j \in Jobs :
              /\ lm[h][j] # NoTask
              /\ lm'[h][j] = NoTask
              /\ task[lm[h][j]].status \in {"killed", "success", "failed"}
              => row[j][h] \notin {"none", "running"}
<1>1. ASSUME History, Next, NEW h \in Hosts, NEW j \in Jobs, lm[h][j] # NoTask,
             lm'[h][j] = NoTask, task[lm[h][j]].status \in {"killed", "success", "failed"}
      PROVE  row[j][h] \notin {"none", "running"}
  <2>1. AgentP!AgentMoves \/ UNCHANGED agentVars
    BY <1>1, NextSteps, AgentMoves DEF History
  <2>2. AgentP!AgentMoves
    BY <1>1, <2>1 DEF agentVars
  <2>3. agent[h].pc = "assigning" /\ j \in agent[h].acked
    BY <1>1, <2>2, AgentP!ForgottenIsAcked, ExecAssumption DEF History, Halves
  <2>4. task[lm[h][j]].status # AgentP!Unset
    BY <1>1, AgentP!UnsetIsNone, ExecAssumption
  <2>. QED
    BY <1>1, <2>3, <2>4 DEF History, Receipted, Final
<1>2. History /\ [Next]_vars => [Forgets]_lm
  BY <1>1 DEF vars, agentVars
<1>. QED
  BY <1>2, HistoryInvariance, PTL DEF Spec, ReceiptMeansRecorded

(* Within the hour, a machine whose result is recorded does not run the job *)
(* again (rpc/job_exec.go:108).                                             *)
THEOREM NoRerunAlways ==
  ASSUME "slow_start" \notin Faults, "hour" \notin Faults
  PROVE  Spec => NoRerunAfterResult
<1>. DEFINE Begins == \A t \in TaskIds :
              task[t].pc = "prepared" /\ task'[t].pc = "running"
                => row[task[t].job][task[t].host] \in {"none", "running"}
<1>1. ASSUME History, NEW t \in TaskIds, task[t].pc = "prepared"
      PROVE  row[task[t].job][task[t].host] \in {"none", "running"}
  <2>1. task[t].host \in Hosts /\ task[t].job \in Jobs
    BY <1>1 DEF History, Halves, AgentP!AgentInv, AgentP!TypeOK
  <2>2. row[task[t].job][task[t].host] \in ServerP!RowStatuses
    BY <1>1, <2>1 DEF History, Halves, ServerP!Inv, ServerP!TypeOK
  <2>3. AgentP!Active(t, task[t].host, task[t].job)
    BY <1>1 DEF AgentP!Active
  <2>. QED
    BY <1>1, <2>1, <2>2, <2>3
       DEF History, Results, AgentP!Ended, AgentP!Started, ServerP!RowStatuses
<1>2. History /\ [Next]_vars => [Begins]_task
  BY <1>1
<1>. QED
  BY <1>2, HistoryInvariance, PTL DEF Spec, NoRerunAfterResult

(* Nothing runs on a machine without a row that says so.  A database call   *)
(* may fail only when there is a single job: the handler forgets the error  *)
(* of every task but the last (rpc/job_exec.go:108), and hands out a task   *)
(* whose row it could not make.                                             *)
THEOREM BookedAlways ==
  ASSUME "slow_start" \notin Faults, "hour" \notin Faults,
         "db" \notin Faults \/ \A i, k \in Jobs : i = k
  PROVE  Spec => []EveryRunIsBooked
<1>1. Halves /\ Booked /\ [Next]_vars => Booked'
  BY BookedKept, NextSteps, HistoryStutters
<1>2. Halves /\ Booked => EveryRunIsBooked
  BY DEF Booked, EveryRunIsBooked, RunsOn, Agent!Live, AgentP!Active
<1>. QED
  BY <1>1, <1>2, InitHistory, Invariance, PTL DEF Spec

=============================================================================
