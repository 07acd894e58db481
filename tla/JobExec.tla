------------------------------- MODULE JobExec -------------------------------
(***************************************************************************)
(* The job-execution subsystem end to end: the server of module JobServer  *)
(* and the agents of module JobAgent, connected by the TaskReport RPC      *)
(* (agent/cron/task_report.go, rpc/job_exec.go).  A call that its agent    *)
(* has given up on goes on in the server, next to the agent's later calls. *)
(***************************************************************************)
EXTENDS Naturals, FiniteSets

CONSTANTS Jobs, Hosts, Calls, Targets, BatchSize, Strategies, Operations,
          TaskIds, NoTask, Reported, Faults,
          NoCall      (* no call: the agent is not waiting                  *)

VARIABLES job, row, cached, sync, call, deleting,   \* the server
          lm, task, disk, agent,             \* the agents
          waits                              \* the call an agent waits for

serverVars == <<job, row, cached, sync, call, deleting>>
agentVars  == <<lm, task, disk, agent>>
vars       == <<serverVars, agentVars, waits>>

Server == INSTANCE JobServer
Agent  == INSTANCE JobAgent

(* What the two halves assume of their constants.                           *)
ASSUME ExecAssumption ==
  /\ Server!Assumption
  /\ Agent!AgentAssumption
  /\ NoCall \notin Calls

Init == Server!Init /\ Agent!Init /\ waits = [h \in Hosts |-> NoCall]

-----------------------------------------------------------------------------
(* RunTaskReport sends what GetResults returns.  Transit is not modelled    *)
(* apart: a call may take any time before its first step.                   *)
Report(h, c) ==
  /\ Agent!SendReport(h)
  /\ Server!Receive(c, h, Agent!GetResults(h))
  /\ waits' = [waits EXCEPT ![h] = c]

(* The response of the call an agent waits for; an error carries nothing.   *)
Deliver(h, c) ==
  /\ waits[h] = c
  /\ Server!Return(c)
  /\ IF call[c].err THEN Agent!ReportFails(h)
     ELSE Agent!ReceiveResponse(h, call[c].tasks, call[c].acked)
  /\ waits' = [waits EXCEPT ![h] = NoCall]

(* The response of a call nobody waits for.                                 *)
Discard(c) ==
  /\ \A h \in Hosts : waits[h] # c
  /\ Server!Return(c)
  /\ UNCHANGED <<agentVars, waits>>

(* RpcCallTimeoutSeconds pass, or the connection broke with the server.     *)
Timeout(h) ==
  /\ "rpc" \in Faults \/ waits[h] = NoCall
  /\ Agent!ReportFails(h)
  /\ waits' = [waits EXCEPT ![h] = NoCall]
  /\ UNCHANGED serverVars

ServerStep ==
  /\ \/ Server!Operator
     \/ \E j \in Jobs : Server!MinutePasses(j)
     \/ Server!Scheduler
     \/ \E c \in Calls : Server!Handle(c)
  /\ UNCHANGED <<agentVars, waits>>

ServerRestarts ==
  /\ Server!RestartServer
  /\ waits' = [h \in Hosts |-> NoCall]
  /\ UNCHANGED agentVars

AgentStep(h) ==
  /\ \/ Agent!AssignTask(h)
     \/ \E j \in Jobs : Agent!HourPasses(h, j)
  /\ UNCHANGED <<serverVars, waits>>

AgentRestarts(h) ==
  /\ \/ Agent!Crash(h)
     \/ \E t \in TaskIds : task[t].host = h /\ Agent!KillPanics(t)
  /\ waits' = [waits EXCEPT ![h] = NoCall]
  /\ UNCHANGED serverVars

TaskStep(t) ==
  /\ \/ Agent!Prepare(t)
     \/ Agent!StartProcess(t)
     \/ \E s \in Reported : Agent!ProcessExits(t, s)
     \/ Agent!PersistResult(t)
     \/ Agent!OrphanExits(t)
     \/ Agent!Kill(t)
  /\ UNCHANGED <<serverVars, waits>>

Next ==
  \/ ServerStep
  \/ ServerRestarts
  \/ \E h \in Hosts :
       \/ \E c \in Calls : Report(h, c) \/ Deliver(h, c)
       \/ Timeout(h)
       \/ AgentStep(h)
       \/ AgentRestarts(h)
  \/ \E c \in Calls : Discard(c)
  \/ \E t \in TaskIds : TaskStep(t)

Spec == Init /\ [][Next]_vars

(* The periodic loops (SyncCache every RunIntervalSeconds, RunTaskReport on *)
(* every agent), the handlers and the goroutines go on; a script ends, at   *)
(* the latest by its timeout.  Nothing is assumed of operators and faults.  *)
Fairness ==
  /\ WF_vars(Server!Scheduler /\ UNCHANGED <<agentVars, waits>>)
  /\ \A c \in Calls :
       WF_vars(Server!Handle(c) /\ UNCHANGED <<agentVars, waits>>)
  /\ \A h \in Hosts :
       /\ SF_vars(\E c \in Calls : Report(h, c))
       /\ WF_vars(\E c \in Calls : Deliver(h, c))
       /\ WF_vars(AgentStep(h))
  /\ \A t \in TaskIds : WF_vars(TaskStep(t))

FairSpec == Spec /\ Fairness

-----------------------------------------------------------------------------
RunsOn(h, j) ==
  \E t \in TaskIds : Agent!Live(t) /\ task[t].host = h /\ task[t].job = j

(* The result the server shows for a machine is that of a process that has  *)
(* ended, whatever was lost, repeated, killed or restarted on the way.      *)
RecordedMeansStopped ==
  \A j \in Jobs, h \in Hosts :
    row[j][h] \in {"success", "failed"} => ~RunsOn(h, j)

(* Nothing runs on a machine without a row that says so: GetOrCreate comes  *)
(* before the response that starts the task.                                *)
EveryRunIsBooked ==
  \A j \in Jobs, h \in Hosts : RunsOn(h, j) => row[j][h] # "none"

(* rpc/job_exec.go:108 creates the row when a task is handed out so that it *)
(* leaves the next cache: a machine whose result is recorded does not run   *)
(* the job again.                                                           *)
NoRerunAfterResult ==
  [][\A t \in TaskIds :
       task[t].pc = "prepared" /\ task'[t].pc = "running"
         => row[task[t].job][task[t].host] \in {"none", "running"}]_task

(* manager.go:145: a receipt means that the server has the result.  The     *)
(* agent forgets a finished task only when the server's row is final.       *)
ReceiptMeansRecorded ==
  [][\A h \in Hosts, j \in Jobs :
       /\ lm[h][j] # NoTask
       /\ lm'[h][j] = NoTask
       /\ task[lm[h][j]].status \in {"killed", "success", "failed"}
       => row[j][h] \notin {"none", "running"}]_lm

(* A running job with machines that have not reported comes to an end, by   *)
(* CheckAndComplete, by its error strategy or by an operator, whatever the  *)
(* order of the reports and of their handlers, batch after batch.  A job    *)
(* set to running when all have reported is no such job: nothing looks at   *)
(* it again.                                                                *)
StartedJobEnds ==
  \A j \in Jobs :
    job[j].status = "running" /\ ~Server!AllReported(j)
      ~> job[j].status # "running"

=============================================================================
