------------------------------- MODULE JobAgent -------------------------------
(***************************************************************************)
(* The agent half of the job-execution subsystem, one agent per host: the  *)
(* task manager with its in-memory map LM (agent/job/manager.go), the task *)
(* goroutines, the processes they start and the files they leave in the    *)
(* task directory (agent/job/task.go), and the periodic report             *)
(* (agent/cron/task_report.go).                                            *)
(*                                                                         *)
(* A Task object is an element of TaskIds: the map, the goroutine of       *)
(* Start, the goroutine of Kill and the process group refer to the object, *)
(* and may outlive its entry in the map.  An id is used again once nothing *)
(* refers to it.  The server is an unconstrained environment here; module  *)
(* JobExec replaces it by the real one.                                    *)
(***************************************************************************)
EXTENDS Naturals, FiniteSets

CONSTANTS
  Jobs,       (* ids of jobs                                                *)
  Hosts,      (* the machines, an agent on each                             *)
  TaskIds,    (* identities of Task objects                                 *)
  NoTask,     (* no object: a nil *Task                                     *)
  Reported,   (* the results a script may have                              *)
  Faults      (* the faults that may occur                                  *)

ASSUME AgentAssumption ==
  /\ Jobs \subseteq Nat \ {0}
  /\ Hosts \subseteq Nat \ {0}
  /\ NoTask \notin TaskIds
  /\ Reported \subseteq {"killed", "success", "failed"}
  /\ Faults \subseteq {"crash",      (* the agent process restarts          *)
                       "prepare",    (* Task.Prepare fails (disk)           *)
                       "start",      (* exec.Cmd.Start fails                *)
                       "slow_start", (* a report overtakes a new goroutine  *)
                       "hour",       (* an hour passes                      *)
                       "rpc",        (* a report fails or times out         *)
                       "db", "restart"}   (* faults of the server           *)

VARIABLES
  lm,       (* TaskManager.LM: the object of a job on a host, or NoTask     *)
  task,     (* the Task objects, with the state of their goroutines         *)
  disk,     (* the task directory of a job on a host                        *)
  agent     (* the local variables of RunTaskReport                         *)

agentVars == <<lm, task, disk, agent>>

-----------------------------------------------------------------------------
(* Go's zero value: the status of a task that has not started, and what is  *)
(* read from a directory without a status file.                             *)
Unset == ""

Statuses == {Unset, "running", "killed", "success", "failed"}
Reports  == {"absent", Unset, "killed", "success", "failed"}

(* pc follows Start and runProcess: "spawned" is a go Start() not yet run,  *)
(* "prepared" has written startTime, "running" waits for the process,       *)
(* "exited" has the result in memory only.  "over": no goroutine is left.   *)
(* A process whose agent died is "orphan".  cmd: Cmd.Process is set.  kill: *)
(* a go Kill() is pending.                                                  *)
TaskRecord ==
  [pc     : {"free", "spawned", "prepared", "running", "exited", "over",
             "orphan"},
   host   : Hosts \cup {0},
   job    : Jobs \cup {0},
   status : Statuses,
   cmd    : BOOLEAN,
   kill   : BOOLEAN]

FreeTask == [pc |-> "free", host |-> 0, job |-> 0, status |-> Unset,
             cmd |-> FALSE, kill |-> FALSE]

(* fresh: the directory holds a startTime of the last hour; status: the     *)
(* content of its status file.                                              *)
Directory == [fresh  : BOOLEAN,
              status : {Unset, "killed", "success", "failed"}]

(* RunTaskReport waits for the server ("calling"), or is in AssignTask      *)
(* between reading the disk and taking the lock ("assigning").              *)
AgentRecord ==
  [pc     : {"idle", "calling", "assigning"},
   sent   : [Jobs -> Reports],
   tasks  : [Jobs -> {"no", "run", "kill"}],
   acked  : SUBSET Jobs,
   onDisk : SUBSET Jobs]

IdleAgent == [pc |-> "idle", sent |-> [j \in Jobs |-> "absent"],
              tasks |-> [j \in Jobs |-> "no"], acked |-> {}, onDisk |-> {}]

Live(t) == task[t].pc \in {"running", "orphan"}

(* Nothing refers to the object: it is not in LM and no goroutine runs.     *)
Unused(t) ==
  /\ task[t].pc \in {"free", "over"}
  /\ ~task[t].kill
  /\ \A h \in Hosts, j \in Jobs : lm[h][j] # t

OnDisk(h) == {j \in Jobs : disk[h][j].fresh}

-----------------------------------------------------------------------------
(* A mutant of GetResults: running tasks are reported too.                  *)
GetResultsAll(h) ==
  [j \in Jobs |-> IF lm[h][j] = NoTask THEN "absent" ELSE task[lm[h][j]].status]

(* TaskManager.GetResults: every task of LM that is not running, one the    *)
(* goroutine has not started included.                                      *)
GetResults(h) ==
  [j \in Jobs |->
     IF lm[h][j] = NoTask \/ task[lm[h][j]].status = "running"
     THEN "absent" ELSE task[lm[h][j]].status]

(* The goroutine of Start takes milliseconds, the report interval seconds.  *)
StartsAreOver(h) ==
  \A t \in TaskIds :
    task[t].host = h => task[t].pc \notin {"spawned", "prepared"}

(* RunTaskReport up to the call of the server, with the results it sends.   *)
SendReport(h) ==
  /\ agent[h].pc = "idle"
  /\ "slow_start" \notin Faults => StartsAreOver(h)
  /\ agent' = [agent EXCEPT ![h].pc = "calling", ![h].sent = GetResults(h)]
  /\ UNCHANGED <<lm, task, disk>>

(* The call fails or times out.                                             *)
ReportFails(h) ==
  /\ agent[h].pc = "calling"
  /\ agent' = [agent EXCEPT ![h] = IdleAgent]
  /\ UNCHANGED <<lm, task, disk>>

(* The response arrives and AssignTask reads the disk, without the lock.    *)
ReceiveResponse(h, tasks, acked) ==
  /\ agent[h].pc = "calling"
  /\ agent' = [agent EXCEPT ![h] = [IdleAgent EXCEPT !.pc = "assigning",
                 !.tasks = tasks, !.acked = acked, !.onDisk = OnDisk(h)]]
  /\ UNCHANGED <<lm, task, disk>>

(* Mutants of Unknown: only one of the two places is looked at.             *)
UnknownInMemory(h) == {j \in Jobs : lm[h][j] = NoTask}
UnknownOnDisk(h)   == Jobs \ agent[h].onDisk

(* The tasks that are neither in LM nor seen on disk.                       *)
Unknown(h) == {j \in Jobs : lm[h][j] = NoTask} \ agent[h].onDisk

(* TaskManager.AssignTask under its lock.  A task unknown to LM is started  *)
(* unless it was seen on disk, whatever its action; a known one is killed   *)
(* when the action says so.  Then the receipts are removed from LM.         *)
AssignTask(h) ==
  LET a      == agent[h]
      given  == {j \in Jobs : a.tasks[j] # "no"}
      new    == given \cap Unknown(h)
      killed == {lm[h][j] : j \in {k \in given : a.tasks[k] = "kill"}}
  IN  /\ a.pc = "assigning"
      /\ \E id \in [new -> {t \in TaskIds : Unused(t)}] :
           /\ \A j, k \in new : id[j] = id[k] => j = k
           /\ task' = [t \in TaskIds |->
                IF \E j \in new : id[j] = t
                THEN [FreeTask EXCEPT !.pc = "spawned", !.host = h,
                        !.job = CHOOSE j \in new : id[j] = t]
                ELSE IF t \in killed THEN [task[t] EXCEPT !.kill = TRUE]
                                     ELSE task[t]]
           /\ lm' = [lm EXCEPT ![h] = [j \in Jobs |->
                IF j \in a.acked THEN NoTask
                ELSE IF j \in new THEN id[j] ELSE @[j]]]
      /\ agent' = [agent EXCEPT ![h] = IdleAgent]
      /\ UNCHANGED disk

-----------------------------------------------------------------------------
(* The goroutine of Task.Start.                                             *)

(* A mutant of Prepare: no startTime.                                       *)
PrepareInMemory(t) ==
  /\ task[t].pc = "spawned"
  /\ task' = [task EXCEPT ![t].pc = "prepared"]
  /\ UNCHANGED <<lm, disk, agent>>

(* Task.Prepare: startTime is the last file it writes.  A status file of an *)
(* earlier run is left in place.                                            *)
Prepare(t) ==
  /\ task[t].pc = "spawned"
  /\ \/ /\ task' = [task EXCEPT ![t].pc = "prepared"]
        /\ disk' = [disk EXCEPT ![task[t].host][task[t].job].fresh = TRUE]
     \/ /\ "prepare" \in Faults
        /\ task' = [task EXCEPT ![t].pc = "over"]
        /\ UNCHANGED disk
  /\ UNCHANGED <<lm, agent>>

(* cmd.Start and SetStatus(running), which is also reached when it fails.   *)
StartProcess(t) ==
  /\ task[t].pc = "prepared"
  /\ \/ task' = [task EXCEPT ![t].pc = "running", ![t].status = "running",
                             ![t].cmd = TRUE]
     \/ /\ "start" \in Faults
        /\ task' = [task EXCEPT ![t].pc = "over", ![t].status = "running"]
  /\ UNCHANGED <<lm, disk, agent>>

(* runProcess: the process ends, by itself, by its timeout or by a kill,    *)
(* and Wait's result becomes the status.                                    *)
ProcessExits(t, s) ==
  /\ task[t].pc = "running"
  /\ task' = [task EXCEPT ![t].pc = "exited", ![t].status = s]
  /\ UNCHANGED <<lm, disk, agent>>

(* A mutant of PersistResult: it does not wait for the process.             *)
PersistEarly(t) ==
  /\ task[t].pc \in {"running", "exited"}
  /\ disk' = [disk EXCEPT ![task[t].host][task[t].job].status = task[t].status]
  /\ UNCHANGED <<lm, task, agent>>

(* Task.persistResult: the status as it is by then.                         *)
PersistResult(t) ==
  /\ task[t].pc = "exited"
  /\ disk' = [disk EXCEPT ![task[t].host][task[t].job].status = task[t].status]
  /\ task' = [task EXCEPT ![t].pc = "over"]
  /\ UNCHANGED <<lm, agent>>

(* A process that outlived its agent ends; nobody waits for it.             *)
OrphanExits(t) ==
  /\ task[t].pc = "orphan"
  /\ task' = [task EXCEPT ![t] = FreeTask]
  /\ UNCHANGED <<lm, disk, agent>>

(* The process of the agent ends and is started again: LM is read back from *)
(* the directories of the last hour, one new object for each; processes go  *)
(* on as orphans; every other object is gone.                               *)
Restart(h) ==
  LET mine   == {t \in TaskIds : task[t].host = h}
      onDisk == OnDisk(h)
      spare  == {t \in TaskIds : (t \in mine /\ ~Live(t)) \/ Unused(t)}
  IN  \E id \in [onDisk -> spare] :
        /\ \A j, k \in onDisk : id[j] = id[k] => j = k
        /\ lm' = [lm EXCEPT ![h] = [j \in Jobs |->
                    IF j \in onDisk THEN id[j] ELSE NoTask]]
        /\ task' = [t \in TaskIds |->
             IF \E j \in onDisk : id[j] = t
             THEN LET j == CHOOSE k \in onDisk : id[k] = t
                  IN  [FreeTask EXCEPT !.pc = "over", !.host = h, !.job = j,
                                       !.status = disk[h][j].status]
             ELSE IF t \in mine /\ Live(t)
                  THEN [task[t] EXCEPT !.pc = "orphan", !.kill = FALSE]
             ELSE IF t \in mine THEN FreeTask ELSE task[t]]
        /\ agent' = [agent EXCEPT ![h] = IdleAgent]
        /\ UNCHANGED disk

Crash(h) == "crash" \in Faults /\ Restart(h)

(* The goroutine of Task.Kill: the status is set and the process group gets *)
(* SIGKILL, to which ProcessExits reacts if it is still there.              *)
Kill(t) ==
  /\ task[t].kill
  /\ task[t].cmd
  /\ task' = [task EXCEPT ![t].kill = FALSE, ![t].status = "killed"]
  /\ UNCHANGED <<lm, disk, agent>>

(* Without a process (Start has not got there, or failed, or the task was   *)
(* read back from disk) t.Cmd.Process.Pid is a nil dereference.             *)
KillPanics(t) ==
  /\ task[t].kill
  /\ ~task[t].cmd
  /\ Restart(task[t].host)

(* An hour passes since the job was started on the host.                    *)
HourPasses(h, j) ==
  /\ "hour" \in Faults
  /\ disk[h][j].fresh
  /\ disk' = [disk EXCEPT ![h][j].fresh = FALSE]
  /\ UNCHANGED <<lm, task, agent>>

-----------------------------------------------------------------------------
Init ==
  /\ lm = [h \in Hosts |-> [j \in Jobs |-> NoTask]]
  /\ task = [t \in TaskIds |-> FreeTask]
  /\ disk = [h \in Hosts |-> [j \in Jobs |-> [fresh |-> FALSE, status |-> Unset]]]
  /\ agent = [h \in Hosts |-> IdleAgent]

(* The steps of the goroutines and of the process of a task.                *)
TaskStep(t) ==
  \/ Prepare(t)
  \/ StartProcess(t)
  \/ \E s \in Reported : ProcessExits(t, s)
  \/ PersistResult(t)
  \/ OrphanExits(t)
  \/ Kill(t)
  \/ KillPanics(t)

(* A response of an unconstrained server: any tasks, and receipts for any   *)
(* of the results that were sent.                                           *)
AnyResponse(h) ==
  \E tasks \in [Jobs -> {"no", "run", "kill"}],
     acked \in SUBSET {j \in Jobs : agent[h].sent[j] # "absent"} :
    ReceiveResponse(h, tasks, acked)

Next ==
  \/ \E h \in Hosts :
       \/ SendReport(h)
       \/ ReportFails(h)
       \/ AnyResponse(h)
       \/ AssignTask(h)
       \/ Crash(h)
       \/ \E j \in Jobs : HourPasses(h, j)
  \/ \E t \in TaskIds : TaskStep(t)

Spec == Init /\ [][Next]_agentVars

-----------------------------------------------------------------------------
TypeOK ==
  /\ lm \in [Hosts -> [Jobs -> TaskIds \cup {NoTask}]]
  /\ task \in [TaskIds -> TaskRecord]
  /\ disk \in [Hosts -> [Jobs -> Directory]]
  /\ agent \in [Hosts -> AgentRecord]
  /\ \A t \in TaskIds :
       task[t].pc # "free" => task[t].host \in Hosts /\ task[t].job \in Jobs
  /\ \A h \in Hosts, j \in Jobs : lm[h][j] # NoTask =>
       task[lm[h][j]].host = h /\ task[lm[h][j]].job = j

(* A machine never runs a job twice at the same time, although the server   *)
(* offers it again after a lost response or a restart of the agent: the     *)
(* startTime file outlives the agent, and AssignTask skips what is on disk. *)
NoParallelRuns ==
  \A t, u \in TaskIds :
    /\ Live(t)
    /\ Live(u)
    /\ task[t].host = task[u].host
    /\ task[t].job = task[u].job
    => t = u

(* Without the startTime file, which counts for an hour only, LM alone keeps *)
(* one agent from running a job twice at once; the exception is a process   *)
(* that was killed, reported as killed, and is still dying.                 *)
OneRunPerAgent ==
  \A t, u \in TaskIds :
    /\ task[t].pc = "running"
    /\ task[u].pc = "running"
    /\ task[t].host = task[u].host
    /\ task[t].job = task[u].job
    => t = u \/ "killed" \in {task[t].status, task[u].status}

(* A result that is or will be reported, in LM or in a status file to be    *)
(* read back after a restart, belongs to a process that has ended.          *)
TruthfulResults ==
  \A h \in Hosts, j \in Jobs :
    \/ disk[h][j].status \in {"success", "failed"}
    \/ lm[h][j] # NoTask /\ task[lm[h][j]].status \in {"success", "failed"}
    => ~\E t \in TaskIds : Live(t) /\ task[t].host = h /\ task[t].job = j

(* A task leaves LM while its process runs only after a Kill marked it:     *)
(* the receipts of a response that took long never hit a run begun since,   *)
(* and a restart reads a running task back.                                 *)
ForgetsEnded ==
  \A h \in Hosts, j \in Jobs :
    /\ lm[h][j] # NoTask
    /\ lm'[h][j] = NoTask
    /\ task[lm[h][j]].pc = "running"
    => task[lm[h][j]].status = "killed"

ForgetsOnlyEnded == [][ForgetsEnded]_lm

=============================================================================
