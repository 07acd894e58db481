------------------------------ MODULE JobServer ------------------------------
(***************************************************************************)
(* The server half of the job-execution subsystem: the job_task and        *)
(* job_result tables (models/tbl_jobexec_*.go), the operator's web         *)
(* handlers (web/view_server/api_jobexec_task.go), the scheduler that      *)
(* refreshes the dispatch cache (cache/job_exec.go) and the gRPC handler   *)
(* the agents report to (rpc/job_exec.go).                                 *)
(*                                                                         *)
(* A read and the write that depends on what was read are steps of their   *)
(* own, so that web handlers, the scheduler and any number of report       *)
(* handlers interleave between the two.  Reports are taken from an         *)
(* unconstrained environment; module JobExec replaces it by the real       *)
(* agents.                                                                 *)
(***************************************************************************)
EXTENDS Naturals, FiniteSets

CONSTANTS
  Jobs,        (* ids of job_task rows (auto-increment from 1, not reused)  *)
  Hosts,       (* target machines, each the rank (from 1) of its ip in the  *)
               (* order of strings                                          *)
  Calls,       (* TaskReport invocations that may be in progress at once    *)
  Targets,     (* HostsRaw: the machines a job was created for              *)
  BatchSize,   (* BatchSize of a job, 0 for no limit                        *)
  Strategies,  (* the OnErrorStrategy values jobs are created with          *)
  Operations,  (* what operators do, besides creating jobs                  *)
  Reported,    (* what agents report of a task: a subset of Reports         *)
  Faults       (* the faults that may occur, see Assumption                 *)

(* What a report says of a job; "" is a task the agent never started.       *)
Reports == {"absent", "", "killed", "success", "failed"}

ASSUME Assumption ==
  /\ Jobs \subseteq Nat \ {0}
  /\ Hosts \subseteq Nat \ {0}
  /\ IsFiniteSet(Hosts)
  /\ Targets \in [Jobs -> SUBSET Hosts]
  /\ BatchSize \in [Jobs -> Nat]
  /\ Strategies \subseteq {"ignore", "pause", "stop"}
  /\ Operations \subseteq {"start", "kill", "pause", "resume", "stop",
                           "edit", "delete"}
  /\ Reported \subseteq Reports \ {"absent"}
  /\ Faults \subseteq {"db",         (* a database call of the server fails  *)
                       "restart",    (* the server process restarts          *)
                       "rpc",        (* a TaskReport times out at the agent  *)
                       "crash",      (* the agent process restarts           *)
                       "prepare",    (* Task.Prepare fails (disk)            *)
                       "start",      (* exec.Cmd.Start fails                 *)
                       "slow_start", (* a report overtakes a Start goroutine *)
                       "hour"}       (* an hour passes (GetAllTaskFromDisk)  *)

VARIABLES
  job,      (* job_task: what UpdateOne writes back, per job                *)
  row,      (* job_result: status of the row of (job, host), or "none"      *)
  cached,   (* TaskCache.M: how a job is listed for a host, or "no"         *)
  sync,     (* the local variables of TaskCache.SyncCache                   *)
  call,     (* the local variables of each TaskReport invocation            *)
  deleting  (* the jobs for which deleteJobExecTask is past its check       *)

vars == <<job, row, cached, sync, call, deleting>>

-----------------------------------------------------------------------------
(* common/const.go: JOB_ACTION_NEXT_STATUS_MAP.                             *)
NextStatus ==
  [start |-> "running", kill |-> "killing", pause |-> "paused",
   resume |-> "running", stop |-> "finished"]

JobStatuses ==
  {"absent", "deleted", "pending", "running", "paused", "killing", "killed",
   "finished", "success", "failed"}

(* "killing for more than a minute", SyncCache's only use of UpdatedAt, is  *)
(* the flag aged; "" is Go's zero value, which gorm's Updates leaves alone. *)
JobRow == [status   : JobStatuses \cup {""},
           action   : {"", "kill"},
           strategy : Strategies \cup {""},
           aged     : BOOLEAN]

RowStatuses  == {"none", "running", "killed", "success", "failed"}
CacheEntries == {"no", "run", "kill"}
Nothing      == [h \in Hosts |-> [j \in Jobs |-> "no"]]
NoRow        == [status |-> "absent", action |-> "", strategy |-> "",
                 aged |-> FALSE]
NoReport     == [j \in Jobs |-> "absent"]
NoTasks      == [j \in Jobs |-> "no"]

ExistsAlsoDeleted(j) == job[j].status # "absent"   \* mutant: Unscoped()

Exists(j) == job[j].status \notin {"absent", "deleted"}

(* A mutant of Overwrite: Save instead of Updates, zero values included.    *)
OverwriteZero(old, new) ==
  [status   |-> IF new.status = "" THEN old.status ELSE new.status,
   action   |-> new.action,
   strategy |-> new.strategy,
   aged     |-> FALSE]

(* The fields gorm's Updates(struct) changes: the non-zero ones of the      *)
(* struct, and UpdatedAt.                                                   *)
Overwrite(old, new) ==
  [status   |-> IF new.status = "" THEN old.status ELSE new.status,
   action   |-> IF new.action = "" THEN old.action ELSE new.action,
   strategy |-> IF new.strategy = "" THEN old.strategy ELSE new.strategy,
   aged     |-> FALSE]

(* JobTask.UpdateOne: writes the whole struct; no row, no effect.           *)
UpdateOne(j, new) ==
  job' = IF Exists(j) THEN [job EXCEPT ![j] = Overwrite(@, new)] ELSE job

-----------------------------------------------------------------------------
(* The web handlers.                                                        *)

createJobExecTask(j, strategy) ==
  /\ job[j].status = "absent"
  /\ job' = [job EXCEPT ![j] = [status |-> "pending", action |-> "",
                                strategy |-> strategy, aged |-> FALSE]]
  /\ UNCHANGED <<row, cached, sync, call, deleting>>

(* An edit of the error strategy, the one field of the request that the     *)
(* model has; requests that carry a status of their own are left out.       *)
updateJobExecTask(j, strategy) ==
  /\ Exists(j)
  /\ UpdateOne(j, [NoRow EXCEPT !.status = "", !.strategy = strategy])
  /\ UNCHANGED <<row, cached, sync, call, deleting>>

(* The check that the job is not running, on the row as it was read.        *)
deleteJobExecTask(j) ==
  /\ Exists(j)
  /\ job[j].status # "running"
  /\ deleting' = deleting \cup {j}
  /\ UNCHANGED <<job, row, cached, sync, call>>

(* JobTask.DeleteOne, the row having been checked before; the rows of       *)
(* job_result stay.                                                         *)
DeleteOne(j) ==
  /\ j \in deleting
  /\ \/ /\ Exists(j)
        /\ job' = [job EXCEPT ![j] = [NoRow EXCEPT !.status = "deleted"]]
     \/ /\ ~Exists(j) \/ "db" \in Faults
        /\ UNCHANGED job
  /\ deleting' = deleting \ {j}
  /\ UNCHANGED <<row, cached, sync, call>>

(* No guard on the present status.  The row is read and written in one      *)
(* step: the status written does not depend on what was read, action is     *)
(* only ever set, and to write back a strategy that was edited meanwhile is *)
(* to repeat the older edit.                                                *)
actionJobExecTaskOne(j, a) ==
  /\ Exists(j)
  /\ UpdateOne(j, [job[j] EXCEPT !.status = NextStatus[a],
                                 !.action = IF a = "kill" THEN "kill" ELSE @])
  /\ UNCHANGED <<row, cached, sync, call, deleting>>

(* A minute passes since the last write of a job that is being killed.      *)
MinutePasses(j) ==
  /\ job[j].status = "killing"
  /\ job' = [job EXCEPT ![j].aged = TRUE]
  /\ UNCHANGED <<row, cached, sync, call, deleting>>

-----------------------------------------------------------------------------
(* TaskCache.SyncCache, run by one goroutine.                               *)

IdleSync == [pc |-> "idle", todo |-> {}, snap |-> [j \in Jobs |-> NoRow],
             resM |-> Nothing]

(* GetJobTaskUnDone.  When it returns no job, or fails, SyncCache returns   *)
(* and leaves M as it was: no step.                                         *)
SyncScan ==
  LET undone == {j \in Jobs : job[j].status \in {"running", "killing"}}
  IN  /\ sync.pc = "idle"
      /\ undone # {}
      /\ sync' = [pc |-> "loop", todo |-> undone, resM |-> Nothing,
                  snap |-> [j \in Jobs |-> IF j \in undone THEN job[j]
                                                           ELSE NoRow]]
      /\ UNCHANGED <<job, row, cached, call, deleting>>

(* A mutant of FirstHosts: the cut is one too long.                         *)
FirstHostsOneMore(S, n) ==
  IF n = 0 THEN S ELSE {h \in S : Cardinality({g \in S : g < h}) <= n}

(* sort.Strings and the cut at BatchSize.                                   *)
FirstHosts(S, n) ==
  IF n = 0 THEN S ELSE {h \in S : Cardinality({g \in S : g < h}) < n}

UnscheduledAll(j) == Targets[j]   \* mutant: hosts with a row are not left out

(* The targets without a row.                                               *)
Unscheduled(j) == {h \in Targets[j] : row[j][h] = "none"}

Enlist(M, j, hosts, entry) ==
  [h \in Hosts |-> [M[h] EXCEPT ![j] = IF h \in hosts THEN entry ELSE @]]

(* One iteration of the loop over the scanned jobs.  toKillIps is never     *)
(* filled (its Unmarshal is commented out), so toKill adds no host.  Giving *)
(* the job up and reading its rows are one step: nobody but SyncCache tells *)
(* killing from killed.                                                     *)
SyncTask(j) ==
  LET seen == sync.snap[j]
  IN  /\ sync.pc = "loop"
      /\ j \in sync.todo
      /\ \/ /\ seen.status = "killing"
            /\ seen.aged
            /\ UpdateOne(j, [seen EXCEPT !.status = "killed"])
         \/ /\ ~(seen.status = "killing" /\ seen.aged) \/ "db" \in Faults
            /\ UNCHANGED job
      /\ \/ sync' = [sync EXCEPT
              !.todo = @ \ {j},
              !.resM = Enlist(@, j, FirstHosts(Unscheduled(j), BatchSize[j]),
                              IF seen.action = "kill" THEN "kill" ELSE "run")]
         \/ /\ "db" \in Faults    \* GetJobResultByJobId fails: continue
            /\ sync' = [sync EXCEPT !.todo = @ \ {j}]
      /\ UNCHANGED <<row, cached, call, deleting>>

SyncSwap ==
  /\ sync.pc = "loop"
  /\ sync.todo = {}
  /\ cached' = sync.resM
  /\ sync' = IdleSync
  /\ UNCHANGED <<job, row, call, deleting>>

-----------------------------------------------------------------------------
(* JobExecServer.TaskReport, one record per invocation.                     *)

FreeCall == [pc |-> "free", host |-> 0, todo |-> NoReport, acked |-> {},
             cur |-> 0, res |-> "absent", snap |-> NoRow,
             tasks |-> NoTasks, err |-> FALSE]

Goto(c, pc) == call' = [call EXCEPT ![c].pc = pc]

(* The handler is done with the result it was at.                           *)
NextResult(c) ==
  call' = [call EXCEPT ![c] = [call[c] EXCEPT !.pc = "next", !.cur = 0,
                                        !.res = "absent", !.snap = NoRow]]

(* A request arrives; its results are handled in any order.                 *)
Receive(c, h, results) ==
  /\ call[c].pc = "free"
  /\ call' = [call EXCEPT ![c] = [FreeCall EXCEPT !.pc = "next", !.host = h,
                                                  !.todo = results]]
  /\ UNCHANGED <<job, row, cached, sync, deleting>>

RecordedZero(old, res) == res     \* mutant: Save instead of Updates
RecordedNever(old, res) == old    \* mutant: the struct written is not changed

(* JobResult.UpdateOne: an empty status is a zero value.                    *)
Recorded(old, res) == IF res = "" THEN old ELSE res

(* GetJobResultByJobIdAndHostIp and JobResult.UpdateOne, then the receipt.  *)
(* A result without a row, or that cannot be written, is passed over.       *)
SaveResult(c, j) ==
  LET h       == call[c].host
      res     == call[c].todo[j]
      handled == [call[c].todo EXCEPT ![j] = "absent"]
  IN  /\ call[c].pc = "next"
      /\ res # "absent"
      /\ \/ /\ row[j][h] # "none"
            /\ row' = [row EXCEPT ![j][h] = Recorded(@, res)]
            /\ call' = [call EXCEPT ![c] = [call[c] EXCEPT !.pc = "judge",
                          !.cur = j, !.todo = handled, !.res = res,
                          !.acked = @ \cup {j}]]
         \/ /\ row[j][h] = "none" \/ "db" \in Faults
            /\ call' = [call EXCEPT ![c] = [call[c] EXCEPT !.todo = handled]]
            /\ UNCHANGED row
      /\ UNCHANGED <<job, cached, sync, deleting>>

(* A mutant of StrategyStatus: the status of the job is left as it was set. *)
StrategyStatusRunning(strategy) ==
  IF strategy = "pause" THEN "running" ELSE "finished"

StrategyStatus(strategy) == IF strategy = "pause" THEN "paused" ELSE "finished"

(* JobResult.JudgeByOnErrorStrategy up to its UpdateOne.                    *)
JudgeByOnErrorStrategy(c) ==
  LET j     == call[c].cur
      quiet == \/ ~Exists(j)
               \/ call[c].res = "success"
               \/ job[j].strategy \notin {"pause", "stop"}
               \/ job[j].strategy = "pause" /\ job[j].action = "kill"
      next  == StrategyStatus(job[j].strategy)
  IN  /\ call[c].pc = "judge"
      /\ \/ (quiet \/ "db" \in Faults) /\ Goto(c, "check")
         \/ /\ ~quiet
            /\ call' = [call EXCEPT ![c] = [call[c] EXCEPT !.pc = "judgeWrite",
                          !.snap = [job[j] EXCEPT !.status = next]]]
      /\ UNCHANGED <<job, row, cached, sync, deleting>>

(* The UpdateOne of the strategy, whose error is ignored.                   *)
JudgeWrite(c) ==
  /\ call[c].pc = "judgeWrite"
  /\ \/ UpdateOne(call[c].cur, call[c].snap)
     \/ "db" \in Faults /\ UNCHANGED job
  /\ call' = [call EXCEPT ![c] = [call[c] EXCEPT !.pc = "check",
                                                 !.snap = NoRow]]
  /\ UNCHANGED <<row, cached, sync, deleting>>

(* The job is read again: only a running job may complete.                  *)
RereadJob(c) ==
  LET j == call[c].cur
  IN  /\ call[c].pc = "check"
      /\ \/ /\ job[j].status = "running"
            /\ call' = [call EXCEPT ![c] = [call[c] EXCEPT !.pc = "collect",
                                                     !.snap = job[j]]]
         \/ (job[j].status # "running" \/ "db" \in Faults) /\ NextResult(c)
      /\ UNCHANGED <<job, row, cached, sync, deleting>>

Results(j) == {h \in Hosts : row[j][h] # "none"}

(* A mutant of Completed: rows that are still running count.                *)
CompletedByCount(j) ==
  /\ Targets[j] # {}
  /\ Cardinality(Results(j)) >= Cardinality(Targets[j])

(* Every target must have a row and no row may be running.                  *)
Completed(j) ==
  /\ Targets[j] # {}
  /\ Cardinality(Results(j)) >= Cardinality(Targets[j])
  /\ \A h \in Results(j) : row[j][h] # "running"

(* JobTask.CheckAndComplete up to its UpdateOne.                            *)
CheckAndComplete(c) ==
  LET j   == call[c].cur
      bad == \E h \in Results(j) : row[j][h] \in {"failed", "killed"}
  IN  /\ call[c].pc = "collect"
      /\ \/ /\ Completed(j)
            /\ call' = [call EXCEPT ![c] = [call[c] EXCEPT !.pc = "complete",
                          !.snap = [@ EXCEPT !.status = IF bad THEN "failed"
                                                        ELSE "success"]]]
         \/ (~Completed(j) \/ "db" \in Faults) /\ NextResult(c)
      /\ UNCHANGED <<job, row, cached, sync, deleting>>

CompleteWrite(c) ==
  /\ call[c].pc = "complete"
  /\ \/ UpdateOne(call[c].cur, call[c].snap)
     \/ "db" \in Faults /\ UNCHANGED job
  /\ NextResult(c)
  /\ UNCHANGED <<row, cached, sync, deleting>>

CreateAlways(status) == "running"   \* mutant: a row that is there is reset
GetOnly(status) == status           \* mutant: a row that is missing is not made

(* JobResult.GetOrCreate, by the status of the row.                         *)
GetOrCreate(status) == IF status = "none" THEN "running" ELSE status

(* The results are handled; the tasks of the host are taken from the cache  *)
(* as it is now.                                                            *)
GetTaskByIp(c) ==
  /\ call[c].pc = "next"
  /\ call[c].todo = NoReport
  /\ call' = [call EXCEPT ![c] = [call[c] EXCEPT !.pc = "assign",
                                     !.tasks = cached[call[c].host]]]
  /\ UNCHANGED <<job, row, cached, sync, deleting>>

(* GetOrCreate for each of them.  The handler's named result keeps the      *)
(* error of the last one only: the call fails when the row of the last job  *)
(* could not be created, and succeeds when an earlier one could not.        *)
AssignTasks(c) ==
  LET h     == call[c].host
      tasks == {j \in Jobs : call[c].tasks[j] # "no"}
  IN  /\ call[c].pc = "assign"
      /\ \E failed \in SUBSET tasks :
           /\ failed # {} => "db" \in Faults
           /\ row' = [j \in Jobs |->
                IF j \in tasks \ failed
                THEN [row[j] EXCEPT ![h] = GetOrCreate(@)] ELSE row[j]]
           /\ call' = [call EXCEPT ![c] = [call[c] EXCEPT !.pc = "reply",
                         !.err = \E j \in failed : \A k \in tasks : k <= j]]
      /\ UNCHANGED <<job, cached, sync, deleting>>

(* The invocation returns, to an agent that may have given up waiting.      *)
Return(c) ==
  /\ call[c].pc = "reply"
  /\ call' = [call EXCEPT ![c] = FreeCall]
  /\ UNCHANGED <<job, row, cached, sync, deleting>>

(* The server process restarts: the tables are all that is left.            *)
RestartServer ==
  /\ "restart" \in Faults
  /\ cached' = Nothing
  /\ sync' = IdleSync
  /\ call' = [c \in Calls |-> FreeCall]
  /\ deleting' = {}
  /\ UNCHANGED <<job, row>>

-----------------------------------------------------------------------------
Init ==
  /\ job = [j \in Jobs |-> NoRow]
  /\ row = [j \in Jobs |-> [h \in Hosts |-> "none"]]
  /\ cached = Nothing
  /\ sync = IdleSync
  /\ call = [c \in Calls |-> FreeCall]
  /\ deleting = {}

Operator ==
  \E j \in Jobs :
    \/ \E s \in Strategies :
         \/ createJobExecTask(j, s)
         \/ "edit" \in Operations /\ updateJobExecTask(j, s)
    \/ "delete" \in Operations /\ deleteJobExecTask(j)
    \/ DeleteOne(j)
    \/ \E a \in Operations \ {"edit", "delete"} : actionJobExecTaskOne(j, a)

Scheduler == SyncScan \/ (\E j \in Jobs : SyncTask(j)) \/ SyncSwap

Handle(c) ==
  \/ \E j \in Jobs : SaveResult(c, j)
  \/ JudgeByOnErrorStrategy(c)
  \/ JudgeWrite(c)
  \/ RereadJob(c)
  \/ CheckAndComplete(c)
  \/ CompleteWrite(c)
  \/ GetTaskByIp(c)
  \/ AssignTasks(c)

Next ==
  \/ Operator
  \/ \E j \in Jobs : MinutePasses(j)
  \/ Scheduler
  \/ \E c \in Calls :
       \/ \E h \in Hosts, r \in [Jobs -> Reported \cup {"absent"}] :
            Receive(c, h, r)
       \/ Handle(c)
       \/ Return(c)
  \/ RestartServer

Spec == Init /\ [][Next]_vars

-----------------------------------------------------------------------------
(* Types: what the tables, the cache and the local variables may hold.      *)
CallRecord ==
  [pc    : {"free", "next", "judge", "judgeWrite", "check", "collect",
            "complete", "assign", "reply"},
   host  : Hosts \cup {0},
   todo  : [Jobs -> Reports],
   acked : SUBSET Jobs,
   cur   : Jobs \cup {0},
   res   : Reports,
   snap  : JobRow,
   tasks : [Jobs -> CacheEntries],
   err   : BOOLEAN]

TypeOK ==
  /\ job \in [Jobs -> JobRow]
  /\ row \in [Jobs -> [Hosts -> RowStatuses]]
  /\ cached \in [Hosts -> [Jobs -> CacheEntries]]
  /\ sync \in [pc : {"idle", "loop"}, todo : SUBSET Jobs,
               snap : [Jobs -> JobRow], resM : [Hosts -> [Jobs -> CacheEntries]]]
  /\ call \in [Calls -> CallRecord]
  /\ deleting \subseteq Jobs
  /\ \A c \in Calls :
       /\ call[c].pc # "free" => call[c].host # 0
       /\ call[c].pc \in {"judge", "judgeWrite", "check", "collect", "complete"}
            => call[c].cur # 0

(* Every target of the job has reported, and nothing is left running.       *)
AllReported(j) ==
  /\ Targets[j] # {}
  /\ \A h \in Targets[j] : row[j][h] \notin {"none", "running"}

(* A job is marked success or failed only when every one of its machines    *)
(* has been given the job and has reported, whatever the report handlers,   *)
(* the scheduler and the operators overwrite in between (CheckAndComplete   *)
(* decides on rows it read earlier; AssignTasks adds rows meanwhile).       *)
CompletedMeansAllReported ==
  \A j \in Jobs : job[j].status \in {"success", "failed"} => AllReported(j)

(* A row is never taken back: once dispatched it stays, and once it left    *)
(* "running" no late or empty report and no repeated dispatch (GetOrCreate) *)
(* makes it running again.                                                  *)
RowSettlesOnce ==
  [][\A j \in Jobs, h \in Hosts :
       /\ row[j][h] # "none" => row'[j][h] # "none"
       /\ row[j][h] \notin {"none", "running"} => row'[j][h] # "running"]_row

(* No handler and no scheduler pass puts a job back to running by writing   *)
(* the stale row it holds: only an operator (re)starts a job.               *)
OnlyOperatorsStartJobs ==
  [][\A j \in Jobs :
       job'[j].status = "running" /\ job[j].status # "running"
         => sync' = sync /\ call' = call]_vars

(* The kill mark of a job outlives every concurrent write of a row that was *)
(* read before the kill: zero values are not written.                       *)
KillMarkSticks ==
  [][\A j \in Jobs :
       job[j].action = "kill" /\ job'[j].status # "deleted"
         => job'[j].action = "kill"]_job

(* "检查任务是否正在运行，防止误删正在执行的后台任务": the check is meant   *)
(* to keep a running job from being deleted.                                *)
NoRunningJobDeleted ==
  [][\A j \in Jobs : job[j].status = "running" => job'[j].status # "deleted"]_job

(* Between two refreshes of the cache at most BatchSize machines are        *)
(* offered a job.                                                           *)
BatchHonoured ==
  \A j \in Jobs : BatchSize[j] > 0 =>
    Cardinality({h \in Hosts : cached[h][j] # "no"}) <= BatchSize[j]

-----------------------------------------------------------------------------
Ledger == INSTANCE JobLedger
            WITH status <- [j \in Jobs |-> job[j].status],
                 asked  <- {j \in Jobs : job[j].action = "kill"}

(* The two tables obey the ledger: a machine gets a row only if the job is  *)
(* meant for it and keeps it, a recorded result is only replaced by another *)
(* result, a job is concluded only when all have reported, killed only if   *)
(* somebody asked for it, and nothing brings a deleted job back.            *)
ImplementsLedger == Ledger!Spec

=============================================================================
