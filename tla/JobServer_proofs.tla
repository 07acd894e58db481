--------------------------- MODULE JobServer_proofs ---------------------------
(***************************************************************************)
(* Proofs about JobServer, for any number of jobs, machines and report     *)
(* handlers, any batch sizes and any of the faults: its types, that it     *)
(* implements JobLedger, and the safety properties of its tables and of    *)
(* its dispatch cache that follow.                                         *)
(***************************************************************************)
EXTENDS JobServer, FiniteSetTheorems, TLAPS

-----------------------------------------------------------------------------
(* What gorm's Updates(struct) leaves in the table.                         *)

LEMMA OverwriteType ==
  ASSUME NEW old \in JobRow, NEW new \in JobRow
  PROVE  Overwrite(old, new) \in JobRow
BY DEF Overwrite, JobRow

LEMMA UpdateOneType ==
  ASSUME job \in [Jobs -> JobRow], NEW j \in Jobs, NEW new \in JobRow,
         UpdateOne(j, new)
  PROVE  job' \in [Jobs -> JobRow]
<1>1. job[j] \in JobRow
  OBVIOUS
<1>2. Overwrite(job[j], new) \in JobRow
  BY <1>1, OverwriteType
<1> QED
  BY <1>2 DEF UpdateOne

LEMMA NoRowType == NoRow \in JobRow
BY DEF NoRow, JobRow, JobStatuses

LEMMA FreeCallType == FreeCall \in CallRecord
BY NoRowType DEF FreeCall, CallRecord, NoReport, NoTasks, Reports, CacheEntries

-----------------------------------------------------------------------------
(* The handler at a result knows which job it is at.                        *)
Cursor(r) ==
  /\ r.pc # "free" => r.host # 0
  /\ r.pc \in {"judge", "judgeWrite", "check", "collect", "complete"}
       => r.cur # 0

JobType   == job \in [Jobs -> JobRow]
RowType   == row \in [Jobs -> [Hosts -> RowStatuses]]
CacheType == cached \in [Hosts -> [Jobs -> CacheEntries]]
SyncType  == sync \in [pc : {"idle", "loop"}, todo : SUBSET Jobs,
               snap : [Jobs -> JobRow], resM : [Hosts -> [Jobs -> CacheEntries]]]
CallType  == call \in [Calls -> CallRecord] /\ \A c \in Calls : Cursor(call[c])

LEMMA TypeParts ==
  TypeOK <=> /\ JobType /\ RowType /\ CacheType /\ SyncType /\ CallType
             /\ deleting \subseteq Jobs
BY DEF TypeOK, JobType, RowType, CacheType, SyncType, CallType, Cursor

LEMMA IdleSyncType ==
  IdleSync \in [pc : {"idle", "loop"}, todo : SUBSET Jobs,
               snap : [Jobs -> JobRow], resM : [Hosts -> [Jobs -> CacheEntries]]]
BY NoRowType DEF IdleSync, Nothing, CacheEntries

LEMMA InitType == Init => TypeOK
<1> SUFFICES ASSUME Init
             PROVE  JobType /\ RowType /\ CacheType /\ SyncType /\ CallType
  BY TypeParts DEF Init
<1>1. JobType
  BY NoRowType DEF Init, JobType
<1>2. RowType
  BY DEF Init, RowType, RowStatuses
<1>3. CacheType
  BY DEF Init, CacheType, Nothing, CacheEntries
<1>4. SyncType
  BY IdleSyncType DEF Init, SyncType
<1>5. CallType
  BY FreeCallType DEF Init, CallType, Cursor, FreeCall
<1> QED
  BY <1>1, <1>2, <1>3, <1>4, <1>5

-----------------------------------------------------------------------------
(* Each action preserves the types.                                         *)

LEMMA OperatorType == TypeOK /\ Operator => TypeOK'
<1> SUFFICES ASSUME TypeOK, Operator PROVE TypeOK'
  OBVIOUS
<1> USE Assumption
<1>1. JobType
  BY TypeParts
<1>2. UNCHANGED <<row, cached, sync, call>>
  BY DEF Operator, createJobExecTask, updateJobExecTask, deleteJobExecTask,
         DeleteOne, actionJobExecTaskOne
<1>3. ASSUME NEW j \in Jobs, NEW s \in Strategies, createJobExecTask(j, s)
      PROVE  job' \in [Jobs -> JobRow]
  BY <1>1, <1>3 DEF JobType, createJobExecTask, JobRow, JobStatuses
<1>4. ASSUME NEW j \in Jobs, NEW s \in Strategies, updateJobExecTask(j, s)
      PROVE  job' \in [Jobs -> JobRow]
  <2>1. [NoRow EXCEPT !.status = "", !.strategy = s] \in JobRow
    BY DEF NoRow, JobRow
  <2> QED
    BY <1>1, <1>4, <2>1, UpdateOneType DEF JobType, updateJobExecTask
<1>5. ASSUME NEW j \in Jobs, deleteJobExecTask(j) \/ DeleteOne(j)
      PROVE  job' \in [Jobs -> JobRow]
  <2> DEFINE gone == [NoRow EXCEPT !.status = "deleted"]
  <2>1. gone \in JobRow
    BY DEF NoRow, JobRow, JobStatuses
  <2>2. job' = job \/ job' = [job EXCEPT ![j] = gone]
    BY <1>5 DEF deleteJobExecTask, DeleteOne
  <2> HIDE DEF gone
  <2> QED
    BY <1>1, <2>1, <2>2 DEF JobType
<1>6. ASSUME NEW j \in Jobs, NEW a \in Operations \ {"edit", "delete"},
             actionJobExecTaskOne(j, a)
      PROVE  job' \in [Jobs -> JobRow]
  <2>1. NextStatus[a] \in JobStatuses
    <3>1. a \in {"start", "kill", "pause", "resume", "stop"}
      OBVIOUS
    <3>2. /\ NextStatus["start"] = "running"
          /\ NextStatus["kill"] = "killing"
          /\ NextStatus["pause"] = "paused"
          /\ NextStatus["resume"] = "running"
          /\ NextStatus["stop"] = "finished"
      BY DEF NextStatus
    <3> QED
      BY <3>1, <3>2 DEF JobStatuses
  <2>2. job[j] \in JobRow
    BY <1>1 DEF JobType
  <2>3. [job[j] EXCEPT !.status = NextStatus[a],
                       !.action = IF a = "kill" THEN "kill" ELSE @] \in JobRow
    BY <2>1, <2>2 DEF JobRow
  <2> QED
    BY <1>1, <1>6, <2>3, UpdateOneType DEF JobType, actionJobExecTaskOne
<1>7. job' \in [Jobs -> JobRow]
  BY <1>3, <1>4, <1>5, <1>6 DEF Operator
<1>8. deleting' \subseteq Jobs
  <2>1. deleting \subseteq Jobs
    BY TypeParts
  <2>2. \/ deleting' = deleting
        \/ \E j \in Jobs : deleting' = deleting \cup {j} \/ deleting' = deleting \ {j}
    BY DEF Operator, createJobExecTask, updateJobExecTask, deleteJobExecTask,
           DeleteOne, actionJobExecTaskOne
  <2> QED
    BY <2>1, <2>2
<1> QED
  BY <1>2, <1>7, <1>8 DEF TypeOK, CallRecord

LEMMA MinutePassesType ==
  ASSUME TypeOK, NEW j \in Jobs, MinutePasses(j)
  PROVE  TypeOK'
<1>1. job' \in [Jobs -> JobRow]
  <2> DEFINE old == job[j]
             new == [old EXCEPT !.aged = TRUE]
  <2>1. new \in JobRow
    <3>1. old \in JobRow
      BY DEF TypeOK
    <3> QED
      BY <3>1 DEF JobRow
  <2>2. job' = [job EXCEPT ![j] = new]
    BY DEF MinutePasses
  <2> HIDE DEF new
  <2> QED
    BY <2>1, <2>2 DEF TypeOK
<1> QED
  BY <1>1 DEF TypeOK, MinutePasses

LEMMA SchedulerType == TypeOK /\ Scheduler => TypeOK'
<1> SUFFICES ASSUME TypeOK, Scheduler PROVE TypeOK'
  OBVIOUS
<1>1. CASE SyncScan
  <2>1. SyncType'
    BY <1>1, NoRowType DEF TypeOK, SyncScan, SyncType, Nothing, CacheEntries
  <2> QED
    BY <1>1, <2>1 DEF TypeOK, SyncScan, SyncType
<1>2. ASSUME NEW j \in Jobs, SyncTask(j)
      PROVE  TypeOK'
  <2>1. sync.snap[j] \in JobRow
    BY DEF TypeOK
  <2>2. [sync.snap[j] EXCEPT !.status = "killed"] \in JobRow
    BY <2>1 DEF JobRow, JobStatuses
  <2>3. job' \in [Jobs -> JobRow]
    BY <1>2, <2>2, UpdateOneType DEF TypeOK, SyncTask
  <2>4. ASSUME NEW hosts, NEW entry \in CacheEntries
        PROVE  Enlist(sync.resM, j, hosts, entry) \in [Hosts -> [Jobs -> CacheEntries]]
    BY DEF Enlist, TypeOK
  <2>5. SyncType'
    <3> DEFINE entry == IF sync.snap[j].action = "kill" THEN "kill" ELSE "run"
               hosts == FirstHosts(Unscheduled(j), BatchSize[j])
    <3>1. Enlist(sync.resM, j, hosts, entry) \in [Hosts -> [Jobs -> CacheEntries]]
      BY <2>4 DEF CacheEntries
    <3>2. \/ sync' = [sync EXCEPT !.todo = @ \ {j},
                                  !.resM = Enlist(@, j, hosts, entry)]
          \/ sync' = [sync EXCEPT !.todo = @ \ {j}]
      BY <1>2 DEF SyncTask
    <3> HIDE DEF entry, hosts
    <3> QED
      BY <3>1, <3>2 DEF TypeOK, SyncType
  <2> QED
    BY <1>2, <2>3, <2>5 DEF TypeOK, SyncTask, SyncType
<1>3. CASE SyncSwap
  BY <1>3, IdleSyncType DEF TypeOK, SyncSwap
<1> QED
  BY <1>1, <1>2, <1>3 DEF Scheduler

-----------------------------------------------------------------------------
(* The handler's steps replace one call record.                             *)

LEMMA CallUpdate ==
  ASSUME CallType, NEW c \in Calls, NEW rec \in CallRecord, Cursor(rec),
         call' = [call EXCEPT ![c] = rec]
  PROVE  CallType'
BY DEF CallType, Cursor

LEMMA NextResultType ==
  ASSUME CallType, NEW c \in Calls, call[c].pc # "free", NextResult(c)
  PROVE  CallType'
<1> DEFINE rec == [call[c] EXCEPT !.pc = "next", !.cur = 0, !.res = "absent",
                                  !.snap = NoRow]
<1>1. call[c] \in CallRecord /\ Cursor(call[c])
  BY DEF CallType
<1>2. rec \in CallRecord
  <2>1. "absent" \in Reports /\ 0 \in Jobs \cup {0}
    BY DEF Reports
  <2> QED
    BY <1>1, <2>1, NoRowType DEF CallRecord
<1>3. Cursor(rec)
  BY <1>1 DEF Cursor, CallRecord
<1>4. call' = [call EXCEPT ![c] = rec]
  BY DEF NextResult
<1> HIDE DEF rec
<1> QED
  BY <1>2, <1>3, <1>4, CallUpdate

LEMMA GotoType ==
  ASSUME CallType, NEW c \in Calls, call[c].pc = "judge", Goto(c, "check")
  PROVE  CallType'
<1> DEFINE rec == [call[c] EXCEPT !.pc = "check"]
<1>1. rec \in CallRecord /\ Cursor(rec)
  BY DEF Cursor, CallType, CallRecord
<1>2. call' = [call EXCEPT ![c] = rec]
  BY DEF Goto
<1> HIDE DEF rec
<1> QED
  BY <1>1, <1>2, CallUpdate

LEMMA ReceiveType ==
  ASSUME TypeOK, NEW c \in Calls, NEW h \in Hosts,
         NEW r \in [Jobs -> Reported \cup {"absent"}], Receive(c, h, r)
  PROVE  TypeOK'
<1> DEFINE rec == [FreeCall EXCEPT !.pc = "next", !.host = h, !.todo = r]
<1>1. r \in [Jobs -> Reports]
  BY Assumption DEF Reports
<1>2. rec \in CallRecord /\ Cursor(rec)
  BY <1>1, Assumption, FreeCallType DEF FreeCall, CallRecord, Cursor
<1>3. call' = [call EXCEPT ![c] = rec]
  BY DEF Receive
<1> HIDE DEF rec
<1>4. CallType'
  BY <1>2, <1>3, CallUpdate, TypeParts
<1> QED
  BY <1>4 DEF TypeOK, Receive, CallType, Cursor

LEMMA SaveResultType ==
  ASSUME TypeOK, NEW c \in Calls, NEW j \in Jobs, SaveResult(c, j)
  PROVE  TypeOK'
<1> DEFINE old    == call[c]
           h      == old.host
           res    == old.todo[j]
           todo   == [old.todo EXCEPT ![j] = "absent"]
           saved  == [old EXCEPT !.pc = "judge", !.cur = j, !.todo = todo,
                                 !.res = res, !.acked = @ \cup {j}]
           passed == [old EXCEPT !.todo = todo]
<1>1. call[c] \in CallRecord /\ call[c].pc = "next" /\ h \in Hosts
  BY DEF TypeOK, CallRecord, SaveResult
<1>2. res \in Reports \ {"absent"}
  BY <1>1 DEF CallRecord, SaveResult
<1>3. todo \in [Jobs -> Reports]
  BY <1>1 DEF CallRecord, Reports
<1>4. saved \in CallRecord /\ Cursor(saved)
  BY <1>1, <1>2, <1>3, Assumption DEF CallRecord, Cursor
<1>5. passed \in CallRecord /\ Cursor(passed)
  BY <1>1, <1>3, Assumption DEF CallRecord, Cursor
<1>6. row' = row \/ row' = [row EXCEPT ![j][h] = Recorded(row[j][h], res)]
  BY DEF SaveResult
<1>7. row' \in [Jobs -> [Hosts -> RowStatuses]]
  <2>1. row \in [Jobs -> [Hosts -> RowStatuses]]
    BY DEF TypeOK
  <2>2. res # "" => res \in RowStatuses
    BY <1>2 DEF RowStatuses, Reports
  <2> HIDE DEF res, h
  <2>3. h \in Hosts /\ Recorded(row[j][h], res) \in RowStatuses
    BY <1>1, <2>1, <2>2 DEF Recorded
  <2>4. ASSUME row' = [row EXCEPT ![j][h] = Recorded(row[j][h], res)]
        PROVE  row' \in [Jobs -> [Hosts -> RowStatuses]]
    BY <2>1, <2>3, <2>4
  <2> QED
    BY <1>6, <2>1, <2>4
<1>8. call' = [call EXCEPT ![c] = saved] \/ call' = [call EXCEPT ![c] = passed]
  BY DEF SaveResult
<1> HIDE DEF saved, passed
<1>9. CallType'
  BY <1>4, <1>5, <1>8, CallUpdate, TypeParts
<1> QED
  BY <1>7, <1>9 DEF TypeOK, SaveResult, CallType, Cursor

LEMMA JudgeType ==
  ASSUME TypeOK, NEW c \in Calls, JudgeByOnErrorStrategy(c)
  PROVE  TypeOK'
<1> DEFINE j    == call[c].cur
           next == StrategyStatus(job[j].strategy)
           snap == [job[j] EXCEPT !.status = next]
           rec  == [call[c] EXCEPT !.pc = "judgeWrite", !.snap = snap]
<1> HIDE DEF rec, snap
<1>0. call[c].pc = "judge"
  BY DEF JudgeByOnErrorStrategy
<1>1. call[c] \in CallRecord /\ j \in Jobs /\ Cursor(call[c])
  BY <1>0 DEF TypeOK, CallRecord, Cursor
<1>2. job[j] \in JobRow
  BY <1>1 DEF TypeOK
<1> USE DEF rec, snap
<1>3. snap \in JobRow
  BY <1>2 DEF JobRow, JobStatuses, StrategyStatus
<1>4. rec \in CallRecord /\ Cursor(rec)
  BY <1>0, <1>1, <1>3 DEF CallRecord, Cursor
<1>5. Goto(c, "check") \/ call' = [call EXCEPT ![c] = rec]
  BY DEF JudgeByOnErrorStrategy
<1> HIDE DEF rec
<1>6. CallType'
  BY <1>0, <1>1, <1>4, <1>5, CallUpdate, GotoType, TypeParts
<1> QED
  BY <1>6 DEF TypeOK, JudgeByOnErrorStrategy, CallType, Cursor

LEMMA JudgeWriteType ==
  ASSUME TypeOK, NEW c \in Calls, JudgeWrite(c)
  PROVE  TypeOK'
<1> DEFINE rec == [call[c] EXCEPT !.pc = "check", !.snap = NoRow]
<1>1. /\ call[c] \in CallRecord
      /\ call[c].pc = "judgeWrite"
      /\ call[c].cur \in Jobs
      /\ Cursor(call[c])
  BY DEF TypeOK, CallRecord, JudgeWrite, Cursor
<1>2. call[c].snap \in JobRow
  BY <1>1 DEF CallRecord
<1>3. job' \in [Jobs -> JobRow]
  BY <1>1, <1>2, UpdateOneType DEF TypeOK, JudgeWrite
<1>4. rec \in CallRecord /\ Cursor(rec)
  BY <1>1, NoRowType DEF CallRecord, Cursor
<1>5. call' = [call EXCEPT ![c] = rec]
  BY DEF JudgeWrite
<1> HIDE DEF rec
<1>6. CallType'
  BY <1>4, <1>5, CallUpdate, TypeParts
<1> QED
  BY <1>3, <1>6 DEF TypeOK, JudgeWrite, CallType, Cursor

LEMMA RereadType ==
  ASSUME TypeOK, NEW c \in Calls, RereadJob(c)
  PROVE  TypeOK'
<1> DEFINE j   == call[c].cur
           rec == [call[c] EXCEPT !.pc = "collect", !.snap = job[j]]
<1>1. call[c].pc = "check"
  BY DEF RereadJob
<1>2. call[c] \in CallRecord /\ j \in Jobs /\ Cursor(call[c])
  BY <1>1 DEF TypeOK, CallRecord, Cursor
<1>3. job[j] \in JobRow
  BY <1>2 DEF TypeOK
<1>4. rec \in CallRecord /\ Cursor(rec)
  BY <1>1, <1>2, <1>3 DEF CallRecord, Cursor
<1>5. NextResult(c) \/ call' = [call EXCEPT ![c] = rec]
  BY DEF RereadJob
<1> HIDE DEF rec
<1>6. CallType'
  BY <1>1, <1>4, <1>5, CallUpdate, NextResultType, TypeParts
<1> QED
  BY <1>6 DEF TypeOK, RereadJob, CallType, Cursor

LEMMA CheckAndCompleteType ==
  ASSUME TypeOK, NEW c \in Calls, CheckAndComplete(c)
  PROVE  TypeOK'
<1>1. call[c].pc = "collect"
  BY DEF CheckAndComplete
<1>2. call[c] \in CallRecord /\ call[c].cur \in Jobs /\ Cursor(call[c])
  BY <1>1 DEF TypeOK, CallRecord, Cursor
<1>3. NextResult(c) \/ \E s \in {"success", "failed"} :
        call' = [call EXCEPT ![c] = [call[c] EXCEPT !.pc = "complete",
                   !.snap = [call[c].snap EXCEPT !.status = s]]]
  BY DEF CheckAndComplete
<1>4. ASSUME NEW s \in {"success", "failed"},
             call' = [call EXCEPT ![c] = [call[c] EXCEPT !.pc = "complete",
                        !.snap = [call[c].snap EXCEPT !.status = s]]]
      PROVE  CallType'
  <2> DEFINE snap == [call[c].snap EXCEPT !.status = s]
             rec  == [call[c] EXCEPT !.pc = "complete", !.snap = snap]
  <2>1. call[c].snap \in JobRow
    BY <1>2 DEF CallRecord
  <2>2. snap \in JobRow
    BY <2>1 DEF JobRow, JobStatuses
  <2>3. rec \in CallRecord /\ Cursor(rec)
    BY <1>1, <1>2, <2>2 DEF CallRecord, Cursor
  <2>4. call' = [call EXCEPT ![c] = rec]
    BY <1>4
  <2> HIDE DEF rec
  <2> QED
    BY <2>3, <2>4, CallUpdate, TypeParts
<1>5. CallType'
  BY <1>1, <1>3, <1>4, NextResultType, TypeParts
<1> QED
  BY <1>5 DEF TypeOK, CheckAndComplete, CallType, Cursor

LEMMA CompleteWriteType ==
  ASSUME TypeOK, NEW c \in Calls, CompleteWrite(c)
  PROVE  TypeOK'
<1>1. call[c].pc = "complete" /\ NextResult(c)
  BY DEF CompleteWrite
<1>2. call[c] \in CallRecord /\ call[c].cur \in Jobs
  BY <1>1 DEF TypeOK, CallRecord
<1>3. call[c].snap \in JobRow
  BY <1>2 DEF CallRecord
<1>4. job' \in [Jobs -> JobRow]
  BY <1>2, <1>3, UpdateOneType DEF TypeOK, CompleteWrite
<1>5. CallType'
  BY <1>1, NextResultType, TypeParts
<1> QED
  BY <1>4, <1>5 DEF TypeOK, CompleteWrite, CallType, Cursor

LEMMA GetTaskByIpType ==
  ASSUME TypeOK, NEW c \in Calls, GetTaskByIp(c)
  PROVE  TypeOK'
<1> DEFINE rec == [call[c] EXCEPT !.pc = "assign", !.tasks = cached[call[c].host]]
<1>1. call[c] \in CallRecord /\ call[c].host \in Hosts
  BY DEF TypeOK, CallRecord, GetTaskByIp
<1>2. cached[call[c].host] \in [Jobs -> CacheEntries]
  BY <1>1 DEF TypeOK
<1>3. rec \in CallRecord /\ Cursor(rec)
  BY <1>1, <1>2, Assumption DEF CallRecord, Cursor
<1>4. call' = [call EXCEPT ![c] = rec]
  BY DEF GetTaskByIp
<1> HIDE DEF rec
<1>5. CallType'
  BY <1>3, <1>4, CallUpdate, TypeParts
<1> QED
  BY <1>5 DEF TypeOK, GetTaskByIp, CallType, Cursor

LEMMA AssignTasksType ==
  ASSUME TypeOK, NEW c \in Calls, AssignTasks(c)
  PROVE  TypeOK'
<1> DEFINE h     == call[c].host
           tasks == {j \in Jobs : call[c].tasks[j] # "no"}
           err(F) == \E j \in F : \A k \in tasks : k <= j
           rec(F) == [call[c] EXCEPT !.pc = "reply", !.err = err(F)]
           rows(F) == [j \in Jobs |->
                         IF j \in tasks \ F
                         THEN [row[j] EXCEPT ![h] = GetOrCreate(row[j][h])]
                         ELSE row[j]]
<1>1. call[c].pc = "assign"
  BY DEF AssignTasks
<1>2. call[c] \in CallRecord /\ h \in Hosts
  BY <1>1 DEF TypeOK, CallRecord
<1>3. PICK F \in SUBSET tasks : row' = rows(F) /\ call' = [call EXCEPT ![c] = rec(F)]
  BY DEF AssignTasks
<1>4. row' \in [Jobs -> [Hosts -> RowStatuses]]
  <2> HIDE DEF h, tasks
  <2>1. \A j \in Jobs : row[j] \in [Hosts -> RowStatuses]
    BY DEF TypeOK
  <2>2. \A s \in RowStatuses : GetOrCreate(s) \in RowStatuses
    BY DEF GetOrCreate, RowStatuses
  <2> QED
    BY <1>2, <1>3, <2>1, <2>2
<1>5. rec(F) \in CallRecord /\ Cursor(rec(F))
  <2>1. err(F) \in BOOLEAN
    OBVIOUS
  <2> HIDE DEF err
  <2> QED
    BY <1>1, <1>2, <2>1, Assumption DEF CallRecord, Cursor
<1> HIDE DEF rec
<1>6. CallType'
  BY <1>3, <1>5, CallUpdate, TypeParts
<1> QED
  BY <1>4, <1>6 DEF TypeOK, AssignTasks, CallType, Cursor

LEMMA ReturnType ==
  ASSUME TypeOK, NEW c \in Calls, Return(c)
  PROVE  TypeOK'
<1>1. Cursor(FreeCall)
  BY DEF Cursor, FreeCall
<1>2. CallType'
  BY <1>1, FreeCallType, CallUpdate, TypeParts DEF Return
<1> QED
  BY <1>2 DEF TypeOK, Return, CallType, Cursor

LEMMA RestartServerType == TypeOK /\ RestartServer => TypeOK'
<1> SUFFICES ASSUME TypeOK, RestartServer PROVE TypeOK'
  OBVIOUS
<1>1. CallType'
  BY FreeCallType DEF RestartServer, CallType, Cursor, FreeCall
<1>2. CacheType' /\ SyncType'
  BY IdleSyncType DEF RestartServer, CacheType, SyncType, Nothing, CacheEntries
<1> QED
  BY <1>1, <1>2 DEF TypeOK, RestartServer, CallType, Cursor, CacheType, SyncType

LEMMA HandleType ==
  ASSUME TypeOK, NEW c \in Calls, Handle(c)
  PROVE  TypeOK'
BY SaveResultType, JudgeType, JudgeWriteType, RereadType, CheckAndCompleteType,
   CompleteWriteType, GetTaskByIpType, AssignTasksType DEF Handle

(* One step, whichever it is, keeps the tables, the cache and the locals of *)
(* the goroutines within their types.                                       *)
LEMMA NextType == TypeOK /\ [Next]_vars => TypeOK'
<1> SUFFICES ASSUME TypeOK, [Next]_vars PROVE TypeOK'
  OBVIOUS
<1>1. CASE UNCHANGED vars
  BY <1>1 DEF vars, TypeOK, CallRecord
<1>2. CASE Next
  BY <1>2, OperatorType, MinutePassesType, SchedulerType, ReceiveType, HandleType,
     ReturnType, RestartServerType DEF Next
<1> QED
  BY <1>1, <1>2

(* TypeOK holds in every state, for any constants that meet Assumption.     *)
THEOREM TypeCorrect == Spec => []TypeOK
BY InitType, NextType, PTL DEF Spec

-----------------------------------------------------------------------------
(* What a step of a handler does to the report it holds and to the rows.    *)

Goes(c) ==   \* it moves on, and at most drops results
  /\ row' = row
  /\ call'[c].pc # "reply"
  /\ call'[c].acked = call[c].acked
  /\ \A j \in Jobs : call'[c].todo[j] \in {call[c].todo[j], "absent"}

Saves(c) ==   \* it records a result, and writes the receipt
  /\ call[c].pc = "next"
  /\ call'[c].pc # "reply"
  /\ \E j \in Jobs :
       /\ call[c].todo[j] # "absent"
       /\ row[j][call[c].host] # "none"
       /\ row' = [row EXCEPT ![j][call[c].host] = Recorded(@, call[c].todo[j])]
       /\ call'[c].acked = call[c].acked \cup {j}
  /\ \A j \in Jobs : call'[c].todo[j] \in {call[c].todo[j], "absent"}

Assigns(c) ==   \* it makes a row for each task that it hands out
  /\ call[c].pc = "assign"
  /\ call'[c].pc = "reply"
  /\ call'[c].acked = call[c].acked
  /\ call'[c].todo = call[c].todo
  /\ call'[c].tasks = call[c].tasks
  /\ \E failed \in SUBSET {j \in Jobs : call[c].tasks[j] # "no"} :
       /\ failed # {} => "db" \in Faults
       /\ call'[c].err = \E j \in failed :
            \A k \in {i \in Jobs : call[c].tasks[i] # "no"} : k <= j
       /\ \A j \in Jobs, h \in Hosts :
            row'[j][h] = IF h = call[c].host /\ call[c].tasks[j] # "no" /\ j \notin failed
                         THEN GetOrCreate(row[j][h]) ELSE row[j][h]

LEMMA Moved ==
  ASSUME CallType, NEW c \in Calls, NEW rec, call' = [call EXCEPT ![c] = rec],
         call[c].pc # "free", rec.pc \notin {"free", "reply"},
         rec.host = call[c].host, rec.acked = call[c].acked, rec.todo = call[c].todo,
         UNCHANGED row
  PROVE  call'[c].pc # "free" /\ call'[c].host = call[c].host /\ Goes(c)
BY DEF CallType, Goes

LEMMA NextResultGoes ==
  ASSUME CallType, NEW c \in Calls, call[c].pc # "free", NextResult(c), UNCHANGED row
  PROVE  call'[c].pc # "free" /\ call'[c].host = call[c].host /\ Goes(c)
<1> DEFINE rec == [call[c] EXCEPT !.pc = "next", !.cur = 0, !.res = "absent", !.snap = NoRow]
<1>1. call[c] \in CallRecord
  BY DEF CallType
<1>2. /\ rec.pc = "next" /\ rec.host = call[c].host
      /\ rec.acked = call[c].acked /\ rec.todo = call[c].todo
  BY <1>1 DEF CallRecord
<1>3. call' = [call EXCEPT ![c] = rec]
  BY DEF NextResult
<1> HIDE DEF rec
<1> QED
  BY <1>2, <1>3, Moved

LEMMA SaveEffect ==
  ASSUME TypeOK, NEW c \in Calls, NEW j \in Jobs, SaveResult(c, j)
  PROVE  /\ call'[c].pc # "free" /\ call'[c].host = call[c].host
         /\ Goes(c) \/ Saves(c)
<1> DEFINE todo   == [call[c].todo EXCEPT ![j] = "absent"]
           res    == call[c].todo[j]
           saved  == [call[c] EXCEPT !.pc = "judge", !.cur = j, !.todo = todo,
                                     !.res = res, !.acked = @ \cup {j}]
           passed == [call[c] EXCEPT !.todo = todo]
<1>1. call[c] \in CallRecord /\ call[c].pc = "next" /\ call \in [Calls -> CallRecord]
  BY DEF TypeOK, SaveResult
<1>2. \A k \in Jobs : todo[k] \in {call[c].todo[k], "absent"}
  BY <1>1 DEF CallRecord
<1>3. /\ saved.pc = "judge" /\ saved.host = call[c].host
      /\ saved.acked = call[c].acked \cup {j} /\ saved.todo = todo
  BY <1>1 DEF CallRecord
<1>4. /\ passed.pc = "next" /\ passed.host = call[c].host
      /\ passed.acked = call[c].acked /\ passed.todo = todo
  BY <1>1 DEF CallRecord
<1>5. \/ /\ call' = [call EXCEPT ![c] = saved]
         /\ res # "absent"
         /\ row[j][call[c].host] # "none"
         /\ row' = [row EXCEPT ![j][call[c].host] = Recorded(@, res)]
      \/ call' = [call EXCEPT ![c] = passed] /\ row' = row
  BY DEF SaveResult
<1> HIDE DEF saved, passed, todo
<1>6. CASE call' = [call EXCEPT ![c] = passed] /\ row' = row
  BY <1>1, <1>2, <1>4, <1>6 DEF Goes
<1>7. CASE /\ call' = [call EXCEPT ![c] = saved]
           /\ res # "absent"
           /\ row[j][call[c].host] # "none"
           /\ row' = [row EXCEPT ![j][call[c].host] = Recorded(@, res)]
  BY <1>1, <1>2, <1>3, <1>7 DEF Saves
<1> QED
  BY <1>5, <1>6, <1>7

LEMMA AssignEffect ==
  ASSUME TypeOK, NEW c \in Calls, AssignTasks(c)
  PROVE  call'[c].pc # "free" /\ call'[c].host = call[c].host /\ Assigns(c)
<1> DEFINE tasks == {j \in Jobs : call[c].tasks[j] # "no"}
           err(F) == \E j \in F : \A k \in tasks : k <= j
           rec(F) == [call[c] EXCEPT !.pc = "reply", !.err = err(F)]
<1>1. /\ call[c] \in CallRecord /\ call[c].pc = "assign" /\ call[c].host \in Hosts
      /\ call \in [Calls -> CallRecord] /\ row \in [Jobs -> [Hosts -> RowStatuses]]
  BY DEF TypeOK, CallRecord, AssignTasks
<1>2. PICK F \in SUBSET tasks :
        /\ F # {} => "db" \in Faults
        /\ row' = [j \in Jobs |->
             IF j \in tasks \ F
             THEN [row[j] EXCEPT ![call[c].host] = GetOrCreate(@)] ELSE row[j]]
        /\ call' = [call EXCEPT ![c] = rec(F)]
  BY DEF AssignTasks
<1>3. /\ rec(F).pc = "reply" /\ rec(F).host = call[c].host
      /\ rec(F).acked = call[c].acked /\ rec(F).todo = call[c].todo
      /\ rec(F).tasks = call[c].tasks /\ rec(F).err = err(F)
  <2> HIDE DEF err
  <2> QED
    BY <1>1 DEF CallRecord
<1>4. \A j \in Jobs, h \in Hosts :
        row'[j][h] = IF h = call[c].host /\ call[c].tasks[j] # "no" /\ j \notin F
                     THEN GetOrCreate(row[j][h]) ELSE row[j][h]
  BY <1>1, <1>2
<1>5. call'[c] = rec(F)
  BY <1>1, <1>2
<1> HIDE DEF rec
<1> QED
  BY <1>1, <1>2, <1>3, <1>4, <1>5 DEF Assigns

LEMMA HandleEffect ==
  ASSUME TypeOK, NEW c \in Calls, Handle(c)
  PROVE  /\ call[c].pc # "free"
         /\ call'[c].pc # "free" /\ call'[c].host = call[c].host
         /\ \A d \in Calls : d # c => call'[d] = call[d]
         /\ Goes(c) \/ Saves(c) \/ Assigns(c)
<1> DEFINE Goal == /\ call'[c].pc # "free" /\ call'[c].host = call[c].host
                   /\ Goes(c) \/ Saves(c) \/ Assigns(c)
<1>1. CallType /\ call[c] \in CallRecord
  BY TypeParts DEF TypeOK
<1>2. call[c].pc # "free"
  BY DEF Handle, SaveResult, JudgeByOnErrorStrategy, JudgeWrite, RereadJob,
         CheckAndComplete, CompleteWrite, GetTaskByIp, AssignTasks
<1>3. \A d \in Calls : d # c => call'[d] = call[d]
  BY <1>1 DEF CallType, Handle, SaveResult, JudgeByOnErrorStrategy, JudgeWrite, RereadJob,
         CheckAndComplete, CompleteWrite, GetTaskByIp, AssignTasks, Goto, NextResult
<1>4. ASSUME JudgeByOnErrorStrategy(c) PROVE Goal
  <2> DEFINE rec(new) == [call[c] EXCEPT !.pc = "judgeWrite", !.snap = new]
             check    == [call[c] EXCEPT !.pc = "check"]
  <2>1. /\ row' = row
        /\ \/ call' = [call EXCEPT ![c] = check]
           \/ \E new : call' = [call EXCEPT ![c] = rec(new)]
    BY <1>4 DEF JudgeByOnErrorStrategy, Goto
  <2>2. \A new : /\ rec(new).pc = "judgeWrite" /\ rec(new).host = call[c].host
                 /\ rec(new).acked = call[c].acked /\ rec(new).todo = call[c].todo
    BY <1>1 DEF CallRecord
  <2>3. /\ check.pc = "check" /\ check.host = call[c].host
        /\ check.acked = call[c].acked /\ check.todo = call[c].todo
    BY <1>1 DEF CallRecord
  <2> HIDE DEF rec, check
  <2>4. CASE call' = [call EXCEPT ![c] = check]
    BY <1>1, <1>2, <2>1, <2>3, <2>4, Moved
  <2>5. ASSUME NEW new, call' = [call EXCEPT ![c] = rec(new)]
        PROVE  Goal
    BY <1>1, <1>2, <2>1, <2>2, <2>5, Moved
  <2> QED
    BY <2>1, <2>4, <2>5
<1>5. ASSUME JudgeWrite(c) PROVE Goal
  <2> DEFINE rec == [call[c] EXCEPT !.pc = "check", !.snap = NoRow]
  <2>1. row' = row /\ call' = [call EXCEPT ![c] = rec]
    BY <1>5 DEF JudgeWrite
  <2>2. /\ rec.pc = "check" /\ rec.host = call[c].host
        /\ rec.acked = call[c].acked /\ rec.todo = call[c].todo
    BY <1>1 DEF CallRecord
  <2> HIDE DEF rec
  <2> QED
    BY <1>1, <1>2, <2>1, <2>2, Moved
<1>6. ASSUME RereadJob(c) PROVE Goal
  <2> DEFINE rec(new) == [call[c] EXCEPT !.pc = "collect", !.snap = new]
  <2>1. row' = row /\ (NextResult(c) \/ \E new : call' = [call EXCEPT ![c] = rec(new)])
    BY <1>6 DEF RereadJob
  <2>2. \A new : /\ rec(new).pc = "collect" /\ rec(new).host = call[c].host
                 /\ rec(new).acked = call[c].acked /\ rec(new).todo = call[c].todo
    BY <1>1 DEF CallRecord
  <2> HIDE DEF rec
  <2>3. ASSUME NEW new, call' = [call EXCEPT ![c] = rec(new)]
        PROVE  Goal
    BY <1>1, <1>2, <2>1, <2>2, <2>3, Moved
  <2> QED
    BY <1>1, <1>2, <2>1, <2>3, NextResultGoes
<1>7. ASSUME CheckAndComplete(c) PROVE Goal
  <2> DEFINE snap(s)  == [call[c].snap EXCEPT !.status = s]
             rec(new) == [call[c] EXCEPT !.pc = "complete", !.snap = new]
  <2>1. /\ row' = row
        /\ \/ NextResult(c)
           \/ \E s \in {"success", "failed"} : call' = [call EXCEPT ![c] = rec(snap(s))]
    BY <1>7 DEF CheckAndComplete
  <2>2. \A new : /\ rec(new).pc = "complete" /\ rec(new).host = call[c].host
                 /\ rec(new).acked = call[c].acked /\ rec(new).todo = call[c].todo
    BY <1>1 DEF CallRecord
  <2> HIDE DEF rec, snap
  <2>3. ASSUME NEW new, call' = [call EXCEPT ![c] = rec(new)]
        PROVE  Goal
    BY <1>1, <1>2, <2>1, <2>2, <2>3, Moved
  <2> QED
    BY <1>1, <1>2, <2>1, <2>3, NextResultGoes
<1>8. ASSUME CompleteWrite(c) PROVE Goal
  BY <1>1, <1>2, <1>8, NextResultGoes DEF CompleteWrite
<1>9. ASSUME GetTaskByIp(c) PROVE Goal
  <2> DEFINE rec == [call[c] EXCEPT !.pc = "assign", !.tasks = cached[call[c].host]]
  <2>1. row' = row /\ call' = [call EXCEPT ![c] = rec]
    BY <1>9 DEF GetTaskByIp
  <2>2. /\ rec.pc = "assign" /\ rec.host = call[c].host
        /\ rec.acked = call[c].acked /\ rec.todo = call[c].todo
    BY <1>1 DEF CallRecord
  <2> HIDE DEF rec
  <2> QED
    BY <1>1, <1>2, <2>1, <2>2, Moved
<1>10. Goal
  BY <1>4, <1>5, <1>6, <1>7, <1>8, <1>9, SaveEffect, AssignEffect DEF Handle
<1> QED
  BY <1>2, <1>3, <1>10

-----------------------------------------------------------------------------
(* What a step that receives no report does to a handler and to the rows.   *)
Inner ==
  \/ Operator
  \/ \E j \in Jobs : MinutePasses(j)
  \/ Scheduler
  \/ \E c \in Calls : Handle(c)

Handled(c) ==
  /\ call[c].pc # "free"
  /\ call'[c].pc # "free"
  /\ call'[c].host = call[c].host
  /\ Goes(c) \/ Saves(c) \/ Assigns(c)

LEMMA InnerEffect ==
  ASSUME TypeOK, Inner
  PROVE  \/ UNCHANGED <<row, call>>
         \/ \E c \in Calls :
              /\ Handled(c)
              /\ \A d \in Calls : d # c => call'[d] = call[d]
<1>1. Operator => UNCHANGED <<row, call>>
  BY DEF Operator, createJobExecTask, updateJobExecTask, deleteJobExecTask,
         DeleteOne, actionJobExecTaskOne
<1>2. \A j \in Jobs : MinutePasses(j) => UNCHANGED <<row, call>>
  BY DEF MinutePasses
<1>3. Scheduler => UNCHANGED <<row, call>>
  BY DEF Scheduler, SyncScan, SyncTask, SyncSwap
<1>4. \A c \in Calls : Handle(c) =>
        /\ Handled(c)
        /\ \A d \in Calls : d # c => call'[d] = call[d]
  BY HandleEffect DEF Handled
<1> QED
  BY <1>1, <1>2, <1>3, <1>4 DEF Inner

LEMMA ReceiveEffect ==
  ASSUME TypeOK, NEW c \in Calls, NEW h, NEW results, Receive(c, h, results)
  PROVE  /\ call[c].pc = "free"
         /\ call'[c].pc = "next" /\ call'[c].host = h /\ call'[c].todo = results
         /\ call'[c].acked = {}
         /\ \A d \in Calls : d # c => call'[d] = call[d]
         /\ row' = row
<1> DEFINE rec == [FreeCall EXCEPT !.pc = "next", !.host = h, !.todo = results]
<1>1. rec.pc = "next" /\ rec.host = h /\ rec.todo = results /\ rec.acked = {}
  BY DEF FreeCall
<1>2. call[c].pc = "free" /\ call' = [call EXCEPT ![c] = rec] /\ row' = row
  BY DEF Receive
<1>3. call \in [Calls -> CallRecord]
  BY DEF TypeOK
<1> HIDE DEF rec
<1> QED
  BY <1>1, <1>2, <1>3

LEMMA ReturnEffect ==
  ASSUME TypeOK, NEW c \in Calls, Return(c)
  PROVE  /\ call[c].pc = "reply"
         /\ call'[c].pc = "free"
         /\ \A d \in Calls : d # c => call'[d] = call[d]
         /\ row' = row
<1>1. FreeCall.pc = "free"
  BY DEF FreeCall
<1>2. call \in [Calls -> CallRecord]
  BY DEF TypeOK
<1> QED
  BY <1>1, <1>2 DEF Return

LEMMA RestartEffect ==
  RestartServer => row' = row /\ \A c \in Calls : call'[c].pc = "free"
BY DEF RestartServer, FreeCall

-----------------------------------------------------------------------------
(* What handlers and scheduler hold between a read and the write that       *)
(* follows it: the invariant that makes their stale writes harmless.        *)

(* Only targets of a job are listed for it or get a row.                    *)
OnlyTargets ==
  \A j \in Jobs, h \in Hosts : h \notin Targets[j] =>
    row[j][h] = "none" /\ cached[h][j] = "no" /\ sync.resM[h][j] = "no"

(* A job is being killed only if an operator asked for it.                  *)
Marked ==
  \A j \in Jobs :
    /\ job[j].status = "killing" => job[j].action = "kill"
    /\ job[j].status \in {"absent", "deleted"} => job[j].action = ""

(* A copy of a row that bears the kill mark is a copy of a row that still   *)
(* bears it, or that is deleted.                                            *)
Remembered(j, snap) ==
  snap.action = "kill" => job[j].action = "kill" \/ job[j].status = "deleted"

SyncInv ==
  /\ sync.pc = "idle" => sync.todo = {}
  /\ \A j \in Jobs :
       /\ Remembered(j, sync.snap[j])
       /\ sync.snap[j].status = "killing" => sync.snap[j].action = "kill"

CallInv(c) ==
  /\ call[c].pc \in {"judgeWrite", "collect", "complete"} =>
       Remembered(call[c].cur, call[c].snap)
  /\ call[c].pc = "judgeWrite" => call[c].snap.status \in {"paused", "finished"}
  /\ call[c].pc = "complete" =>
       /\ call[c].snap.status \in {"success", "failed"}
       /\ AllReported(call[c].cur)

(* The tasks a handler took from the cache are meant for its host.          *)
Handed(c) ==
  \A j \in Jobs : call[c].tasks[j] # "no" => call[c].host \in Targets[j]

Inv ==
  /\ TypeOK
  /\ OnlyTargets
  /\ Marked
  /\ SyncInv
  /\ \A c \in Calls : CallInv(c) /\ Handed(c)

-----------------------------------------------------------------------------
(* The tables as the ledger sees them.                                      *)
StatusOf == [j \in Jobs |-> job[j].status]
AskedOf  == {j \in Jobs : job[j].action = "kill"}

(* Kill marks are kept, and deleted jobs stay deleted.                      *)
Kept ==
  \A j \in Jobs :
    /\ job[j].action = "kill" => job'[j].action = "kill" \/ job'[j].status = "deleted"
    /\ job[j].status = "deleted" => job'[j].status = "deleted"

LEMMA SameJobs ==
  ASSUME Marked, UNCHANGED job
  PROVE  Kept /\ Marked' /\ UNCHANGED <<StatusOf, AskedOf>>
BY DEF Kept, Marked, StatusOf, AskedOf

(* Writing back a row that was read earlier changes nothing in the ledger   *)
(* but the status it was meant to change.                                   *)
LEMMA UpdateOneEffect ==
  ASSUME TypeOK, Marked, NEW j \in Jobs, NEW new \in JobRow, UpdateOne(j, new),
         Remembered(j, new),
         new.status \in {"", "running", "paused", "finished", "killed",
                         "success", "failed"}
  PROVE  /\ Kept
         /\ Marked'
         /\ \/ UNCHANGED <<StatusOf, AskedOf>>
            \/ /\ Exists(j)
               /\ new.status # ""
               /\ StatusOf' = [StatusOf EXCEPT ![j] = new.status]
               /\ AskedOf' = AskedOf
<1>1. CASE ~Exists(j)
  BY <1>1, SameJobs DEF UpdateOne
<1>2. CASE Exists(j)
  <2> DEFINE w == Overwrite(job[j], new)
  <2>1. job[j] \in JobRow /\ job \in [Jobs -> JobRow]
    BY DEF TypeOK
  <2>2. w.status = IF new.status = "" THEN job[j].status ELSE new.status
    BY DEF Overwrite
  <2>3. w.action = job[j].action
    BY <1>2, <2>1 DEF Overwrite, Remembered, Exists, JobRow
  <2>4. job' = [job EXCEPT ![j] = w]
    BY <1>2 DEF UpdateOne
  <2> HIDE DEF w
  <2>5. \A k \in Jobs : /\ job'[k].status = IF k = j THEN w.status ELSE job[k].status
                        /\ job'[k].action = job[k].action
    BY <2>1, <2>3, <2>4
  <2>6. job[j].status \notin {"absent", "deleted"}
    BY <1>2 DEF Exists
  <2>7. Kept /\ Marked'
    BY <2>2, <2>5, <2>6 DEF Kept, Marked
  <2>8. AskedOf' = AskedOf
    BY <2>5 DEF AskedOf
  <2>9. StatusOf' = [StatusOf EXCEPT ![j] = w.status]
    BY <2>5 DEF StatusOf
  <2>10. new.status = "" => StatusOf' = StatusOf
    BY <2>2, <2>9 DEF StatusOf
  <2> QED
    BY <1>2, <2>2, <2>7, <2>8, <2>9, <2>10
<1> QED
  BY <1>1, <1>2

-----------------------------------------------------------------------------
(* A step of the ledger, by what it does to the three of them.              *)
LedgerStep == [Ledger!Next]_(Ledger!vars)

LEMMA LedgerStutter ==
  ASSUME UNCHANGED <<StatusOf, AskedOf, row>>
  PROVE  LedgerStep
BY DEF LedgerStep, Ledger!vars, StatusOf, AskedOf

LEMMA LedgerStatus ==
  ASSUME NEW j \in Jobs, Exists(j), UNCHANGED <<AskedOf, row>>,
         NEW s, StatusOf' = [StatusOf EXCEPT ![j] = s],
         \/ s \in {"running", "paused", "finished"}
         \/ s = "killed" /\ job[j].action = "kill"
         \/ s \in {"success", "failed"} /\ AllReported(j)
  PROVE  LedgerStep
<1>1. StatusOf[j] \notin {"absent", "deleted"}
  BY DEF StatusOf, Exists
<1>2. CASE s \in {"running", "paused", "finished"}
  <2>1. Ledger!Redirect(j, s)
    BY <1>1 DEF Ledger!Redirect, Ledger!Alive, StatusOf, AskedOf
  <2> QED
    BY <1>2, <2>1 DEF LedgerStep, Ledger!Next
<1>3. CASE s = "killed" /\ job[j].action = "kill"
  <2>1. Ledger!GiveUp(j)
    BY <1>1, <1>3 DEF Ledger!GiveUp, Ledger!Alive, StatusOf, AskedOf
  <2> QED
    BY <2>1 DEF LedgerStep, Ledger!Next
<1>4. CASE s \in {"success", "failed"} /\ AllReported(j)
  <2>1. Ledger!Conclude(j, s)
    BY <1>1, <1>4 DEF Ledger!Conclude, Ledger!Alive, Ledger!AllReported, AllReported,
                      StatusOf, AskedOf
  <2> QED
    BY <1>4, <2>1 DEF LedgerStep, Ledger!Next
<1> QED
  BY <1>2, <1>3, <1>4

LEMMA OperatorLedger ==
  ASSUME TypeOK, Marked, Operator
  PROVE  Kept /\ Marked' /\ LedgerStep /\ UNCHANGED <<row, cached, sync, call>>
<1> USE Assumption
<1>1. ASSUME NEW j \in Jobs, NEW s \in Strategies, createJobExecTask(j, s)
      PROVE  Kept /\ Marked' /\ LedgerStep /\ UNCHANGED <<row, cached, sync, call>>
  <2>1. /\ job \in [Jobs -> JobRow]
        /\ job[j].status = "absent"
        /\ job[j].action = ""
        /\ UNCHANGED <<row, cached, sync, call>>
    BY <1>1 DEF TypeOK, Marked, createJobExecTask
  <2>2. \A k \in Jobs : /\ job'[k].status = IF k = j THEN "pending" ELSE job[k].status
                        /\ job'[k].action = job[k].action
    BY <1>1, <2>1 DEF createJobExecTask
  <2>3. Kept /\ Marked' /\ AskedOf' = AskedOf
    BY <2>1, <2>2 DEF Kept, Marked, AskedOf
  <2>4. StatusOf' = [StatusOf EXCEPT ![j] = "pending"]
    BY <2>2 DEF StatusOf
  <2>5. Ledger!Create(j)
    BY <2>1, <2>3, <2>4 DEF Ledger!Create, StatusOf, AskedOf
  <2> QED
    BY <2>1, <2>3, <2>5 DEF LedgerStep, Ledger!Next
<1>2. ASSUME NEW j \in Jobs, NEW s \in Strategies, updateJobExecTask(j, s)
      PROVE  Kept /\ Marked' /\ LedgerStep /\ UNCHANGED <<row, cached, sync, call>>
  <2> DEFINE new == [NoRow EXCEPT !.status = "", !.strategy = s]
  <2>1. new \in JobRow /\ new.status = "" /\ new.action = ""
    BY DEF NoRow, JobRow
  <2>2. UpdateOne(j, new) /\ UNCHANGED <<row, cached, sync, call>>
    BY <1>2 DEF updateJobExecTask
  <2>3. Remembered(j, new)
    BY <2>1 DEF Remembered
  <2> HIDE DEF new
  <2>4. Kept /\ Marked' /\ UNCHANGED <<StatusOf, AskedOf>>
    BY <2>1, <2>2, <2>3, UpdateOneEffect
  <2> QED
    BY <2>2, <2>4, LedgerStutter
<1>3. ASSUME NEW j \in Jobs, DeleteOne(j), Exists(j), UNCHANGED job => FALSE
      PROVE  Kept /\ Marked' /\ LedgerStep /\ UNCHANGED <<row, cached, sync, call>>
  <2>1. /\ job \in [Jobs -> JobRow]
        /\ Exists(j)
        /\ UNCHANGED <<row, cached, sync, call>>
    BY <1>3 DEF TypeOK, DeleteOne
  <2>2. \A k \in Jobs : /\ job'[k].status = IF k = j THEN "deleted" ELSE job[k].status
                        /\ job'[k].action = IF k = j THEN "" ELSE job[k].action
    BY <1>3, <2>1 DEF DeleteOne, NoRow
  <2>3. Kept /\ Marked' /\ AskedOf' = AskedOf \ {j}
    BY <2>2 DEF Kept, Marked, AskedOf
  <2>4. StatusOf' = [StatusOf EXCEPT ![j] = "deleted"]
    BY <2>2 DEF StatusOf
  <2>5. Ledger!Delete(j)
    BY <2>1, <2>3, <2>4 DEF Ledger!Delete, Ledger!Alive, Exists, StatusOf, AskedOf
  <2> QED
    BY <2>1, <2>3, <2>5 DEF LedgerStep, Ledger!Next
<1>4. ASSUME NEW j \in Jobs, NEW a \in Operations \ {"edit", "delete"},
             a # "kill", actionJobExecTaskOne(j, a)
      PROVE  Kept /\ Marked' /\ LedgerStep /\ UNCHANGED <<row, cached, sync, call>>
  <2> DEFINE old == job[j]
             new == [old EXCEPT !.status = NextStatus[a]]
  <2>1. a \in {"start", "pause", "resume", "stop"}
    BY <1>4
  <2>2. /\ NextStatus["start"] = "running"
        /\ NextStatus["pause"] = "paused"
        /\ NextStatus["resume"] = "running"
        /\ NextStatus["stop"] = "finished"
    BY DEF NextStatus
  <2>3. NextStatus[a] \in {"running", "paused", "finished"}
    BY <2>1, <2>2
  <2>4. old \in JobRow
    BY DEF TypeOK
  <2>5. /\ new \in JobRow
        /\ new.status \in {"running", "paused", "finished"}
        /\ new.action = old.action
    BY <2>3, <2>4 DEF JobRow, JobStatuses
  <2>6. [old EXCEPT !.status = NextStatus[a],
                    !.action = IF a = "kill" THEN "kill" ELSE @] = new
    BY <1>4, <2>4 DEF JobRow
  <2>7. UpdateOne(j, new) /\ Exists(j) /\ UNCHANGED <<row, cached, sync, call>>
    BY <1>4, <2>6 DEF actionJobExecTaskOne
  <2> HIDE DEF new
  <2>8. Remembered(j, new)
    BY <2>5 DEF Remembered
  <2>9. /\ Kept
        /\ Marked'
        /\ \/ UNCHANGED <<StatusOf, AskedOf>>
           \/ AskedOf' = AskedOf /\ StatusOf' = [StatusOf EXCEPT ![j] = new.status]
    BY <2>5, <2>7, <2>8, UpdateOneEffect
  <2>10. LedgerStep
    BY <2>5, <2>7, <2>9, LedgerStutter, LedgerStatus
  <2> QED
    BY <2>7, <2>9, <2>10
<1>5. ASSUME NEW j \in Jobs, actionJobExecTaskOne(j, "kill")
      PROVE  Kept /\ Marked' /\ LedgerStep /\ UNCHANGED <<row, cached, sync, call>>
  <2> DEFINE old == job[j]
             new == [old EXCEPT !.status = "killing", !.action = "kill"]
             w   == Overwrite(old, new)
  <2>1. old \in JobRow /\ job \in [Jobs -> JobRow]
    BY DEF TypeOK
  <2>2. NextStatus["kill"] = "killing"
    BY DEF NextStatus
  <2>3. Exists(j) /\ UpdateOne(j, new) /\ UNCHANGED <<row, cached, sync, call>>
    BY <1>5, <2>2 DEF actionJobExecTaskOne
  <2>4. job' = [job EXCEPT ![j] = w]
    BY <2>3 DEF UpdateOne
  <2>5. w.status = "killing" /\ w.action = "kill"
    BY <2>1 DEF Overwrite, JobRow
  <2> HIDE DEF w
  <2>6. \A k \in Jobs : /\ job'[k].status = IF k = j THEN "killing" ELSE job[k].status
                        /\ job'[k].action = IF k = j THEN "kill" ELSE job[k].action
    BY <2>1, <2>4, <2>5
  <2>7. Kept /\ Marked' /\ AskedOf' = AskedOf \cup {j}
    BY <2>3, <2>6 DEF Kept, Marked, AskedOf, Exists
  <2>8. StatusOf' = [StatusOf EXCEPT ![j] = "killing"]
    BY <2>6 DEF StatusOf
  <2>9. Ledger!AskKill(j)
    BY <2>3, <2>7, <2>8 DEF Ledger!AskKill, Ledger!Alive, Exists, StatusOf, AskedOf
  <2> QED
    BY <2>3, <2>7, <2>9 DEF LedgerStep, Ledger!Next
<1>6. ASSUME NEW j \in Jobs, deleteJobExecTask(j) \/ (DeleteOne(j) /\ UNCHANGED job)
      PROVE  Kept /\ Marked' /\ LedgerStep /\ UNCHANGED <<row, cached, sync, call>>
  <2>1. UNCHANGED job /\ UNCHANGED <<row, cached, sync, call>>
    BY <1>6 DEF deleteJobExecTask, DeleteOne
  <2> QED
    BY <2>1, SameJobs, LedgerStutter
<1>7. \A j \in Jobs : DeleteOne(j) => Exists(j) \/ UNCHANGED job
  BY DEF DeleteOne
<1> QED
  BY <1>1, <1>2, <1>3, <1>4, <1>5, <1>6, <1>7 DEF Operator

LEMMA MinutePassesLedger ==
  ASSUME TypeOK, Marked, NEW j \in Jobs, MinutePasses(j)
  PROVE  Kept /\ Marked' /\ LedgerStep
<1>1. job \in [Jobs -> JobRow] /\ row' = row
  BY DEF TypeOK, MinutePasses
<1>2. \A k \in Jobs : job'[k].status = job[k].status /\ job'[k].action = job[k].action
  BY <1>1 DEF MinutePasses, JobRow
<1>3. Kept /\ Marked' /\ UNCHANGED <<StatusOf, AskedOf>>
  BY <1>2 DEF Kept, Marked, StatusOf, AskedOf
<1> QED
  BY <1>1, <1>3, LedgerStutter

(* The expiry writes a row read at the start of the pass.                   *)
LEMMA SyncTaskLedger ==
  ASSUME TypeOK, Marked, SyncInv, NEW j \in Jobs, SyncTask(j)
  PROVE  Kept /\ Marked' /\ LedgerStep
<1> DEFINE seen == sync.snap[j]
           new  == [seen EXCEPT !.status = "killed"]
<1>1. row' = row
  BY DEF SyncTask
<1>2. CASE UNCHANGED job
  BY <1>1, <1>2, SameJobs, LedgerStutter
<1>3. CASE seen.status = "killing" /\ UpdateOne(j, new)
  <2>1. seen \in JobRow
    BY DEF TypeOK
  <2>2. seen.action = "kill" /\ Remembered(j, seen)
    BY <1>3 DEF SyncInv
  <2>3. new \in JobRow /\ new.status = "killed" /\ new.action = "kill"
    BY <2>1, <2>2 DEF JobRow, JobStatuses
  <2>4. Remembered(j, new) /\ (Exists(j) => job[j].action = "kill")
    BY <2>2, <2>3 DEF Remembered, Exists
  <2> HIDE DEF new
  <2>5. /\ Kept
        /\ Marked'
        /\ \/ UNCHANGED <<StatusOf, AskedOf>>
           \/ /\ Exists(j)
              /\ AskedOf' = AskedOf
              /\ StatusOf' = [StatusOf EXCEPT ![j] = "killed"]
    BY <1>3, <2>3, <2>4, UpdateOneEffect
  <2>6. LedgerStep
    BY <1>1, <2>4, <2>5, LedgerStutter, LedgerStatus
  <2> QED
    BY <2>5, <2>6
<1> QED
  BY <1>2, <1>3 DEF SyncTask

LEMMA JudgeWriteLedger ==
  ASSUME TypeOK, Marked, NEW c \in Calls, CallInv(c), JudgeWrite(c)
  PROVE  Kept /\ Marked' /\ LedgerStep
<1> DEFINE j   == call[c].cur
           new == call[c].snap
<1>1. row' = row /\ call[c].pc = "judgeWrite"
  BY DEF JudgeWrite
<1>2. CASE UNCHANGED job
  BY <1>1, <1>2, SameJobs, LedgerStutter
<1>3. CASE UpdateOne(j, new)
  <2>1. j \in Jobs /\ new \in JobRow
    BY <1>1 DEF TypeOK, CallRecord
  <2>2. Remembered(j, new) /\ new.status \in {"paused", "finished"}
    BY <1>1 DEF CallInv
  <2> HIDE DEF j, new
  <2>3. /\ Kept
        /\ Marked'
        /\ \/ UNCHANGED <<StatusOf, AskedOf>>
           \/ /\ Exists(j)
              /\ AskedOf' = AskedOf
              /\ StatusOf' = [StatusOf EXCEPT ![j] = new.status]
    BY <1>3, <2>1, <2>2, UpdateOneEffect
  <2>4. LedgerStep
    BY <1>1, <2>1, <2>2, <2>3, LedgerStutter, LedgerStatus
  <2> QED
    BY <2>3, <2>4
<1> QED
  BY <1>2, <1>3 DEF JudgeWrite

(* The verdict is written after the rows were read; by CallInv it still     *)
(* stands.                                                                  *)
LEMMA CompleteWriteLedger ==
  ASSUME TypeOK, Marked, NEW c \in Calls, CallInv(c), CompleteWrite(c)
  PROVE  Kept /\ Marked' /\ LedgerStep
<1> DEFINE j   == call[c].cur
           new == call[c].snap
<1>1. row' = row /\ call[c].pc = "complete"
  BY DEF CompleteWrite
<1>2. CASE UNCHANGED job
  BY <1>1, <1>2, SameJobs, LedgerStutter
<1>3. CASE UpdateOne(j, new)
  <2>1. j \in Jobs /\ new \in JobRow
    BY <1>1 DEF TypeOK, CallRecord
  <2>2. /\ Remembered(j, new)
        /\ new.status \in {"success", "failed"}
        /\ AllReported(j)
    BY <1>1 DEF CallInv
  <2> HIDE DEF j, new
  <2>3. /\ Kept
        /\ Marked'
        /\ \/ UNCHANGED <<StatusOf, AskedOf>>
           \/ /\ Exists(j)
              /\ AskedOf' = AskedOf
              /\ StatusOf' = [StatusOf EXCEPT ![j] = new.status]
    BY <1>3, <2>1, <2>2, UpdateOneEffect
  <2>4. LedgerStep
    BY <1>1, <2>1, <2>2, <2>3, LedgerStutter, LedgerStatus
  <2> QED
    BY <2>3, <2>4
<1> QED
  BY <1>2, <1>3 DEF CompleteWrite

LEMMA SaveResultLedger ==
  ASSUME TypeOK, Marked, NEW c \in Calls, NEW j \in Jobs, SaveResult(c, j)
  PROVE  Kept /\ Marked' /\ LedgerStep
<1> DEFINE h   == call[c].host
           res == call[c].todo[j]
<1>1. Kept /\ Marked' /\ UNCHANGED <<StatusOf, AskedOf>>
  BY SameJobs DEF SaveResult
<1>2. CASE row' = row
  BY <1>1, <1>2, LedgerStutter
<1>3. CASE /\ row[j][h] # "none"
           /\ res # ""
           /\ row' = [row EXCEPT ![j][h] = res]
  <2>1. h \in Hosts /\ res \in {"killed", "success", "failed"}
    <3>1. call[c] \in CallRecord /\ call[c].pc = "next" /\ res # "absent"
      BY DEF TypeOK, SaveResult
    <3>2. h \in Hosts
      BY <3>1 DEF TypeOK, CallRecord
    <3>3. res \in Reports
      BY <3>1 DEF CallRecord
    <3> QED
      BY <1>3, <3>1, <3>2, <3>3 DEF Reports
  <2> HIDE DEF h, res
  <2>2. Ledger!Record(j, h, res)
    BY <1>1, <1>3 DEF Ledger!Record, StatusOf, AskedOf
  <2> QED
    BY <1>1, <2>1, <2>2 DEF LedgerStep, Ledger!Next
<1>4. CASE /\ row[j][h] # "none"
           /\ res = ""
           /\ row' = [row EXCEPT ![j][h] = row[j][h]]
  <2>1. row' = row
    BY <1>4 DEF TypeOK
  <2> QED
    BY <1>2, <2>1
<1> QED
  BY <1>2, <1>3, <1>4 DEF SaveResult, Recorded

LEMMA AssignTasksLedger ==
  ASSUME TypeOK, Marked, NEW c \in Calls, Handed(c), AssignTasks(c)
  PROVE  Kept /\ Marked' /\ LedgerStep
<1> DEFINE h     == call[c].host
           tasks == {j \in Jobs : call[c].tasks[j] # "no"}
<1>1. Kept /\ Marked' /\ UNCHANGED <<StatusOf, AskedOf>>
  BY SameJobs DEF AssignTasks
<1>2. h \in Hosts
  BY DEF TypeOK, CallRecord, AssignTasks
<1>3. PICK F \in SUBSET tasks : row' = [j \in Jobs |->
               IF j \in tasks \ F
               THEN [row[j] EXCEPT ![h] = GetOrCreate(row[j][h])] ELSE row[j]]
  BY DEF AssignTasks
<1> DEFINE J == {j \in tasks \ F : row[j][h] = "none"}
<1>4. J \in SUBSET Jobs
  OBVIOUS
<1>5. \A j \in J : h \in Targets[j] /\ row[j][h] = "none"
  BY DEF Handed
<1>6. row' = [j \in Jobs |-> IF j \in J THEN [row[j] EXCEPT ![h] = "running"]
                                        ELSE row[j]]
  <2>1. \A j \in Jobs : row[j][h] # "none" =>
          [row[j] EXCEPT ![h] = GetOrCreate(row[j][h])] = row[j]
    BY <1>2 DEF TypeOK, GetOrCreate
  <2>2. \A j \in Jobs : row[j][h] = "none" => GetOrCreate(row[j][h]) = "running"
    BY DEF GetOrCreate
  <2> QED
    BY <1>3, <2>1, <2>2
<1> HIDE DEF J, h
<1>7. Ledger!Dispatch(h, J)
  BY <1>1, <1>5, <1>6 DEF Ledger!Dispatch, StatusOf, AskedOf
<1> QED
  BY <1>1, <1>2, <1>4, <1>7 DEF LedgerStep, Ledger!Next

(* Every step of the server is a step of the ledger or leaves it alone.     *)
LEMMA NextLedger ==
  ASSUME Inv, [Next]_vars
  PROVE  Kept /\ Marked' /\ LedgerStep
<1> USE DEF Inv
<1>1. CASE UNCHANGED <<job, row>>
  <2>1. UNCHANGED job /\ UNCHANGED row
    BY <1>1
  <2> QED
    BY <2>1, SameJobs, LedgerStutter
<1>2. CASE Operator
  BY <1>2, OperatorLedger
<1>3. ASSUME NEW j \in Jobs, MinutePasses(j)
      PROVE  Kept /\ Marked' /\ LedgerStep
  BY <1>3, MinutePassesLedger
<1>4. CASE Scheduler
  <2>1. ASSUME NEW j \in Jobs, SyncTask(j)
        PROVE  Kept /\ Marked' /\ LedgerStep
    BY <2>1, SyncTaskLedger
  <2>2. SyncScan \/ SyncSwap => UNCHANGED <<job, row>>
    BY DEF SyncScan, SyncSwap
  <2> QED
    BY <1>1, <1>4, <2>1, <2>2 DEF Scheduler
<1>5. ASSUME NEW c \in Calls, Handle(c)
      PROVE  Kept /\ Marked' /\ LedgerStep
  <2>1. ASSUME NEW j \in Jobs, SaveResult(c, j)
        PROVE  Kept /\ Marked' /\ LedgerStep
    BY <2>1, SaveResultLedger
  <2>2. CASE JudgeWrite(c)
    BY <2>2, JudgeWriteLedger
  <2>3. CASE CompleteWrite(c)
    BY <2>3, CompleteWriteLedger
  <2>4. CASE AssignTasks(c)
    BY <2>4, AssignTasksLedger
  <2>5. \/ JudgeByOnErrorStrategy(c)
        \/ RereadJob(c)
        \/ CheckAndComplete(c)
        \/ GetTaskByIp(c)
        => UNCHANGED <<job, row>>
    BY DEF JudgeByOnErrorStrategy, RereadJob, CheckAndComplete, GetTaskByIp
  <2> QED
    BY <1>1, <1>5, <2>1, <2>2, <2>3, <2>4, <2>5 DEF Handle
<1>6. \A c \in Calls, h \in Hosts, r \in [Jobs -> Reported \cup {"absent"}] :
        Receive(c, h, r) => UNCHANGED <<job, row>>
  BY DEF Receive
<1>7. \A c \in Calls : Return(c) => UNCHANGED <<job, row>>
  BY DEF Return
<1>8. RestartServer => UNCHANGED <<job, row>>
  BY DEF RestartServer
<1>9. UNCHANGED vars => UNCHANGED <<job, row>>
  BY DEF vars
<1> QED
  BY <1>1, <1>2, <1>3, <1>4, <1>5, <1>6, <1>7, <1>8, <1>9 DEF Next

-----------------------------------------------------------------------------
(* What a step of the ledger cannot do.                                     *)

LEMMA RowsSettle ==
  ASSUME RowType, LedgerStep
  PROVE  \A j \in Jobs, h \in Hosts :
           /\ row[j][h] # "none" => row'[j][h] # "none"
           /\ row[j][h] \notin {"none", "running"} => row'[j][h] \notin {"none", "running"}
<1>1. CASE row' = row
  BY <1>1
<1>2. ASSUME NEW j \in Jobs, NEW h \in Hosts, NEW r \in {"killed", "success", "failed"},
             row' = [row EXCEPT ![j][h] = r]
      PROVE  \A k \in Jobs, g \in Hosts :
               row'[k][g] = row[k][g] \/ row'[k][g] \in {"killed", "success", "failed"}
  BY <1>2 DEF RowType
<1>3. ASSUME NEW h \in Hosts, NEW J \in SUBSET Jobs, Ledger!Dispatch(h, J)
      PROVE  \A k \in Jobs, g \in Hosts :
               \/ row'[k][g] = row[k][g]
               \/ row[k][g] = "none" /\ row'[k][g] = "running"
  BY <1>3 DEF RowType, Ledger!Dispatch
<1>4. \/ row' = row
      \/ \E j \in Jobs, h \in Hosts, r \in {"killed", "success", "failed"} :
           row' = [row EXCEPT ![j][h] = r]
      \/ \E h \in Hosts, J \in SUBSET Jobs : Ledger!Dispatch(h, J)
  BY DEF LedgerStep, Ledger!Next, Ledger!vars, Ledger!Create, Ledger!Redirect,
         Ledger!AskKill, Ledger!GiveUp, Ledger!Delete, Ledger!Record, Ledger!Conclude
<1> QED
  BY <1>1, <1>2, <1>3, <1>4

LEMMA StepsSettleRows ==
  ASSUME Inv, [Next]_vars, NEW j \in Jobs, NEW h \in Hosts
  PROVE  /\ row[j][h] # "none" => row'[j][h] # "none"
         /\ row[j][h] \notin {"none", "running"} => row'[j][h] \notin {"none", "running"}
<1>1. RowType /\ LedgerStep
  BY NextLedger, TypeParts DEF Inv
<1> QED
  BY <1>1, RowsSettle

LEMMA AllReportedStays ==
  ASSUME Inv, [Next]_vars, NEW j \in Jobs, AllReported(j)
  PROVE  AllReported(j)'
<1>1. RowType /\ LedgerStep
  BY NextLedger, TypeParts DEF Inv
<1>2. Targets[j] \subseteq Hosts
  BY Assumption
<1> QED
  BY <1>1, <1>2, RowsSettle DEF AllReported

LEMMA RowsOnTargets ==
  ASSUME RowType, LedgerStep, NEW j \in Jobs, NEW h \in Hosts,
         h \notin Targets[j], row[j][h] = "none"
  PROVE  row'[j][h] = "none"
<1>1. ASSUME NEW k \in Jobs, NEW g \in Hosts, NEW r, Ledger!Record(k, g, r)
      PROVE  row'[j][h] = "none"
  BY <1>1 DEF RowType, Ledger!Record
<1>2. ASSUME NEW g \in Hosts, NEW J \in SUBSET Jobs, Ledger!Dispatch(g, J)
      PROVE  row'[j][h] = "none"
  BY <1>2 DEF RowType, Ledger!Dispatch
<1>3. \/ row' = row
      \/ \E k \in Jobs, g \in Hosts, r \in {"killed", "success", "failed"} :
           Ledger!Record(k, g, r)
      \/ \E g \in Hosts, J \in SUBSET Jobs : Ledger!Dispatch(g, J)
  BY DEF LedgerStep, Ledger!Next, Ledger!vars, Ledger!Create, Ledger!Redirect,
         Ledger!AskKill, Ledger!GiveUp, Ledger!Delete, Ledger!Conclude
<1> QED
  BY <1>1, <1>2, <1>3

-----------------------------------------------------------------------------
(* The rest of the invariant is kept.                                       *)

LEMMA SchedulerActs ==
  ASSUME [Next]_vars
  PROVE  \/ UNCHANGED <<cached, sync>>
         \/ SyncScan
         \/ \E j \in Jobs : SyncTask(j)
         \/ SyncSwap
         \/ RestartServer
BY DEF Next, vars, Operator, createJobExecTask, updateJobExecTask, deleteJobExecTask,
       DeleteOne, actionJobExecTaskOne, MinutePasses, Scheduler, Receive, Handle,
       SaveResult, JudgeByOnErrorStrategy, JudgeWrite, RereadJob, CheckAndComplete,
       CompleteWrite, GetTaskByIp, AssignTasks, Return

LEMMA OnlyTargetsKept ==
  ASSUME Inv, [Next]_vars
  PROVE  OnlyTargets'
<1> SUFFICES ASSUME NEW j \in Jobs, NEW h \in Hosts, h \notin Targets[j]
             PROVE  row'[j][h] = "none" /\ cached'[h][j] = "no" /\ sync'.resM[h][j] = "no"
  BY DEF OnlyTargets
<1>1. row[j][h] = "none" /\ cached[h][j] = "no" /\ sync.resM[h][j] = "no"
  BY DEF Inv, OnlyTargets
<1>2. row'[j][h] = "none"
  BY <1>1, NextLedger, RowsOnTargets, TypeParts DEF Inv
<1>3. CASE UNCHANGED <<cached, sync>>
  BY <1>1, <1>2, <1>3
<1>4. CASE SyncScan
  BY <1>1, <1>2, <1>4 DEF SyncScan, Nothing
<1>5. ASSUME NEW k \in Jobs, SyncTask(k)
      PROVE  cached'[h][j] = "no" /\ sync'.resM[h][j] = "no"
  <2> DEFINE hosts == FirstHosts(Unscheduled(k), BatchSize[k])
             entry == IF sync.snap[k].action = "kill" THEN "kill" ELSE "run"
  <2>1. sync \in [pc : {"idle", "loop"}, todo : SUBSET Jobs,
                  snap : [Jobs -> JobRow], resM : [Hosts -> [Jobs -> CacheEntries]]]
    BY DEF Inv, TypeOK
  <2>2. hosts \subseteq Targets[k]
    BY DEF FirstHosts, Unscheduled
  <2>3. cached' = cached
    BY <1>5 DEF SyncTask
  <2>4. \/ sync'.resM = Enlist(sync.resM, k, hosts, entry)
        \/ sync'.resM = sync.resM
    BY <1>5, <2>1 DEF SyncTask
  <2> HIDE DEF hosts, entry
  <2>5. Enlist(sync.resM, k, hosts, entry)[h][j] = "no"
    BY <1>1, <2>1, <2>2 DEF Enlist
  <2> QED
    BY <1>1, <2>3, <2>4, <2>5
<1>6. CASE SyncSwap
  BY <1>1, <1>2, <1>6 DEF SyncSwap, IdleSync, Nothing
<1>7. CASE RestartServer
  BY <1>2, <1>7 DEF RestartServer, IdleSync, Nothing
<1> QED
  BY <1>2, <1>3, <1>4, <1>5, <1>6, <1>7, SchedulerActs

LEMMA SyncInvKept ==
  ASSUME Inv, [Next]_vars
  PROVE  SyncInv'
<1>1. Kept /\ TypeOK /\ SyncInv /\ Marked
  BY NextLedger DEF Inv
<1>2. sync \in [pc : {"idle", "loop"}, todo : SUBSET Jobs,
               snap : [Jobs -> JobRow], resM : [Hosts -> [Jobs -> CacheEntries]]]
  BY <1>1 DEF TypeOK
<1>3. CASE /\ sync'.snap = sync.snap
           /\ sync'.pc = "idle" => sync'.todo = {}
  BY <1>1, <1>3 DEF SyncInv, Remembered, Kept
<1>4. CASE SyncScan
  <2>1. \A j \in Jobs : \/ sync'.snap[j] = job[j] /\ job'[j] = job[j]
                        \/ sync'.snap[j] = NoRow
    BY <1>4 DEF SyncScan
  <2>2. sync'.pc = "loop"
    BY <1>4 DEF SyncScan
  <2>3. NoRow.action = "" /\ NoRow.status = "absent"
    BY DEF NoRow
  <2>4. ASSUME NEW j \in Jobs
        PROVE  /\ Remembered(j, sync.snap[j])'
               /\ sync'.snap[j].status = "killing" => sync'.snap[j].action = "kill"
    BY <1>1, <2>1, <2>3 DEF Remembered, Marked
  <2> QED
    BY <2>2, <2>4 DEF SyncInv
<1>5. ASSUME NEW j \in Jobs, SyncTask(j)
      PROVE  sync'.snap = sync.snap /\ sync'.pc = "loop"
  BY <1>2, <1>5 DEF SyncTask
<1>6. CASE sync' = IdleSync
  BY <1>6 DEF IdleSync, SyncInv, Remembered, NoRow
<1>7. SyncSwap \/ RestartServer => sync' = IdleSync
  BY DEF SyncSwap, RestartServer
<1>8. UNCHANGED <<cached, sync>> =>
        sync'.snap = sync.snap /\ (sync'.pc = "idle" => sync'.todo = {})
  BY <1>1 DEF SyncInv
<1>9. (\E j \in Jobs : SyncTask(j)) =>
        sync'.snap = sync.snap /\ (sync'.pc = "idle" => sync'.todo = {})
  BY <1>5
<1> QED
  BY <1>3, <1>4, <1>6, <1>7, <1>8, <1>9, SchedulerActs

(* The verdict of CheckAndComplete: every machine has a row, because rows   *)
(* belong to targets and there are as many as targets.                      *)
LEMMA CountingTargets ==
  ASSUME Inv, NEW j \in Jobs,
         Completed(j)
  PROVE  AllReported(j)
<1> DEFINE results == Results(j)
<1>1. Targets[j] \subseteq Hosts /\ IsFiniteSet(Targets[j])
  <2>1. IsFiniteSet(Hosts) /\ Targets[j] \in SUBSET Hosts
    BY Assumption
  <2> QED
    BY <2>1, FS_Subset
<1>2. results \in SUBSET Targets[j]
  BY DEF Inv, OnlyTargets, Results
<1>3. results = Targets[j]
  <2> HIDE DEF results
  <2>1. /\ IsFiniteSet(results)
        /\ Cardinality(results) <= Cardinality(Targets[j])
        /\ Cardinality(Targets[j]) = Cardinality(results) => Targets[j] = results
    BY <1>1, <1>2, FS_Subset
  <2>2. Cardinality(results) \in Nat /\ Cardinality(Targets[j]) \in Nat
    BY <1>1, <2>1, FS_CardinalityType
  <2>3. Cardinality(results) >= Cardinality(Targets[j])
    BY DEF results, Completed
  <2> QED
    BY <2>1, <2>2, <2>3
<1> QED
  BY <1>1, <1>3 DEF AllReported, Completed, Results

Quiet(c) == call'[c].pc \in {"free", "next", "judge", "check", "assign", "reply"}

(* What a step does to a handler: nothing, one of the three steps that make *)
(* it hold a copy of the job's row, or one that leaves it without.          *)
LEMMA HandlerActs ==
  ASSUME TypeOK, [Next]_vars, NEW c \in Calls
  PROVE  \/ call'[c] = call[c]
         \/ Quiet(c)
         \/ JudgeByOnErrorStrategy(c)
         \/ RereadJob(c)
         \/ CheckAndComplete(c)
<1> DEFINE Goal == \/ call'[c] = call[c]
                   \/ Quiet(c)
                   \/ JudgeByOnErrorStrategy(c)
                   \/ RereadJob(c)
                   \/ CheckAndComplete(c)
<1>1. call \in [Calls -> CallRecord]
  BY DEF TypeOK
<1>2. CASE UNCHANGED call
  BY <1>2
<1>3. \A d \in Calls : NextResult(d) => call'[c] = call[c] \/ Quiet(c)
  BY <1>1 DEF NextResult, Quiet, CallRecord
<1>4. ASSUME NEW d \in Calls, Handle(d)
      PROVE  Goal
  <2>1. ASSUME NEW j \in Jobs, SaveResult(d, j)
        PROVE  Goal
    <3> DEFINE handled == [call[d].todo EXCEPT ![j] = "absent"]
               saved   == [call[d] EXCEPT !.pc = "judge", !.cur = j, !.todo = handled,
                             !.res = call[d].todo[j], !.acked = call[d].acked \cup {j}]
               passed  == [call[d] EXCEPT !.todo = handled]
    <3>1. call[d].pc = "next" /\ call[d] \in CallRecord
      BY <1>1, <2>1 DEF SaveResult
    <3>2. saved.pc = "judge" /\ passed.pc = "next"
      BY <3>1 DEF CallRecord
    <3>3. call' = [call EXCEPT ![d] = saved] \/ call' = [call EXCEPT ![d] = passed]
      BY <2>1 DEF SaveResult
    <3> HIDE DEF saved, passed
    <3> QED
      BY <1>1, <3>2, <3>3 DEF Quiet
  <2>2. CASE JudgeByOnErrorStrategy(d)
    <3>1. CASE d = c
      BY <2>2, <3>1
    <3>2. CASE d # c
      BY <1>1, <2>2, <3>2 DEF JudgeByOnErrorStrategy, Goto
    <3> QED
      BY <3>1, <3>2
  <2>3. CASE JudgeWrite(d)
    BY <1>1, <2>3 DEF JudgeWrite, Quiet, CallRecord
  <2>4. CASE RereadJob(d)
    <3>1. CASE d = c
      BY <2>4, <3>1
    <3>2. CASE d # c
      BY <1>1, <2>4, <3>2 DEF RereadJob, NextResult
    <3> QED
      BY <3>1, <3>2
  <2>5. CASE CheckAndComplete(d)
    <3>1. CASE d = c
      BY <2>5, <3>1
    <3>2. CASE d # c
      BY <1>1, <2>5, <3>2 DEF CheckAndComplete, NextResult
    <3> QED
      BY <3>1, <3>2
  <2>6. CASE CompleteWrite(d)
    BY <1>3, <2>6 DEF CompleteWrite
  <2>7. CASE AssignTasks(d)
    BY <1>1, <2>7 DEF AssignTasks, Quiet, CallRecord
  <2>8. CASE GetTaskByIp(d)
    BY <1>1, <2>8 DEF GetTaskByIp, Quiet, CallRecord
  <2> QED
    BY <1>4, <2>1, <2>2, <2>3, <2>4, <2>5, <2>6, <2>7, <2>8 DEF Handle
<1>5. ASSUME NEW d \in Calls, NEW h \in Hosts,
             NEW r \in [Jobs -> Reported \cup {"absent"}], Receive(d, h, r)
      PROVE  Goal
  BY <1>1, <1>5 DEF Receive, Quiet, FreeCall
<1>6. ASSUME NEW d \in Calls, Return(d)
      PROVE  Goal
  BY <1>1, <1>6 DEF Return, Quiet, FreeCall
<1>7. CASE RestartServer
  BY <1>7 DEF RestartServer, Quiet, FreeCall
<1>8. Operator \/ (\E j \in Jobs : MinutePasses(j)) \/ Scheduler \/ UNCHANGED vars
        => UNCHANGED call
  BY DEF Operator, createJobExecTask, updateJobExecTask, deleteJobExecTask, DeleteOne,
         actionJobExecTaskOne, MinutePasses, Scheduler, SyncScan, SyncTask, SyncSwap, vars
<1> HIDE DEF Goal
<1>9. Goal
  BY <1>2, <1>4, <1>5, <1>6, <1>7, <1>8 DEF Next, Goal
<1> QED
  BY <1>9 DEF Goal

(* What a step does to the tasks a handler holds.                           *)
Same(c) == call'[c].tasks = call[c].tasks /\ call'[c].host = call[c].host

LEMMA TaskActs ==
  ASSUME TypeOK, [Next]_vars, NEW c \in Calls
  PROVE  Same(c) \/ call'[c].tasks = NoTasks \/ GetTaskByIp(c)
<1>1. call \in [Calls -> CallRecord]
  BY DEF TypeOK
<1>2. CASE UNCHANGED call
  BY <1>2 DEF Same
<1>3. ASSUME NEW d \in Calls, Handle(d)
      PROVE  Same(c) \/ GetTaskByIp(c)
  <2>1. ASSUME NextResult(d)
        PROVE  Same(c)
    BY <1>1, <2>1 DEF NextResult, Same, CallRecord
  <2>2. ASSUME NEW j \in Jobs, SaveResult(d, j)
        PROVE  Same(c)
    <3> DEFINE handled == [call[d].todo EXCEPT ![j] = "absent"]
               saved   == [call[d] EXCEPT !.pc = "judge", !.cur = j, !.todo = handled,
                             !.res = call[d].todo[j], !.acked = call[d].acked \cup {j}]
               passed  == [call[d] EXCEPT !.todo = handled]
    <3>1. saved.tasks = call[d].tasks /\ saved.host = call[d].host
      BY <1>1 DEF CallRecord
    <3>2. passed.tasks = call[d].tasks /\ passed.host = call[d].host
      BY <1>1 DEF CallRecord
    <3>3. call' = [call EXCEPT ![d] = saved] \/ call' = [call EXCEPT ![d] = passed]
      BY <2>2 DEF SaveResult
    <3> HIDE DEF saved, passed
    <3> QED
      BY <1>1, <3>1, <3>2, <3>3 DEF Same
  <2>3. CASE JudgeByOnErrorStrategy(d)
    <3> DEFINE rec(new) == [call[d] EXCEPT !.pc = "judgeWrite", !.snap = new]
    <3>1. Goto(d, "check") \/ \E new : call' = [call EXCEPT ![d] = rec(new)]
      BY <2>3 DEF JudgeByOnErrorStrategy
    <3>2. \A new : rec(new).tasks = call[d].tasks /\ rec(new).host = call[d].host
      BY <1>1 DEF CallRecord
    <3>3. Goto(d, "check") => Same(c)
      BY <1>1 DEF Goto, Same, CallRecord
    <3> HIDE DEF rec
    <3> QED
      BY <1>1, <3>1, <3>2, <3>3 DEF Same
  <2>4. CASE JudgeWrite(d)
    BY <1>1, <2>4 DEF JudgeWrite, Same, CallRecord
  <2>5. CASE RereadJob(d)
    <3> DEFINE rec(new) == [call[d] EXCEPT !.pc = "collect", !.snap = new]
    <3>1. NextResult(d) \/ \E new : call' = [call EXCEPT ![d] = rec(new)]
      BY <2>5 DEF RereadJob
    <3>2. \A new : rec(new).tasks = call[d].tasks /\ rec(new).host = call[d].host
      BY <1>1 DEF CallRecord
    <3> HIDE DEF rec
    <3> QED
      BY <1>1, <2>1, <3>1, <3>2 DEF Same
  <2>6. CASE CheckAndComplete(d)
    <3> DEFINE snap(s) == [call[d].snap EXCEPT !.status = s]
               rec(new) == [call[d] EXCEPT !.pc = "complete", !.snap = new]
    <3>1. NextResult(d) \/ \E s \in {"success", "failed"} :
            call' = [call EXCEPT ![d] = rec(snap(s))]
      BY <2>6 DEF CheckAndComplete
    <3>2. \A new : rec(new).tasks = call[d].tasks /\ rec(new).host = call[d].host
      BY <1>1 DEF CallRecord
    <3> HIDE DEF rec, snap
    <3> QED
      BY <1>1, <2>1, <3>1, <3>2 DEF Same
  <2>7. CASE CompleteWrite(d)
    BY <2>1, <2>7 DEF CompleteWrite
  <2>8. CASE GetTaskByIp(d)
    <3>1. CASE d = c
      BY <2>8, <3>1
    <3>2. CASE d # c
      BY <1>1, <2>8, <3>2 DEF GetTaskByIp, Same
    <3> QED
      BY <3>1, <3>2
  <2>9. CASE AssignTasks(d)
    BY <1>1, <2>9 DEF AssignTasks, Same, CallRecord
  <2> QED
    BY <1>3, <2>2, <2>3, <2>4, <2>5, <2>6, <2>7, <2>8, <2>9 DEF Handle
<1>4. ASSUME NEW d \in Calls, NEW h \in Hosts,
             NEW r \in [Jobs -> Reported \cup {"absent"}], Receive(d, h, r)
      PROVE  Same(c) \/ call'[c].tasks = NoTasks
  BY <1>1, <1>4 DEF Receive, Same, FreeCall
<1>5. ASSUME NEW d \in Calls, Return(d)
      PROVE  Same(c) \/ call'[c].tasks = NoTasks
  BY <1>1, <1>5 DEF Return, Same, FreeCall
<1>6. CASE RestartServer
  BY <1>6 DEF RestartServer, FreeCall
<1>7. Operator \/ (\E j \in Jobs : MinutePasses(j)) \/ Scheduler \/ UNCHANGED vars
        => UNCHANGED call
  BY DEF Operator, createJobExecTask, updateJobExecTask, deleteJobExecTask, DeleteOne,
         actionJobExecTaskOne, MinutePasses, Scheduler, SyncScan, SyncTask, SyncSwap, vars
<1> QED
  BY <1>2, <1>3, <1>4, <1>5, <1>6, <1>7 DEF Next

LEMMA NextResultQuiet ==
  ASSUME TypeOK, NEW c \in Calls, NextResult(c)
  PROVE  Quiet(c)
BY DEF TypeOK, NextResult, Quiet, CallRecord

LEMMA CallInvKept ==
  ASSUME Inv, [Next]_vars, NEW c \in Calls
  PROVE  CallInv(c)'
<1>1. TypeOK /\ CallInv(c) /\ Kept /\ call[c] \in CallRecord
  BY NextLedger DEF Inv, TypeOK
<1>2. call[c].pc \in {"judge", "judgeWrite", "check", "collect", "complete"}
        => call[c].cur \in Jobs
  BY <1>1 DEF TypeOK, CallRecord
<1>3. CASE call'[c] = call[c]
  <2>1. CASE call[c].pc \notin {"judgeWrite", "collect", "complete"}
    BY <1>3, <2>1 DEF CallInv
  <2>2. CASE call[c].pc \in {"judgeWrite", "collect", "complete"}
    <3>1. PICK j \in Jobs : j = call[c].cur
      BY <1>2, <2>2
    <3>2. Remembered(j, call[c].snap) /\ j = call'[c].cur
      BY <1>1, <1>3, <2>2, <3>1 DEF CallInv
    <3>3. AllReported(j) => AllReported(j)'
      BY AllReportedStays
    <3>4. call[c].pc = "complete" => AllReported(j)
      BY <1>1, <3>1 DEF CallInv
    <3> QED
      BY <1>1, <1>3, <3>2, <3>3, <3>4 DEF CallInv, Remembered, Kept
  <2> QED
    BY <2>1, <2>2
<1>4. CASE Quiet(c)
  BY <1>4 DEF Quiet, CallInv
<1>5. CASE JudgeByOnErrorStrategy(c) /\ ~Quiet(c)
  <2> DEFINE j    == call[c].cur
             next == StrategyStatus(job[j].strategy)
             snap == [job[j] EXCEPT !.status = next]
  <2>1. call[c].pc = "judge" /\ job' = job /\ row' = row
    BY <1>5 DEF JudgeByOnErrorStrategy
  <2>2. j \in Jobs /\ job[j] \in JobRow /\ call \in [Calls -> CallRecord]
    BY <1>1, <1>2, <2>1 DEF TypeOK
  <2>3. call' = [call EXCEPT ![c] = [call[c] EXCEPT !.pc = "judgeWrite", !.snap = snap]]
    BY <1>5, <2>2 DEF JudgeByOnErrorStrategy, Goto, Quiet, CallRecord
  <2>4. snap.status \in {"paused", "finished"} /\ snap.action = job[j].action
    BY <2>2 DEF JobRow, StrategyStatus
  <2> HIDE DEF j, snap
  <2>5. call'[c].pc = "judgeWrite" /\ call'[c].snap = snap /\ call'[c].cur = j
    BY <2>2, <2>3 DEF CallRecord, j
  <2> QED
    BY <2>1, <2>4, <2>5 DEF CallInv, Remembered
<1>6. CASE RereadJob(c) /\ ~Quiet(c)
  <2> DEFINE j == call[c].cur
  <2>1. call \in [Calls -> CallRecord] /\ job' = job
    BY <1>1, <1>6 DEF TypeOK, RereadJob
  <2>2. call' = [call EXCEPT ![c] = [call[c] EXCEPT !.pc = "collect", !.snap = job[j]]]
    BY <1>1, <1>6, NextResultQuiet DEF RereadJob
  <2>3. call'[c].pc = "collect" /\ call'[c].snap = job[j] /\ call'[c].cur = j
    BY <2>1, <2>2 DEF CallRecord
  <2> QED
    BY <2>1, <2>3 DEF CallInv, Remembered
<1>7. CASE CheckAndComplete(c) /\ ~Quiet(c)
  <2>1. /\ call \in [Calls -> CallRecord]
        /\ job' = job
        /\ row' = row
        /\ call[c].pc = "collect"
    BY <1>1, <1>7 DEF TypeOK, CheckAndComplete
  <2>2. PICK j \in Jobs : j = call[c].cur
    BY <1>2, <2>1
  <2>3. /\ Completed(j)
        /\ \E s \in {"success", "failed"} :
             call' = [call EXCEPT ![c] = [call[c] EXCEPT !.pc = "complete",
                        !.snap = [call[c].snap EXCEPT !.status = s]]]
    <3>1. ~NextResult(c)
      BY <1>1, <1>7, NextResultQuiet
    <3> QED
      BY <1>7, <2>2, <3>1 DEF CheckAndComplete
  <2>4. AllReported(j)
    BY <2>3, CountingTargets
  <2>5. PICK s \in {"success", "failed"} :
          call' = [call EXCEPT ![c] = [call[c] EXCEPT !.pc = "complete",
                     !.snap = [call[c].snap EXCEPT !.status = s]]]
    BY <2>3
  <2>6. call[c].snap \in JobRow
    BY <1>1 DEF CallRecord
  <2>7. /\ call'[c].pc = "complete"
        /\ call'[c].cur = j
        /\ call'[c].snap.status = s
        /\ call'[c].snap.action = call[c].snap.action
    BY <1>1, <2>1, <2>2, <2>5, <2>6 DEF CallRecord, JobRow
  <2>8. AllReported(j)'
    BY <2>1, <2>4 DEF AllReported
  <2>9. Remembered(j, call[c].snap)
    BY <1>1, <2>1, <2>2 DEF CallInv
  <2> QED
    BY <2>1, <2>7, <2>8, <2>9 DEF CallInv, Remembered
<1> QED
  BY <1>1, <1>3, <1>4, <1>5, <1>6, <1>7, HandlerActs

(* A handler takes its host and its tasks at one step each, and keeps them. *)
LEMMA HandedKept ==
  ASSUME Inv, [Next]_vars, NEW c \in Calls
  PROVE  Handed(c)'
<1>1. call \in [Calls -> CallRecord] /\ Handed(c)
  BY DEF Inv, TypeOK
<1>2. CASE call'[c].tasks = call[c].tasks /\ call'[c].host = call[c].host
  BY <1>1, <1>2 DEF Handed
<1>3. CASE call'[c].tasks = NoTasks
  BY <1>3 DEF Handed, NoTasks
<1>4. CASE GetTaskByIp(c)
  <2> DEFINE h == call[c].host
  <2>1. h \in Hosts
    BY <1>4 DEF Inv, TypeOK, CallRecord, GetTaskByIp
  <2>2. call'[c].tasks = cached[h] /\ call'[c].host = h
    BY <1>1, <1>4 DEF GetTaskByIp, CallRecord
  <2>3. \A j \in Jobs : cached[h][j] # "no" => h \in Targets[j]
    BY <2>1 DEF Inv, OnlyTargets
  <2> HIDE DEF h
  <2> QED
    BY <2>2, <2>3 DEF Handed
<1> QED
  BY <1>1, <1>2, <1>3, <1>4, TaskActs DEF Inv, Same

LEMMA InitJobs ==
  ASSUME Init, NEW j \in Jobs
  PROVE  job[j].status = "absent" /\ job[j].action = ""
<1>1. job[j] = NoRow
  BY DEF Init
<1>2. NoRow.status = "absent" /\ NoRow.action = ""
  BY DEF NoRow
<1> QED
  BY <1>1, <1>2

LEMMA InitInv == Init => Inv
<1> SUFFICES ASSUME Init PROVE Inv
  OBVIOUS
<1>1. TypeOK
  BY InitType
<1>2. OnlyTargets
  BY DEF Init, OnlyTargets, Nothing, IdleSync
<1>3. Marked
  BY InitJobs DEF Marked
<1>4. SyncInv
  BY DEF Init, SyncInv, IdleSync, Remembered, NoRow
<1>5. \A c \in Calls : CallInv(c) /\ Handed(c)
  BY DEF Init, CallInv, Handed, FreeCall, NoTasks
<1> QED
  BY <1>1, <1>2, <1>3, <1>4, <1>5 DEF Inv

LEMMA NextInv == Inv /\ [Next]_vars => Inv'
<1> SUFFICES ASSUME Inv, [Next]_vars PROVE Inv'
  OBVIOUS
<1>1. TypeOK'
  BY NextType DEF Inv
<1>2. OnlyTargets' /\ SyncInv' /\ Marked'
  BY OnlyTargetsKept, SyncInvKept, NextLedger
<1>3. \A c \in Calls : CallInv(c)' /\ Handed(c)'
  BY CallInvKept, HandedKept
<1> QED
  BY <1>1, <1>2, <1>3 DEF Inv

(* What a goroutine holds across its database calls stays true of the       *)
(* tables, whatever the others write meanwhile.                             *)
THEOREM Invariance == Spec => []Inv
BY InitInv, NextInv, PTL DEF Spec

(* Every behaviour of the server, with failed database calls and restarts,  *)
(* is a behaviour of the ledger.                                            *)
THEOREM Refinement == Spec => ImplementsLedger
<1>1. Init => Ledger!Init
  BY InitJobs DEF Init, Ledger!Init
<1>2. Inv /\ [Next]_vars => [Ledger!Next]_(Ledger!vars)
  BY NextLedger DEF LedgerStep
<1> QED
  BY <1>1, <1>2, Invariance, PTL DEF Spec, ImplementsLedger, Ledger!Spec

-----------------------------------------------------------------------------
(* What follows for the tables.                                             *)

LEMMA ConcludedKept ==
  ASSUME Inv, CompletedMeansAllReported, [Next]_vars
  PROVE  CompletedMeansAllReported'
<1> SUFFICES ASSUME NEW j \in Jobs, job'[j].status \in {"success", "failed"}
             PROVE  AllReported(j)'
  BY DEF CompletedMeansAllReported
<1>1. LedgerStep
  BY NextLedger
<1>2. CASE job[j].status \in {"success", "failed"}
  BY <1>2, AllReportedStays DEF CompletedMeansAllReported
<1>3. CASE job[j].status \notin {"success", "failed"}
  <2>1. StatusOf'[j] \in {"success", "failed"} /\ StatusOf[j] \notin {"success", "failed"}
    BY <1>3 DEF StatusOf
  <2>2. \E s \in {"success", "failed"} : Ledger!Conclude(j, s)
    BY <1>1, <2>1 DEF LedgerStep, Ledger!Next, Ledger!vars, Ledger!Create, Ledger!Redirect,
       Ledger!AskKill, Ledger!GiveUp, Ledger!Delete, Ledger!Conclude, Ledger!Record,
       Ledger!Dispatch, StatusOf
  <2> QED
    BY <2>2, AllReportedStays DEF Ledger!Conclude, Ledger!AllReported, AllReported
<1> QED
  BY <1>2, <1>3

(* A job is a success or a failure only when all of its machines have       *)
(* reported.                                                                *)
THEOREM Completion == Spec => []CompletedMeansAllReported
<1>1. Init => CompletedMeansAllReported
  BY InitJobs DEF CompletedMeansAllReported
<1> QED
  BY <1>1, Invariance, ConcludedKept, PTL DEF Spec

(* Rows settle once, under any repetition and reordering of reports.        *)
THEOREM Settlement == Spec => RowSettlesOnce
<1>1. Inv /\ [Next]_vars =>
        [\A j \in Jobs, h \in Hosts :
           /\ row[j][h] # "none" => row'[j][h] # "none"
           /\ row[j][h] \notin {"none", "running"} => row'[j][h] # "running"]_row
  BY NextLedger, RowsSettle, TypeParts DEF Inv
<1> QED
  BY <1>1, Invariance, PTL DEF Spec, RowSettlesOnce

(* A kill mark is never lost to a concurrent write of an older copy.        *)
THEOREM KillMark == Spec => KillMarkSticks
<1>1. Inv /\ [Next]_vars =>
        [\A j \in Jobs :
           job[j].action = "kill" /\ job'[j].status # "deleted"
             => job'[j].action = "kill"]_job
  BY NextLedger DEF Kept
<1> QED
  BY <1>1, Invariance, PTL DEF Spec, KillMarkSticks

LEMMA UpdateOneStarts ==
  ASSUME TypeOK, NEW j \in Jobs, NEW new \in JobRow, UpdateOne(j, new),
         new.status # "running", NEW k \in Jobs, job'[k].status = "running"
  PROVE  job[k].status = "running"
<1>1. job \in [Jobs -> JobRow]
  BY DEF TypeOK
<1>2. Overwrite(job[j], new).status = "running" => job[j].status = "running"
  BY DEF Overwrite
<1> QED
  BY <1>1, <1>2 DEF UpdateOne

(* Neither the scheduler nor a report handler starts a job: what they write *)
(* back is never the "running" they read.                                   *)
THEOREM Starts == Spec => OnlyOperatorsStartJobs
<1> DEFINE Started(k) == job'[k].status = "running" /\ job[k].status # "running"
           Still      == sync' = sync /\ call' = call
<1>1. ASSUME Inv, [Next]_vars, NEW k \in Jobs, Started(k)
      PROVE  Still
  <2>1. TypeOK /\ SyncInv
    BY <1>1 DEF Inv
  <2>2. job' # job
    BY <1>1
  <2>3. \A j \in Jobs : ~SyncTask(j)
    <3> SUFFICES ASSUME NEW j \in Jobs, SyncTask(j) PROVE FALSE
      OBVIOUS
    <3> DEFINE new == [sync.snap[j] EXCEPT !.status = "killed"]
    <3>1. sync.snap[j] \in JobRow
      BY <2>1 DEF TypeOK
    <3>2. new \in JobRow /\ new.status = "killed"
      BY <3>1 DEF JobRow, JobStatuses
    <3>3. UpdateOne(j, new)
      BY <2>2 DEF SyncTask
    <3> HIDE DEF new
    <3> QED
      BY <1>1, <2>1, <3>2, <3>3, UpdateOneStarts
  <2>4. \A c \in Calls : ~Handle(c)
    <3> SUFFICES ASSUME NEW c \in Calls, Handle(c) PROVE FALSE
      OBVIOUS
    <3>1. JudgeWrite(c) \/ CompleteWrite(c)
      BY <2>2 DEF Handle, SaveResult, JudgeByOnErrorStrategy, RereadJob,
                  CheckAndComplete, GetTaskByIp, AssignTasks
    <3>2. call[c].pc \in {"judgeWrite", "complete"} /\ UpdateOne(call[c].cur, call[c].snap)
      BY <2>2, <3>1 DEF JudgeWrite, CompleteWrite
    <3>3. call[c].cur \in Jobs /\ call[c].snap \in JobRow
      BY <2>1, <3>2 DEF TypeOK, CallRecord
    <3>4. call[c].snap.status # "running"
      BY <1>1, <3>2 DEF Inv, CallInv
    <3> QED
      BY <1>1, <2>1, <3>2, <3>3, <3>4, UpdateOneStarts
  <2>5. Operator \/ \E j \in Jobs : MinutePasses(j)
    BY <1>1, <2>2, <2>3, <2>4 DEF Next, vars, Scheduler, SyncScan, SyncSwap, Receive,
                                  Return, RestartServer
  <2> QED
    BY <2>5 DEF Operator, MinutePasses, createJobExecTask, updateJobExecTask,
                deleteJobExecTask, DeleteOne, actionJobExecTaskOne
<1>2. Inv /\ [Next]_vars =>
        [\A j \in Jobs :
           job'[j].status = "running" /\ job[j].status # "running"
             => sync' = sync /\ call' = call]_vars
  BY <1>1
<1> QED
  BY <1>2, Invariance, PTL DEF Spec, OnlyOperatorsStartJobs

-----------------------------------------------------------------------------
(* The dispatch cache keeps to the batch size of every job.                 *)

(* The cut of the sorted hosts at n leaves at most n: distinct hosts have   *)
(* distinct ranks, and the ranks are below n.                               *)
LEMMA FirstHostsBound ==
  ASSUME NEW S \in SUBSET Hosts, NEW n \in Nat \ {0}
  PROVE  /\ IsFiniteSet(FirstHosts(S, n))
         /\ Cardinality(FirstHosts(S, n)) <= n
<1> DEFINE Before(h) == {g \in S : g < h}
           F         == {h \in S : Cardinality(Before(h)) < n}
           rank      == [h \in F |-> Cardinality(Before(h))]
<1>1. S \subseteq Nat /\ IsFiniteSet(S)
  <2>1. IsFiniteSet(Hosts) /\ Hosts \subseteq Nat
    BY Assumption
  <2> QED
    BY <2>1, FS_Subset
<1>2. \A h \in S : IsFiniteSet(Before(h)) /\ Cardinality(Before(h)) \in Nat
  <2> SUFFICES ASSUME NEW h \in S
               PROVE  IsFiniteSet(Before(h)) /\ Cardinality(Before(h)) \in Nat
    OBVIOUS
  <2>1. Before(h) \in SUBSET S
    OBVIOUS
  <2> HIDE DEF Before
  <2>2. IsFiniteSet(Before(h))
    BY <1>1, <2>1, FS_Subset
  <2> QED
    BY <2>2, FS_CardinalityType
<1>3. \A g, h \in S : g < h => Cardinality(Before(g)) < Cardinality(Before(h))
  <2> SUFFICES ASSUME NEW g \in S, NEW h \in S, g < h
               PROVE  Cardinality(Before(g)) < Cardinality(Before(h))
    OBVIOUS
  <2>1. g \in Nat /\ h \in Nat
    BY <1>1
  <2>2. Before(g) \in SUBSET Before(h) /\ g \in Before(h) /\ g \notin Before(g)
    <3>1. \A i \in S : i \in Nat /\ (i < g => i < h)
      BY <1>1, <2>1
    <3>2. g \in Before(h) /\ g \notin Before(g)
      BY <2>1
    <3> QED
      BY <3>1, <3>2
  <2> HIDE DEF Before
  <2>3. Cardinality(Before(g)) <= Cardinality(Before(h))
    BY <1>2, <2>2, FS_Subset
  <2>4. Cardinality(Before(g)) # Cardinality(Before(h))
    BY <1>2, <2>2, FS_Subset
  <2> QED
    BY <1>2, <2>3, <2>4
<1>4. rank \in Injection(F, 0..(n-1))
  <2> HIDE DEF Before
  <2>1. rank \in [F -> 0..(n-1)]
    BY <1>2
  <2>2. ASSUME NEW g \in F, NEW h \in F, rank[g] = rank[h]
        PROVE  g = h
    <3>1. g \in Nat /\ h \in Nat
      BY <1>1
    <3>2. ~(g < h) /\ ~(h < g)
      BY <1>2, <1>3, <2>2
    <3> QED
      BY <3>1, <3>2
  <2> HIDE DEF rank, F
  <2> QED
    BY <2>1, <2>2 DEF Injection, IsInjective
<1>5. IsFiniteSet(0..(n-1)) /\ Cardinality(0..(n-1)) = n
  BY FS_Interval
<1>6. FirstHosts(S, n) = F
  BY DEF FirstHosts
<1> HIDE DEF F, rank
<1>7. IsFiniteSet(F) /\ Cardinality(F) <= n
  BY <1>4, <1>5, FS_Injection
<1> QED
  BY <1>6, <1>7

-----------------------------------------------------------------------------
Listed(M, j) == {h \in Hosts : M[h][j] # "no"}

(* A pass enlists a job once, for the hosts of one batch.                   *)
BatchInv ==
  /\ \A j \in Jobs : BatchSize[j] > 0 =>
       /\ Cardinality(Listed(cached, j)) <= BatchSize[j]
       /\ Cardinality(Listed(sync.resM, j)) <= BatchSize[j]
  /\ \A j \in sync.todo : Listed(sync.resM, j) = {}

LEMMA ListedNothing ==
  ASSUME NEW j \in Jobs
  PROVE  Listed(Nothing, j) = {} /\ Cardinality(Listed(Nothing, j)) = 0
<1>1. Listed(Nothing, j) = {}
  BY DEF Listed, Nothing
<1> QED
  BY <1>1, FS_EmptySet

LEMMA EnlistListed ==
  ASSUME NEW M \in [Hosts -> [Jobs -> CacheEntries]], NEW j \in Jobs,
         NEW hosts \in SUBSET Hosts, NEW entry \in {"run", "kill"}, NEW k \in Jobs
  PROVE  Listed(Enlist(M, j, hosts, entry), k) =
           IF k = j THEN hosts \cup Listed(M, j) ELSE Listed(M, k)
BY DEF Listed, Enlist

LEMMA BatchInvInit == Init => BatchInv
<1> SUFFICES ASSUME Init PROVE BatchInv
  OBVIOUS
<1>1. cached = Nothing /\ sync.resM = Nothing /\ sync.todo = {}
  BY DEF Init, IdleSync
<1>2. \A j \in Jobs : BatchSize[j] \in Nat
  BY Assumption
<1> QED
  BY <1>1, <1>2, ListedNothing DEF BatchInv

LEMMA BatchInvKept == Inv /\ BatchInv /\ [Next]_vars => BatchInv'
<1> SUFFICES ASSUME Inv, BatchInv, [Next]_vars PROVE BatchInv'
  OBVIOUS
<1>1. \A j \in Jobs : BatchSize[j] \in Nat
  BY Assumption
<1>2. /\ sync.todo \in SUBSET Jobs
      /\ sync.resM \in [Hosts -> [Jobs -> CacheEntries]]
      /\ sync \in [pc : {"idle", "loop"}, todo : SUBSET Jobs,
                   snap : [Jobs -> JobRow], resM : [Hosts -> [Jobs -> CacheEntries]]]
  BY DEF Inv, TypeOK
<1>3. CASE UNCHANGED <<cached, sync>>
  BY <1>3 DEF BatchInv, Listed
<1>4. CASE SyncScan
  <2>1. cached' = cached /\ sync'.resM = Nothing /\ sync'.todo \in SUBSET Jobs
    BY <1>4 DEF SyncScan
  <2> QED
    BY <1>1, <2>1, ListedNothing DEF BatchInv
<1>5. ASSUME NEW j \in Jobs, SyncTask(j)
      PROVE  BatchInv'
  <2> DEFINE hosts == FirstHosts(Unscheduled(j), BatchSize[j])
             entry == IF sync.snap[j].action = "kill" THEN "kill" ELSE "run"
  <2>1. Unscheduled(j) \in SUBSET Hosts
    BY Assumption DEF Unscheduled
  <2>2. hosts \in SUBSET Hosts
    BY <2>1 DEF FirstHosts
  <2>3. BatchSize[j] > 0 => Cardinality(hosts) <= BatchSize[j]
    <3>1. BatchSize[j] > 0 => BatchSize[j] \in Nat \ {0}
      BY <1>1
    <3> QED
      BY <2>1, <3>1, FirstHostsBound
  <2>4. /\ cached' = cached
        /\ j \in sync.todo
        /\ sync'.todo = sync.todo \ {j}
        /\ \/ sync'.resM = Enlist(sync.resM, j, hosts, entry)
           \/ sync'.resM = sync.resM
    BY <1>2, <1>5 DEF SyncTask
  <2> HIDE DEF hosts
  <2>5. \A k \in Jobs : Listed(Enlist(sync.resM, j, hosts, entry), k) =
          IF k = j THEN hosts ELSE Listed(sync.resM, k)
    <3>1. Listed(sync.resM, j) = {}
      BY <2>4 DEF BatchInv
    <3>2. entry \in {"run", "kill"}
      OBVIOUS
    <3> HIDE DEF entry
    <3>3. \A k \in Jobs : Listed(Enlist(sync.resM, j, hosts, entry), k) =
            IF k = j THEN hosts \cup Listed(sync.resM, j) ELSE Listed(sync.resM, k)
      BY <1>2, <2>2, <3>2, EnlistListed
    <3> QED
      BY <3>1, <3>3
  <2> HIDE DEF entry
  <2> QED
    BY <1>2, <2>3, <2>4, <2>5 DEF BatchInv
<1>6. CASE SyncSwap
  <2>1. cached' = sync.resM /\ sync'.resM = Nothing /\ sync'.todo = {}
    BY <1>6 DEF SyncSwap, IdleSync
  <2> QED
    BY <1>1, <2>1, ListedNothing DEF BatchInv
<1>7. CASE RestartServer
  <2>1. cached' = Nothing /\ sync'.resM = Nothing /\ sync'.todo = {}
    BY <1>7 DEF RestartServer, IdleSync
  <2> QED
    BY <1>1, <2>1, ListedNothing DEF BatchInv
<1> QED
  BY <1>3, <1>4, <1>5, <1>6, <1>7, SchedulerActs

(* At any time at most BatchSize machines are offered a job, although the   *)
(* rows a pass looks at change while it runs.                               *)
THEOREM Batches == Spec => []BatchHonoured
<1>1. BatchInv => BatchHonoured
  BY DEF BatchInv, BatchHonoured, Listed
<1> QED
  BY <1>1, BatchInvInit, BatchInvKept, Invariance, PTL DEF Spec

=============================================================================
