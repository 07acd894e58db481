---------------------------- MODULE JobAgent_proofs ----------------------------
(***************************************************************************)
(* Proofs about JobAgent, for any number of jobs, machines and Task         *)
(* objects, whatever the server answers.  AgentInv holds with every fault   *)
(* but "slow_start"; DiskInv, which is about the files that outlive an      *)
(* agent, as long as no hour passes.                                        *)
(***************************************************************************)
EXTENDS JobAgent, TLAPS

-----------------------------------------------------------------------------
(* What the place of a goroutine says of its object, and what the map       *)
(* refers to.                                                               *)
Objects ==
  /\ \A t \in TaskIds :
       /\ task[t].pc = "free" => task[t] = FreeTask
       /\ task[t].pc \in {"spawned", "prepared"} => task[t].status = Unset /\ task[t].cmd = FALSE
       /\ task[t].pc = "running" => task[t].status \in {"running", "killed"}
       /\ task[t].pc = "exited" => task[t].status \in {"killed", "success", "failed"}
  /\ \A h \in Hosts, j \in Jobs :
       lm[h][j] # NoTask => task[lm[h][j]].pc \notin {"free", "orphan"}

(* A task of this agent that has not ended and was not killed is the one    *)
(* that the map has for its job.                                            *)
InMap ==
  \A t \in TaskIds :
    task[t].pc \in {"spawned", "prepared", "running"} /\ task[t].status # "killed"
      => lm[task[t].host][task[t].job] = t

(* The process of the object has ended, or was killed and is still dying.   *)
Settled(t) ==
  \/ task[t].pc \in {"exited", "over"}
  \/ task[t].pc = "running" /\ task[t].status = "killed"

(* What a report says of a job, and so what a response acknowledges, is of  *)
(* an object that is still in the map, and settled.                         *)
Receipts ==
  \A h \in Hosts, j \in Jobs :
    \/ agent[h].pc = "calling" /\ agent[h].sent[j] # "absent"
    \/ agent[h].pc = "assigning" /\ j \in agent[h].acked
    => lm[h][j] # NoTask /\ Settled(lm[h][j])

AgentInv == TypeOK /\ Objects /\ InMap /\ Receipts

-----------------------------------------------------------------------------
(* A run of the job on the host has begun, or is about to, and its result   *)
(* is not on disk.                                                          *)
Active(t, h, j) ==
  /\ task[t].pc \in {"spawned", "prepared", "running", "exited", "orphan"}
  /\ task[t].host = h
  /\ task[t].job = j

Quiet(h, j) == \A t \in TaskIds : ~Active(t, h, j)

(* As long as the directory of a run counts, there is one run at a time,    *)
(* its directory says so, and a result in it or in memory is of a run that  *)
(* is over; a job that AssignTask is going to start has never been here.    *)
DiskInv ==
  /\ \A t, u \in TaskIds, h \in Hosts, j \in Jobs :
       Active(t, h, j) /\ Active(u, h, j) => t = u
  /\ \A t \in TaskIds :
       /\ task[t].pc \in {"prepared", "running", "exited", "orphan"}
            => disk[task[t].host][task[t].job].fresh
       /\ task[t].pc = "over" /\ task[t].status \in {"success", "failed"}
            => disk[task[t].host][task[t].job].status # Unset
  /\ \A h \in Hosts, j \in Jobs :
       /\ disk[h][j].status # Unset => disk[h][j].fresh /\ Quiet(h, j)
       /\ agent[h].pc = "assigning" /\ j \in Unknown(h) => ~disk[h][j].fresh /\ Quiet(h, j)

-----------------------------------------------------------------------------
(* A zero value is none of the statuses that are set.                       *)
LEMMA UnsetIsNone == Unset \notin {"running", "killed", "success", "failed", "absent"}
BY Zenon DEF Unset

(* The objects are records, and the map refers to those of its host.        *)
LEMMA AgentTypes ==
  ASSUME TypeOK
  PROVE  /\ \A t \in TaskIds : task[t] \in TaskRecord
         /\ \A h \in Hosts, j \in Jobs :
              /\ lm[h][j] \in TaskIds \cup {NoTask}
              /\ disk[h][j] \in Directory
         /\ \A h \in Hosts : agent[h] \in AgentRecord
BY DEF TypeOK

LEMMA MapRefs ==
  ASSUME TypeOK
  PROVE  \A h \in Hosts, j \in Jobs :
           lm[h][j] # NoTask => /\ lm[h][j] \in TaskIds
                                /\ task[lm[h][j]].host = h
                                /\ task[lm[h][j]].job = j
BY AgentTypes DEF TypeOK

LEMMA FreeTaskType == FreeTask \in TaskRecord
BY DEF FreeTask, TaskRecord, Statuses

LEMMA FreeTaskFields ==
  FreeTask.pc = "free" /\ FreeTask.status = Unset /\ FreeTask.cmd = FALSE /\ FreeTask.kill = FALSE
BY DEF FreeTask

LEMMA IdleAgentType == IdleAgent \in AgentRecord
BY DEF IdleAgent, AgentRecord, Reports

(* A goroutine or a process of one object moves on.                         *)
LEMMA TaskMoves ==
  ASSUME AgentInv, NEW t \in TaskIds, NEW x \in TaskRecord,
         task[t].pc # "free",
         task' = [task EXCEPT ![t] = x],
         x.host = task[t].host, x.job = task[t].job,
         x.pc # "free", x.pc = "orphan" => task[t].pc = "orphan",
         x.pc \in {"spawned", "prepared"} => x.status = Unset /\ x.cmd = FALSE,
         x.pc = "running" => x.status \in {"running", "killed"},
         x.pc = "exited" => x.status \in {"killed", "success", "failed"},
         x.pc \in {"spawned", "prepared", "running"} /\ x.status # "killed"
           => task[t].pc \in {"spawned", "prepared", "running"} /\ task[t].status # "killed",
         Settled(t) => \/ x.pc \in {"exited", "over"}
                       \/ x.pc = "running" /\ x.status = "killed",
         disk' \in [Hosts -> [Jobs -> Directory]],
         UNCHANGED <<lm, agent>>
  PROVE  AgentInv'
<1>0. /\ TypeOK /\ Objects /\ InMap /\ Receipts
      /\ \A h \in Hosts, j \in Jobs :
           lm[h][j] # NoTask => /\ lm[h][j] \in TaskIds
                                /\ task[lm[h][j]].host = h
                                /\ task[lm[h][j]].job = j
  BY MapRefs DEF AgentInv
<1>1. /\ task' \in [TaskIds -> TaskRecord]
      /\ task'[t] = x
      /\ \A u \in TaskIds \ {t} : task'[u] = task[u]
      /\ \A u \in TaskIds : task'[u].host = task[u].host /\ task'[u].job = task[u].job
  BY <1>0 DEF TypeOK
<1>2. lm' = lm /\ agent' = agent
  OBVIOUS
<1>3. TypeOK'
  <2>1. \A u \in TaskIds :
          task'[u].pc # "free" => task'[u].host \in Hosts /\ task'[u].job \in Jobs
    BY <1>0, <1>1 DEF TypeOK
  <2>2. \A h \in Hosts, j \in Jobs :
          lm[h][j] # NoTask => task'[lm[h][j]].host = h /\ task'[lm[h][j]].job = j
    BY <1>0, <1>1
  <2>. QED
    BY <1>0, <1>1, <1>2, <2>1, <2>2 DEF TypeOK
<1>4. Objects'
  <2>1. \A u \in TaskIds :
          /\ task'[u].pc = "free" => task'[u] = FreeTask
          /\ task'[u].pc \in {"spawned", "prepared"} => task'[u].status = Unset /\ task'[u].cmd = FALSE
          /\ task'[u].pc = "running" => task'[u].status \in {"running", "killed"}
          /\ task'[u].pc = "exited" => task'[u].status \in {"killed", "success", "failed"}
    BY <1>0, <1>1 DEF Objects
  <2>2. \A h \in Hosts, j \in Jobs :
          lm'[h][j] # NoTask => task'[lm'[h][j]].pc \notin {"free", "orphan"}
    BY <1>0, <1>1, <1>2 DEF Objects
  <2>. QED
    BY <2>1, <2>2 DEF Objects
<1>5. InMap'
  BY <1>0, <1>1, <1>2 DEF InMap
<1>6. Receipts'
  <2>1. \A u \in TaskIds : Settled(u) => Settled(u)'
    BY <1>1 DEF Settled
  <2>. QED
    BY <1>0, <1>2, <2>1 DEF Receipts
<1>. QED
  BY <1>3, <1>4, <1>5, <1>6 DEF AgentInv

LEMMA TaskStepKeepsAgentInv ==
  ASSUME AgentInv, NEW t \in TaskIds,
         \/ Prepare(t) \/ StartProcess(t)
         \/ \E s \in Reported : ProcessExits(t, s)
         \/ PersistResult(t) \/ Kill(t)
  PROVE  AgentInv'
<1>1. task[t] \in TaskRecord /\ task \in [TaskIds -> TaskRecord]
  BY DEF AgentInv, TypeOK
<1>2. /\ task[t].pc = "free" => task[t] = FreeTask
      /\ task[t].pc \in {"spawned", "prepared"} => task[t].status = Unset /\ task[t].cmd = FALSE
      /\ task[t].pc = "running" => task[t].status \in {"running", "killed"}
      /\ task[t].pc = "exited" => task[t].status \in {"killed", "success", "failed"}
  BY DEF AgentInv, Objects
<1>3. task[t].pc # "free" => task[t].host \in Hosts /\ task[t].job \in Jobs
  BY DEF AgentInv, TypeOK
<1>4. disk \in [Hosts -> [Jobs -> Directory]]
  BY DEF AgentInv, TypeOK
<1>5. CASE Prepare(t)
  <2>. DEFINE h == task[t].host
              j == task[t].job
  <2>0. h \in Hosts /\ j \in Jobs
    BY <1>3, <1>5 DEF Prepare
  <2>1. disk' \in [Hosts -> [Jobs -> Directory]] /\ UNCHANGED <<lm, agent>>
    <3>. HIDE DEF h, j
    <3>0. disk[h][j] \in Directory
      BY <1>4, <2>0
    <3>1. [disk[h][j] EXCEPT !.fresh = TRUE] \in Directory
      BY <3>0 DEF Directory
    <3>2. disk' = disk \/ disk' = [disk EXCEPT ![h][j] = [disk[h][j] EXCEPT !.fresh = TRUE]]
      BY <1>4, <1>5, <2>0 DEF Prepare, h, j
    <3>3. UNCHANGED <<lm, agent>>
      BY <1>5 DEF Prepare
    <3>4. [disk EXCEPT ![h][j] = [disk[h][j] EXCEPT !.fresh = TRUE]]
            \in [Hosts -> [Jobs -> Directory]]
      BY <1>4, <2>0, <3>1
    <3>. QED
      BY <1>4, <3>2, <3>3, <3>4
  <2>2. ASSUME NEW pc \in {"prepared", "over"}, task' = [task EXCEPT ![t].pc = pc]
        PROVE  AgentInv'
    <3>. DEFINE x == [task[t] EXCEPT !.pc = pc]
    <3>1. x \in TaskRecord /\ x.host = task[t].host /\ x.job = task[t].job /\ x.pc = pc
          /\ x.status = task[t].status /\ x.cmd = task[t].cmd
      BY <1>1, <2>2 DEF TaskRecord
    <3>2. task' = [task EXCEPT ![t] = x]
      BY <1>1, <2>2
    <3>. HIDE DEF x
    <3>3. task[t].pc = "spawned"
      BY <1>5 DEF Prepare
    <3>. QED
      BY <1>2, <2>1, <2>2, <3>1, <3>2, <3>3, TaskMoves DEF Settled
  <2>. QED
    BY <1>5, <2>2 DEF Prepare
<1>6. CASE StartProcess(t)
  <2>1. disk' \in [Hosts -> [Jobs -> Directory]] /\ UNCHANGED <<lm, agent>>
    BY <1>4, <1>6 DEF StartProcess
  <2>2. task[t].pc = "prepared"
    BY <1>6 DEF StartProcess
  <2>3. CASE task' = [task EXCEPT ![t].pc = "running", ![t].status = "running", ![t].cmd = TRUE]
    <3>. DEFINE x == [task[t] EXCEPT !.pc = "running", !.status = "running", !.cmd = TRUE]
    <3>1. x \in TaskRecord /\ x.host = task[t].host /\ x.job = task[t].job /\ x.pc = "running"
          /\ x.status = "running" /\ task[t].status # "killed"
      BY <1>1, <1>2, <2>2, UnsetIsNone DEF TaskRecord, Statuses
    <3>2. task' = [task EXCEPT ![t] = x]
      BY <1>1, <2>3
    <3>. HIDE DEF x
    <3>. QED
      BY <1>2, <2>1, <2>2, <3>1, <3>2, TaskMoves DEF Settled
  <2>4. CASE task' = [task EXCEPT ![t].pc = "over", ![t].status = "running"]
    <3>. DEFINE x == [task[t] EXCEPT !.pc = "over", !.status = "running"]
    <3>1. x \in TaskRecord /\ x.host = task[t].host /\ x.job = task[t].job /\ x.pc = "over"
      BY <1>1 DEF TaskRecord, Statuses
    <3>2. task' = [task EXCEPT ![t] = x]
      BY <1>1, <2>4
    <3>. HIDE DEF x
    <3>. QED
      BY <1>2, <2>1, <2>2, <3>1, <3>2, TaskMoves DEF Settled
  <2>. QED
    BY <1>6, <2>3, <2>4 DEF StartProcess
<1>7. ASSUME NEW s \in Reported, ProcessExits(t, s) PROVE AgentInv'
  <2>. DEFINE x == [task[t] EXCEPT !.pc = "exited", !.status = s]
  <2>1. x \in TaskRecord /\ x.host = task[t].host /\ x.job = task[t].job /\ x.pc = "exited"
        /\ x.status \in {"killed", "success", "failed"}
    BY <1>1, AgentAssumption DEF TaskRecord, Statuses
  <2>2. task' = [task EXCEPT ![t] = x]
    BY <1>1, <1>7 DEF ProcessExits
  <2>. HIDE DEF x
  <2>. QED
    BY <1>2, <1>4, <1>7, <2>1, <2>2, TaskMoves DEF ProcessExits, Settled
<1>8. CASE PersistResult(t)
  <2>. DEFINE x == [task[t] EXCEPT !.pc = "over"]
  <2>1. x \in TaskRecord /\ x.host = task[t].host /\ x.job = task[t].job /\ x.pc = "over"
    BY <1>1 DEF TaskRecord
  <2>2. task' = [task EXCEPT ![t] = x] /\ UNCHANGED <<lm, agent>> /\ task[t].pc = "exited"
    BY <1>1, <1>8 DEF PersistResult
  <2>3. disk' \in [Hosts -> [Jobs -> Directory]]
    <3>. DEFINE h == task[t].host
                j == task[t].job
    <3>0. h \in Hosts /\ j \in Jobs
      BY <1>3, <2>2
    <3>. HIDE DEF h, j
    <3>1. disk[h][j] \in Directory /\ task[t].status \in {Unset, "killed", "success", "failed"}
      BY <1>2, <1>4, <2>2, <3>0
    <3>2. [disk[h][j] EXCEPT !.status = task[t].status] \in Directory
      BY <3>1 DEF Directory
    <3>3. disk' = [disk EXCEPT ![h][j] = [disk[h][j] EXCEPT !.status = task[t].status]]
      BY <1>4, <1>8, <3>0 DEF PersistResult, h, j
    <3>. QED
      BY <1>4, <3>0, <3>2, <3>3
  <2>. HIDE DEF x
  <2>. QED
    BY <1>2, <2>1, <2>2, <2>3, TaskMoves DEF Settled
<1>9. CASE Kill(t)
  <2>. DEFINE x == [task[t] EXCEPT !.kill = FALSE, !.status = "killed"]
  <2>1. x \in TaskRecord /\ x.host = task[t].host /\ x.job = task[t].job /\ x.pc = task[t].pc
        /\ x.status = "killed" /\ x.cmd = task[t].cmd
    BY <1>1 DEF TaskRecord, Statuses
  <2>2. task' = [task EXCEPT ![t] = x] /\ UNCHANGED <<lm, agent, disk>> /\ task[t].cmd
    BY <1>1, <1>9 DEF Kill
  <2>3. task[t].pc \notin {"free", "spawned", "prepared"}
    BY <1>2, <2>2, FreeTaskFields
  <2>. HIDE DEF x
  <2>. QED
    BY <1>2, <1>4, <2>1, <2>2, <2>3, TaskMoves DEF Settled
<1>. QED
  BY <1>5, <1>6, <1>7, <1>8, <1>9

LEMMA OrphanExitsKeepsAgentInv ==
  ASSUME AgentInv, NEW t \in TaskIds, OrphanExits(t)
  PROVE  AgentInv'
<1>0. /\ TypeOK /\ Objects /\ InMap /\ Receipts
      /\ \A h \in Hosts, j \in Jobs :
           lm[h][j] # NoTask => /\ lm[h][j] \in TaskIds
                                /\ task[lm[h][j]].host = h
                                /\ task[lm[h][j]].job = j
  BY MapRefs DEF AgentInv
<1>1. /\ task' \in [TaskIds -> TaskRecord]
      /\ task'[t] = FreeTask
      /\ \A u \in TaskIds \ {t} : task'[u] = task[u]
      /\ task[t].pc = "orphan"
      /\ lm' = lm /\ agent' = agent /\ disk' = disk
  BY <1>0, FreeTaskType DEF OrphanExits, TypeOK
<1>2. \A h \in Hosts, j \in Jobs :
        lm[h][j] # NoTask => lm[h][j] \in TaskIds /\ lm[h][j] # t
  BY <1>0, <1>1 DEF Objects
<1>3. TypeOK'
  <2>1. \A u \in TaskIds :
          task'[u].pc # "free" => task'[u].host \in Hosts /\ task'[u].job \in Jobs
    BY <1>0, <1>1, FreeTaskFields DEF TypeOK
  <2>2. \A h \in Hosts, j \in Jobs :
          lm[h][j] # NoTask => task'[lm[h][j]].host = h /\ task'[lm[h][j]].job = j
    BY <1>0, <1>1, <1>2
  <2>. QED
    BY <1>0, <1>1, <2>1, <2>2 DEF TypeOK
<1>4. Objects'
  BY <1>0, <1>1, <1>2, FreeTaskFields DEF Objects
<1>5. InMap'
  BY <1>0, <1>1, FreeTaskFields DEF InMap
<1>6. Receipts'
  BY <1>0, <1>1, <1>2, FreeTaskFields DEF Receipts, Settled
<1>. QED
  BY <1>3, <1>4, <1>5, <1>6 DEF AgentInv

-----------------------------------------------------------------------------
(* The agent sends a report, gets an answer or gives up.                    *)
LEMMA ReportMoves ==
  ASSUME AgentInv, NEW h \in Hosts, NEW a \in AgentRecord,
         agent' = [agent EXCEPT ![h] = a],
         \A j \in Jobs :
           \/ a.pc = "calling" /\ a.sent[j] # "absent"
           \/ a.pc = "assigning" /\ j \in a.acked
           => lm[h][j] # NoTask /\ Settled(lm[h][j]),
         UNCHANGED <<lm, task, disk>>
  PROVE  AgentInv'
<1>1. /\ agent' \in [Hosts -> AgentRecord]
      /\ agent'[h] = a
      /\ \A k \in Hosts \ {h} : agent'[k] = agent[k]
      /\ lm' = lm /\ task' = task /\ disk' = disk
  BY DEF AgentInv, TypeOK
<1>2. TypeOK'
  BY <1>1 DEF AgentInv, TypeOK
<1>3. Objects' /\ InMap'
  BY <1>1 DEF AgentInv, Objects, InMap
<1>4. Receipts'
  <2>. SUFFICES ASSUME NEW k \in Hosts, NEW j \in Jobs,
                       \/ agent'[k].pc = "calling" /\ agent'[k].sent[j] # "absent"
                       \/ agent'[k].pc = "assigning" /\ j \in agent'[k].acked
                PROVE  lm[k][j] # NoTask /\ Settled(lm[k][j])
    BY <1>1 DEF Receipts, Settled
  <2>1. CASE k = h
    BY <1>1, <2>1
  <2>2. CASE k # h
    BY <1>1, <2>2 DEF AgentInv, Receipts
  <2>. QED
    BY <2>1, <2>2
<1>. QED
  BY <1>2, <1>3, <1>4 DEF AgentInv

LEMMA SendReportKeepsAgentInv ==
  ASSUME AgentInv, NEW h \in Hosts, SendReport(h), StartsAreOver(h)
  PROVE  AgentInv'
<1>0. /\ TypeOK /\ Objects /\ InMap /\ Receipts
      /\ \A k \in Hosts, j \in Jobs :
           lm[k][j] # NoTask => /\ lm[k][j] \in TaskIds
                                /\ task[lm[k][j]].host = k
                                /\ task[lm[k][j]].job = j
  BY MapRefs DEF AgentInv
<1>1. agent[h] \in AgentRecord
  BY <1>0, AgentTypes
<1>. DEFINE a == [agent[h] EXCEPT !.pc = "calling", !.sent = GetResults(h)]
<1>2. GetResults(h) \in [Jobs -> Reports]
  <2>. SUFFICES ASSUME NEW j \in Jobs, lm[h][j] # NoTask, task[lm[h][j]].status # "running"
                PROVE  task[lm[h][j]].status \in Reports
    BY DEF GetResults, Reports
  <2>. QED
    BY <1>0, AgentTypes DEF TaskRecord, Statuses, Reports
<1>3. a \in AgentRecord /\ a.pc = "calling" /\ a.sent = GetResults(h)
  BY <1>1, <1>2 DEF AgentRecord
<1>4. agent' = [agent EXCEPT ![h] = a] /\ UNCHANGED <<lm, task, disk>>
  BY <1>0 DEF SendReport, TypeOK
<1>5. ASSUME NEW j \in Jobs, GetResults(h)[j] # "absent"
      PROVE  lm[h][j] # NoTask /\ Settled(lm[h][j])
  <2>1. lm[h][j] # NoTask /\ task[lm[h][j]].status # "running"
    BY <1>5 DEF GetResults
  <2>2. task[lm[h][j]] \in TaskRecord /\ task[lm[h][j]].pc \notin {"spawned", "prepared"}
    BY <1>0, <2>1, AgentTypes DEF StartsAreOver
  <2>. QED
    BY <1>0, <2>1, <2>2 DEF Objects, Settled, TaskRecord
<1>. HIDE DEF a
<1>. QED
  BY <1>3, <1>4, <1>5, ReportMoves

LEMMA ReportFailsKeepsAgentInv ==
  ASSUME AgentInv, NEW h \in Hosts, ReportFails(h)
  PROVE  AgentInv'
<1>1. IdleAgent.pc = "idle"
  BY DEF IdleAgent
<1>. QED
  BY <1>1, IdleAgentType, ReportMoves DEF ReportFails

(* An answer acknowledges nothing that was not sent.                        *)
LEMMA ReceiveResponseKeepsAgentInv ==
  ASSUME AgentInv, NEW h \in Hosts,
         NEW tasks \in [Jobs -> {"no", "run", "kill"}],
         NEW acked \in SUBSET {j \in Jobs : agent[h].sent[j] # "absent"},
         ReceiveResponse(h, tasks, acked)
  PROVE  AgentInv'
<1>. DEFINE a == [IdleAgent EXCEPT !.pc = "assigning", !.tasks = tasks,
                                   !.acked = acked, !.onDisk = OnDisk(h)]
<1>1. OnDisk(h) \in SUBSET Jobs /\ acked \in SUBSET Jobs
  BY DEF OnDisk
<1>2. a \in AgentRecord /\ a.pc = "assigning" /\ a.acked = acked
  BY <1>1, IdleAgentType DEF AgentRecord
<1>3. agent' = [agent EXCEPT ![h] = a] /\ UNCHANGED <<lm, task, disk>> /\ agent[h].pc = "calling"
  BY DEF ReceiveResponse
<1>4. \A j \in acked : lm[h][j] # NoTask /\ Settled(lm[h][j])
  BY <1>3 DEF AgentInv, Receipts
<1>. HIDE DEF a
<1>. QED
  BY <1>2, <1>3, <1>4, ReportMoves

-----------------------------------------------------------------------------
(* What AssignTask does: of the jobs that it starts, each gets an object    *)
(* nobody refers to; the others keep theirs, and a kill may be pending.     *)
Spawned(h, j) == [FreeTask EXCEPT !.pc = "spawned", !.host = h, !.job = j]

NewJobs(h) == {j \in Jobs : agent[h].tasks[j] # "no"} \cap Unknown(h)

SameBut(r, s) ==   \* but for a pending kill
  r.pc = s.pc /\ r.host = s.host /\ r.job = s.job /\ r.status = s.status /\ r.cmd = s.cmd

LEMMA SpawnedFields ==
  ASSUME NEW h \in Hosts, NEW j \in Jobs
  PROVE  /\ Spawned(h, j) \in TaskRecord
         /\ Spawned(h, j).pc = "spawned" /\ Spawned(h, j).host = h /\ Spawned(h, j).job = j
         /\ Spawned(h, j).status = Unset /\ Spawned(h, j).cmd = FALSE
BY DEF Spawned, FreeTask, TaskRecord, Statuses

LEMMA AssignEffect ==
  ASSUME AgentInv, NEW h \in Hosts, AssignTask(h)
  PROVE  /\ agent[h].pc = "assigning"
         /\ agent' = [agent EXCEPT ![h] = IdleAgent]
         /\ disk' = disk
         /\ \E id \in [NewJobs(h) -> TaskIds] :
              /\ \A j \in NewJobs(h) : Unused(id[j]) /\ task'[id[j]] = Spawned(h, j)
              /\ \A j, k \in NewJobs(h) : id[j] = id[k] => j = k
              /\ \A t \in TaskIds : (\A j \in NewJobs(h) : id[j] # t) =>
                   /\ task'[t] \in TaskRecord
                   /\ SameBut(task'[t], task[t])
                   /\ task'[t] = task[t] \/ \E j \in Jobs : lm[h][j] = t
              /\ lm' = [lm EXCEPT ![h] = [j \in Jobs |->
                          IF j \in agent[h].acked THEN NoTask
                          ELSE IF j \in NewJobs(h) THEN id[j] ELSE @[j]]]
         /\ task' \in [TaskIds -> TaskRecord]
<1>. DEFINE killed == {lm[h][j] : j \in {k \in {j \in Jobs : agent[h].tasks[j] # "no"} :
                                          agent[h].tasks[k] = "kill"}}
<1>1. NewJobs(h) \subseteq Jobs
  BY DEF NewJobs
<1>2. PICK id \in [NewJobs(h) -> {t \in TaskIds : Unused(t)}] :
        /\ \A j, k \in NewJobs(h) : id[j] = id[k] => j = k
        /\ task' = [t \in TaskIds |->
             IF \E j \in NewJobs(h) : id[j] = t
             THEN [FreeTask EXCEPT !.pc = "spawned", !.host = h,
                     !.job = CHOOSE j \in NewJobs(h) : id[j] = t]
             ELSE IF t \in killed THEN [task[t] EXCEPT !.kill = TRUE]
                                  ELSE task[t]]
        /\ lm' = [lm EXCEPT ![h] = [j \in Jobs |->
             IF j \in agent[h].acked THEN NoTask
             ELSE IF j \in NewJobs(h) THEN id[j] ELSE @[j]]]
  BY DEF AssignTask, NewJobs
<1>3. ASSUME NEW j \in NewJobs(h)
      PROVE  id[j] \in TaskIds /\ Unused(id[j]) /\ task'[id[j]] = Spawned(h, j)
  <2>1. id[j] \in TaskIds /\ Unused(id[j])
    BY <1>2
  <2>2. (CHOOSE k \in NewJobs(h) : id[k] = id[j]) = j
    BY <1>2
  <2>. HIDE DEF killed
  <2>. QED
    BY <1>2, <2>1, <2>2 DEF Spawned
<1>4. ASSUME NEW t \in TaskIds, \A j \in NewJobs(h) : id[j] # t
      PROVE  /\ task'[t] \in TaskRecord
             /\ SameBut(task'[t], task[t])
             /\ task'[t] = task[t] \/ \E j \in Jobs : lm[h][j] = t
  <2>1. task[t] \in TaskRecord
    BY DEF AgentInv, TypeOK
  <2>2. task'[t] = IF t \in killed THEN [task[t] EXCEPT !.kill = TRUE] ELSE task[t]
    <3>. HIDE DEF killed
    <3>. QED
      BY <1>2, <1>4
  <2>3. t \in killed => \E j \in Jobs : lm[h][j] = t
    OBVIOUS
  <2>. HIDE DEF killed
  <2>. QED
    BY <2>1, <2>2, <2>3 DEF TaskRecord, SameBut
<1>5. agent[h].pc = "assigning" /\ agent' = [agent EXCEPT ![h] = IdleAgent] /\ disk' = disk
  BY DEF AssignTask
<1>6. task' \in [TaskIds -> TaskRecord]
  <2>1. \A t \in TaskIds : task'[t] \in TaskRecord
    <3>. SUFFICES ASSUME NEW t \in TaskIds PROVE task'[t] \in TaskRecord
      OBVIOUS
    <3>1. CASE \E j \in NewJobs(h) : id[j] = t
      <4>1. PICK j \in NewJobs(h) : id[j] = t
        BY <3>1
      <4>2. task'[t] = Spawned(h, j) /\ j \in Jobs
        BY <1>1, <1>3, <4>1
      <4>. QED
        BY <4>2, SpawnedFields
    <3>2. CASE \A j \in NewJobs(h) : id[j] # t
      BY <1>4, <3>2
    <3>. QED
      BY <3>1, <3>2
  <2>2. DOMAIN task' = TaskIds /\ task' = [t \in TaskIds |-> task'[t]]
    <3>. HIDE DEF killed
    <3>. QED
      BY <1>2
  <2>. QED
    BY <2>1, <2>2
<1>7. id \in [NewJobs(h) -> TaskIds]
  BY <1>2
<1>. HIDE DEF killed
<1>. QED
  BY <1>1, <1>2, <1>3, <1>4, <1>5, <1>6, <1>7

LEMMA IdleAgentFields == IdleAgent.pc = "idle"
BY DEF IdleAgent

LEMMA AssignTaskKeepsAgentInv ==
  ASSUME AgentInv, NEW h \in Hosts, AssignTask(h)
  PROVE  AgentInv'
<1>0. /\ TypeOK /\ Objects /\ InMap /\ Receipts
      /\ \A k \in Hosts, j \in Jobs :
           lm[k][j] # NoTask => /\ lm[k][j] \in TaskIds
                                /\ task[lm[k][j]].host = k
                                /\ task[lm[k][j]].job = j
  BY MapRefs DEF AgentInv
<1>. DEFINE new == NewJobs(h)
<1>1. PICK id \in [new -> TaskIds] :
        /\ \A j \in new : Unused(id[j]) /\ task'[id[j]] = Spawned(h, j)
        /\ \A j, k \in new : id[j] = id[k] => j = k
        /\ \A t \in TaskIds : (\A j \in new : id[j] # t) =>
             /\ task'[t] \in TaskRecord
             /\ SameBut(task'[t], task[t])
             /\ task'[t] = task[t] \/ \E j \in Jobs : lm[h][j] = t
        /\ lm' = [lm EXCEPT ![h] = [j \in Jobs |->
                    IF j \in agent[h].acked THEN NoTask
                    ELSE IF j \in new THEN id[j] ELSE @[j]]]
  BY AssignEffect
<1>2. /\ agent[h].pc = "assigning"
      /\ agent' = [agent EXCEPT ![h] = IdleAgent]
      /\ disk' = disk
      /\ task' \in [TaskIds -> TaskRecord]
  BY AssignEffect
<1>3. \A j \in new : j \in Jobs /\ lm[h][j] = NoTask
  BY DEF NewJobs, Unknown
<1>4. \A k \in Hosts, j \in Jobs : lm[k][j] # NoTask => \A i \in new : id[i] # lm[k][j]
  BY <1>1 DEF Unused
<1>. HIDE DEF new
<1>5. \A k \in Hosts, j \in Jobs :
        lm'[k][j] = IF k # h THEN lm[k][j]
                    ELSE IF j \in agent[h].acked THEN NoTask
                    ELSE IF j \in new THEN id[j] ELSE lm[h][j]
  BY <1>0, <1>1 DEF TypeOK
<1>6. lm' \in [Hosts -> [Jobs -> TaskIds \cup {NoTask}]]
  BY <1>0, <1>1 DEF TypeOK
<1>7. /\ agent' \in [Hosts -> AgentRecord] /\ agent'[h].pc = "idle"
      /\ \A k \in Hosts \ {h} : agent'[k] = agent[k]
  BY <1>0, <1>2, IdleAgentType, IdleAgentFields DEF TypeOK
<1>8. \A j \in new : id[j] \in TaskIds /\ task'[id[j]] = Spawned(h, j)
        /\ Spawned(h, j).pc = "spawned" /\ Spawned(h, j).host = h /\ Spawned(h, j).job = j
        /\ Spawned(h, j).status = Unset /\ Spawned(h, j).cmd = FALSE
  <2>. SUFFICES ASSUME NEW j \in new
                PROVE  id[j] \in TaskIds /\ task'[id[j]] = Spawned(h, j)
                       /\ Spawned(h, j).pc = "spawned" /\ Spawned(h, j).host = h
                       /\ Spawned(h, j).job = j /\ Spawned(h, j).status = Unset
                       /\ Spawned(h, j).cmd = FALSE
    OBVIOUS
  <2>1. j \in Jobs /\ id[j] \in TaskIds /\ task'[id[j]] = Spawned(h, j)
    BY <1>1, <1>3
  <2>. QED
    BY <2>1, SpawnedFields
<1>9. \A t \in TaskIds : \/ \E j \in new : t = id[j]
                         \/ SameBut(task'[t], task[t]) /\ \A j \in new : id[j] # t
  BY <1>1
<1>10. \A k \in Hosts, j \in Jobs : lm[k][j] # NoTask =>
         lm[k][j] \in TaskIds /\ SameBut(task'[lm[k][j]], task[lm[k][j]])
  BY <1>0, <1>1, <1>4
<1>11. TypeOK'
  <2>1. \A t \in TaskIds :
          task'[t].pc # "free" => task'[t].host \in Hosts /\ task'[t].job \in Jobs
    BY <1>0, <1>3, <1>8, <1>9 DEF TypeOK, SameBut
  <2>2. \A k \in Hosts, j \in Jobs : lm'[k][j] # NoTask =>
          task'[lm'[k][j]].host = k /\ task'[lm'[k][j]].job = j
    BY <1>0, <1>5, <1>8, <1>10 DEF SameBut
  <2>3. disk' \in [Hosts -> [Jobs -> Directory]]
    BY <1>0, <1>2 DEF TypeOK
  <2>. QED
    BY <1>2, <1>6, <1>7, <2>1, <2>2, <2>3 DEF TypeOK
<1>12. Objects'
  <2>1. ASSUME NEW t \in TaskIds
        PROVE  /\ task'[t].pc = "free" => task'[t] = FreeTask
               /\ task'[t].pc \in {"spawned", "prepared"}
                    => task'[t].status = Unset /\ task'[t].cmd = FALSE
               /\ task'[t].pc = "running" => task'[t].status \in {"running", "killed"}
               /\ task'[t].pc = "exited" => task'[t].status \in {"killed", "success", "failed"}
    <3>1. CASE \E j \in new : t = id[j]
      BY <1>8, <3>1
    <3>2. CASE \A j \in new : id[j] # t
      <4>1. SameBut(task'[t], task[t])
            /\ (task'[t] = task[t] \/ \E j \in Jobs : lm[h][j] = t)
        BY <1>1, <3>2
      <4>2. task[t].pc = "free" => task'[t] = task[t]
        BY <1>0, <4>1, AgentAssumption DEF Objects
      <4>. QED
        BY <1>0, <4>1, <4>2 DEF Objects, SameBut
    <3>. QED
      BY <3>1, <3>2
  <2>2. \A k \in Hosts, j \in Jobs :
          lm'[k][j] # NoTask => task'[lm'[k][j]].pc \notin {"free", "orphan"}
    BY <1>0, <1>5, <1>8, <1>10 DEF SameBut, Objects
  <2>. QED
    BY <2>1, <2>2 DEF Objects
<1>13. InMap'
  <2>. SUFFICES ASSUME NEW t \in TaskIds,
                       task'[t].pc \in {"spawned", "prepared", "running"},
                       task'[t].status # "killed"
                PROVE  lm'[task'[t].host][task'[t].job] = t
    BY DEF InMap
  <2>1. CASE \E j \in new : t = id[j]
    <3>1. PICK j \in new : t = id[j]
      BY <2>1
    <3>2. j \notin agent[h].acked
      BY <1>0, <1>2, <1>3 DEF Receipts
    <3>. QED
      BY <1>3, <1>5, <1>8, <3>1, <3>2
  <2>2. CASE \A j \in new : id[j] # t
    <3>1. SameBut(task'[t], task[t])
      BY <1>1, <2>2
    <3>2. lm[task[t].host][task[t].job] = t /\ task[t].host \in Hosts /\ task[t].job \in Jobs
      BY <1>0, <3>1 DEF InMap, TypeOK, SameBut
    <3>3. ~Settled(t)
      BY <3>1 DEF Settled, SameBut
    <3>4. task[t].host = h => task[t].job \notin agent[h].acked
      BY <1>0, <1>2, <3>2, <3>3 DEF Receipts
    <3>5. task[t].host = h => task[t].job \notin new
      BY <1>3, <3>2, AgentAssumption
    <3>. QED
      BY <1>5, <3>1, <3>2, <3>4, <3>5 DEF SameBut
  <2>. QED
    BY <2>1, <2>2
<1>14. Receipts'
  <2>. SUFFICES ASSUME NEW k \in Hosts, NEW j \in Jobs,
                       \/ agent'[k].pc = "calling" /\ agent'[k].sent[j] # "absent"
                       \/ agent'[k].pc = "assigning" /\ j \in agent'[k].acked
                PROVE  lm'[k][j] # NoTask /\ Settled(lm[k][j])'
    BY DEF Receipts
  <2>1. k # h /\ lm[k][j] # NoTask /\ Settled(lm[k][j])
    BY <1>0, <1>7 DEF Receipts
  <2>2. lm'[k][j] = lm[k][j]
    BY <1>5, <2>1
  <2>. QED
    BY <1>10, <2>1, <2>2 DEF Settled, SameBut
<1>. QED
  BY <1>11, <1>12, <1>13, <1>14 DEF AgentInv

-----------------------------------------------------------------------------
(* What a restart does: the directories that count are read back into       *)
(* objects of no process, processes go on as orphans, all else is gone.     *)
Reread(h, j) == [FreeTask EXCEPT !.pc = "over", !.host = h, !.job = j,
                                 !.status = disk[h][j].status]

LEMMA RereadFields ==
  ASSUME TypeOK, NEW h \in Hosts, NEW j \in Jobs
  PROVE  /\ Reread(h, j) \in TaskRecord
         /\ Reread(h, j).pc = "over" /\ Reread(h, j).host = h /\ Reread(h, j).job = j
         /\ Reread(h, j).status = disk[h][j].status
<1>1. disk[h][j] \in Directory
  BY DEF TypeOK
<1>. QED
  BY <1>1 DEF Reread, FreeTask, TaskRecord, Directory, Statuses

LEMMA RereadNoProcess == \A h, j : Reread(h, j).cmd = FALSE
BY DEF Reread, FreeTask

LEMMA RestartEffect ==
  ASSUME AgentInv, NEW h \in Hosts, Restart(h)
  PROVE  /\ agent' = [agent EXCEPT ![h] = IdleAgent]
         /\ disk' = disk
         /\ \E id \in [OnDisk(h) -> TaskIds] :
              /\ \A j \in OnDisk(h) :
                   /\ (task[id[j]].host = h /\ ~Live(id[j])) \/ Unused(id[j])
                   /\ task'[id[j]] = Reread(h, j)
              /\ \A t \in TaskIds : (\A j \in OnDisk(h) : id[j] # t) =>
                   task'[t] = IF task[t].host # h THEN task[t]
                              ELSE IF Live(t) THEN [task[t] EXCEPT !.pc = "orphan", !.kill = FALSE]
                              ELSE FreeTask
              /\ lm' = [lm EXCEPT ![h] = [j \in Jobs |->
                          IF j \in OnDisk(h) THEN id[j] ELSE NoTask]]
         /\ task' \in [TaskIds -> TaskRecord]
<1>. DEFINE mine  == {t \in TaskIds : task[t].host = h}
            spare == {t \in TaskIds : (t \in mine /\ ~Live(t)) \/ Unused(t)}
<1>1. OnDisk(h) \subseteq Jobs
  BY DEF OnDisk
<1>2. PICK id \in [OnDisk(h) -> spare] :
        /\ \A j, k \in OnDisk(h) : id[j] = id[k] => j = k
        /\ lm' = [lm EXCEPT ![h] = [j \in Jobs |->
                    IF j \in OnDisk(h) THEN id[j] ELSE NoTask]]
        /\ task' = [t \in TaskIds |->
             IF \E j \in OnDisk(h) : id[j] = t
             THEN LET j == CHOOSE k \in OnDisk(h) : id[k] = t
                  IN  [FreeTask EXCEPT !.pc = "over", !.host = h, !.job = j,
                                       !.status = disk[h][j].status]
             ELSE IF t \in mine /\ Live(t)
                  THEN [task[t] EXCEPT !.pc = "orphan", !.kill = FALSE]
             ELSE IF t \in mine THEN FreeTask ELSE task[t]]
  BY DEF Restart
<1>3. ASSUME NEW j \in OnDisk(h)
      PROVE  /\ id[j] \in TaskIds
             /\ (task[id[j]].host = h /\ ~Live(id[j])) \/ Unused(id[j])
             /\ task'[id[j]] = Reread(h, j)
  <2>1. id[j] \in spare
    BY <1>2
  <2>2. (CHOOSE k \in OnDisk(h) : id[k] = id[j]) = j
    BY <1>2
  <2>3. id[j] \in TaskIds
    BY <2>1
  <2>4. task'[id[j]] = Reread(h, j)
    <3>. HIDE DEF mine, spare
    <3>. QED
      BY <1>2, <2>2, <2>3 DEF Reread
  <2>. QED
    BY <2>1, <2>4
<1>4. ASSUME NEW t \in TaskIds, \A j \in OnDisk(h) : id[j] # t
      PROVE  /\ task'[t] = IF task[t].host # h THEN task[t]
                           ELSE IF Live(t) THEN [task[t] EXCEPT !.pc = "orphan", !.kill = FALSE]
                           ELSE FreeTask
             /\ task'[t] \in TaskRecord
  <2>1. task'[t] = IF t \in mine /\ Live(t)
                   THEN [task[t] EXCEPT !.pc = "orphan", !.kill = FALSE]
                   ELSE IF t \in mine THEN FreeTask ELSE task[t]
    <3>. HIDE DEF mine, spare
    <3>. QED
      BY <1>2, <1>4
  <2>2. task[t] \in TaskRecord
    BY DEF AgentInv, TypeOK
  <2>3. [task[t] EXCEPT !.pc = "orphan", !.kill = FALSE] \in TaskRecord
    BY <2>2 DEF TaskRecord
  <2>4. t \in mine <=> task[t].host = h
    OBVIOUS
  <2>. HIDE DEF mine, spare
  <2>. QED
    BY <2>1, <2>2, <2>3, <2>4, FreeTaskType
<1>5. agent' = [agent EXCEPT ![h] = IdleAgent] /\ disk' = disk
  BY DEF Restart
<1>6. task' \in [TaskIds -> TaskRecord]
  <2>1. \A t \in TaskIds : task'[t] \in TaskRecord
    <3>. SUFFICES ASSUME NEW t \in TaskIds PROVE task'[t] \in TaskRecord
      OBVIOUS
    <3>1. CASE \E j \in OnDisk(h) : id[j] = t
      <4>1. PICK j \in OnDisk(h) : id[j] = t
        BY <3>1
      <4>2. task'[t] = Reread(h, j) /\ j \in Jobs
        BY <1>1, <1>3, <4>1
      <4>3. TypeOK
        BY DEF AgentInv
      <4>. QED
        BY <4>2, <4>3, RereadFields
    <3>2. CASE \A j \in OnDisk(h) : id[j] # t
      BY <1>4, <3>2
    <3>. QED
      BY <3>1, <3>2
  <2>2. DOMAIN task' = TaskIds /\ task' = [t \in TaskIds |-> task'[t]]
    <3>. HIDE DEF mine, spare
    <3>. QED
      BY <1>2
  <2>. QED
    BY <2>1, <2>2
<1>7. id \in [OnDisk(h) -> TaskIds]
  BY <1>2
<1>. HIDE DEF mine, spare
<1>. QED
  BY <1>2, <1>3, <1>4, <1>5, <1>6, <1>7

LEMMA RestartKeepsAgentInv ==
  ASSUME AgentInv, NEW h \in Hosts, Restart(h)
  PROVE  AgentInv'
<1>0. /\ TypeOK /\ Objects /\ InMap /\ Receipts
      /\ \A k \in Hosts, j \in Jobs :
           lm[k][j] # NoTask => /\ lm[k][j] \in TaskIds
                                /\ task[lm[k][j]].host = k
                                /\ task[lm[k][j]].job = j
  BY MapRefs DEF AgentInv
<1>1. PICK id \in [OnDisk(h) -> TaskIds] :
        /\ \A j \in OnDisk(h) :
             /\ (task[id[j]].host = h /\ ~Live(id[j])) \/ Unused(id[j])
             /\ task'[id[j]] = Reread(h, j)
        /\ \A t \in TaskIds : (\A j \in OnDisk(h) : id[j] # t) =>
             task'[t] = IF task[t].host # h THEN task[t]
                        ELSE IF Live(t) THEN [task[t] EXCEPT !.pc = "orphan", !.kill = FALSE]
                        ELSE FreeTask
        /\ lm' = [lm EXCEPT ![h] = [j \in Jobs |->
                    IF j \in OnDisk(h) THEN id[j] ELSE NoTask]]
  BY RestartEffect
<1>2. /\ agent' = [agent EXCEPT ![h] = IdleAgent] /\ disk' = disk
      /\ task' \in [TaskIds -> TaskRecord]
  BY RestartEffect
<1>3. OnDisk(h) \subseteq Jobs
  BY DEF OnDisk
<1>4. \A j \in OnDisk(h) :
        /\ id[j] \in TaskIds /\ task'[id[j]] = Reread(h, j)
        /\ Reread(h, j).pc = "over" /\ Reread(h, j).host = h /\ Reread(h, j).job = j
  <2>. SUFFICES ASSUME NEW j \in OnDisk(h)
                PROVE  id[j] \in TaskIds /\ task'[id[j]] = Reread(h, j)
                       /\ Reread(h, j).pc = "over" /\ Reread(h, j).host = h
                       /\ Reread(h, j).job = j
    OBVIOUS
  <2>1. j \in Jobs /\ id[j] \in TaskIds /\ task'[id[j]] = Reread(h, j)
    BY <1>1, <1>3
  <2>. QED
    BY <1>0, <2>1, RereadFields
<1>5. \A k \in Hosts, j \in Jobs :
        lm'[k][j] = IF k # h THEN lm[k][j]
                    ELSE IF j \in OnDisk(h) THEN id[j] ELSE NoTask
  BY <1>0, <1>1 DEF TypeOK
<1>6. lm' \in [Hosts -> [Jobs -> TaskIds \cup {NoTask}]]
  BY <1>0, <1>1 DEF TypeOK
<1>7. /\ agent' \in [Hosts -> AgentRecord] /\ agent'[h].pc = "idle"
      /\ \A k \in Hosts \ {h} : agent'[k] = agent[k]
  BY <1>0, <1>2, IdleAgentType, IdleAgentFields DEF TypeOK
<1>8. \A k \in Hosts, j \in Jobs :
        k # h /\ lm[k][j] # NoTask => task'[lm[k][j]] = task[lm[k][j]]
  <2>. SUFFICES ASSUME NEW k \in Hosts, NEW j \in Jobs, k # h, lm[k][j] # NoTask
                PROVE  task'[lm[k][j]] = task[lm[k][j]]
    OBVIOUS
  <2>1. lm[k][j] \in TaskIds /\ task[lm[k][j]].host # h
    BY <1>0
  <2>2. \A i \in OnDisk(h) : id[i] # lm[k][j]
    BY <1>1, <2>1 DEF Unused
  <2>. QED
    BY <1>1, <2>1, <2>2
<1>9. \A t \in TaskIds :
        \/ \E j \in OnDisk(h) : t = id[j]
        \/ task[t].host # h /\ task'[t] = task[t]
        \/ /\ Live(t) /\ task'[t].pc = "orphan" /\ task'[t].host = task[t].host
           /\ task'[t].job = task[t].job
        \/ task'[t] = FreeTask
  <2>. SUFFICES ASSUME NEW t \in TaskIds, \A j \in OnDisk(h) : id[j] # t
                PROVE  \/ task[t].host # h /\ task'[t] = task[t]
                       \/ /\ Live(t) /\ task'[t].pc = "orphan" /\ task'[t].host = task[t].host
                          /\ task'[t].job = task[t].job
                       \/ task'[t] = FreeTask
    OBVIOUS
  <2>1. task[t] \in TaskRecord
    BY <1>0 DEF TypeOK
  <2>. QED
    BY <1>1, <2>1 DEF TaskRecord
<1>10. TypeOK'
  <2>1. \A t \in TaskIds :
          task'[t].pc # "free" => task'[t].host \in Hosts /\ task'[t].job \in Jobs
    <3>. SUFFICES ASSUME NEW t \in TaskIds, task'[t].pc # "free"
                  PROVE  task'[t].host \in Hosts /\ task'[t].job \in Jobs
      OBVIOUS
    <3>1. CASE \E j \in OnDisk(h) : t = id[j]
      BY <1>3, <1>4, <3>1
    <3>2. CASE task[t].host # h /\ task'[t] = task[t]
      BY <1>0, <3>2 DEF TypeOK
    <3>3. CASE /\ Live(t) /\ task'[t].pc = "orphan" /\ task'[t].host = task[t].host
               /\ task'[t].job = task[t].job
      BY <1>0, <3>3 DEF TypeOK, Live
    <3>. QED
      BY <1>9, <3>1, <3>2, <3>3, FreeTaskFields
  <2>2. \A k \in Hosts, j \in Jobs : lm'[k][j] # NoTask =>
          task'[lm'[k][j]].host = k /\ task'[lm'[k][j]].job = j
    BY <1>0, <1>4, <1>5, <1>8
  <2>3. disk' \in [Hosts -> [Jobs -> Directory]]
    BY <1>0, <1>2 DEF TypeOK
  <2>. QED
    BY <1>2, <1>6, <1>7, <2>1, <2>2, <2>3 DEF TypeOK
<1>11. Objects'
  <2>1. ASSUME NEW t \in TaskIds
        PROVE  /\ task'[t].pc = "free" => task'[t] = FreeTask
               /\ task'[t].pc \in {"spawned", "prepared"}
                    => task'[t].status = Unset /\ task'[t].cmd = FALSE
               /\ task'[t].pc = "running" => task'[t].status \in {"running", "killed"}
               /\ task'[t].pc = "exited" => task'[t].status \in {"killed", "success", "failed"}
    <3>1. CASE \E j \in OnDisk(h) : t = id[j]
      BY <1>4, <3>1
    <3>2. CASE task'[t] = task[t]
      BY <1>0, <3>2 DEF Objects
    <3>. QED
      BY <1>9, <3>1, <3>2, FreeTaskFields
  <2>2. \A k \in Hosts, j \in Jobs :
          lm'[k][j] # NoTask => task'[lm'[k][j]].pc \notin {"free", "orphan"}
    BY <1>0, <1>4, <1>5, <1>8 DEF Objects
  <2>. QED
    BY <2>1, <2>2 DEF Objects
<1>12. InMap'
  <2>. SUFFICES ASSUME NEW t \in TaskIds,
                       task'[t].pc \in {"spawned", "prepared", "running"},
                       task'[t].status # "killed"
                PROVE  lm'[task'[t].host][task'[t].job] = t
    BY DEF InMap
  <2>1. task[t].host # h /\ task'[t] = task[t]
    BY <1>4, <1>9, FreeTaskFields
  <2>2. task[t].host \in Hosts /\ task[t].job \in Jobs /\ lm[task[t].host][task[t].job] = t
    BY <1>0, <2>1 DEF InMap, TypeOK
  <2>. QED
    BY <1>5, <2>1, <2>2
<1>13. Receipts'
  <2>. SUFFICES ASSUME NEW k \in Hosts, NEW j \in Jobs,
                       \/ agent'[k].pc = "calling" /\ agent'[k].sent[j] # "absent"
                       \/ agent'[k].pc = "assigning" /\ j \in agent'[k].acked
                PROVE  lm'[k][j] # NoTask /\ Settled(lm[k][j])'
    BY DEF Receipts
  <2>1. k # h /\ lm[k][j] # NoTask /\ Settled(lm[k][j])
    BY <1>0, <1>7 DEF Receipts
  <2>2. lm'[k][j] = lm[k][j]
    BY <1>5, <2>1
  <2>. QED
    BY <1>8, <2>1, <2>2 DEF Settled
<1>. QED
  BY <1>10, <1>11, <1>12, <1>13 DEF AgentInv

-----------------------------------------------------------------------------
(* A startTime grows old.                                                   *)
LEMMA HourKeepsAgentInv ==
  ASSUME AgentInv, NEW h \in Hosts, NEW j \in Jobs,
         disk' = [disk EXCEPT ![h][j].fresh = FALSE], UNCHANGED <<lm, task, agent>>
  PROVE  AgentInv'
<1>1. disk[h][j] \in Directory /\ disk \in [Hosts -> [Jobs -> Directory]]
  BY DEF AgentInv, TypeOK
<1>2. [disk[h][j] EXCEPT !.fresh = FALSE] \in Directory
  BY <1>1 DEF Directory
<1>3. disk' = [disk EXCEPT ![h][j] = [disk[h][j] EXCEPT !.fresh = FALSE]]
  BY <1>1
<1>4. disk' \in [Hosts -> [Jobs -> Directory]]
  BY <1>1, <1>2, <1>3
<1>. QED
  BY <1>4 DEF AgentInv, TypeOK, Objects, InMap, Receipts, Settled

(* The steps of JobAgent, those of the server's answers included.           *)
AgentMoves ==
  \/ \E h \in Hosts :
       \/ SendReport(h) /\ StartsAreOver(h)
       \/ ReportFails(h)
       \/ AnyResponse(h)
       \/ AssignTask(h)
       \/ Restart(h)
  \/ \E t \in TaskIds :
       \/ Prepare(t) \/ StartProcess(t)
       \/ \E s \in Reported : ProcessExits(t, s)
       \/ PersistResult(t) \/ OrphanExits(t) \/ Kill(t)

Aging ==
  \E h \in Hosts, j \in Jobs :
    /\ disk' = [disk EXCEPT ![h][j].fresh = FALSE]
    /\ UNCHANGED <<lm, task, agent>>

(* A panic is a restart of the agent that the task belongs to.              *)
LEMMA PanicRestarts ==
  ASSUME AgentInv, NEW t \in TaskIds, KillPanics(t)
  PROVE  task[t].host \in Hosts /\ Restart(task[t].host)
<1>1. task[t].kill /\ (task[t].pc = "free" => task[t] = FreeTask)
  BY DEF KillPanics, AgentInv, Objects
<1>2. task[t].pc # "free"
  BY <1>1, FreeTaskFields
<1>. QED
  BY <1>2 DEF KillPanics, AgentInv, TypeOK

LEMMA NextMoves ==
  ASSUME AgentInv, Next, "slow_start" \notin Faults
  PROVE  AgentMoves \/ ("hour" \in Faults /\ Aging)
<1>1. \A t \in TaskIds : TaskStep(t) => AgentMoves
  BY PanicRestarts DEF TaskStep, AgentMoves
<1>2. \A h \in Hosts : SendReport(h) \/ Crash(h) => AgentMoves
  BY DEF SendReport, Crash, AgentMoves
<1>3. \A h \in Hosts : ReportFails(h) \/ AnyResponse(h) \/ AssignTask(h) => AgentMoves
  BY DEF AgentMoves
<1>4. \A h \in Hosts, j \in Jobs : HourPasses(h, j) => "hour" \in Faults /\ Aging
  BY DEF HourPasses, Aging
<1>5. \/ \E h \in Hosts :
           \/ SendReport(h) \/ Crash(h)
           \/ ReportFails(h) \/ AnyResponse(h) \/ AssignTask(h)
           \/ \E j \in Jobs : HourPasses(h, j)
      \/ \E t \in TaskIds : TaskStep(t)
  BY DEF Next
<1>. QED
  BY <1>1, <1>2, <1>3, <1>4, <1>5

LEMMA MovesKeepAgentInv ==
  ASSUME AgentInv, AgentMoves \/ Aging
  PROVE  AgentInv'
<1>1. ASSUME NEW h \in Hosts, AnyResponse(h) PROVE AgentInv'
  BY <1>1, ReceiveResponseKeepsAgentInv DEF AnyResponse
<1>2. ASSUME NEW h \in Hosts,
             \/ SendReport(h) /\ StartsAreOver(h)
             \/ ReportFails(h) \/ AssignTask(h) \/ Restart(h)
      PROVE  AgentInv'
  BY <1>2, SendReportKeepsAgentInv, ReportFailsKeepsAgentInv, AssignTaskKeepsAgentInv,
     RestartKeepsAgentInv
<1>3. ASSUME NEW t \in TaskIds,
             \/ Prepare(t) \/ StartProcess(t)
             \/ \E s \in Reported : ProcessExits(t, s)
             \/ PersistResult(t) \/ OrphanExits(t) \/ Kill(t)
      PROVE  AgentInv'
  BY <1>3, TaskStepKeepsAgentInv, OrphanExitsKeepsAgentInv
<1>4. CASE Aging
  BY <1>4, HourKeepsAgentInv DEF Aging
<1>. QED
  BY <1>1, <1>2, <1>3, <1>4 DEF AgentMoves

LEMMA InitAgentInv == Init => AgentInv
<1>. SUFFICES ASSUME Init PROVE AgentInv
  OBVIOUS
<1>1. \A h \in Hosts, j \in Jobs : lm[h][j] = NoTask
  BY DEF Init
<1>2. \A h \in Hosts : agent[h] = IdleAgent
  BY DEF Init
<1>3. \A t \in TaskIds : task[t] = FreeTask
  BY DEF Init
<1>4. [fresh |-> FALSE, status |-> Unset] \in Directory
  BY DEF Directory
<1>5. TypeOK
  <2>1. lm \in [Hosts -> [Jobs -> TaskIds \cup {NoTask}]]
    BY DEF Init
  <2>2. task \in [TaskIds -> TaskRecord]
    BY FreeTaskType DEF Init
  <2>3. disk \in [Hosts -> [Jobs -> Directory]]
    BY <1>4 DEF Init
  <2>4. agent \in [Hosts -> AgentRecord]
    BY IdleAgentType DEF Init
  <2>. QED
    BY <1>1, <1>3, <2>1, <2>2, <2>3, <2>4, FreeTaskFields DEF TypeOK
<1>6. Objects
  BY <1>1, <1>3, FreeTaskFields DEF Objects
<1>7. InMap
  BY <1>3, FreeTaskFields DEF InMap
<1>8. Receipts
  BY <1>2, IdleAgentFields DEF Receipts
<1>. QED
  BY <1>5, <1>6, <1>7, <1>8 DEF AgentInv

(* Whatever the server answers, and however old the files are, an agent     *)
(* does not run a job twice at once.                                        *)
LEMMA OneRun ==
  ASSUME AgentInv
  PROVE  OneRunPerAgent
BY DEF AgentInv, InMap, OneRunPerAgent

-----------------------------------------------------------------------------
(* What DiskInv needs to know when one object moves on.                     *)
Begun == {"spawned", "prepared", "running", "exited", "orphan"}

LEMMA ActiveMeans ==
  \A t, h, j : Active(t, h, j) <=> task[t].pc \in Begun /\ task[t].host = h /\ task[t].job = j
BY DEF Active, Begun

LEMMA TaskMovesOnDisk ==
  ASSUME TypeOK, DiskInv, NEW t \in TaskIds, NEW x, NEW h \in Hosts, NEW j \in Jobs,
         NEW d \in Directory,
         task[t].pc # "free", h = task[t].host, j = task[t].job,
         task' = [task EXCEPT ![t] = x],
         x.pc \in Begun => task[t].pc \in Begun /\ x.host = h /\ x.job = j,
         x.pc \in {"prepared", "running", "exited", "orphan"} => d.fresh,
         x.pc = "over" => x.host = h /\ x.job = j,
         x.pc = "over" /\ x.status \in {"success", "failed"} => d.status # Unset,
         disk' = [disk EXCEPT ![h][j] = d],
         disk[h][j].fresh => d.fresh,
         disk[h][j].status # Unset => d.status # Unset,
         d # disk[h][j] => task[t].pc \in Begun,
         d.status # Unset => d.fresh /\ x.pc \notin Begun,
         UNCHANGED <<lm, agent>>
  PROVE  DiskInv'
<1>1. /\ task'[t] = x
      /\ \A u \in TaskIds \ {t} : task'[u] = task[u]
  BY DEF TypeOK
<1>2. \A k \in Hosts, i \in Jobs : disk'[k][i] = IF k = h /\ i = j THEN d ELSE disk[k][i]
  BY DEF TypeOK
<1>3. \A u \in TaskIds, k \in Hosts, i \in Jobs : Active(u, k, i)' => Active(u, k, i)
  BY <1>1 DEF Active, Begun
<1>4. \A k \in Hosts, i \in Jobs : Quiet(k, i) => Quiet(k, i)'
  BY <1>3 DEF Quiet
<1>5. \A u, v \in TaskIds, k \in Hosts, i \in Jobs :
        Active(u, k, i)' /\ Active(v, k, i)' => u = v
  BY <1>3 DEF DiskInv
<1>6. ASSUME NEW u \in TaskIds
      PROVE  /\ task'[u].pc \in {"prepared", "running", "exited", "orphan"}
                  => disk'[task'[u].host][task'[u].job].fresh
             /\ task'[u].pc = "over" /\ task'[u].status \in {"success", "failed"}
                  => disk'[task'[u].host][task'[u].job].status # Unset
  <2>1. CASE u = t
    BY <1>1, <1>2, <2>1 DEF Begun
  <2>2. CASE u # t
    <3>1. task[u].pc # "free" => task[u].host \in Hosts /\ task[u].job \in Jobs
      BY DEF TypeOK
    <3>. QED
      BY <1>1, <1>2, <2>2, <3>1 DEF DiskInv
  <2>. QED
    BY <2>1, <2>2
<1>7. ASSUME NEW k \in Hosts, NEW i \in Jobs, disk'[k][i].status # Unset
      PROVE  disk'[k][i].fresh /\ Quiet(k, i)'
  <2>1. CASE disk'[k][i] = disk[k][i]
    BY <1>4, <1>7, <2>1 DEF DiskInv
  <2>2. CASE disk'[k][i] # disk[k][i]
    <3>1. k = h /\ i = j /\ disk'[k][i] = d /\ d # disk[h][j]
      BY <1>2, <2>2
    <3>2. Active(t, h, j) /\ d.fresh /\ x.pc \notin Begun
      BY <1>7, <3>1, ActiveMeans
    <3>3. \A u \in TaskIds : Active(u, h, j)' => u = t
      BY <1>3, <3>2 DEF DiskInv
    <3>4. ~Active(t, h, j)'
      BY <1>1, <3>2 DEF Active, Begun
    <3>. QED
      BY <3>1, <3>2, <3>3, <3>4 DEF Quiet
  <2>. QED
    BY <2>1, <2>2
<1>8. ASSUME NEW k \in Hosts, NEW i \in Jobs, agent'[k].pc = "assigning", i \in Unknown(k)'
      PROVE  ~disk'[k][i].fresh /\ Quiet(k, i)'
  <2>1. agent[k].pc = "assigning" /\ i \in Unknown(k)
    BY <1>8 DEF Unknown
  <2>2. ~disk[k][i].fresh /\ Quiet(k, i)
    BY <2>1 DEF DiskInv
  <2>3. disk'[k][i] = disk[k][i]
    BY <1>2, <2>2, ActiveMeans DEF Quiet
  <2>. QED
    BY <1>4, <2>2, <2>3
<1>. QED
  BY <1>5, <1>6, <1>7, <1>8 DEF DiskInv

LEMMA TaskStepKeepsDiskInv ==
  ASSUME AgentInv, DiskInv, NEW t \in TaskIds,
         \/ Prepare(t) \/ StartProcess(t)
         \/ \E s \in Reported : ProcessExits(t, s)
         \/ PersistResult(t) \/ Kill(t)
  PROVE  DiskInv'
<1>. DEFINE h == task[t].host
            j == task[t].job
<1>1. /\ task[t] \in TaskRecord /\ task \in [TaskIds -> TaskRecord]
      /\ disk \in [Hosts -> [Jobs -> Directory]]
  BY DEF AgentInv, TypeOK
<1>2. /\ task[t].pc = "free" => task[t] = FreeTask
      /\ task[t].pc = "exited" => task[t].status \in {"killed", "success", "failed"}
  BY DEF AgentInv, Objects
<1>3. task[t].pc # "free"
  <2>1. Kill(t) => task[t].pc # "free"
    BY <1>2, FreeTaskFields DEF Kill
  <2>. QED
    BY <2>1 DEF Prepare, StartProcess, ProcessExits, PersistResult
<1>4. h \in Hosts /\ j \in Jobs
  BY <1>3 DEF AgentInv, TypeOK
<1>. HIDE DEF h, j
<1>5. disk[h][j] \in Directory /\ disk = [disk EXCEPT ![h][j] = disk[h][j]]
  BY <1>1, <1>4
<1>6. task[t].pc \in Begun => disk[h][j].status = Unset
  BY <1>4, ActiveMeans DEF DiskInv, Quiet, h, j
<1>7. task[t].pc \in {"prepared", "running", "exited", "orphan"} => disk[h][j].fresh
  BY <1>4 DEF DiskInv, h, j
<1>8. task[t].pc = "over" /\ task[t].status \in {"success", "failed"}
        => disk[h][j].status # Unset
  BY <1>4 DEF DiskInv, h, j
<1>9. disk[h][j].status # Unset => disk[h][j].fresh
  BY <1>4 DEF DiskInv
<1>10. TypeOK /\ h = task[t].host /\ j = task[t].job
  BY DEF AgentInv, h, j
<1>11. CASE Prepare(t)
  <2>1. task[t].pc = "spawned" /\ UNCHANGED <<lm, agent>>
    BY <1>11 DEF Prepare
  <2>2. CASE /\ task' = [task EXCEPT ![t].pc = "prepared"]
             /\ disk' = [disk EXCEPT ![h][j].fresh = TRUE]
    <3>. DEFINE x == [task[t] EXCEPT !.pc = "prepared"]
                d == [disk[h][j] EXCEPT !.fresh = TRUE]
    <3>1. x.pc = "prepared" /\ x.host = h /\ x.job = j
      BY <1>1, <1>10 DEF TaskRecord
    <3>2. d \in Directory /\ d.fresh /\ d.status = disk[h][j].status
      BY <1>5 DEF Directory
    <3>3. task' = [task EXCEPT ![t] = x] /\ disk' = [disk EXCEPT ![h][j] = d]
      BY <1>1, <1>4, <2>2
    <3>. HIDE DEF x, d
    <3>. QED
      BY <1>3, <1>4, <1>6, <1>10, <2>1, <3>1, <3>2, <3>3, TaskMovesOnDisk DEF Begun
  <2>3. CASE task' = [task EXCEPT ![t].pc = "over"] /\ disk' = disk
    <3>. DEFINE x == [task[t] EXCEPT !.pc = "over"]
    <3>1. x.pc = "over" /\ x.host = h /\ x.job = j /\ x.status = Unset
      BY <1>1, <1>10, <2>1 DEF TaskRecord, AgentInv, Objects
    <3>2. task' = [task EXCEPT ![t] = x] /\ disk' = [disk EXCEPT ![h][j] = disk[h][j]]
      BY <1>1, <1>5, <2>3
    <3>. HIDE DEF x
    <3>. QED
      BY <1>3, <1>4, <1>5, <1>9, <1>10, <2>1, <3>1, <3>2, TaskMovesOnDisk, UnsetIsNone DEF Begun
  <2>. QED
    BY <1>11, <2>2, <2>3 DEF Prepare, h, j
<1>12. CASE StartProcess(t)
  <2>1. task[t].pc = "prepared" /\ UNCHANGED <<lm, agent>>
    BY <1>12 DEF StartProcess
  <2>2. PICK x \in {[task[t] EXCEPT !.pc = "running", !.status = "running", !.cmd = TRUE],
                    [task[t] EXCEPT !.pc = "over", !.status = "running"]} :
          task' = [task EXCEPT ![t] = x]
    BY <1>1, <1>12 DEF StartProcess
  <2>3. x.pc \in {"running", "over"} /\ x.host = h /\ x.job = j /\ x.status = "running"
    BY <1>1, <1>10 DEF TaskRecord
  <2>4. disk' = [disk EXCEPT ![h][j] = disk[h][j]]
    BY <1>5, <1>12 DEF StartProcess
  <2>. QED
    BY <1>3, <1>4, <1>5, <1>6, <1>7, <1>9, <1>10, <2>1, <2>2, <2>3, <2>4, TaskMovesOnDisk DEF Begun
<1>13. ASSUME NEW s \in Reported, ProcessExits(t, s) PROVE DiskInv'
  <2>. DEFINE x == [task[t] EXCEPT !.pc = "exited", !.status = s]
  <2>1. task[t].pc = "running" /\ UNCHANGED <<lm, agent>> /\ task' = [task EXCEPT ![t] = x]
    BY <1>1, <1>13 DEF ProcessExits
  <2>2. x.pc = "exited" /\ x.host = h /\ x.job = j
    BY <1>1, <1>10 DEF TaskRecord
  <2>3. disk' = [disk EXCEPT ![h][j] = disk[h][j]]
    BY <1>5, <1>13 DEF ProcessExits
  <2>. HIDE DEF x
  <2>. QED
    BY <1>3, <1>4, <1>5, <1>6, <1>7, <1>9, <1>10, <2>1, <2>2, <2>3, TaskMovesOnDisk DEF Begun
<1>14. CASE PersistResult(t)
  <2>. DEFINE x == [task[t] EXCEPT !.pc = "over"]
              d == [disk[h][j] EXCEPT !.status = task[t].status]
  <2>1. task[t].pc = "exited" /\ UNCHANGED <<lm, agent>> /\ task' = [task EXCEPT ![t] = x]
    BY <1>1, <1>14 DEF PersistResult
  <2>2. x.pc = "over" /\ x.host = h /\ x.job = j
    BY <1>1, <1>10 DEF TaskRecord
  <2>3. d \in Directory /\ d.fresh = disk[h][j].fresh /\ d.status = task[t].status
        /\ d.status # Unset
    BY <1>2, <1>5, <2>1, UnsetIsNone DEF Directory
  <2>4. disk' = [disk EXCEPT ![h][j] = d]
    BY <1>1, <1>4, <1>14 DEF PersistResult, h, j
  <2>. HIDE DEF x, d
  <2>. QED
    BY <1>3, <1>4, <1>7, <1>10, <2>1, <2>2, <2>3, <2>4, TaskMovesOnDisk DEF Begun
<1>15. CASE Kill(t)
  <2>. DEFINE x == [task[t] EXCEPT !.kill = FALSE, !.status = "killed"]
  <2>1. UNCHANGED <<lm, agent>> /\ task' = [task EXCEPT ![t] = x]
    BY <1>1, <1>15 DEF Kill
  <2>2. x.pc = task[t].pc /\ x.host = h /\ x.job = j /\ x.status = "killed"
    BY <1>1, <1>10 DEF TaskRecord
  <2>3. disk' = [disk EXCEPT ![h][j] = disk[h][j]]
    BY <1>5, <1>15 DEF Kill
  <2>. HIDE DEF x
  <2>. QED
    BY <1>3, <1>4, <1>5, <1>6, <1>7, <1>8, <1>9, <1>10, <2>1, <2>2, <2>3, TaskMovesOnDisk DEF Begun
<1>. QED
  BY <1>11, <1>12, <1>13, <1>14, <1>15

LEMMA OrphanExitsKeepsDiskInv ==
  ASSUME AgentInv, DiskInv, NEW t \in TaskIds, OrphanExits(t)
  PROVE  DiskInv'
<1>. DEFINE h == task[t].host
            j == task[t].job
<1>1. /\ task[t].pc = "orphan" /\ task' = [task EXCEPT ![t] = FreeTask]
      /\ UNCHANGED <<lm, agent>>
  BY DEF OrphanExits
<1>2. h \in Hosts /\ j \in Jobs /\ TypeOK
  BY <1>1 DEF AgentInv, TypeOK
<1>. HIDE DEF h, j
<1>3. disk[h][j] \in Directory /\ disk' = [disk EXCEPT ![h][j] = disk[h][j]]
  BY <1>2 DEF OrphanExits, TypeOK
<1>4. disk[h][j].status # Unset => disk[h][j].fresh
  BY <1>2 DEF DiskInv
<1>5. h = task[t].host /\ j = task[t].job
  BY DEF h, j
<1>. QED
  BY <1>1, <1>2, <1>3, <1>4, <1>5, FreeTaskFields, TaskMovesOnDisk DEF Begun

(* An agent sends a report, gets an answer or gives up.                     *)
LEMMA ReportKeepsDiskInv ==
  ASSUME AgentInv, DiskInv, NEW h \in Hosts,
         \/ SendReport(h) \/ ReportFails(h)
         \/ \E tasks \in [Jobs -> {"no", "run", "kill"}], acked \in SUBSET Jobs :
              ReceiveResponse(h, tasks, acked)
  PROVE  DiskInv'
<1>1. UNCHANGED <<lm, task, disk>>
  BY DEF SendReport, ReportFails, ReceiveResponse
<1>2. agent \in [Hosts -> AgentRecord] /\ agent[h] \in AgentRecord
  BY DEF AgentInv, TypeOK
<1>3. \A k \in Hosts \ {h} : agent'[k] = agent[k]
  BY <1>2 DEF SendReport, ReportFails, ReceiveResponse
<1>4. agent'[h].pc = "assigning" => agent'[h].onDisk = OnDisk(h)
  <2>1. CASE SendReport(h)
    BY <1>2, <2>1 DEF SendReport, AgentRecord
  <2>2. CASE ReportFails(h)
    BY <1>2, <2>2, IdleAgentFields DEF ReportFails
  <2>3. ASSUME NEW tasks \in [Jobs -> {"no", "run", "kill"}], NEW acked \in SUBSET Jobs,
               ReceiveResponse(h, tasks, acked)
        PROVE  agent'[h].onDisk = OnDisk(h)
    BY <1>2, <2>3, IdleAgentType DEF ReceiveResponse, AgentRecord
  <2>. QED
    BY <2>1, <2>2, <2>3
<1>5. ASSUME NEW k \in Hosts, NEW j \in Jobs, agent'[k].pc = "assigning", j \in Unknown(k)'
      PROVE  ~disk[k][j].fresh /\ Quiet(k, j)
  <2>1. CASE k = h
    <3>1. lm[h][j] = NoTask /\ ~disk[h][j].fresh
      BY <1>1, <1>4, <1>5, <2>1 DEF Unknown, OnDisk
    <3>2. ASSUME NEW t \in TaskIds, Active(t, h, j) PROVE FALSE
      <4>1. task[t].pc = "spawned"
        BY <3>1, <3>2 DEF Active, DiskInv
      <4>2. task[t].status # "killed"
        BY <4>1, UnsetIsNone DEF AgentInv, Objects
      <4>3. lm[h][j] = t
        BY <3>2, <4>1, <4>2 DEF AgentInv, InMap, Active
      <4>. QED
        BY <3>1, <4>3, AgentAssumption
    <3>. QED
      BY <2>1, <3>1, <3>2 DEF Quiet
  <2>2. CASE k # h
    BY <1>1, <1>3, <1>5, <2>2 DEF DiskInv, Unknown
  <2>. QED
    BY <2>1, <2>2
<1>6. \A k \in Hosts, j \in Jobs : Quiet(k, j)' <=> Quiet(k, j)
  BY <1>1 DEF Quiet, Active
<1>. QED
  BY <1>1, <1>5, <1>6 DEF DiskInv, Active

LEMMA AssignTaskKeepsDiskInv ==
  ASSUME AgentInv, DiskInv, NEW h \in Hosts, AssignTask(h)
  PROVE  DiskInv'
<1>. DEFINE new == NewJobs(h)
<1>1. PICK id \in [new -> TaskIds] :
        /\ \A j \in new : Unused(id[j]) /\ task'[id[j]] = Spawned(h, j)
        /\ \A j, k \in new : id[j] = id[k] => j = k
        /\ \A t \in TaskIds : (\A j \in new : id[j] # t) =>
             /\ task'[t] \in TaskRecord
             /\ SameBut(task'[t], task[t])
             /\ task'[t] = task[t] \/ \E j \in Jobs : lm[h][j] = t
        /\ lm' = [lm EXCEPT ![h] = [j \in Jobs |->
                    IF j \in agent[h].acked THEN NoTask
                    ELSE IF j \in new THEN id[j] ELSE @[j]]]
  BY AssignEffect
<1>2. /\ agent[h].pc = "assigning"
      /\ agent' = [agent EXCEPT ![h] = IdleAgent]
      /\ disk' = disk
  BY AssignEffect
<1>3. \A j \in new : j \in Jobs /\ j \in Unknown(h)
  BY DEF NewJobs, Unknown
<1>. HIDE DEF new
<1>4. \A j \in new : ~disk[h][j].fresh /\ disk[h][j].status = Unset /\ Quiet(h, j)
  BY <1>2, <1>3 DEF DiskInv
<1>5. \A j \in new : /\ id[j] \in TaskIds /\ task'[id[j]] = Spawned(h, j)
                     /\ Spawned(h, j).pc = "spawned"
                     /\ Spawned(h, j).host = h /\ Spawned(h, j).job = j
  <2>. SUFFICES ASSUME NEW j \in new
                PROVE  /\ id[j] \in TaskIds /\ task'[id[j]] = Spawned(h, j)
                       /\ Spawned(h, j).pc = "spawned"
                       /\ Spawned(h, j).host = h /\ Spawned(h, j).job = j
    OBVIOUS
  <2>1. j \in Jobs /\ id[j] \in TaskIds /\ task'[id[j]] = Spawned(h, j)
    BY <1>1, <1>3
  <2>. QED
    BY <2>1, SpawnedFields
<1>6. \A t \in TaskIds : \/ \E j \in new : t = id[j]
                         \/ SameBut(task'[t], task[t])
  BY <1>1
<1>7. ASSUME NEW t \in TaskIds, NEW k \in Hosts, NEW j \in Jobs, Active(t, k, j)'
      PROVE  Active(t, k, j) \/ (k = h /\ j \in new /\ t = id[j])
  <2>1. CASE \E i \in new : t = id[i]
    BY <1>5, <1>7, <2>1 DEF Active
  <2>2. CASE SameBut(task'[t], task[t])
    BY <1>7, <2>2 DEF Active, SameBut
  <2>. QED
    BY <1>6, <2>1, <2>2
<1>8. ASSUME NEW t \in TaskIds, NEW u \in TaskIds, NEW k \in Hosts, NEW j \in Jobs,
             Active(t, k, j)', Active(u, k, j)'
      PROVE  t = u
  <2>1. CASE k = h /\ j \in new
    BY <1>4, <1>7, <1>8, <2>1 DEF Quiet
  <2>2. CASE ~(k = h /\ j \in new)
    BY <1>7, <1>8, <2>2 DEF DiskInv
  <2>. QED
    BY <2>1, <2>2
<1>9. ASSUME NEW t \in TaskIds
      PROVE  /\ task'[t].pc \in {"prepared", "running", "exited", "orphan"}
                  => disk'[task'[t].host][task'[t].job].fresh
             /\ task'[t].pc = "over" /\ task'[t].status \in {"success", "failed"}
                  => disk'[task'[t].host][task'[t].job].status # Unset
  <2>1. CASE \E j \in new : t = id[j]
    BY <1>5, <2>1
  <2>2. CASE SameBut(task'[t], task[t])
    BY <1>2, <2>2 DEF DiskInv, SameBut
  <2>. QED
    BY <1>6, <2>1, <2>2
<1>10. \A k \in Hosts, j \in Jobs : Quiet(k, j) => Quiet(k, j)' \/ (k = h /\ j \in new)
  BY <1>7 DEF Quiet
<1>11. \A k \in Hosts, j \in Jobs : disk'[k][j].status # Unset =>
         disk'[k][j].fresh /\ Quiet(k, j)'
  BY <1>2, <1>4, <1>10 DEF DiskInv
<1>12. ASSUME NEW k \in Hosts, NEW j \in Jobs, agent'[k].pc = "assigning", j \in Unknown(k)'
       PROVE  ~disk'[k][j].fresh /\ Quiet(k, j)'
  <2>1. k # h /\ agent'[k] = agent[k]
    BY <1>2, <1>12, IdleAgentFields DEF AgentInv, TypeOK
  <2>2. lm'[k] = lm[k]
    BY <1>1, <2>1 DEF AgentInv, TypeOK
  <2>3. ~disk[k][j].fresh /\ Quiet(k, j)
    BY <1>12, <2>1, <2>2 DEF DiskInv, Unknown
  <2>. QED
    BY <1>2, <1>10, <2>1, <2>3
<1>. QED
  BY <1>8, <1>9, <1>11, <1>12 DEF DiskInv

LEMMA RestartKeepsDiskInv ==
  ASSUME AgentInv, DiskInv, NEW h \in Hosts, Restart(h)
  PROVE  DiskInv'
<1>1. PICK id \in [OnDisk(h) -> TaskIds] :
        /\ \A j \in OnDisk(h) :
             /\ (task[id[j]].host = h /\ ~Live(id[j])) \/ Unused(id[j])
             /\ task'[id[j]] = Reread(h, j)
        /\ \A t \in TaskIds : (\A j \in OnDisk(h) : id[j] # t) =>
             task'[t] = IF task[t].host # h THEN task[t]
                        ELSE IF Live(t) THEN [task[t] EXCEPT !.pc = "orphan", !.kill = FALSE]
                        ELSE FreeTask
        /\ lm' = [lm EXCEPT ![h] = [j \in Jobs |->
                    IF j \in OnDisk(h) THEN id[j] ELSE NoTask]]
  BY RestartEffect
<1>2. agent' = [agent EXCEPT ![h] = IdleAgent] /\ disk' = disk
  BY RestartEffect
<1>3. OnDisk(h) \subseteq Jobs
  BY DEF OnDisk
<1>4. \A j \in OnDisk(h) :
        /\ j \in Jobs /\ task'[id[j]] = Reread(h, j)
        /\ Reread(h, j).pc = "over" /\ Reread(h, j).host = h /\ Reread(h, j).job = j
        /\ Reread(h, j).status = disk[h][j].status
  <2>. SUFFICES ASSUME NEW j \in OnDisk(h)
                PROVE  /\ j \in Jobs /\ task'[id[j]] = Reread(h, j)
                       /\ Reread(h, j).pc = "over" /\ Reread(h, j).host = h
                       /\ Reread(h, j).job = j /\ Reread(h, j).status = disk[h][j].status
    OBVIOUS
  <2>1. j \in Jobs /\ task'[id[j]] = Reread(h, j) /\ TypeOK
    BY <1>1, <1>3 DEF AgentInv
  <2>. QED
    BY <2>1, RereadFields
<1>5. \A t \in TaskIds :
        \/ \E j \in OnDisk(h) : t = id[j]
        \/ task'[t] = task[t]
        \/ /\ Live(t) /\ task'[t].pc = "orphan" /\ task'[t].host = task[t].host
           /\ task'[t].job = task[t].job
        \/ task'[t].pc = "free"
  <2>. SUFFICES ASSUME NEW t \in TaskIds, \A j \in OnDisk(h) : id[j] # t
                PROVE  \/ task'[t] = task[t]
                       \/ /\ Live(t) /\ task'[t].pc = "orphan" /\ task'[t].host = task[t].host
                          /\ task'[t].job = task[t].job
                       \/ task'[t].pc = "free"
    OBVIOUS
  <2>1. task[t] \in TaskRecord
    BY DEF AgentInv, TypeOK
  <2>. QED
    BY <1>1, <2>1, FreeTaskFields DEF TaskRecord
<1>6. \A t \in TaskIds, k \in Hosts, j \in Jobs : Active(t, k, j)' => Active(t, k, j)
  BY <1>4, <1>5 DEF Active, Live
<1>7. \A k \in Hosts, j \in Jobs : Quiet(k, j) => Quiet(k, j)'
  BY <1>6 DEF Quiet
<1>8. ASSUME NEW t \in TaskIds
      PROVE  /\ task'[t].pc \in {"prepared", "running", "exited", "orphan"}
                  => disk'[task'[t].host][task'[t].job].fresh
             /\ task'[t].pc = "over" /\ task'[t].status \in {"success", "failed"}
                  => disk'[task'[t].host][task'[t].job].status # Unset
  <2>1. CASE \E j \in OnDisk(h) : t = id[j]
    BY <1>2, <1>4, <2>1, UnsetIsNone
  <2>2. CASE task'[t] = task[t]
    BY <1>2, <2>2 DEF DiskInv
  <2>3. CASE /\ Live(t) /\ task'[t].pc = "orphan" /\ task'[t].host = task[t].host
             /\ task'[t].job = task[t].job
    BY <1>2, <2>3 DEF DiskInv, Live
  <2>. QED
    BY <1>5, <2>1, <2>2, <2>3
<1>9. ASSUME NEW k \in Hosts, NEW j \in Jobs, agent'[k].pc = "assigning", j \in Unknown(k)'
      PROVE  ~disk'[k][j].fresh /\ Quiet(k, j)'
  <2>1. k # h /\ agent'[k] = agent[k]
    BY <1>2, <1>9, IdleAgentFields DEF AgentInv, TypeOK
  <2>2. lm'[k] = lm[k]
    BY <1>1, <2>1 DEF AgentInv, TypeOK
  <2>. QED
    BY <1>2, <1>7, <1>9, <2>1, <2>2 DEF DiskInv, Unknown
<1>10. \A k \in Hosts, j \in Jobs : disk'[k][j].status # Unset =>
         disk'[k][j].fresh /\ Quiet(k, j)'
  BY <1>2, <1>7 DEF DiskInv
<1>. QED
  BY <1>6, <1>8, <1>9, <1>10 DEF DiskInv

LEMMA MovesKeepDiskInv ==
  ASSUME AgentInv, DiskInv, AgentMoves
  PROVE  DiskInv'
<1>1. ASSUME NEW h \in Hosts, AnyResponse(h) PROVE DiskInv'
  BY <1>1, ReportKeepsDiskInv DEF AnyResponse
<1>2. ASSUME NEW h \in Hosts,
             \/ SendReport(h) /\ StartsAreOver(h)
             \/ ReportFails(h) \/ AssignTask(h) \/ Restart(h)
      PROVE  DiskInv'
  BY <1>2, ReportKeepsDiskInv, AssignTaskKeepsDiskInv, RestartKeepsDiskInv
<1>3. ASSUME NEW t \in TaskIds,
             \/ Prepare(t) \/ StartProcess(t)
             \/ \E s \in Reported : ProcessExits(t, s)
             \/ PersistResult(t) \/ OrphanExits(t) \/ Kill(t)
      PROVE  DiskInv'
  BY <1>3, TaskStepKeepsDiskInv, OrphanExitsKeepsDiskInv
<1>. QED
  BY <1>1, <1>2, <1>3 DEF AgentMoves

LEMMA InitDiskInv == Init => DiskInv
<1>. SUFFICES ASSUME Init PROVE DiskInv
  OBVIOUS
<1>1. \A h \in Hosts : agent[h] = IdleAgent
  BY DEF Init
<1>2. \A t \in TaskIds : task[t] = FreeTask
  BY DEF Init
<1>3. \A h \in Hosts, j \in Jobs : disk[h][j].status = Unset
  BY DEF Init
<1>. QED
  BY <1>1, <1>2, <1>3, FreeTaskFields, IdleAgentFields DEF DiskInv, Active

-----------------------------------------------------------------------------
(* What follows as long as the directory of a run counts.                   *)
LEMMA LiveIsActive ==
  \A t, h, j :
    Live(t) /\ task[t].host = h /\ task[t].job = j => Active(t, h, j)
BY DEF Live, Active

LEMMA NoParallel ==
  ASSUME AgentInv, DiskInv
  PROVE  NoParallelRuns
<1>. SUFFICES ASSUME NEW t \in TaskIds, NEW u \in TaskIds, Live(t), Live(u),
                     task[t].host = task[u].host, task[t].job = task[u].job
              PROVE  t = u
  BY DEF NoParallelRuns
<1>1. task[t].host \in Hosts /\ task[t].job \in Jobs
  BY DEF AgentInv, TypeOK, Live
<1>. QED
  BY <1>1, LiveIsActive DEF DiskInv

LEMMA Truthful ==
  ASSUME AgentInv, DiskInv
  PROVE  TruthfulResults
<1>. SUFFICES ASSUME NEW h \in Hosts, NEW j \in Jobs,
                     \/ disk[h][j].status \in {"success", "failed"}
                     \/ lm[h][j] # NoTask /\ task[lm[h][j]].status \in {"success", "failed"},
                     NEW t \in TaskIds, Live(t), task[t].host = h, task[t].job = j
              PROVE  FALSE
  BY DEF TruthfulResults
<1>1. Active(t, h, j)
  BY LiveIsActive
<1>2. disk[h][j].status = Unset
  BY <1>1 DEF DiskInv, Quiet
<1>3. /\ lm[h][j] \in TaskIds /\ task[lm[h][j]].status \in {"success", "failed"}
      /\ task[lm[h][j]].host = h /\ task[lm[h][j]].job = j
      /\ task[lm[h][j]].pc \notin {"free", "orphan"}
  BY <1>2, UnsetIsNone, MapRefs DEF AgentInv, Objects
<1>4. task[lm[h][j]].pc \in {"exited", "over"}
  <2>1. task[lm[h][j]] \in TaskRecord
    BY <1>3 DEF AgentInv, TypeOK
  <2>. QED
    BY <1>3, <2>1, UnsetIsNone DEF AgentInv, Objects, TaskRecord
<1>5. CASE task[lm[h][j]].pc = "over"
  BY <1>2, <1>3, <1>5 DEF DiskInv
<1>6. CASE task[lm[h][j]].pc = "exited"
  <2>1. Active(lm[h][j], h, j)
    BY <1>3, <1>6 DEF Active
  <2>2. lm[h][j] = t
    BY <1>1, <1>3, <2>1 DEF DiskInv
  <2>. QED
    BY <1>6, <2>2 DEF Live
<1>. QED
  BY <1>4, <1>5, <1>6

LEMMA Forgets ==
  ASSUME AgentInv, DiskInv, AgentMoves
  PROVE  ForgetsEnded
<1>. SUFFICES ASSUME NEW h \in Hosts, NEW j \in Jobs,
                     lm[h][j] # NoTask, lm'[h][j] = NoTask, task[lm[h][j]].pc = "running"
              PROVE  task[lm[h][j]].status = "killed"
  BY DEF ForgetsEnded
<1>1. lm[h][j] \in TaskIds /\ task[lm[h][j]].host = h /\ task[lm[h][j]].job = j
  BY MapRefs DEF AgentInv
<1>2. disk[h][j].fresh
  BY <1>1 DEF DiskInv
<1>3. ASSUME NEW k \in Hosts, AssignTask(k) PROVE task[lm[h][j]].status = "killed"
  <2>1. PICK id \in [NewJobs(k) -> TaskIds] :
          /\ \A i \in NewJobs(k) : Unused(id[i])
          /\ lm' = [lm EXCEPT ![k] = [i \in Jobs |->
                      IF i \in agent[k].acked THEN NoTask
                      ELSE IF i \in NewJobs(k) THEN id[i] ELSE @[i]]]
    BY <1>3, AssignEffect
  <2>2. k = h /\ j \in agent[h].acked /\ agent[h].pc = "assigning"
    BY <1>3, <2>1, AssignEffect, AgentAssumption DEF AgentInv, TypeOK
  <2>3. Settled(lm[h][j])
    BY <2>2 DEF AgentInv, Receipts
  <2>. QED
    BY <2>3 DEF Settled
<1>4. ASSUME NEW k \in Hosts, Restart(k) PROVE FALSE
  <2>1. PICK id \in [OnDisk(k) -> TaskIds] :
          /\ \A i \in OnDisk(k) :
               /\ (task[id[i]].host = k /\ ~Live(id[i])) \/ Unused(id[i])
               /\ task'[id[i]] = Reread(k, i)
          /\ \A t \in TaskIds : (\A i \in OnDisk(k) : id[i] # t) =>
               task'[t] = IF task[t].host # k THEN task[t]
                          ELSE IF Live(t) THEN [task[t] EXCEPT !.pc = "orphan", !.kill = FALSE]
                          ELSE FreeTask
          /\ lm' = [lm EXCEPT ![k] = [i \in Jobs |->
                      IF i \in OnDisk(k) THEN id[i] ELSE NoTask]]
    BY <1>4, RestartEffect
  <2>2. lm' = [lm EXCEPT ![k] = [i \in Jobs |-> IF i \in OnDisk(k) THEN id[i] ELSE NoTask]]
    BY <2>1
  <2>3. lm \in [Hosts -> [Jobs -> TaskIds \cup {NoTask}]] /\ id \in [OnDisk(k) -> TaskIds]
    BY <2>1 DEF AgentInv, TypeOK
  <2>4. k = h /\ j \notin OnDisk(h)
    BY <2>2, <2>3, AgentAssumption
  <2>. QED
    BY <1>2, <2>4 DEF OnDisk
<1>5. \/ \E k \in Hosts : AssignTask(k)
      \/ \E k \in Hosts : Restart(k)
      \/ UNCHANGED lm
  BY DEF AgentMoves, SendReport, ReportFails, AnyResponse, ReceiveResponse, Prepare,
         StartProcess, ProcessExits, PersistResult, OrphanExits, Kill
<1>. QED
  BY <1>3, <1>4, <1>5

-----------------------------------------------------------------------------
(* What a step may make of an object, and of a directory.                   *)
Fate(t) ==
  \/ SameBut(task'[t], task[t])
  \/ /\ task'[t] = FreeTask
     /\ task[t].pc = "orphan" \/ \E h \in Hosts : Restart(h) /\ task[t].host = h
  \/ \E h \in Hosts :
       /\ AssignTask(h)
       /\ Unused(t)
       /\ \E j \in NewJobs(h) : task'[t] = Spawned(h, j)
  \/ \E h \in Hosts :
       /\ Restart(h)
       /\ (task[t].host = h /\ ~Live(t)) \/ Unused(t)
       /\ \E j \in OnDisk(h) : task'[t] = Reread(h, j)
  \/ Live(t) /\ SameBut(task'[t], [task[t] EXCEPT !.pc = "orphan"])
  \/ Prepare(t) \/ StartProcess(t)
  \/ \E s \in Reported : ProcessExits(t, s)
  \/ PersistResult(t) \/ Kill(t)

LEMMA Fates ==
  ASSUME AgentInv, AgentMoves, NEW t \in TaskIds
  PROVE  Fate(t)
<1>1. task \in [TaskIds -> TaskRecord] /\ task[t] \in TaskRecord
  BY DEF AgentInv, TypeOK
<1>2. task' = task => SameBut(task'[t], task[t])
  BY DEF SameBut
<1>3. ASSUME NEW h \in Hosts, AssignTask(h) PROVE Fate(t)
  <2>1. PICK id \in [NewJobs(h) -> TaskIds] :
          /\ \A j \in NewJobs(h) : Unused(id[j]) /\ task'[id[j]] = Spawned(h, j)
          /\ \A u \in TaskIds : (\A j \in NewJobs(h) : id[j] # u) => SameBut(task'[u], task[u])
    BY <1>3, AssignEffect
  <2>. QED
    BY <1>3, <2>1 DEF Fate
<1>4. ASSUME NEW h \in Hosts, Restart(h) PROVE Fate(t)
  <2>1. PICK id \in [OnDisk(h) -> TaskIds] :
          /\ \A j \in OnDisk(h) :
               /\ (task[id[j]].host = h /\ ~Live(id[j])) \/ Unused(id[j])
               /\ task'[id[j]] = Reread(h, j)
          /\ \A u \in TaskIds : (\A j \in OnDisk(h) : id[j] # u) =>
               task'[u] = IF task[u].host # h THEN task[u]
                          ELSE IF Live(u) THEN [task[u] EXCEPT !.pc = "orphan", !.kill = FALSE]
                          ELSE FreeTask
    BY <1>4, RestartEffect
  <2>2. CASE \E j \in OnDisk(h) : id[j] = t
    BY <1>4, <2>1, <2>2 DEF Fate
  <2>3. CASE task'[t] = [task[t] EXCEPT !.pc = "orphan", !.kill = FALSE] /\ Live(t)
    <3>1. SameBut(task'[t], [task[t] EXCEPT !.pc = "orphan"])
      BY <1>1, <2>3 DEF SameBut, TaskRecord
    <3>. QED
      BY <2>3, <3>1 DEF Fate
  <2>4. CASE task'[t] = task[t]
    BY <2>4 DEF Fate, SameBut
  <2>. QED
    BY <1>4, <2>1, <2>2, <2>3, <2>4 DEF Fate
<1>5. ASSUME NEW u \in TaskIds,
             \/ Prepare(u) \/ StartProcess(u)
             \/ \E s \in Reported : ProcessExits(u, s)
             \/ PersistResult(u) \/ OrphanExits(u) \/ Kill(u)
      PROVE  Fate(t)
  <2>1. CASE u = t
    <3>1. OrphanExits(t) => task'[t] = FreeTask /\ task[t].pc = "orphan"
      BY <1>1 DEF OrphanExits
    <3>. QED
      BY <1>5, <2>1, <3>1 DEF Fate
  <2>2. CASE u # t
    <3>1. task'[t] = task[t]
      BY <1>1, <1>5, <2>2 DEF Prepare, StartProcess, ProcessExits, PersistResult,
         OrphanExits, Kill
    <3>. QED
      BY <3>1 DEF Fate, SameBut
  <2>. QED
    BY <2>1, <2>2
<1>6. ASSUME NEW h \in Hosts, SendReport(h) \/ ReportFails(h) \/ AnyResponse(h) PROVE Fate(t)
  BY <1>2, <1>6 DEF SendReport, ReportFails, AnyResponse, ReceiveResponse, Fate
<1>. QED
  BY <1>3, <1>4, <1>5, <1>6 DEF AgentMoves

LEMMA FilesStay ==
  ASSUME AgentInv, AgentMoves, NEW h \in Hosts, NEW j \in Jobs
  PROVE  /\ disk[h][j].fresh => disk'[h][j].fresh
         /\ disk[h][j].status # Unset => disk'[h][j].status # Unset
<1>1. disk \in [Hosts -> [Jobs -> Directory]] /\ disk[h][j] \in Directory
  BY DEF AgentInv, TypeOK
<1>2. ASSUME NEW t \in TaskIds, Prepare(t)
      PROVE  /\ disk[h][j].fresh => disk'[h][j].fresh
             /\ disk[h][j].status # Unset => disk'[h][j].status # Unset
  <2>1. task[t].host \in Hosts /\ task[t].job \in Jobs
    BY <1>2 DEF AgentInv, TypeOK, Prepare
  <2>2. CASE disk' = [disk EXCEPT ![task[t].host][task[t].job].fresh = TRUE]
    <3>1. disk'[h][j] = disk[h][j] \/ disk'[h][j] = [disk[h][j] EXCEPT !.fresh = TRUE]
      BY <1>1, <2>1, <2>2
    <3>. QED
      BY <1>1, <3>1 DEF Directory
  <2>. QED
    BY <1>2, <2>2 DEF Prepare
<1>3. ASSUME NEW t \in TaskIds, PersistResult(t)
      PROVE  /\ disk[h][j].fresh => disk'[h][j].fresh
             /\ disk[h][j].status # Unset => disk'[h][j].status # Unset
  <2>1. /\ task[t].host \in Hosts /\ task[t].job \in Jobs
        /\ task[t].status \in {"killed", "success", "failed"}
    BY <1>3 DEF AgentInv, TypeOK, Objects, PersistResult
  <2>2. \/ disk'[h][j] = disk[h][j]
        \/ disk'[h][j] = [disk[h][j] EXCEPT !.status = task[t].status]
    BY <1>1, <1>3, <2>1 DEF PersistResult
  <2>. QED
    BY <1>1, <2>1, <2>2, UnsetIsNone DEF Directory
<1>4. \/ disk' = disk
      \/ \E t \in TaskIds : Prepare(t) \/ PersistResult(t)
  BY DEF AgentMoves, SendReport, ReportFails, AnyResponse, ReceiveResponse, AssignTask,
         Restart, StartProcess, ProcessExits, OrphanExits, Kill
<1>. QED
  BY <1>2, <1>3, <1>4

(* A run that is active was so before, or is one that AssignTask starts.    *)
LEMMA ActiveFrom ==
  ASSUME AgentInv, AgentMoves, NEW t \in TaskIds, NEW h \in Hosts, NEW j \in Jobs,
         Active(t, h, j)'
  PROVE  \/ /\ Active(t, h, j)
            /\ task[t].pc = "exited" => task'[t].pc = "exited"
         \/ AssignTask(h) /\ j \in NewJobs(h)
<1>1. task \in [TaskIds -> TaskRecord] /\ task[t] \in TaskRecord /\ TypeOK
  BY DEF AgentInv, TypeOK
<1>2. task'[t].host = h /\ task'[t].job = j /\ task'[t].pc \in Begun
  BY DEF Active, Begun
<1>3. CASE SameBut(task'[t], task[t])
  BY <1>2, <1>3 DEF SameBut, Active, Begun
<1>4. CASE task'[t] = FreeTask
  BY <1>2, <1>4, FreeTaskFields DEF Begun
<1>5. ASSUME NEW k \in Hosts, AssignTask(k), NEW i \in NewJobs(k), task'[t] = Spawned(k, i)
      PROVE  k = h /\ i = j
  <2>1. i \in Jobs
    BY DEF NewJobs, Unknown
  <2>2. Spawned(k, i).host = k /\ Spawned(k, i).job = i
    BY <2>1, SpawnedFields
  <2>. QED
    BY <1>2, <1>5, <2>2
<1>6. ASSUME NEW k \in Hosts, NEW i \in OnDisk(k), task'[t] = Reread(k, i)
      PROVE  FALSE
  <2>1. i \in Jobs
    BY DEF OnDisk
  <2>2. Reread(k, i).pc = "over"
    BY <1>1, <2>1, RereadFields
  <2>. QED
    BY <1>2, <1>6, <2>2 DEF Begun
<1>7. CASE Live(t) /\ SameBut(task'[t], [task[t] EXCEPT !.pc = "orphan"])
  BY <1>1, <1>2, <1>7 DEF SameBut, TaskRecord, Active, Live
<1>8. CASE Prepare(t)
  BY <1>1, <1>2, <1>8 DEF Prepare, Begun, Active, TaskRecord
<1>9. CASE StartProcess(t)
  BY <1>1, <1>2, <1>9 DEF StartProcess, Begun, Active, TaskRecord
<1>10. ASSUME NEW s \in Reported, ProcessExits(t, s) PROVE Active(t, h, j) /\ task[t].pc # "exited"
  BY <1>1, <1>2, <1>10 DEF ProcessExits, Active, TaskRecord
<1>11. CASE PersistResult(t)
  BY <1>1, <1>2, <1>11 DEF PersistResult, Begun, TaskRecord
<1>12. CASE Kill(t)
  BY <1>1, <1>2, <1>12 DEF Kill, Begun, Active, TaskRecord
<1>. QED
  BY <1>3, <1>4, <1>5, <1>6, <1>7, <1>8, <1>9, <1>10, <1>11, <1>12, Fates DEF Fate

(* The job has run on the host, its process has ended, and as long as the   *)
(* directory counts nobody will start it again.                             *)
Ended(h, j) ==
  /\ disk[h][j].fresh
  /\ \A t \in TaskIds : Active(t, h, j) => task[t].pc = "exited"

LEMMA EndedStays ==
  ASSUME AgentInv, DiskInv, AgentMoves, NEW h \in Hosts, NEW j \in Jobs, Ended(h, j)
  PROVE  Ended(h, j)'
<1>1. disk[h][j].fresh /\ disk'[h][j].fresh
  BY FilesStay DEF Ended
<1>2. AssignTask(h) => j \notin NewJobs(h)
  BY <1>1 DEF DiskInv, NewJobs, AssignTask
<1>. QED
  BY <1>1, <1>2, ActiveFrom DEF Ended

(* A goroutine that has a process yet to start has had it so before.        *)
LEMMA StartingFrom ==
  ASSUME AgentInv, AgentMoves, NEW t \in TaskIds, NEW h \in Hosts, NEW j \in Jobs,
         Active(t, h, j)', task'[t].pc \in {"spawned", "prepared"}
  PROVE  \/ Active(t, h, j) /\ task[t].pc \in {"spawned", "prepared"}
         \/ AssignTask(h) /\ j \in NewJobs(h)
<1>1. task \in [TaskIds -> TaskRecord] /\ task[t] \in TaskRecord
  BY DEF AgentInv, TypeOK
<1>2. CASE Active(t, h, j)
  <2>1. CASE SameBut(task'[t], task[t])
    BY <1>2, <2>1 DEF SameBut
  <2>2. ~Unused(t)
    BY <1>2 DEF Active, Unused
  <2>3. FreeTask.pc \notin {"spawned", "prepared"}
    BY FreeTaskFields
  <2>4. ASSUME NEW k \in Hosts, NEW i \in OnDisk(k), task'[t] = Reread(k, i)
        PROVE  FALSE
    <3>1. TypeOK /\ i \in Jobs
      BY DEF OnDisk, AgentInv
    <3>2. Reread(k, i).pc = "over"
      BY <3>1, RereadFields
    <3>. QED
      BY <2>4, <3>2
  <2>5. CASE SameBut(task'[t], [task[t] EXCEPT !.pc = "orphan"])
    BY <1>1, <2>5 DEF SameBut, TaskRecord
  <2>6. CASE \/ Prepare(t) \/ StartProcess(t)
             \/ \E s \in Reported : ProcessExits(t, s)
             \/ PersistResult(t) \/ Kill(t)
    BY <1>1, <1>2, <2>6 DEF Prepare, StartProcess, ProcessExits, PersistResult, Kill, TaskRecord
  <2>. QED
    BY <1>2, <2>1, <2>2, <2>3, <2>4, <2>5, <2>6, Fates DEF Fate
<1>. QED
  BY <1>2, ActiveFrom

(* The job has run on the host, and no other run of it is about to begin.   *)
Started(h, j) ==
  /\ disk[h][j].fresh
  /\ \A t \in TaskIds :
       Active(t, h, j) => task[t].pc \notin {"spawned", "prepared"}

LEMMA EndedIsStarted == \A h, j : Ended(h, j) => Started(h, j)
BY DEF Ended, Started

LEMMA StartedStays ==
  ASSUME AgentInv, DiskInv, AgentMoves, NEW h \in Hosts, NEW j \in Jobs, Started(h, j)
  PROVE  Started(h, j)'
<1>1. disk[h][j].fresh /\ disk'[h][j].fresh
  BY FilesStay DEF Started
<1>2. AssignTask(h) => j \notin NewJobs(h)
  BY <1>1 DEF DiskInv, NewJobs, AssignTask
<1>. QED
  BY <1>1, <1>2, StartingFrom DEF Started

(* A result in memory is of a job that has ended.                           *)
LEMMA ResultMeansEnded ==
  ASSUME AgentInv, DiskInv, NEW h \in Hosts, NEW j \in Jobs,
         lm[h][j] # NoTask, task[lm[h][j]].status \in {"success", "failed"}
  PROVE  Ended(h, j)
<1>1. /\ lm[h][j] \in TaskIds /\ task[lm[h][j]] \in TaskRecord
      /\ task[lm[h][j]].host = h /\ task[lm[h][j]].job = j
      /\ task[lm[h][j]].pc \notin {"free", "orphan"}
  BY MapRefs DEF AgentInv, Objects, TypeOK
<1>2. task[lm[h][j]].pc \in {"exited", "over"}
  BY <1>1, UnsetIsNone DEF AgentInv, Objects, TaskRecord
<1>3. CASE task[lm[h][j]].pc = "exited"
  <2>1. Active(lm[h][j], h, j)
    BY <1>1, <1>3 DEF Active
  <2>. QED
    BY <1>1, <1>3, <2>1 DEF DiskInv, Ended
<1>4. CASE task[lm[h][j]].pc = "over"
  BY <1>1, <1>4 DEF DiskInv, Ended, Quiet
<1>. QED
  BY <1>2, <1>3, <1>4

-----------------------------------------------------------------------------
(* What a receipt for a task says.                                          *)

(* A task without a status has no process, and one that is over with a      *)
(* process to kill, or killed, has left its result on disk.                 *)
Commands ==
  \A t \in TaskIds :
    /\ task[t].status = Unset => task[t].cmd = FALSE
    /\ task[t].pc = "over" /\ (task[t].cmd \/ task[t].status = "killed")
         => disk[task[t].host][task[t].job].status # Unset

(* The task of an empty result has no status while the agent waits.         *)
EmptyReports ==
  \A h \in Hosts, j \in Jobs :
    agent[h].pc = "calling" /\ agent[h].sent[j] = Unset => task[lm[h][j]].status = Unset

LEMMA MovesKeepCommands ==
  ASSUME AgentInv, Commands, AgentMoves
  PROVE  Commands'
<1>. SUFFICES ASSUME NEW t \in TaskIds
              PROVE  /\ task'[t].status = Unset => task'[t].cmd = FALSE
                     /\ task'[t].pc = "over" /\ (task'[t].cmd \/ task'[t].status = "killed")
                          => disk'[task'[t].host][task'[t].job].status # Unset
  BY DEF Commands
<1>1. /\ task \in [TaskIds -> TaskRecord] /\ task[t] \in TaskRecord /\ TypeOK
      /\ disk \in [Hosts -> [Jobs -> Directory]]
  BY DEF AgentInv, TypeOK
<1>2. /\ task[t].pc # "free" => task[t].host \in Hosts /\ task[t].job \in Jobs
      /\ task[t].pc \in {"spawned", "prepared"} => task[t].status = Unset /\ task[t].cmd = FALSE
      /\ task[t].pc = "exited" => task[t].status \in {"killed", "success", "failed"}
  BY DEF AgentInv, TypeOK, Objects
<1>3. /\ task[t].status = Unset => task[t].cmd = FALSE
      /\ task[t].pc = "over" /\ (task[t].cmd \/ task[t].status = "killed")
           => disk[task[t].host][task[t].job].status # Unset
  BY DEF Commands
<1>4. CASE SameBut(task'[t], task[t])
  BY <1>2, <1>3, <1>4, FilesStay DEF SameBut
<1>5. CASE task'[t] = FreeTask
  BY <1>5, FreeTaskFields
<1>6. ASSUME NEW k \in Hosts, NEW i \in NewJobs(k), task'[t] = Spawned(k, i)
      PROVE  task'[t].pc = "spawned" /\ task'[t].cmd = FALSE
  <2>1. i \in Jobs
    BY DEF NewJobs, Unknown
  <2>2. Spawned(k, i).pc = "spawned" /\ Spawned(k, i).cmd = FALSE
    BY <2>1, SpawnedFields
  <2>. QED
    BY <1>6, <2>2
<1>7. ASSUME NEW k \in Hosts, Restart(k), NEW i \in OnDisk(k), task'[t] = Reread(k, i)
      PROVE  /\ task'[t].cmd = FALSE
             /\ task'[t].status = "killed" => disk'[task'[t].host][task'[t].job].status # Unset
  <2>1. i \in Jobs
    BY DEF OnDisk
  <2>2. /\ Reread(k, i).host = k /\ Reread(k, i).job = i
        /\ Reread(k, i).status = disk[k][i].status
    BY <1>1, <2>1, RereadFields
  <2>3. disk' = disk
    BY <1>7 DEF Restart
  <2>4. task'[t].cmd = FALSE
    BY <1>7, RereadNoProcess
  <2>. QED
    BY <1>7, <2>2, <2>3, <2>4, UnsetIsNone
<1>8. CASE SameBut(task'[t], [task[t] EXCEPT !.pc = "orphan"])
  BY <1>1, <1>3, <1>8 DEF SameBut, TaskRecord
<1>9. CASE Prepare(t)
  BY <1>1, <1>2, <1>9, UnsetIsNone DEF Prepare, TaskRecord
<1>10. CASE StartProcess(t)
  BY <1>1, <1>2, <1>10, UnsetIsNone DEF StartProcess, TaskRecord
<1>11. ASSUME NEW s \in Reported, ProcessExits(t, s)
       PROVE  task'[t].pc = "exited" /\ task'[t].status # Unset
  <2>1. s # Unset
    BY AgentAssumption, UnsetIsNone
  <2>. QED
    BY <1>1, <1>11, <2>1 DEF ProcessExits, TaskRecord
<1>12. CASE PersistResult(t)
  <2>1. task[t].pc = "exited" /\ task[t].host \in Hosts /\ task[t].job \in Jobs
    BY <1>2, <1>12 DEF PersistResult
  <2>2. /\ task'[t].host = task[t].host /\ task'[t].job = task[t].job
        /\ task'[t].status = task[t].status
    BY <1>1, <1>12 DEF PersistResult, TaskRecord
  <2>3. disk'[task[t].host][task[t].job] =
          [disk[task[t].host][task[t].job] EXCEPT !.status = task[t].status]
    BY <1>1, <1>12, <2>1 DEF PersistResult
  <2>4. disk[task[t].host][task[t].job] \in Directory
    BY <1>1, <2>1
  <2>5. disk'[task[t].host][task[t].job].status = task[t].status
    BY <2>3, <2>4 DEF Directory
  <2>. QED
    BY <1>2, <2>1, <2>2, <2>5, UnsetIsNone
<1>13. CASE Kill(t)
  <2>1. /\ task'[t].host = task[t].host /\ task'[t].job = task[t].job
        /\ task'[t].pc = task[t].pc /\ task'[t].status = "killed"
        /\ task[t].cmd /\ disk' = disk
    BY <1>1, <1>13 DEF Kill, TaskRecord
  <2>. QED
    BY <1>3, <2>1, UnsetIsNone
<1>. QED
  BY <1>4, <1>5, <1>6, <1>7, <1>8, <1>9, <1>10, <1>11, <1>12, <1>13, UnsetIsNone, Fates DEF Fate

(* A task without a status that is in the map and settled stays so until    *)
(* the agent is done with the response, or starts again.                    *)
LEMMA EmptyStays ==
  ASSUME AgentInv, Commands, AgentMoves, NEW h \in Hosts, NEW j \in Jobs,
         lm[h][j] # NoTask, Settled(lm[h][j]), task[lm[h][j]].status = Unset,
         agent'[h].pc # "idle"
  PROVE  lm'[h][j] = lm[h][j] /\ task'[lm[h][j]].status = Unset
<1>. DEFINE t == lm[h][j]
<1>1. t \in TaskIds /\ task[t].host = h /\ task[t].job = j /\ task[t] \in TaskRecord
  BY MapRefs DEF AgentInv, TypeOK
<1>2. task[t].pc = "over" /\ task[t].status = Unset /\ task[t].cmd = FALSE
  BY <1>1, UnsetIsNone DEF Settled, AgentInv, Objects, Commands
<1>3. /\ lm \in [Hosts -> [Jobs -> TaskIds \cup {NoTask}]]
      /\ agent \in [Hosts -> AgentRecord]
      /\ task \in [TaskIds -> TaskRecord]
  BY DEF AgentInv, TypeOK
<1>4. ~Restart(h) /\ ~AssignTask(h)
  BY <1>3, IdleAgentFields DEF Restart, AssignTask
<1>5. lm'[h] = lm[h]
  <2>1. ASSUME NEW k \in Hosts, k # h, Restart(k) \/ AssignTask(k) PROVE lm'[h] = lm[h]
    BY <1>3, <2>1 DEF Restart, AssignTask
  <2>2. \/ lm' = lm
        \/ \E k \in Hosts : Restart(k) \/ AssignTask(k)
    BY DEF AgentMoves, SendReport, ReportFails, AnyResponse, ReceiveResponse, Prepare,
           StartProcess, ProcessExits, PersistResult, OrphanExits, Kill
  <2>. QED
    BY <1>4, <2>1, <2>2
<1>6. ~Unused(t)
  BY DEF Unused
<1>. HIDE DEF t
<1>7. SameBut(task'[t], task[t])
  BY <1>1, <1>2, <1>4, <1>6, Fates DEF Fate, Prepare, StartProcess, ProcessExits,
     PersistResult, Kill, Live
<1>. QED
  BY <1>2, <1>5, <1>7 DEF SameBut, t

LEMMA MovesKeepEmptyReports ==
  ASSUME AgentInv, Commands, EmptyReports, AgentMoves
  PROVE  EmptyReports'
<1>. SUFFICES ASSUME NEW h \in Hosts, NEW j \in Jobs,
                     agent'[h].pc = "calling", agent'[h].sent[j] = Unset
              PROVE  task'[lm'[h][j]].status = Unset
  BY DEF EmptyReports
<1>1. agent \in [Hosts -> AgentRecord] /\ agent[h] \in AgentRecord
  BY DEF AgentInv, TypeOK
<1>2. CASE agent'[h] = agent[h]
  <2>1. lm[h][j] # NoTask /\ Settled(lm[h][j]) /\ task[lm[h][j]].status = Unset
    BY <1>2, UnsetIsNone DEF AgentInv, Receipts, EmptyReports
  <2>. QED
    BY <2>1, EmptyStays
<1>3. CASE SendReport(h)
  <2>1. agent'[h].sent = GetResults(h) /\ UNCHANGED <<lm, task>>
    BY <1>1, <1>3 DEF SendReport, AgentRecord
  <2>2. GetResults(h)[j] = Unset
    BY <2>1
  <2>3. task[lm[h][j]].status = Unset
    BY <2>2, UnsetIsNone DEF GetResults
  <2>. QED
    BY <2>1, <2>3
<1>4. \/ agent'[h] = agent[h]
      \/ SendReport(h)
      \/ agent'[h].pc \in {"idle", "assigning"}
  <2>1. ASSUME NEW k \in Hosts,
               \/ SendReport(k) \/ ReportFails(k) \/ AnyResponse(k)
               \/ AssignTask(k) \/ Restart(k)
        PROVE  \/ agent'[h] = agent[h]
               \/ SendReport(h)
               \/ agent'[h].pc \in {"idle", "assigning"}
    <3>1. CASE SendReport(k) \/ ReportFails(k) \/ AssignTask(k) \/ Restart(k)
      BY <1>1, <3>1, IdleAgentFields DEF SendReport, ReportFails, AssignTask, Restart
    <3>2. ASSUME NEW tasks, NEW acked, ReceiveResponse(k, tasks, acked)
          PROVE  agent'[h] = agent[h] \/ agent'[h].pc = "assigning"
      BY <1>1, <3>2, IdleAgentType DEF ReceiveResponse, AgentRecord
    <3>. QED
      BY <2>1, <3>1, <3>2 DEF AnyResponse
  <2>2. ASSUME UNCHANGED agent PROVE agent'[h] = agent[h]
    BY <2>2
  <2>. QED
    BY <2>1, <2>2 DEF AgentMoves, Prepare, StartProcess, ProcessExits, PersistResult,
       OrphanExits, Kill
<1>. QED
  BY <1>2, <1>3, <1>4, UnsetIsNone

(* A status in memory that was set is of a job that has run.                *)
LEMMA StatusMeansStarted ==
  ASSUME AgentInv, DiskInv, Commands, NEW h \in Hosts, NEW j \in Jobs,
         lm[h][j] # NoTask, task[lm[h][j]].status \in {"killed", "success", "failed"}
  PROVE  Started(h, j)
<1>. DEFINE t == lm[h][j]
<1>1. /\ t \in TaskIds /\ task[t] \in TaskRecord
      /\ task[t].host = h /\ task[t].job = j
      /\ task[t].pc \notin {"free", "orphan"}
  BY MapRefs DEF AgentInv, Objects, TypeOK
<1>2. task[t].pc \notin {"spawned", "prepared"}
  BY <1>1, UnsetIsNone DEF AgentInv, Objects
<1>. HIDE DEF t
<1>3. CASE task[t].pc \in {"running", "exited"}
  <2>1. Active(t, h, j) /\ disk[h][j].fresh
    BY <1>1, <1>3 DEF Active, DiskInv
  <2>. QED
    BY <1>1, <1>2, <2>1 DEF DiskInv, Started
<1>4. CASE task[t].pc = "over"
  <2>1. task[t].status \in {"killed", "success", "failed"}
    BY DEF t
  <2>2. disk[h][j].status # Unset
    BY <1>1, <1>4, <2>1 DEF DiskInv, Commands
  <2>. QED
    BY <2>2 DEF DiskInv, Quiet, Started
<1>. QED
  BY <1>1, <1>2, <1>3, <1>4 DEF TaskRecord

LEMMA InitCommands == Init => Commands /\ EmptyReports
<1>. SUFFICES ASSUME Init PROVE Commands /\ EmptyReports
  OBVIOUS
<1>1. \A t \in TaskIds : task[t] = FreeTask
  BY DEF Init
<1>2. \A h \in Hosts : agent[h] = IdleAgent
  BY DEF Init
<1>. QED
  BY <1>1, <1>2, FreeTaskFields, IdleAgentFields DEF Commands, EmptyReports

(* Within the hour, a task with a result leaves the map only when a         *)
(* response acknowledges it.                                                *)
LEMMA ForgottenIsAcked ==
  ASSUME AgentInv, DiskInv, Commands, AgentMoves, NEW h \in Hosts, NEW j \in Jobs,
         lm[h][j] # NoTask, lm'[h][j] = NoTask,
         task[lm[h][j]].status \in {"killed", "success", "failed"}
  PROVE  agent[h].pc = "assigning" /\ j \in agent[h].acked
<1>1. /\ lm[h][j] \in TaskIds /\ task[lm[h][j]] \in TaskRecord
      /\ task[lm[h][j]].host = h /\ task[lm[h][j]].job = j
      /\ task[lm[h][j]].pc \notin {"free", "orphan"}
  BY MapRefs DEF AgentInv, Objects, TypeOK
<1>2. task[lm[h][j]].pc \notin {"spawned", "prepared"}
  BY <1>1, UnsetIsNone DEF AgentInv, Objects
<1>3. disk[h][j].fresh
  <2>1. CASE task[lm[h][j]].pc \in {"running", "exited"}
    BY <1>1, <2>1 DEF DiskInv
  <2>2. CASE task[lm[h][j]].pc = "over"
    <3>1. disk[h][j].status # Unset
      BY <1>1, <2>2 DEF DiskInv, Commands
    <3>. QED
      BY <3>1 DEF DiskInv
  <2>. QED
    BY <1>1, <1>2, <2>1, <2>2 DEF TaskRecord
<1>4. lm \in [Hosts -> [Jobs -> TaskIds \cup {NoTask}]]
  BY DEF AgentInv, TypeOK
<1>5. ASSUME NEW k \in Hosts, AssignTask(k)
      PROVE  agent[h].pc = "assigning" /\ j \in agent[h].acked
  <2>1. PICK id \in [NewJobs(k) -> TaskIds] :
          /\ \A i \in NewJobs(k) : Unused(id[i])
          /\ lm' = [lm EXCEPT ![k] = [i \in Jobs |->
                      IF i \in agent[k].acked THEN NoTask
                      ELSE IF i \in NewJobs(k) THEN id[i] ELSE @[i]]]
    BY <1>5, AssignEffect
  <2>2. agent[k].pc = "assigning"
    BY <1>5 DEF AssignTask
  <2>3. lm' = [lm EXCEPT ![k] = [i \in Jobs |->
                 IF i \in agent[k].acked THEN NoTask
                 ELSE IF i \in NewJobs(k) THEN id[i] ELSE @[i]]]
    BY <2>1
  <2>4. \A i \in NewJobs(k) : id[i] \in TaskIds
    BY <2>1
  <2>5. k = h
    BY <1>4, <2>3
  <2>6. j \in agent[k].acked
    BY <1>4, <2>3, <2>4, <2>5, AgentAssumption
  <2>. QED
    BY <2>2, <2>5, <2>6
<1>6. ASSUME NEW k \in Hosts, Restart(k) PROVE FALSE
  <2>0. PICK id \in [OnDisk(k) -> TaskIds] :
          /\ \A i \in OnDisk(k) :
               /\ (task[id[i]].host = k /\ ~Live(id[i])) \/ Unused(id[i])
               /\ task'[id[i]] = Reread(k, i)
          /\ \A t \in TaskIds : (\A i \in OnDisk(k) : id[i] # t) =>
               task'[t] = IF task[t].host # k THEN task[t]
                          ELSE IF Live(t) THEN [task[t] EXCEPT !.pc = "orphan", !.kill = FALSE]
                          ELSE FreeTask
          /\ lm' = [lm EXCEPT ![k] = [i \in Jobs |->
                      IF i \in OnDisk(k) THEN id[i] ELSE NoTask]]
    BY <1>6, RestartEffect
  <2>1. lm' = [lm EXCEPT ![k] = [i \in Jobs |-> IF i \in OnDisk(k) THEN id[i] ELSE NoTask]]
    BY <2>0
  <2>2. k = h
    BY <1>4, <2>1
  <2>3. \A i \in OnDisk(k) : id[i] \in TaskIds
    BY <2>0
  <2>4. j \notin OnDisk(k)
    BY <1>4, <2>1, <2>2, <2>3, AgentAssumption
  <2>. QED
    BY <1>3, <2>2, <2>4 DEF OnDisk
<1>7. \/ \E k \in Hosts : AssignTask(k)
      \/ \E k \in Hosts : Restart(k)
      \/ UNCHANGED lm
  BY DEF AgentMoves, SendReport, ReportFails, AnyResponse, ReceiveResponse, Prepare,
         StartProcess, ProcessExits, PersistResult, OrphanExits, Kill
<1>. QED
  BY <1>5, <1>6, <1>7

-----------------------------------------------------------------------------
(* Nothing in the invariants is about anything but the variables.           *)
LEMMA AgentInvStutters ==
  ASSUME AgentInv, UNCHANGED <<lm, task, disk, agent>>
  PROVE  AgentInv'
<1>1. TypeOK'
  BY DEF AgentInv, TypeOK
<1>2. Objects'
  BY DEF AgentInv, Objects
<1>3. InMap'
  BY DEF AgentInv, InMap
<1>4. Receipts'
  BY DEF AgentInv, Receipts, Settled
<1>. QED
  BY <1>1, <1>2, <1>3, <1>4 DEF AgentInv

LEMMA DiskInvStutters ==
  ASSUME DiskInv, UNCHANGED <<lm, task, disk, agent>>
  PROVE  DiskInv'
<1>1. \A h : Unknown(h)' = Unknown(h)
  BY DEF Unknown
<1>2. \A t, h, j : Active(t, h, j)' <=> Active(t, h, j)
  BY DEF Active
<1>3. \A h, j : Quiet(h, j)' <=> Quiet(h, j)
  BY <1>2 DEF Quiet
<1>. QED
  BY <1>1, <1>2, <1>3 DEF DiskInv

(* The theorems.  As long as a report never overtakes the goroutine of a    *)
(* task that was just assigned, AgentInv holds always, whichever other      *)
(* faults occur and whatever the server answers.                            *)
THEOREM Invariance ==
  ASSUME "slow_start" \notin Faults
  PROVE  Spec => []AgentInv
<1>1. Init => AgentInv
  BY InitAgentInv
<1>2. AgentInv /\ [Next]_agentVars => AgentInv'
  <2>1. ASSUME AgentInv, Next PROVE AgentInv'
    BY <2>1, NextMoves, MovesKeepAgentInv
  <2>2. ASSUME AgentInv, UNCHANGED agentVars PROVE AgentInv'
    BY <2>2, AgentInvStutters DEF agentVars
  <2>. QED
    BY <2>1, <2>2
<1>. QED
  BY <1>1, <1>2, PTL DEF Spec

(* The map, the objects, the directories and the reports are of their       *)
(* types, and the map refers to objects of its own host and job.            *)
THEOREM TypeCorrect ==
  ASSUME "slow_start" \notin Faults
  PROVE  Spec => []TypeOK
<1>1. AgentInv => TypeOK
  BY DEF AgentInv
<1>. QED
  BY <1>1, Invariance, PTL

(* One agent never runs a job twice at once, but for a process that was     *)
(* killed and is still dying: also when directories have grown old.         *)
THEOREM OneRunAlways ==
  ASSUME "slow_start" \notin Faults
  PROVE  Spec => []OneRunPerAgent
<1>1. AgentInv => OneRunPerAgent
  BY OneRun
<1>. QED
  BY <1>1, Invariance, PTL

(* Within the hour, the files in the task directories agree with what runs, *)
(* across any number of restarts of the agents.                             *)
THEOREM DiskInvariance ==
  ASSUME "slow_start" \notin Faults, "hour" \notin Faults
  PROVE  Spec => []DiskInv
<1>1. Init => DiskInv
  BY InitDiskInv
<1>2. AgentInv /\ DiskInv /\ [Next]_agentVars => DiskInv'
  <2>1. ASSUME AgentInv, DiskInv, Next PROVE DiskInv'
    BY <2>1, NextMoves, MovesKeepDiskInv
  <2>2. ASSUME DiskInv, UNCHANGED agentVars PROVE DiskInv'
    BY <2>2, DiskInvStutters DEF agentVars
  <2>. QED
    BY <2>1, <2>2
<1>. QED
  BY <1>1, <1>2, Invariance, PTL DEF Spec

(* Within the hour, a machine never runs a job twice at the same time.      *)
THEOREM NoParallelAlways ==
  ASSUME "slow_start" \notin Faults, "hour" \notin Faults
  PROVE  Spec => []NoParallelRuns
<1>1. AgentInv /\ DiskInv => NoParallelRuns
  BY NoParallel
<1>. QED
  BY <1>1, Invariance, DiskInvariance, PTL

(* Within the hour, a result that is or will be reported is of a process    *)
(* that has ended.                                                          *)
THEOREM TruthfulAlways ==
  ASSUME "slow_start" \notin Faults, "hour" \notin Faults
  PROVE  Spec => []TruthfulResults
<1>1. AgentInv /\ DiskInv => TruthfulResults
  BY Truthful
<1>. QED
  BY <1>1, Invariance, DiskInvariance, PTL

(* Within the hour, an agent forgets a running task only after a Kill.      *)
THEOREM ForgetsOnlyEndedAlways ==
  ASSUME "slow_start" \notin Faults, "hour" \notin Faults
  PROVE  Spec => ForgetsOnlyEnded
<1>1. AgentInv /\ DiskInv /\ [Next]_agentVars => [ForgetsEnded]_lm
  <2>1. ASSUME AgentInv, DiskInv, Next PROVE ForgetsEnded
    BY <2>1, NextMoves, Forgets
  <2>. QED
    BY <2>1 DEF agentVars
<1>. QED
  BY <1>1, Invariance, DiskInvariance, PTL DEF Spec, ForgetsOnlyEnded

=============================================================================
