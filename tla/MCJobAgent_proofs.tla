--------------------------- MODULE MCJobAgent_proofs ---------------------------
(***************************************************************************)
(* The theorems of JobAgent_proofs for the machine of MCJobAgent, that may *)
(* or may not have a fault more, for any jobs, machines, Task objects and  *)
(* other faults.                                                           *)
(***************************************************************************)
EXTENDS MCJobAgent, JobAgent_proofs

-----------------------------------------------------------------------------
(* Both machines take the steps of JobAgent; the fault is the one           *)
(* difference.                                                              *)
LEMMA SameRestart ==
  \A h : Hour!Restart(h) <=> Restart(h)
BY DEF Hour!Restart, Restart, Hour!OnDisk, OnDisk, Hour!Live, Live, Hour!Unused, Unused,
       Hour!FreeTask, FreeTask, Hour!Unset, Unset, Hour!IdleAgent, IdleAgent

LEMMA SameAssign ==
  \A h : Hour!AssignTask(h) <=> AssignTask(h)
BY DEF Hour!AssignTask, AssignTask, Hour!Unknown, Unknown, Hour!Unused, Unused,
       Hour!FreeTask, FreeTask, Hour!Unset, Unset, Hour!IdleAgent, IdleAgent

LEMMA SameReports ==
  /\ \A h : Hour!SendReport(h) <=> SendReport(h)
  /\ \A h : Hour!ReportFails(h) <=> ReportFails(h)
  /\ \A h : Hour!AnyResponse(h) <=> AnyResponse(h)
<1>1. \A h : Hour!SendReport(h) <=> SendReport(h)
  BY DEF Hour!SendReport, SendReport, Hour!StartsAreOver, StartsAreOver,
         Hour!GetResults, GetResults
<1>2. \A h : Hour!ReportFails(h) <=> ReportFails(h)
  BY DEF Hour!ReportFails, ReportFails, Hour!IdleAgent, IdleAgent
<1>3. \A h : Hour!AnyResponse(h) <=> AnyResponse(h)
  BY DEF Hour!AnyResponse, AnyResponse, Hour!ReceiveResponse, ReceiveResponse,
         Hour!IdleAgent, IdleAgent, Hour!OnDisk, OnDisk
<1>. QED
  BY <1>1, <1>2, <1>3

LEMMA SameTaskStep ==
  \A t : Hour!TaskStep(t) <=> TaskStep(t)
<1>1. \A t : Hour!Prepare(t) <=> Prepare(t)
  BY DEF Hour!Prepare, Prepare
<1>2. \A t : Hour!StartProcess(t) <=> StartProcess(t)
  BY DEF Hour!StartProcess, StartProcess
<1>3. \A t, s : Hour!ProcessExits(t, s) <=> ProcessExits(t, s)
  BY DEF Hour!ProcessExits, ProcessExits
<1>4. \A t : Hour!PersistResult(t) <=> PersistResult(t)
  BY DEF Hour!PersistResult, PersistResult
<1>5. \A t : Hour!OrphanExits(t) <=> OrphanExits(t)
  BY DEF Hour!OrphanExits, OrphanExits, Hour!FreeTask, FreeTask, Hour!Unset, Unset
<1>6. \A t : Hour!Kill(t) <=> Kill(t)
  BY DEF Hour!Kill, Kill
<1>7. \A t : Hour!KillPanics(t) <=> KillPanics(t)
  BY SameRestart DEF Hour!KillPanics, KillPanics
<1>. QED
  BY <1>1, <1>2, <1>3, <1>4, <1>5, <1>6, <1>7 DEF Hour!TaskStep, TaskStep

LEMMA HourNextMoves ==
  ASSUME AgentInv, Hour!Next, "slow_start" \notin Faults
  PROVE  AgentMoves \/ Aging
<1>1. \A t \in TaskIds : TaskStep(t) => AgentMoves
  BY PanicRestarts DEF TaskStep, AgentMoves
<1>2. \A h \in Hosts : SendReport(h) \/ Restart(h) => AgentMoves
  BY DEF SendReport, AgentMoves
<1>3. \A h \in Hosts : ReportFails(h) \/ AnyResponse(h) \/ AssignTask(h) => AgentMoves
  BY DEF AgentMoves
<1>4. \A h \in Hosts, j \in Jobs : Hour!HourPasses(h, j) => Aging
  BY DEF Hour!HourPasses, Aging
<1>5. \/ \E h \in Hosts :
           \/ Hour!SendReport(h) \/ Hour!Crash(h)
           \/ Hour!ReportFails(h) \/ Hour!AnyResponse(h) \/ Hour!AssignTask(h)
           \/ \E j \in Jobs : Hour!HourPasses(h, j)
      \/ \E t \in TaskIds : Hour!TaskStep(t)
  BY DEF Hour!Next
<1>6. \A h : Hour!Crash(h) => Restart(h)
  BY SameRestart DEF Hour!Crash
<1>. QED
  BY <1>1, <1>2, <1>3, <1>4, <1>5, <1>6, SameReports, SameAssign, SameTaskStep

-----------------------------------------------------------------------------
(* The invariant of either machine: what needs the files is said of the one *)
(* without the fault.                                                       *)
MachineInv == AgentInv /\ (~hours => DiskInv)

LEMMA MachineMoves ==
  ASSUME MachineInv, MCNext, "slow_start" \notin Faults, "hour" \notin Faults
  PROVE  (AgentMoves \/ (hours /\ Aging)) /\ hours' = hours
BY NextMoves, HourNextMoves DEF MCNext, MachineInv

(* Either machine keeps its invariant, for any constants.                   *)
THEOREM MachineInvariance ==
  ASSUME "slow_start" \notin Faults, "hour" \notin Faults
  PROVE  MCSpec => []MachineInv
<1>1. MCInit => MachineInv
  BY InitAgentInv, InitDiskInv DEF MCInit, MachineInv
<1>2. MachineInv /\ [MCNext]_<<agentVars, hours>> => MachineInv'
  <2>1. ASSUME MachineInv, MCNext PROVE MachineInv'
    <3>1. (AgentMoves \/ (hours /\ Aging)) /\ hours' = hours
      BY <2>1, MachineMoves
    <3>2. AgentInv'
      BY <2>1, <3>1, MovesKeepAgentInv DEF MachineInv
    <3>3. ~hours => DiskInv'
      BY <2>1, <3>1, MovesKeepDiskInv DEF MachineInv
    <3>. QED
      BY <3>1, <3>2, <3>3 DEF MachineInv
  <2>2. ASSUME MachineInv, UNCHANGED <<agentVars, hours>> PROVE MachineInv'
    <3>1. hours' = hours /\ UNCHANGED <<lm, task, disk, agent>>
      BY <2>2 DEF agentVars
    <3>2. AgentInv'
      BY <2>2, <3>1, AgentInvStutters DEF MachineInv
    <3>3. ~hours => DiskInv'
      BY <2>2, <3>1, DiskInvStutters DEF MachineInv
    <3>. QED
      BY <3>1, <3>2, <3>3 DEF MachineInv
  <2>. QED
    BY <2>1, <2>2
<1>. QED
  BY <1>1, <1>2, PTL DEF MCSpec

(* The types, and that one agent runs a job once, whichever machine it is.  *)
THEOREM MachineTypes ==
  ASSUME "slow_start" \notin Faults, "hour" \notin Faults
  PROVE  MCSpec => [](TypeOK /\ OneRunPerAgent)
<1>1. MachineInv => TypeOK /\ OneRunPerAgent
  BY OneRun DEF MachineInv, AgentInv
<1>. QED
  BY <1>1, MachineInvariance, PTL

(* The machine without the fault never runs a job twice at the same time.   *)
THEOREM NoParallelWithinAnHour ==
  ASSUME "slow_start" \notin Faults, "hour" \notin Faults
  PROVE  MCSpec => []NoParallelRunsWithinAnHour
<1>1. MachineInv => NoParallelRunsWithinAnHour
  BY NoParallel DEF MachineInv, NoParallelRunsWithinAnHour
<1>. QED
  BY <1>1, MachineInvariance, PTL

(* Its results are those of processes that have ended.                      *)
THEOREM TruthfulWithinAnHour ==
  ASSUME "slow_start" \notin Faults, "hour" \notin Faults
  PROVE  MCSpec => []TruthfulResultsWithinAnHour
<1>1. MachineInv => TruthfulResultsWithinAnHour
  BY Truthful DEF MachineInv, TruthfulResultsWithinAnHour
<1>. QED
  BY <1>1, MachineInvariance, PTL

(* And it forgets a running task only after a Kill.                         *)
THEOREM ForgetsWithinAnHour ==
  ASSUME "slow_start" \notin Faults, "hour" \notin Faults
  PROVE  MCSpec => ForgetsOnlyEndedWithinAnHour
<1>1. MachineInv /\ [MCNext]_<<agentVars, hours>> => [~hours => ForgetsEnded]_lm
  <2>1. ASSUME MachineInv, MCNext, ~hours PROVE ForgetsEnded
    BY <2>1, MachineMoves, Forgets DEF MachineInv
  <2>. QED
    BY <2>1 DEF agentVars
<1>. QED
  BY <1>1, MachineInvariance, PTL DEF MCSpec, ForgetsOnlyEndedWithinAnHour

=============================================================================
