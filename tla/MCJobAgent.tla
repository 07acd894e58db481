----------------------------- MODULE MCJobAgent -----------------------------
(* JobAgent on one machine, twice over: with two jobs, none of which        *)
(* outlives its timeout by an hour (hours is FALSE), and with one job that  *)
(* may.  There is every Task object that a restart or a second start of a   *)
(* job can need.                                                            *)
EXTENDS JobAgent, TLC

CONSTANTS t1, t2, t3

VARIABLE hours   (* whether the machine has the fault "hour"                *)

MCJobs    == {1, 2}
MCHosts   == {1}
MCTaskIds == {t1, t2, t3}

Hour == INSTANCE JobAgent WITH Faults <- Faults \cup {"hour"}

MCInit == Init /\ hours \in BOOLEAN

MCNext ==
  \/ ~hours /\ Next /\ UNCHANGED hours
  \/ hours /\ Hour!Next /\ UNCHANGED hours

MCSpec == MCInit /\ [][MCNext]_<<agentVars, hours>>

(* Bound: the machine with the fault has one job.                           *)
OneJobWithHour == hours => \A h \in Hosts : lm[h][2] = NoTask /\ disk[h][2].status = Unset

(* Task objects are interchangeable.                                        *)
TaskSymmetry == Permutations(MCTaskIds)

(* NoParallelRuns of the machine without the fault: after an hour the agent *)
(* may start a job beside the process an earlier agent has left.            *)
NoParallelRunsWithinAnHour == ~hours => NoParallelRuns

(* TruthfulResults of the machine without the fault: after an hour the task *)
(* directory of a run no longer counts.                                     *)
TruthfulResultsWithinAnHour == ~hours => TruthfulResults

(* ForgetsOnlyEnded of the machine without the fault: after an hour a       *)
(* restart does not read a running task back.                               *)
ForgetsOnlyEndedWithinAnHour == [][~hours => ForgetsEnded]_lm

=============================================================================
