---------------------------- MODULE MCJobExecLive ----------------------------
(* JobExec on one job for two machines, one per batch, without faults: the  *)
(* instance on which a started job must come to its end.                    *)
EXTENDS JobExec

CONSTANTS c1, c2, t1, t2

MCJobs      == {1}
MCHosts     == {1, 2}
MCCalls     == {c1, c2}
MCTaskIds   == {t1, t2}
MCTargets   == [j \in MCJobs |-> MCHosts]
MCBatchSize == [j \in MCJobs |-> 1]

=============================================================================
