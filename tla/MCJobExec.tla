------------------------------ MODULE MCJobExec ------------------------------
(* JobExec on one job and one machine, one call at a time and two Task      *)
(* objects (one may be the orphan of an earlier agent).                     *)
EXTENDS JobExec, TLC

CONSTANTS c1, t1, t2

MCJobs      == {1}
MCHosts     == {1}
MCCalls     == {c1}
MCTaskIds   == {t1, t2}
MCTargets   == [j \in MCJobs |-> MCHosts]
MCBatchSize == [j \in MCJobs |-> 1]

(* Handlers and Task objects are interchangeable.                           *)
Symmetry == Permutations(MCCalls) \cup Permutations(MCTaskIds)

=============================================================================
