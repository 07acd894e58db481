---------------------------- MODULE MCJobServer ----------------------------
(* JobServer on one job for two machines, with two report handlers.         *)
EXTENDS JobServer, TLC

CONSTANTS c1, c2

MCJobs      == {1}
MCHosts     == {1, 2}
MCCalls     == {c1, c2}
MCTargets   == [j \in MCJobs |-> MCHosts]
MCBatchSize == [j \in MCJobs |-> 1]

(* The report handlers are interchangeable.                                 *)
HandlerSymmetry == Permutations(MCCalls)

=============================================================================
