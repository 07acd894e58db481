SPECIFICATION Spec
CONSTANTS
  c1 = c1
  c2 = c2
  Jobs <- MCJobs
  Hosts <- MCHosts
  Calls <- MCCalls
  Targets <- MCTargets
  BatchSize <- MCBatchSize
  Strategies = {"pause"}
  Operations = {"start", "kill", "delete", "edit"}
  Reported = {"", "success"}
  Faults = {"restart"}
SYMMETRY HandlerSymmetry
INVARIANTS
  TypeOK
  CompletedMeansAllReported
  BatchHonoured
PROPERTIES
  RowSettlesOnce
  OnlyOperatorsStartJobs
  KillMarkSticks
  ImplementsLedger
