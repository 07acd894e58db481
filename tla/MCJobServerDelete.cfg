SPECIFICATION Spec
CONSTANTS
  c1 = c1
  c2 = c2
  Jobs <- MCJobs
  Hosts <- MCHosts
  Calls <- MCCalls
  Targets <- MCTargets
  BatchSize <- MCBatchSize
  Strategies = {"pause"}
  Operations = {"start", "delete"}
  Reported = {"success"}
  Faults = {}
SYMMETRY HandlerSymmetry
PROPERTY NoRunningJobDeleted
