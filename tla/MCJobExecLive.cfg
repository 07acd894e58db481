SPECIFICATION FairSpec
CONSTANTS
  c1 = c1
  c2 = c2
  NoCall = NoCall
  t1 = t1
  t2 = t2
  NoTask = NoTask
  Jobs <- MCJobs
  Hosts <- MCHosts
  Calls <- MCCalls
  TaskIds <- MCTaskIds
  Targets <- MCTargets
  BatchSize <- MCBatchSize
  Strategies = {"ignore"}
  Operations = {"start"}
  Reported = {"failed"}
  Faults = {}
PROPERTY StartedJobEnds
