SPECIFICATION Spec
CONSTANTS
  c1 = c1
  NoCall = NoCall
  t1 = t1
  t2 = t2
  NoTask = NoTask
  Jobs <- MCJobs
  Hosts <- MCHosts
  Calls <- MCCalls
  TaskIds <- MCTaskIds
  Targets <- MCTargets
  BatchSize <- MCBatchSize
  Strategies = {"pause"}
  Operations = {"start", "kill", "delete"}
  Reported = {"success"}
  Faults = {"rpc", "crash", "restart", "prepare", "db"}
SYMMETRY Symmetry
INVARIANTS
  RecordedMeansStopped
  EveryRunIsBooked
PROPERTIES
  NoRerunAfterResult
  ReceiptMeansRecorded
