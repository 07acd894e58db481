SPECIFICATION MCSpec
CONSTANTS
  t1 = t1
  t2 = t2
  t3 = t3
  NoTask = NoTask
  Jobs <- MCJobs
  Hosts <- MCHosts
  TaskIds <- MCTaskIds
  Reported = {"success", "killed"}
  Faults = {"crash", "prepare", "start", "rpc"}
SYMMETRY TaskSymmetry
CONSTRAINT OneJobWithHour
INVARIANTS
  TypeOK
  NoParallelRunsWithinAnHour
  TruthfulResultsWithinAnHour
  OneRunPerAgent
PROPERTY ForgetsOnlyEndedWithinAnHour
