SPECIFICATION JenkinsSpec
CONSTANTS
  CiJobs = {"a/web", "b/web"}
  NameOf <- MCNameOf
  CiResults = {"SUCCESS"}
  MaxBuilds = 1
  MaxCiRows = 2
  CiRequests = {1}
  MaxCiCalls = 3
  CiFaults = {}
CHECK_DEADLOCK FALSE
PROPERTY LockHolds
