SPECIFICATION Spec
CONSTANTS
  Caches <- MCCaches
  Goroutines = {1, 2}
  Requests = {}
  Users = {}
  Silences = {}
  MaxIncidents = 2
  MaxRestarts = 1
  Faults = {"db"}
CHECK_DEADLOCK FALSE
PROPERTY
  FiringIsStored
