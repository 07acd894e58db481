SPECIFICATION OrderSpec
CONSTANTS
  admin = admin
  test = test
  account = account
  Names <- MCNames
  Flows <- MCFlows
  Robot = account
  ServiceAccount = account
  OrderRequests = {1}
  Goroutines = {1}
  OrderFaults = {"restart"}
INVARIANT ExecutedOnce
