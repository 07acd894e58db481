SPECIFICATION BackgroundSpec
CONSTANTS
  Caches <- MCCaches
  a1 = a1
  a2 = a2
  Goroutines <- MCGoroutines
  Requests = {1}
  Users = {1}
  Silences = {1}
  MaxIncidents = 1
  MaxRestarts = 0
  Faults = {"api"}
  Members <- MCMembers
  Rotas <- MCRotas
  Shifts = {1, 2}
  LastDay = 4
  Horizon = 4
  MaxSwaps = 1
  DutyFaults = {"gap", "edit"}
  TreeNodes = {1}
  Assets <- MCAssets
  KindOfAsset <- MCKindOfAsset
  TreeRequests = {1}
  CloudInstances <- MCInstances
  VendorOf <- MCVendorOf
  FoundAt <- MCFoundAt
  PageSize = 1
  Hosts = {"sn1"}
  HostIp <- MCHostIp
  OrderIp <- MCOrderIp
  Purchases = {"order1"}
  Records = {"www"}
  Hyphened = {}
  Ips = {"ip1", "ip10"}
  PartOf <- MCPartOf
  MaxCloudChanges = 2
  MaxFaults = 2
  People = {"ann", "bob", "cay", "dan"}
  NameOf <- MCNameOf
  KeycloakHas <- MCKeycloakHas
  DingTalkHas <- MCDingTalkHas
  GroupRoles <- MCGroupRoles
  AccountIds = {1, 2}
  LoginRequests <- MCLoginRequests
  MaxPeopleEdits = 4
  DirectoryFaults = {"detail", "userid", "db"}
SYMMETRY GoroutineSymmetry
CHECK_DEADLOCK FALSE
INVARIANTS
  StatusBacked
  PartsTypeOK
  RotaIsKept
  PlanIsServed
PROPERTIES
  ClaimStands
  AssetsStayBound
  
  OneAccountEach
