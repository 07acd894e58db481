SPECIFICATION ConsoleSpec
CONSTANTS
  r1 = r1
  r2 = r2
  Tokens = {1, 2}
  Handlers <- MCHandlers
  Faults = {"restart"}
  admin = admin
  test = test
  account = account
  Names <- MCNames
  Flows <- MCFlows
  Robot = account
  ServiceAccount = account
  OrderRequests <- MCHandlers
  Goroutines = {1}
  OrderFaults = {"restart", "db"}
  Roles = {"dev", "ops"}
  Projects = {"card", "web"}
  Envs = {"test", "prod"}
  MaxRules = 1
  CiJobs = {"a/web", "b/web"}
  NameOf <- MCNameOf
  CiResults = {"SUCCESS", "UNSTABLE"}
  MaxBuilds = 1
  MaxCiRows = 2
  CiRequests <- MCHandlers
  MaxCiCalls = 3
  CiFaults = {"folder"}
  Clusters = {"c1", "c2"}
  MaxChanges = 2
  MaxEdits = 2
  Here = "c1"
  Nodes = {"n1", "n2"}
  Labels = {"l"}
  Taints = {"t"}
  Pods = {"app", "agent"}
  Stays = {"agent"}
  NodeRequests <- MCHandlers
  Home = "c1"
  Objects <- MCObjects
  KindOf <- MCKindOf
  Specs = {1, 2}
  WorkRequests <- MCHandlers
  Places = {"p", "q"}
  Instances = {1, 2}
  ShortNamed <- MCShortNamed
  Types = {"Deployment", "Pod"}
  RelRequests <- MCHandlers
  Target = "c1"
  YamlTemplates = {"k1", "k2"}
  YamlTasks = {"t1"}
  YamlObjects = {"o1", "o2"}
  YamlVariables = {"v1", "v2"}
  YamlRequests <- MCHandlers
  MaxYamlEdits = 4
  Pools <- MCPools
  PoolTypeOf <- MCPoolTypeOf
  PoolForms <- MCPoolForms
  Items <- MCItems
  ItemTypeOf <- MCItemTypeOf
  JobForms <- MCJobForms
  MonitorRequests = {1}
  MaxTableEdits = 4
  MonitorFaults = {"db"}
  RoleRows <- MCRoleRows
  RoleValues = {"super", "user", "ops"}
  ApiRows <- MCApiRows
  ApiPaths = {"new", "old"}
  SeedRoles <- MCSeedRoles
  SeedApis <- MCSeedApis
  SeedPath <- MCSeedPath
  RoleRequests <- MCHandlers
  MaxRoleEdits = 3
  RoleFaults = {"restart", "db", "casbin"}
SYMMETRY HandlerSymmetry
CHECK_DEADLOCK FALSE
INVARIANTS
  OneLoginAccepted
  BarredTokensStayOut
  PartsTypeOK
  OrderNodesInOrder
  OrderNamesFirstOpen
  OrderFinishedProcessed
  OrderExecutedApproved
  BuildableJobsVisible
PROPERTIES
  RowsMatchJenkins
  EditsStayTheirOwn
  DrainsEmpty
  RowsTellTheCluster
  ServesAsConfigured
  RolesInOrder
