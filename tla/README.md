# TLA+ models of bigdevops

bigdevops is an operations platform written in Go: a web server with a gRPC
endpoint and cron jobs (`src/cmd/server`), an agent on every machine
(`src/cmd/agent`) and a service that receives alerts (`src/cmd/alert_webhook`).
They share a MySQL database through gorm. This directory holds TLA+ modules of
the parts whose correctness depends on the order in which concurrent steps
happen, TLC configurations that check them on small instances, and TLAPS proofs
of their central properties.

Paths below are relative to the repository root. `PROJECT.json` maps every
definition to the lines it stands for, and lists runs, mutants, findings and
hazards.

    cd tla
    tlc -workers 2 -config MCJobServer.cfg MCJobServer     # check an instance
    tlapm JobServer_proofs.tla                             # check the proofs

Contents: 1 inventory, 2 modules and how they correspond to the code, 3 runs,
4 fairness, 5 abstractions, 6 what the code does that a reader may not expect,
7 proofs, 8 plan.

## 1. Inventory

Three processes, and what passes between them:

- the **server** (`src/cmd/server/main.go`) runs the gin router
  (`src/web/view_server`), the gRPC server (`src/rpc`), the caches
  (`src/cache`) and the cron jobs (`src/cron`). These are goroutines of one
  process which share the database, and, for tokens and caches, memory;
- the **agent** (`src/agent`) calls the server's two RPCs, `TaskReport` and
  `AgentInfoReport`, from two periodic loops;
- the **alert webhook** (`src/alert_webhook`) reads the server's tables and
  receives alerts from Alertmanager.

No code path of the repository uses a database transaction or a conditional
update for what follows: a handler reads a row, changes the struct and writes it
with gorm's `Updates`, which writes all non-zero fields as they were read.
This is the reason for most of the hazards.

| component | state | operations | what is hard | what makes it correct | here |
|---|---|---|---|---|---|
| Job execution, server: `src/rpc/job_exec.go`, `src/cache/job_exec.go`, `src/models/tbl_jobexec_{task,result}.go`, `src/web/view_server/api_jobexec_task.go` | tables `job_task`, `job_result`; the dispatch cache `TaskCache.M` | create, edit, delete, start/kill/pause/resume/stop; SyncCache; TaskReport | read-then-write of whole rows by web handlers, scheduler and overlapping report handlers; a restart between any two steps; failing database calls | a job is completed only when all machines have reported, rows are not taken back, a kill is not forgotten, only an operator starts a job, a batch is not exceeded | `JobServer`, `JobLedger`, proofs |
| Job execution, agent: `src/agent/job/{manager,task}.go`, `src/agent/cron/task_report.go` | the map `LM`, `Task` objects, their goroutines and processes, the task directories | RunTaskReport, AssignTask, Start, runProcess, Kill, recovery from disk | goroutines that outlive their map entry, restarts with processes left running, lost responses, kills of tasks without a process | one run of a job at a time, results are those of ended processes, a result is kept until it is acknowledged | `JobAgent` |
| Job execution, end to end | both, and the calls in flight | TaskReport with timeouts | late, repeated and overlapping calls | what the tables say of a machine agrees with what runs on it; a started job ends | `JobExec` |
| Login sessions and tokens: `src/models/request_jwt.go`, `src/web/middleware/jwt.go`, `src/web/view_server/api_system_user.go` | two `sync.Map`s: token state per user, online sessions | login, check, renewal with a grace period, self-heal, kick-out, logout, cleanup by the list of sessions | check and store are separate steps; nothing survives a restart but the signed tokens | a user who was kicked out stays out; one valid login per user; the token a client is told to use works | `UserSession` |
| Work orders: `src/web/view_server/api_workorder_*.go`, `src/cron/auto_order.go`, `src/models/tbl_workorder_*.go` | the order's row: status, flow nodes (JSON), current node, pending action; per-user notify status | approve, reject, act, comment, update, delete; the robot goroutine; the cron | forms that stay open and up to two minutes of work in Jenkins between a read and a write of the whole row; two automata may take one order; retries of a half-done action | nodes are answered in order whatever copies are written back; an order names who has to answer; the cron job takes up only what was passed, and once | `WorkOrder` |
| Alert webhook: `src/alert_webhook`, `src/web/view_alertwebhook`, `src/models/tbl_monitor_alertm_event.go`, `src/web/view_server/api_monitor_alertm_event.go` | four caches, a queue, the event rows | cache refresh, consume, update-or-create an event; claim, silence and unsilence from the web and from a card | a goroutine per alert; start-up by four goroutines; web and consumer write the same rows | what keeps firing is stored; a status has a reason; a claim is not lost | `AlertWebhook` |
| On-duty rota: `src/cron/onduty_group.go`, `src/models/tbl_monitor_onduty_*.go`, `src/web/view_server/api_monitor_onduty.go` | history per group and day, swaps | daily fill, swaps, the plan shown to users | days without a run, swaps entered late, members leaving; the rota is computed in two places | everybody serves his turn; plan and history agree | `OnDuty` |
| Public cloud sync: `src/cron/sync_cloud*.go`, agent registration: `src/rpc/info_report.go`, machines of orders: `src/cron/auto_order.go` | resource rows with hashes, DNS links | periodic diff by uid and hash, agents' reports of the same rows | failed or partial fetches, rows with several writers, addresses matched as text | what is bound stays bound while its account tells of it; an undisturbed pass ends with the rows as the clouds are | `CloudSync` |
| Service tree: `src/web/view_server/api_resource_stree.go`, `api_resource_{ecs,elb,rds,dns}.go` | tree nodes, bindings | create, move and delete nodes; bind and unbind | bindings are read and replaced as a whole, also by the synchronisation | as above | `ServiceTree` |
| Monitoring configuration: `src/cache/monitor_*.go`, `src/web/view_server/api_monitor_*.go` | pools, jobs, rules, send groups; maps of files by instance | CRUD; periodic regeneration, sharding by hashmod | tables read row by row while they are edited; which map is replaced when; secrets put in by position | every target and rule is one instance's; each secret is in its place | `MonitorConfig` |
| Kubernetes, clusters: `src/cache/k8s_cluster.go`, `api_k8s_cluster.go` | map of clients | periodic rebuild, registration | clusters that stop to answer, empty inputs | as of its users | `KubeCluster` |
| Kubernetes, nodes and workloads: `api_k8s_{node,pod,workload,deployment,config,network}.go` | in the cluster | cordon, label, taint, drain; scale, restart, edit, delete | read, change a part, send everything back | an edit changes its own part only; a drain empties | `K8sNodes`, `K8sWorkloads` |
| Kubernetes, releases: `api_k8s_instance.go`, `src/models/tbl_k8s_*.go` | projects, apps, instances; objects in the cluster | deploy, update, delete | rows and objects are written one after the other; clusters fail | no object outlives its instance's row | `K8sRelease` |
| Kubernetes, YAML tasks: `api_k8s_yaml_{template,task}.go` | templates, tasks, logs; objects in the cluster | apply, record | three writes to two systems | "applied" means that all of it is | `K8sYaml` |
| Jenkins: `api_jenkins_{job,instance}.go`, `src/cache/jenkins_instance.go`, `src/models/tbl_jenkins_job.go` | the jobs and builds in Jenkins; the table of them; clients | create, build, stop, lock, delete; synchronisation, the list's repair | every handler alternates calls of Jenkins and of the database; jobs are known by name in some queries and by folder and name in others | the rows tell what Jenkins has; a locked job stays | `JenkinsJobs` |
| Jenkins permissions: `api_jenkins_job_permission.go`, `src/models/tbl_jenkins_job_permission.go` | rules of roles | save; evaluated as SQL and in Go | two codes for one meaning | what may be built can be seen | `JobPermission` |
| Roles, APIs and Casbin policies: `api_system_{role,api}.go`, `src/models/{tbl_system_role,tbl_system_api,db_mock_system}.go` | rows of roles and APIs; policies | CRUD; the initial data of a new database | rows and policies are written one after the other, policies are keyed by value and path, rows by id | what the pages offer is what is let through | `RolePolicies` |
| Accounts: `api_system_{user,dingtalk,oidc,keycloak_sync}.go`, `src/models/tbl_system_user.go` | accounts with names, keys, status, roles | edits, logins by DingTalk and OIDC, synchronisation | four ways to find, rename and merge an account, by names that people may share; stale whole rows written back; dropped errors | one account each for whoever can be told apart | `UserDirectory` |
| Audit log, menus; proxies (Archery, Harbor, Artifactory, Nacos, Git, K8s browsing and terminals) | none, or one row per request | log, translate and forward a request | nothing interacts | | not modelled |
| CRUD of other tables, dashboards, mock data, generated code, configuration, logging | one row per request, or none | | | | not modelled |

Hazards of the survey that are not in the list of `PROJECT.json`: a job never
completes when no target has an address (`src/models/tbl_jobexec_task.go:94`);
`cmd.Start` fails and the task is "running" for good
(`src/agent/job/task.go:297`); a task that has not started is reported with an empty
status (`src/agent/job/manager.go:171`); a kill is handed out only to
machines without a row (`src/agent/job/manager.go:126`); a session with a replaced token
is cleaned up with the user's whole entry (`src/models/request_jwt.go:269`);
machines of orders are deleted by the next synchronisation
(`src/cron/auto_order.go:146`); a project is moved to another cluster while an application is
created in it (`src/web/view_server/api_k8s_instance.go:174`); an order stays with a node
nobody processes when the server restarts while the robot works
(`src/web/view_server/api_workorder_instance.go:144`); marking a
notification as read races with clearing it
(`src/models/tbl_workorder_notify_status.go:55`). Section 6 says what the models
show of most of them.

## 2. Modules

| module | is | extends / instantiates |
|---|---|---|
| `JobLedger` | the abstract specification: the two tables as a ledger, one write per step | |
| `JobServer` | the server: tables, operators, scheduler, report handlers; the agents are an arbitrary environment | refines `JobLedger` |
| `JobAgent` | the agents: map, objects, goroutines, processes, disk; the server is an arbitrary environment | |
| `JobExec` | both, joined by the RPC | instantiates `JobServer` and `JobAgent` |
| `UserSession` | login, tokens and sessions of one user, with the requests and handlers that check, renew and end them | |
| `WorkOrder` | one work order, with the requests, the robot's goroutines and the cron job that process it | |
| `AlertWebhook` | the alerts of one fingerprint, the start-up of the webhook, and the console's requests for the event | |
| `OnDuty` | the rota of one group: cron, swaps, plan | |
| `ServiceTree` | tree nodes and the bindings of assets | |
| `CloudSync` | assets and all that write them: clouds, agents, orders, people | `ServiceTree` |
| `MonitorConfig` | the tables of the monitoring and the files generated from them | |
| `KubeCluster` | clusters, clients, and how an API server takes an update | |
| `K8sNodes`, `K8sWorkloads`, `K8sRelease`, `K8sYaml` | what operators do in a cluster | `KubeCluster` |
| `JenkinsJobs` | the jobs of a Jenkins server and the table of them | |
| `JobPermission` | which roles see and build which jobs | |
| `RolePolicies` | roles, APIs and Casbin's policies | |
| `UserDirectory` | accounts, and the four ways in which they come about | |
| `MCJobServer`, `MCJobAgent`, `MCJobExec`, `MCJobExecLive`, `MCUserSession`, `MCWorkOrder`, `MCAlertWebhook`, `MCJenkinsJobs`, `MCMonitorConfig`, `MCRolePolicies`, `MCUserDirectory` | instances for TLC | the modules named |
| `MCBackground` | the systems that nobody at the console drives, side by side | `MCAlertWebhook`, `OnDuty`, `CloudSync`, `MCUserDirectory` |
| `MCConsole` | those of the console's handlers, side by side | the other modules but the `Job` ones |
| `JobServer_proofs` | type correctness of the server, its inductive invariant, refinement, safety, and the batch bound | `JobServer` |
| `JobAgent_proofs` | the agent's inductive invariants, with and without the hour | `JobAgent` |
| `MCJobAgent_proofs` | the same for the machines of which the hour passes on some only, as in the run | `MCJobAgent`, `JobAgent_proofs` |
| `JobExec_proofs` | both halves together: that each meets what the other's proofs allow for, and what links their tables | `JobExec`, instantiates `JobServer_proofs` and `JobAgent_proofs` |
| `UserDirectory_proofs` | lemmas on the accounts: types | `UserDirectory` |
| `Background_proofs` | the webhook, the rota and the clouds, and the theorems on them and on the accounts | `MCBackground`, `UserDirectory_proofs` |
| `Configuration_proofs` | lemmas on nodes, workloads, releases, YAML tasks, the monitoring and the roles | `K8sNodes`, `K8sWorkloads`, `K8sRelease`, `K8sYaml`, `MCMonitorConfig`, `MCRolePolicies` |
| `Console_proofs` | sessions, work orders, permissions and rows of Jenkins jobs, and the theorems on all parts of the console | `MCConsole`, `Configuration_proofs` |

Definitions whose comment calls them a mutant stand next to the definition they
would replace: a plausible mistake in the code, used to show that a property
notices it. No specification uses them.

### JobServer

State: `job[j]` is the row of `job_task` as far as `UpdateOne` writes it
(status, action, error strategy, and whether a kill is older than a minute);
`row[j][h]` is the status of the row of `job_result`; `cached[h][j]` is
`TaskCache.M`; `sync` holds the locals of `SyncCache`; `call[c]` those of one
`TaskReport` invocation; `deleting` the requests between check and deletion.

| code | actions |
|---|---|
| `createJobExecTask`, `updateJobExecTask`, `actionJobExecTaskOne` | actions of the same names |
| `deleteJobExecTask` | `deleteJobExecTask` (the check), `DeleteOne` (the deletion) |
| `TaskCache.SyncCache` | `SyncScan` (query), `SyncTask(j)` (one iteration of the loop, in any order), `SyncSwap` (replacing `M`) |
| `JobExecServer.TaskReport` | `Receive`, `SaveResult`, then `JudgeByOnErrorStrategy`, `JudgeWrite`, `RereadJob`, `CheckAndComplete`, `CompleteWrite`, for each result; `GetTaskByIp`, `AssignTasks`, `Return` |
| gorm `Updates(struct)` | `Overwrite`: non-zero fields only; on a missing row no effect |
| time, process | `MinutePasses`, `RestartServer` |

`JobServer` interleaves any number of handlers with the operators and the
scheduler between every database read and the write that depends on it.

### JobAgent

State: `lm[h][j]` is `TaskManager.LM`; `task[t]` a `Task` object with the
progress of its `Start` goroutine, its in-memory status, and whether a `Kill`
goroutine is pending; `disk[h][j]` the task directory (is there a `startTime` of
the last hour, which `GetAllTaskFromDisk` looks for; the content of the status
file); `agent[h]` the locals of `RunTaskReport`. Objects have identities because
a goroutine keeps its object after the map has dropped it, and because after a
restart a process lives on that no object refers to.

| code | actions |
|---|---|
| `RunTaskReport`, `GetResults` | `SendReport`, `ReportFails`, `ReceiveResponse` (which also reads the disk, before the lock, as `AssignTask` does) |
| `TaskManager.AssignTask` under its lock | `AssignTask` |
| `Task.Start`, `Prepare`, `runProcess`, `persistResult` | `Prepare`, `StartProcess`, `ProcessExits`, `PersistResult` |
| `Task.Kill` | `Kill`; `KillPanics` when there is no process: the nil dereference ends the agent |
| the agent's end and start, `NewTaskManager` | `Restart`, `Crash`, `OrphanExits` |
| time | `HourPasses` |

### JobExec

`waits[h]` is the call whose response the agent still takes. `Report` is
`SendReport` and `Receive` together; `Deliver` and `Discard` the two ends of a
call; `Timeout` the end of the agent's patience while the call goes on in the
server, which is how two calls of one agent come to overlap.

### UserSession

State: `token[t]` is a signed JWT: how near its end is, and the login it goes
back to; `active` the user's entry in `UserActiveTokens` (`UserTokenState`);
`session` the token kept by his entry in `OnlineUserSessions`; `handler[r]` the
locals of a request between two accesses to these maps. `barred` is in no code:
it remembers, for the properties, which tokens have been shut out.

| code | actions |
|---|---|
| `UserLogin`, `TokenNext` | `UserLogin` (the token is signed), `RegisterOnlineSession`, `SetUserActiveToken` |
| `JWTAuthMiddleWare` | `Request` (the token parses), then |
| `CheckUserTokenStatus` | the action of the same name, and `Heal`, its Store |
| `RenewUserToken` | the action of the same name, and `RenewStore` |
| `EnsureOnlineSession` | the action of the same name, then `RefreshSession`, or `CreateSession` and `HealActive` |
| `UserLogout` | `UserLogout` (the session goes), `ClearUserActiveToken` |
| `GetOnlineSessionList` | `GetOnlineSessionList` (the Load), `DeleteSession`, `ClearUserActiveToken` |
| `kickoutUser`, `KickoutOnlineUser` | `KickoutOnlineUser` (the session goes), `MarkKicked` |
| time, process | `FallsDue`, `Expires`, `CooldownEnds`, `GraceEnds`, `RestartServer` |

### WorkOrder

State: `workOrder` is the order's row: status, `current_flow_node`, the flow it was
created with, and per node what `ActualFlowData` says of it; `request[r]`,
`robot[g]` and `cron` hold the copy of the row that a handler, a goroutine of
`autoExecuteOrderRobotTask` and `RunAutoOrderOne` work from.

| code | actions |
|---|---|
| `createWorkOrderInstance`, `deleteWorkOrderInstance` | actions of the same names |
| `approvalWorkOrderInstance`, `actionWorkOrderInstance`, `commentWorkOrderInstance` | an action of the same name (the row is read) and `SaveApproval`, `SaveAction`, `SaveComment` |
| `updateWorkOrderInstance` | `ShowForm` (a page has the row, and keeps it over a restart of the server), and an action of the same name, which writes it back |
| `autoExecuteOrderRobotTask` | `Spawn` (in the handler that starts it), the action of the same name (the row is read), `recordRobotExecution` |
| `RunAutoOrder`, `finishAutoAction` | actions of the same names |
| gorm `Updates(map)`, `Updates(struct)` | `UpdateMap`, and `UpdateOrder`, which does not write an empty `current_flow_node` |
| database, process | `OrderWriteFails`, `RestartOrderServer` |

### AlertWebhook

State: `renew[c]` is where the goroutine of a cache is, `closed` and `finished`
are `cacheHasSynced` and `StartFinishRenew`; `alert[g]` holds the locals of one
`DealWithOneAlertReceive`, `request[r]` those of a handler; `event` is the row;
`am` what Alertmanager knows.

| code | actions |
|---|---|
| `RenewMapManager` and its four loops | `RenewMap` (the query), `CheckFinished`, `CloseHasSynced` (closing twice panics: `RestartWebhook`), `SetFinished` |
| `cmd/alert_webhook/main.go` | `AlertWebhookStartGin` |
| `AlertReceiveConsumer`, `DealWithOneAlertReceive` | `AlertReceive`, `UpdateOrCreateRead`, `CreateOne`, `UpdateColumns`, `GenerateMsg` |
| `alertManagerEventReLing` | the action of that name (the row is read), `SaveClaim` |
| `doSilence`, `doUnSilence`, `AlertSilence`, `AlertUnSilence` | actions of the same names, then `PostSilence` or `DeleteSilence` (Alertmanager), `SaveSilence` or `SaveUnSilence` |
| Alertmanager (external) | `AlertFires`, `AlertEnds`, `SilenceExpires`, `CallFails` |

### OnDuty

`history` and `swap` are the two tables by day, `fill` the locals of the daily
pass: `FullFillOnDutyHistory` (groups are read), `FillFromSwap`,
`FillFromRotation`. `Rotation` is the choice of the cron job, `FillToDayOndutyUser`
the person who is notified, `FuturePlan` what
`getMonitorOndutyGroupFuturePlan` computes on its own.

### CloudSync and ServiceTree

`cloud` (addresses), `spec` (whatever else a hash is made of) and `zone` are the
providers, `rows`, `row`, `link` and `bound` the tables. `later` is the second row
of a database or a record: their ids are not unique in the tables, so a dropped read error
doubles them. `pass[k]` are the locals of `RunSyncCloudResource{Ecs,Elb,Rds}` and `dns` those of
`RunSyncCloudResourceDns`: a pass reads uids and hashes (`ReadUids`), asks the
accounts (`Fetch`: an account may fail, break off, or have more machines than the one page
that Aliyun is asked for), and then creates, updates and removes row by row (`CreateRow`,
`UpdateRow`, `RemoveRow`; for records `SaveRecord`). `pass[k].short` is in no code: it remembers, for
the properties, the accounts that this pass was not told all of.
`AgentInfoReport` and `RunAutoOrderOneByEcs` write the same table. The
handlers of `ServiceTree` read a row with its nodes (`bindEcsToStreeNode`, ...)
and replace all of its nodes (`UpdateBindNodes`).

### MonitorConfig

`pools` and `items` are the tables of pools and of jobs, rules and send groups.
`gen[f]` is the goroutine of one kind of file, which reads pools, then the rows of a
pool, then, for the secrets that the marshaller hides, the rows
once more; `served[f]` the map it replaces. A file is the part of the targets its
instance takes (`hashmod`), the rows in it, and for each `<secret>` the row it should be of
and the row whose secret is there. Handlers are one step, or a check and a
write (`monReq`) where the check is about other rows.

### Kubernetes

`KubeCluster` has registration, the periodic `ReNewClientsMap` with its probe, and
`ServerAccepts`: an update with a stale version is refused. `K8sNodes` and
`K8sWorkloads` split a handler into `GetNode` or `GetObject` and `UpdateNode` or
`UpdateObject`; a drain is its cordon, `ListPods`, one `Evict` per pod, and
`drainK8sNodes`, its report. `K8sRelease` splits a deployment into the row
(`createK8sInstance`, ...), `LocateSync`, `PutWorkload`, `PutService` and
`PutIngress`, a deletion into `LocateDelete`, `deleteK8sResources` (one call: each kind by the
full name, then each kind by the short name, which may be another instance's) and
`DeleteRow`. `K8sYaml` splits an application into its reads, one `ApplyDocument`
per document, `LogApplication` and `WriteYamlStatus`; the log and the row may each fail to be
written, which the code does not notice.

### JenkinsJobs and JobPermission

`ciThere`, `ciBuilds` and `ciQueue` are Jenkins, which others than the console
also change; `ciRow` is the table. Each handler is an action of its name, with one more
per later call: `SyncJenkinsJobsToDB`, `SyncRead`, `SyncSweep` and `SweepRow` of the
synchronisation, `ListLook` and `ListFix` of the list's repair,
`deleteJenkinsJobHelper` and `DeleteRows` of a deletion. `JobPermission` has one
action, `saveRoleJobPermissions`, and the two evaluations as operators.

### RolePolicies and UserDirectory

`RolePolicies` splits `createRole`, `updateRole`, `createApi`, `updateApi` and `deleteApi` into
their single writes of a row or a policy. `RowsFail` and `PoliciesFail` are a write that is
refused: a row ends the request, but in `createApi`, whose policy is added all the same; a policy is passed
over. `RestartRoles` ends requests where they are. A later start adds nothing:
`MockUserRegister` returns when there is an administrator (`src/models/db_conn.go:165`).
`UserDirectory` splits `syncKeycloakUsers`, `DingTalkCallback` and `OidcCallback` into the reads
and writes of one account, which in a synchronisation may fail unnoticed; administrators'
handlers are read and whole-row write, or one step. Accounts are found by `real_name` where the code
finds them so, and `NameOf` gives people names that they may share.

## 3. Runs

`Background` and `Console` are sums: a behaviour is of one part (`part`), and the
variables of the others keep a constant value, so that one run checks each
system on an instance of its own. The parts share no state in the code either.

Runs check for deadlock, except `Background`, `AlertStart`, `Console` and
`JenkinsLock` (`CHECK_DEADLOCK FALSE`): there the requests, edits and changes of the outside
world are counted up to a bound, and a behaviour ends when they are used up.

| run | instance | asks |
|---|---|---|
| `JobServer` | 1 job, 2 machines, batches of 1, strategy pause, 2 handlers; start, kill, edit, delete; results success or empty; restarts | `TypeOK`, `CompletedMeansAllReported`, `BatchHonoured`, `RowSettlesOnce`, `OnlyOperatorsStartJobs`, `KillMarkSticks`, and that the server implements `JobLedger` |
| `JobServerDelete` | the same, without kills, edits and restarts | `NoRunningJobDeleted` is violated |
| `JobAgent` | 1 machine, 3 objects; 2 jobs, and 1 job with hours passing; crash, prepare, start and rpc faults | `TypeOK`, `NoParallelRunsWithinAnHour`, `TruthfulResultsWithinAnHour`, `ForgetsOnlyEndedWithinAnHour`, `OneRunPerAgent` |
| `JobExec` | 1 job, 1 machine, 1 handler, 2 objects; start, kill and delete; rpc, crash, restart, prepare and db faults | `RecordedMeansStopped`, `EveryRunIsBooked`, `NoRerunAfterResult`, `ReceiptMeansRecorded` |
| `JobExecLive` | 1 job, 2 machines, batches of 1, 2 handlers, strategy ignore, no faults | `StartedJobEnds` |
| `JobExecStale` | as `JobExec`, only hours pass | `NoRerunAfterResult` is violated |
| `Background`, alerts | 2 goroutines and 1 request at once, 1 user, 1 silence, 1 incident; calls fail | `StatusBacked`, `ClaimStands` |
| `Background`, rota | rotas of 2 and 3, shifts of 1 and 2 days, 4 days, 1 swap; gaps, edits | `RotaIsKept`, `PlanIsServed` |
| `Background`, clouds | 2 machines of Aliyun and pages of 1; a load balancer and a database of AWS, an agent, an order, a DNS record; two of: changes, faults, the agent's report, the purchase, a tree request | `AssetsStayBound`, `CloudConverges` |
| `Background`, accounts | 2 people of two names, or of one; 2 requests, 4 logins, edits or changes; failing queries and writes | `OneAccountEach` |
| `AlertStart` | 2 caches, 2 goroutines, 2 incidents, 1 restart, no requests; queries fail | `FiringIsStored` |
| `Console`, sessions | 2 tokens, 2 requests at a time; restarts | `OneLoginAccepted`, `BarredTokensStayOut` |
| `Console`, orders | the flows of `src/models/db_mock_workorder.go` and two more; 2 requests, one goroutine, the cron job, two at work at once; restarts, failing writes | `OrderNodesInOrder`, `OrderNamesFirstOpen`, `OrderFinishedProcessed`, `OrderExecutedApproved` |
| `Console`, rules | 2 roles with at most a rule each, 2 projects, 2 environments | `BuildableJobsVisible` |
| `Console`, Jenkins | 2 jobs of one name in 2 folders, 2 requests, 3 calls, 1 build each, 2 rows; failing listings | `RowsMatchJenkins` |
| `Console`, nodes and workloads | 2 nodes, 2 pods, 2 requests; an object of each of 8 kinds | `EditsStayTheirOwn`, `DrainsEmpty` |
| `Console`, releases and YAML | 2 clusters, 2 places, 2 instances, 2 types, 2 requests; 2 templates, 1 task, 2 objects, 2 requests, 4 edits; calls and writes fail | `RowsTellTheCluster` |
| `Console`, monitoring | 7 rows in 4 kinds of files; 1 request, 4 edits; failing queries | `ServesAsConfigured` |
| `Console`, roles | 3 roles, 3 APIs, 2 paths, 2 requests, 3 edits; restarts, failing writes of rows and policies | `RolesInOrder` |
| `UserSessionRenew` | 3 tokens, one request at a time; restarts | `RenewedTokenWorks` is violated |
| `WorkOrderRetry` | as the orders of `Console` | `ExecutedOnce` is violated |
| `JenkinsLock` | as Jenkins in `Console`, one request | `LockHolds` is violated |

`PartsTypeOK` joins the type invariants of the parts: in `Background` that of `AlertWebhook`
and those of the rota, the clouds and the accounts, in `Console` that of `UserSession` and those of
the other parts.

What they show:

- **JobServer.** Two reports may be handled at once while SyncCache is in the
  middle of a pass and operators start, kill and delete the job; each of them
  later writes a row it read before. The completion decision is sound although
  it is taken on rows read one by one, because rows are never taken back
  (`RowSettlesOnce`); no stale write makes a job run again or loses a kill.
- **JobAgent.** The server may answer anything. A job that is offered again
  after a restart of the agent is not run next to the orphan of its first run,
  since `startTime` is on disk before the process starts. A restart never makes
  a half-written result out of a running process. `startTime` counts for an hour.
  After that `LM` alone keeps an agent from running a job again, and it does
  (`OneRunPerAgent`), but for a process that was killed, reported as killed, and
  is still dying. The properties called `WithinAnHour` say nothing of behaviours in which the hour passes: the
  orphan of an earlier agent may then still run.
- **JobExec.** With lost responses, restarts of both sides, kills and failing
  database calls, a recorded result is that of a process that ended, and nothing runs
  that the table does not know. A result is forgotten by the agent only once
  the table has it.
- **JobExecLive.** A started job ends, batch after batch, in whatever order the
  two machines' reports are handled.
- **JobExecStale** (finding). `SyncCache` returns early when no job is running
  or being killed, so `M` keeps the last job, although `rpc/job_exec.go:108`
  says the row is created so that the next cache no longer holds the task. The
  agent refuses it only while `startTime` is less than an hour old; then the
  script runs again although its result is recorded.
- **JobServerDelete** (finding). A job that is started between the check and the
  deletion is deleted while running, which the check is there to prevent.
- **Background.** *Alerts:* two alerts of one fingerprint are read and written
  in any order, next to a claim or a silence, with whole rows and with single columns, while
  calls of Alertmanager fail: a claimed event still names who claimed it, and a silenced one has
  the id by which it can be lifted. As long as nobody works with an outdated row,
  alerts that go on firing do not take a claim or a silence back. *Rota:* swaps that
  name the right person do not disturb whose turn a day is, whenever they are
  entered; and the plan, computed separately, is what the cron job will record, after
  gaps and edits too, but for the cases under 6. *Clouds:*
  an asset that exists keeps its row and its place in the tree, whatever fails or
  changes elsewhere, but for passes that were not told all of its own account, by a failed call or
  by Aliyun's page; a pass that was not disturbed leaves rows and DNS links as
  the clouds have them, or as a page of Aliyun is where there are more machines, if it found no
  asset in two rows. *Accounts:* a synchronisation that nothing came between
  and in which nothing failed puts right, for whoever shares his name with nobody, what
  earlier races of logins, stale writes and failing passes have left.
- **AlertStart.** Under fairness the webhook comes up, after panics and failing
  queries too, and an alert that goes on firing is stored at last.
- **Console.** *Sessions:* the checks and stores of two requests interleave with
  logins, kick-outs, logouts, the cleanup and restarts. The two tokens the server
  accepts are always of one login, although a renewal prepares its state before
  it stores it; a token that was shut out comes back only through a request that
  had passed its check by then. *Orders:* approvals, actions, comments, forms, the robot and the cron job
  hold copies of one order, overlap, and write them back in any order. Answers are lost by that, a
  rejected order comes back to life, and an executor marks a node of his own out of turn; nothing in
  the code prevents it (section 6). What is left is still an order: its nodes are answered in
  the order of the flow, but for those of executors; as long as none of these has worked on it, it names
  the one who answers next, with the status that is his, and is finished only when nobody has to
  answer; and what the cron job takes up the first time was passed by the node before. *Rules:* the query and the Go code agree as far as whoever may
  build a job sees it. *Jenkins, YAML, monitoring, roles:* what is written in
  several places one after the other agrees at the end of a request or a pass that
  nothing came between, from whatever state earlier races, restarts and failed writes have left; where the
  log of an application cannot be written nothing is said of it, and where Casbin refuses a
  policy the roles are not in order. *Nodes and
  workloads:* the API server's version check is enough for whole objects to be sent
  back, since every handler sends the version it read. *Releases:* a deletion finds the objects of
  every type the instance may have had, by its full name as by its short one.
- **UserSessionRenew** (finding). After a restart, the first request of a user
  with a token near its end is healed and renewed, and gets a new token in the
  `new-token` header; then `EnsureOnlineSession` finds no session and stores the
  *old* token as the only active one. The client replaces its token as
  `src/web/middleware/jwt.go:91` says, and its next request is refused.
- **WorkOrderRetry** (finding). When the cron job fails, `finishAutoAction` clears
  the node in the struct only: the order stays in the scan and is executed at every
  interval, although the function's comment says it prevents this
  (`src/cron/auto_order.go:171`).
- **JenkinsLock** (finding). A deletion looks for the lock in the first row of the
  job's short name, in whatever folder: a locked job is deleted when one of
  the same name in another folder is not locked, although the handler's comment
  says deletions are strictly checked (`src/web/view_server/api_jenkins_job.go:1098`).

Bounds. One job is enough where the property is about a single job: jobs share
no state but the pass of `SyncCache` and the loop of a report, whose order is
free, and the agent run has two jobs, since there a second job competes for the
lock and the report. Two machines and batches of one are the smallest instance
with a second batch and with one machine reporting while another is dispatched;
two handlers the smallest in which reports overlap. Two objects per job let a
second run, or the new agent's object, stand beside an orphan. Three statuses of
results are reduced to those the code tells apart in the run at hand (an empty
one and a success in `JobServer`; the strategies pause and stop differ from each
other in the status they set only). In the runs of the jobs no counter is modelled, so
no bound cuts a behaviour short. Symmetry is used for handlers, goroutines and
objects, in safety runs only.
The two tokens of `UserSession` in `Console` are two logins, or a login and its
renewal, which is what the properties compare; two requests are the fewest that
overlap. The number of logins is cut short by the tokens, and a new login starts
from the same states whatever came before, but for the tokens about. For any
number of tokens and requests the properties are proved (section 7).
`WorkOrder` has one order, since orders do not meet; one goroutine, since in the
shipped flows an order is handed to the robot once; and the robot and the service account
under one name, as in the shipped flow, so that both take the order. Two of the flows
are not shipped: one with two approvals, and one in which the service account comes before and after
an approval. Of the requests, the goroutine and the cron job two work at once (`OrderBound`), since
a write meets one other copy at a time; for any number, and any flows, the properties are proved.

The parts of `Background` and `Console` count what comes from outside (requests,
edits, faults), since the tables would otherwise hold ever new rows. Bounds that
are conjuncts of the next-state relations of the MC modules (no step leads out of
them) cut combinations that the properties do not need; only `JobAgent` has a state
constraint, `OneJobWithHour`: of the machine on which the hour passes there is one
job.

- `AlertBound`: once the webhook serves, no cache is about to say that it is filled;
  the start-up has a run of its own, `AlertStart`.
- `CloudBound`: of changes, faults, the agent's report, the purchase and the request of the tree two
  happen: two are what a second row takes, or a cut page and a request that binds; a further one
  disturbs a pass that is already disturbed, of which `CloudConverges` says nothing. The second machine
  appears in the course of a behaviour, and then there is one more than on a page. The node of the tree is
there before the first asset, and what is moved is not bound to: moves touch no binding. `DutyBound`: members and shift add
  up to four, so that four days see a turn come again; an edited group has missed no
  day.
- `PeopleBound` and `DirectoryBound`: a behaviour is about two people of two names, of whom DingTalk
  and Keycloak know one by more than his name, or about two of one name; after two requests one of them
  goes on, of two requests the kinds come in one order, and with the last no other is in progress; four
  steps are what a DingTalk account, a Keycloak account, a merge and a stale write take.
- `KubeBound`: there is one cluster but among releases; clusters do not change while workloads are
  edited; one outage during a YAML application; among nodes one
  change and one edit by a request on its own, and of two requests one is for one
  node; after a second edit, one request is in progress. Versions decide conflicts by
  pairs, so two edits do.
- `ReleasesBound`: two objects at a time, of one pod, or of a deployment with a service or an ingress; one
  change of a cluster, a row or an application; two requests, of which one deletes, unless a call failed.
  Two instances, whose names coincide, have one request and no change: what the
  second is there for is that the short name of the first is the full name of the second.
- `MonitorBound`: a behaviour is about one file, by whose goroutine alone it is
  written, and the rows that file is made from (`MonitorInitAbout`). No edit of a
  pool begins in a pass that has been disturbed, of which `ServesAsConfigured` says
  nothing.
- `RoleBound`: with the last request no other is in progress.
- `MaxYamlEdits` 4: two templates or a template, its task, its application, and a request
  that comes between.

## 4. Fairness

`JobExec!Fairness` is used by the run `JobExecLive` only.

- WF on the scheduler: `SyncCache` is called by `wait.UntilWithContext` at a
  fixed interval (`src/cache/job_exec.go:145`).
- WF on each handler: a gRPC handler is a goroutine that nothing blocks; its
  database calls return.
- SF on `Report(h)`, for each agent: the loop sends a report at every interval,
  but in the model it needs one of the finitely many `Calls`, all of which may
  be taken again and again by the other agent. gRPC has no such limit, so an
  agent that is repeatedly able to report does.
- WF on `Deliver`, on the rest of the agent's loop, and on each task's goroutines
  and process: a script ends, at the latest by its timeout.

Nothing is assumed of operators, of time and of faults. `StartedJobEnds` starts
from a job that is running with a machine that has not reported: a job set to
running again after all have reported is looked at by nobody, because
completion is decided only in the handling of a result
(`src/models/tbl_jobexec_task.go:94`).

`AlertWebhook!Fairness` is part of its `Spec`; `AlertStart` needs it.

- SF on `RenewMap(c, TRUE)`: the loops run the query at every interval
  (`src/alert_webhook/cron/cache_send_group.go`), and the database answers now
  and then. WF on the rest of the goroutine of a cache, and on `AlertWebhookStartGin`.
- SF on `AlertReceive`: Alertmanager repeats the notice of an alert that fires
  until it is taken, and the model lets it only while a goroutine is free. SF on
  `UpdateOrCreateRead` and `CreateOne`: of the notices that are repeated some meet a
  database that works. WF on the rest of an alert's goroutine.
- WF on `SilenceExpires`: silences have an end.

Nothing is assumed of people, and `RestartWebhook` happens of a panic only.

## 5. Abstractions

- Strings, scripts, outputs and the timeline `ActualFlowData` are left out. The
  timeline decides nothing.
- An edit (`updateJobExecTask`) changes the error strategy. The handler writes whatever the request
  has (`src/web/view_server/api_jobexec_task.go:219`): one that carries a status, an action, hosts or a
  batch size sets these as well, without any check. The model's edits leave them out, `Targets` and
  `BatchSize` are constants, and what is said of jobs (a completion, a kill mark, a start, a
  batch) is said of jobs that no request has set so.
- `actionJobExecTaskOne` reads and writes in one step. What it writes does not
  depend on what it read, except fields it writes back unchanged: `action` is
  only ever set, and writing back an older strategy is an edit in another order.
- `SaveResult` looks the row up and writes it in one step: rows are never
  deleted, and the write does not depend on the status that was read.
- `SyncTask` gives a job up and reads its rows in one step: nobody but
  `SyncCache` tells killing from killed. `AssignTasks` creates the rows of a
  response in one step; rows of different jobs do not interact.
- `GetResults` is one step; it takes the lock.
- The write of a status by `Kill` and by `runProcess` is a data race on a Go
  string. The model takes either value, and not a mixture of the two.
- A failing `os.ReadDir` of the task directory and the heartbeat
  `UpdateEcsHeartbeatByIp` are not modelled.
- Machines are addressed by ip; two targets that share one are not modelled
  (such a job never completes).
- `UserSession` is about one user: both maps are keyed by user, and no operation
  touches the entries of two. Tokens fall due and expire in the order in which
  they were signed, since all live equally long. The cooldown (30 s) ends before the grace period
  (60 s), both counted from the same renewal. `UserStatusMiddleware` and
  Casbin, which come after the middleware, change no session.
- `WorkOrder` leaves out the content of the form, the outputs, the comments' texts and the
  notifications. An edit of an order sends back the row as its page has shown it. What decides between success and failure of the robot (form,
  templates, Jenkins) and of the cron job (form, database) is a free choice. An order
  whose template the cron job does not know is left alone, which is no step.
- `AlertWebhook`: one fingerprint, one send group. `event_times`, `unsilenced_at` and
  the wording of messages are left out; whether an escalation is due is free.
- `OnDuty`: one group; a pass ends on the day it began; the flag that disables a group, which
  the fill does not read, is left out.
- `CloudSync`: an asset is its address and one number (`spec`) for whatever else its hash is made
  of; no two assets have one hash. An asset has two rows at most. The disks and addresses (EIPs) of
  an account fit on a page. Permissions of the tree are left out in `ServiceTree`.
- `MonitorConfig`: of a job the file says what it tells a machine to do. A query
  fails as a whole.
- Kubernetes: an object is one value, and a version counted by the API server; lists, logs,
  watches and terminals are reads. The controllers of the cluster are
  `Schedules` only. An edit of a cluster's kubeconfig is not modelled.
- `JenkinsJobs`: parameters, stages, views, pipelines and tokens of users are not
  modelled. `JobPermission` takes names apart by the places where project and
  environment stand, with what `LIKE` makes of "_".
- `RolePolicies`: an API is its path; menus and `setRoleUsers` are left out.
  Casbin's enforcement is "the policy is there".
- `UserDirectory`: people may share a name, but no mobile number or address. Of the requests that
  administrators and logins make, one that meets a failing database ends with the error, which is to
  have made no further step; what a synchronisation does then is modelled. Groups beyond the
  roles they name are left out.
- The `slow_start` fault, a report that overtakes a `go Start()` of the round
  before, is in the modules and in no run. With it a task that has not started
  is reported with an empty status and acknowledged, and `ReceiptMeansRecorded`
  fails. The window is milliseconds against a report interval of seconds.

## 6. What the code does that a reader may not expect

Read off the models, and no contradiction to any document of the repository:

- A kill is handed out only to machines without a row (the loop that would fill
  `toKillIps` is commented out): it *starts* the script there, and the machines
  that run it are not told. The job is marked killed after a minute.
- A lost response leaves its rows running for good, unless the agent received
  the task otherwise: after the next refresh it is not offered again.
- `exec.Cmd.Start` failing leaves the task "running" and never reported.
- A kill of a task without a process ends the agent, by a nil dereference.
- The batch size bounds the machines offered per refresh, not those running.
- A strategy or a completion decided before an operator's pause overwrites it.
- A logout, and the cleanup of an expired session, delete the user's whole entry,
  the mark of a kick-out included; then the first request with *any* token that has not
  ended makes that token the active one. So does a restart. Hence
  `BarredTokensStayOut` says "while the server remembers the user".
- A request that passed its check before a kick-out may renew, or register its
  session again, and thereby erase the mark.
- A rejected work order can be approved on, and executed: the handlers look for the next open
  node and never at the status (`src/web/view_server/api_workorder_instance.go:63`).
- Of two overlapping answers to a work order one is lost: each writes the flow it has read (`:128`). A
  comment (`:322`) and a form that was open meanwhile (`:652`) write the order back as it was read: an approval
  is undone and asked for again, a rejection forgotten, and an order that was executed waits for its executor
  once more.
- The robot finishes an order whatever nodes come after its own, and whatever became of it while he
  worked; he and the cron job mark the first open node they take for theirs, without asking whether it
  is their turn.
- A restart while the robot works leaves the order pending; only the cron job takes
  it up, if it runs under the robot's name.

Alerts: a card's unsilence leaves the row silenced. The end of a silence, or
`send_resolved` 2, leaves "claimed" or "silenced" for the next incident. A claim,
a silence and an unsilence together lose the claim. An escalation before the groups are
cached is a nil dereference, a second close of the channel panics. Alerts that arrive before
the send groups are cached are dropped with status 200.

Rota: a second swap for a day, or one that names the wrong person, makes plan and
cron disagree. A member who left keeps serving to the end of his turn
while the plan shows the first member. A day without a run shifts the rota for good.

Clouds: the hash of a database leaves out its host (`src/cron/sync_cloud_rds.go`), so a
moved database keeps its old address. Aliyun is asked for 100 machines only
(`src/cron/sync_cloud_ecs.go:382`): which of a larger account have rows, and places in the tree, changes
from pass to pass. An account that fails, in a call for machines, disks or EIPs, loses its rows and bindings
(`:99`). `AssetsStayBound` therefore excuses the pass that was not told all of the account, and no other.
A read that fails unnoticed gives a DNS record (`src/cron/sync_cloud_dns.go:226`), or a database whose hash has
changed (`src/models/tbl_resource_rds.go:19`), a second row, which no later pass removes. An agent is
matched by `LIKE '%ip%'` (`src/models/tbl_resource_ecs.go:203`); one that reports before the first
pass gets a second row. A link of a DNS record is not refreshed when an address
moves (`src/cron/sync_cloud.go:56`). Two binds at once lose one; a parent is not checked, and a
node can become its own ancestor.

Monitoring: two pools may share an instance (the check of it and the write are apart), and one may repeat
it, which nobody checks (`src/models/tbl_monitor_prom_scrape_pool.go:85`): targets and rules are lost then. When the last pool goes, its files are served for good. A pool is
deleted by a check of enabled rows, and then a write. The default receiver of
Alertmanager is lost as soon as there is a send group. A failed first
read leaves instances without jobs or routes, a failed second one leaves `<secret>`.

Kubernetes: a drain counts a failed eviction as done and deletes pods that a
disruption budget protects. Handlers of nodes do not ask for the probe. An update may
move an application's name and leave the objects under the old one. A deployment
that races a deletion brings objects back. A deletion also tries the short name
(`src/web/view_server/api_k8s_instance.go:847`), by which another instance may be called in full, and takes
its objects. A YAML task says "applied" after an edit that nobody
has applied.

Jenkins: rows of all folders with a name are deleted, toggled and marked together.
A queued build's row is overwritten by the result of the previous one. The
list repairs an UNSTABLE that is shown as BUILDING. The log of an old build writes
that build's number. A synchronisation writes the lock as it was read, and deletes the
rows of a folder whose listing failed. The client of the last instance stays when it is deleted.

Roles and accounts: policies are keyed by the role's value and are left behind by a
rename and a deletion, so a later role with that value has them. Two updates
of one role at once lose policies, a restart between removing and adding leaves
the role without, and no later start adds them (`src/models/db_conn.go:165`), nor what an interrupted first start
has left out. `createApi` adds the policy of an API whose row was refused
(`src/web/view_server/api_system_api.go:126`). A changed path moves the policies of "super" only.
A stale request inserts a deleted API again. A whole row written back
(`src/models/tbl_system_user.go:84`) undoes a freeze, a rename or a change of roles;
the synchronisation enables whom an administrator has frozen
(`src/web/view_server/api_system_keycloak_sync.go:172`), and sets 0 for the disabled, which the middleware (== 2)
lets through. A login between a synchronisation's cleaning and saving, or an error that is dropped
there (`:193`, `:251`), leaves two accounts with one user id for good. People of one name are taken for one: the
account of one is merged into the other's and deleted (`:180`, `:229`).

## 7. Proofs

`tlapm X_proofs.tla` checks them. In each table "for" says from which assumptions:
on the constants by the named `ASSUME` of the module, and beyond it.

### The server of the jobs (`JobServer_proofs`)

For any jobs, machines, targets, batch sizes, strategies, handlers and faults
that meet `JobServer!Assumption` (ids and ranks are positive numbers, the
machines finitely many, targets are machines, and the sets of names are what
the code knows):

| theorem | states |
|---|---|
| `TypeCorrect` | `Spec => []TypeOK` |
| `Invariance` | `Spec => []Inv` |
| `Refinement` | `Spec => ImplementsLedger`: every step is a step of the ledger, or none |
| `Completion` | `Spec => []CompletedMeansAllReported` |
| `Settlement` | `Spec => RowSettlesOnce` |
| `KillMark` | `Spec => KillMarkSticks` |
| `Starts` | `Spec => OnlyOperatorsStartJobs` |
| `Batches` | `Spec => []BatchHonoured` |

The properties are not inductive, since a step may write a row
that was read long before. `Inv` says what such a copy is still good for:

- `OnlyTargets`: only targets are listed in the cache, in the cache being built,
  and have rows; `Handed(c)`: the tasks a handler took are for its host. Then
  as many rows as targets means a row for every target, which is what
  `CheckAndComplete` counts (`CountingTargets`, by cardinality).
- `Marked`: a job is being killed only when its action says so, and a job that
  does not exist has no action.
- `SyncInv`, `CallInv(c)`: a copy with the kill mark is of a job that still has it
  or is deleted; a handler about to complete a job holds success or failed, and
  all machines have reported *now*. This stays true while it waits, as reports
  are not taken back (`AllReportedStays`, from `RowsSettle`).

`UpdateOneEffect` is the lemma all writes go through: writing a remembered copy
changes nothing in the ledger but the status it was meant to change. With it
each handler's write is one of the ledger's actions (`NextLedger`), and the
properties of the tables follow. The batch bound is apart: `FirstHostsBound`
maps the hosts that survive the cut injectively to the numbers below the batch
size, and `BatchInv` carries it through a pass.

### The agent (`JobAgent_proofs`, `MCJobAgent_proofs`)

For any jobs, machines, objects and reported results that meet
`JobAgent!AgentAssumption`, whatever the server answers:

| theorem | states | for |
|---|---|---|
| `Invariance`, `TypeCorrect` | `Spec => []AgentInv`, `[]TypeOK` | no `slow_start` |
| `OneRunAlways` | `Spec => []OneRunPerAgent` | no `slow_start` |
| `DiskInvariance` | `Spec => []DiskInv` | neither `slow_start` nor `hour` |
| `NoParallelAlways`, `TruthfulAlways`, `ForgetsOnlyEndedAlways` | `Spec => []NoParallelRuns`, `[]TruthfulResults`, `ForgetsOnlyEnded` | neither |
| `MachineInvariance` | the invariant of the run's machines, `hour` or not on each | no `slow_start` |
| `NoParallelWithinAnHour`, `TruthfulWithinAnHour`, `ForgetsWithinAnHour` | the properties of the run `JobAgent` | no `slow_start` |

`AgentInv` is what a lock and a map give: the place of a goroutine says what is in
its object, and the map refers to no orphan (`Objects`); an object that has
neither ended nor been killed is the one the map has for its job (`InMap`); what a
report says, and what a response acknowledges, is of an object that is still in the map
and whose process has ended or was killed (`Receipts`). `DiskInv` is what the task
directory adds across restarts: at most one object of a directory is active, one
that has prepared has its `startTime`, a status in the file is of a run that is
over, and what `AssignTask` is about to start was never here. It needs that
`startTime` counts, so it ends with the hour, after which a job may run again next
to an orphan. `slow_start` is left out for the reason given in section 5. In the
run `JobAgent` the hour passes in some behaviours and not in others; its properties speak
of those before, and `MCJobAgent_proofs` carries the proofs over.

### Server and agent together (`JobExec_proofs`)

For any jobs, machines, calls and objects that meet `JobExec!ExecAssumption` (the two
assumptions above, and that `NoCall` is no call):

| theorem | states | for |
|---|---|---|
| `Invariance` | `Spec => []Halves`, the conjunction of the two invariants above, and `Links` | no `slow_start` |
| `ServerServes`, `AgentsServe` | `Spec => ServerP!Spec`, `Spec => AgentP!Spec`: each half sees the other as an environment its own proofs allow for | no `slow_start` |
| `HalvesHold` | hence the ledger is implemented, completion, batches and one run per agent hold of the whole | no `slow_start` |
| `HistoryInvariance` | `Spec => []History` | neither `slow_start` nor `hour` |
| `RecordedAlways` | `Spec => []RecordedMeansStopped` | neither |
| `ReceiptAlways` | `Spec => ReceiptMeansRecorded` | neither |
| `NoRerunAlways` | `Spec => NoRerunAfterResult` | neither |
| `BookedAlways` | `Spec => []EveryRunIsBooked` | neither; and no `db`, or a single job |

`Links` says that the results still to be handled in the call an agent waits for are
those that it sent, and its receipts for jobs of which it sent one. `History` follows a result on its way: where a
result is, in the report, in the row or in the receipt, the process has ended
and its directory says so (`Results`, `Commands`, `EmptyReports`), and a receipt is given for
what the row has (`Receipted`). Late and overlapping calls are why this must
be said of every call in flight and not of the one the agent waits for.

The last hypothesis of `BookedAlways` is needed, which the attempt to prove
the theorem without it has shown: `AssignTasks` of a response with two tasks keeps
the error of its last `CreateOne` only (`src/rpc/job_exec.go:108`), so a
failing call for the first hands the task out without a row. With one job, as in the
run, or without failing calls it does not happen.

### Sessions (`Console_proofs`)

For any number of tokens and requests that meet `UserSession!TokensAssumption`
(tokens are positive numbers):

| theorem | states |
|---|---|
| `SessionTypes` | `Spec => []TypeOK` |
| `SessionInvariance` | `Spec => []Inv` |
| `OneLogin` | `Spec => []OneLoginAccepted` |
| `BarredOut` | `Spec => []BarredTokensStayOut` |
| `OneLoginAlways`, `BarredStayOutAlways` | the same of `ConsoleSpec`, which the run checks |

`Inv` adds what a request between check and store may still rely
on: it holds signed tokens only, a renewal about to be stored has two tokens of
one login (`HandlerInv`), so has the map (`PairInv`), and no token in the hands
of a request past its check is among those shut out (`BarredInv`). The step from
check to store keeps the last part because a token that is accepted is not shut
out: the property itself is the hypothesis that the next step needs.

### Alerts (`Background_proofs`)

For any caches, goroutines, requests, users and silences that meet the
module's assumption, with every fault:

| theorem | states |
|---|---|
| `Invariance`, `TypeCorrect` | `Spec => []Inv`, `[]TypeOK` |
| `BackedAlways` | `Spec => []StatusBacked` |
| `ClaimsStand` | `Spec => ClaimStands` |

A status and its reason are two columns, written from copies that were read at
different times. `HandsInv` says of each copy in the hands of a goroutine or a request
that it is backed too, and that a silence that was posted has its id by the time it is
saved; a write by column leaves the reason of the status it does not write. That the
rest of the specification keeps a claim (`ClaimsStand`) is a
property of steps in which nobody holds an outdated copy.

### Rota, clouds and accounts (`Background_proofs`, `UserDirectory_proofs`)

Of `BackgroundSpec`, for any members, rotas (nobody is in one twice: they are rows of a
join table) and turns, any assets, clouds, pages, faults and requests, any finite sets of
people, with whatever names, and of account ids:

| theorem | states | for |
|---|---|---|
| `PartsInvariance` | `Inv`, `DutyInv`, `CloudInv`, `DirectoryInv` (the types of the accounts) hold, each of its part | |
| `PartsTyped` | `[]PartsTypeOK` | |
| `RotaIsKeptAlways`, `PlanIsServedAlways` | `[]RotaIsKept`, `[]PlanIsServed` | |
| `AssetsStayBoundAlways`, `CloudConvergesAlways` | `AssetsStayBound`, `CloudConverges` | |

The calendar of `RotaKept` knows no history, and `OnGroup` looks at nothing else: it
counts how often the one of yesterday had his turn in the days of one turn before today.
`DutyInv` says that where each day since the group was created is fair (recorded, and with
the calendar's member behind a swap), the turn that the history names is the
calendar's (`NotEditedInv`). That the count moves on when the calendar does is division with remainder
(`NeedChangeIs`, `RotationGoesOn`, `RotationIsCalendar`). The plan is compared with the
cron job itself, not with the calendar: `PlanCounts` shows that counting back from
today gives how long the turn has lasted, `RotationIsPlan` that on a history
that is the plan's so far the cron job does what is planned next, and
`ForecastIs` and `AfterDaysNext` unfold the two recursions, one day at a time, along which
an induction over the days (by the smallest day that would differ) goes.

A pass over a cloud works with lists that it made steps before. `CloudInv` says what is
still true of them (`PassInv`): what is fetched is of an instance that has been there,
and what is going to be deleted is no machine with an agent, and is gone from its cloud, which it
stays, unless the pass was not told all of its account. `LaterInv` says that second rows are of databases and
DNS records only, and show what the first ones may. `QuietInv` says what a pass that nothing
came between, and that found no asset in two rows, has still to do, per instance and record
(`InstanceAwaits`, `RecordAwaits`): when it has nothing left, the tables converge. With more machines than
a page has, what it was told is what the rows are compared with.

The proof has shown that a pass was called quiet that was not: a DNS record is kept
because somebody bound it, and then unbound before the pass ends. `CloudNext` now counts the last
binding of a record that is taken away as something that happens.

Of the accounts the types are proved: `PeopleInv` says that the copies of rows that requests hold are
accounts too, however old, and that no two accounts have one user name, which the unique index sees to.
Whose an account is cannot be told by a stronger invariant: rows are found by names that two people may
have, and one's values do get into the other's account. `OneAccountEach`, which is about those whose names are
their own, is model-checked only.

### The console (`Console_proofs`, `Configuration_proofs`)

Of `ConsoleSpec`, for any flows, names, goroutines and restarts, any rules and roles,
Jenkins jobs and instances, pools, instances and rules of the monitoring, clusters,
nodes, pods, applications and templates, and any number of requests. What is
assumed of the constants is what the modules' `ASSUME`s say: nodes, APIs, pools and
rules are finitely many, ids are numbers, "none" is nobody's name, "super" is a role. No
theorem has a hypothesis beyond these.

| theorem | states |
|---|---|
| `ConsoleParts` | `PartsInv`: the invariant of each part |
| `ConsoleTyped` | `[]PartsTypeOK` |
| `OrderNodesInOrderAlways`, `OrderNamesFirstOpenAlways`, `OrderFinishedProcessedAlways`, `OrderExecutedApprovedAlways` | the properties of the run of the same names |
| `BuildableJobsVisibleAlways` | `BuildableJobsVisible` |
| `RowsMatchJenkinsAlways` | `RowsMatchJenkins` |
| `EditsStayTheirOwnAlways`, `DrainsEmptyAlways` | `EditsStayTheirOwn`, `DrainsEmpty` |
| `RowsTellTheClusterAlways` | `RowsTellTheCluster` |
| `RolesInOrderAlways` | `RolesInOrder` |
| `ServesAsConfiguredAlways` | `ServesAsConfigured` |

Of an order, requests, forms, goroutines and the cron job hold any number of copies of any age, and each
of them may be the row tomorrow. So nothing can be said of how the row changes, and what is said of
it has to be said of every copy, and of one record alone. `Sound` is that: the nodes are
answered in the order of the flow, except by an executor; as long as no executor has answered,
a pending order waits at its first open node that somebody has to answer, with the status and the user of that
node and the one before it passed, and a finished one waits for nobody before its stop node. What a process
makes of a sound copy is sound (`Deciding`, `Executing`), and one that leaves a copy as it is
writes a sound one back. `OrderInv` says it of the row and of all copies (`Processes`), and that all have the nodes
of one flow (`SameOrder`), in which the robot has a node of his own wherever he works: so what he writes back
is an order that an executor has worked on. Of an order that an executor has worked on `Sound` says only
that it is one: he marks a node of his out of turn if an older copy has been written back meanwhile.

For the rules, `PermissionTypeOK` is all that is needed: `AllowedIsListed` shows that the
row-wise evaluation of any set of roles implies the gathered one, by the cases of a rule for
all projects, for the row's own, and for the one its name begins with, where
`LIKE` finds at least what the prefix does.

For the edits, `NodeInv` and `WorkInv` say of each handler between read and write that what
it has read is the object as it is, or has an older version: versions are handed out once
(`StoringNode`, `WorkKept`). What the API server takes is then what it has, changed in the
part that the handler is for (`SendingNode`, `NodeTaken`, `WorkTaken`). For a drain,
`Drained` adds that as long as the node has the version the drain left it with, it is
closed, and each pod on it that is to leave is on the list: pods come only to open
nodes, so nothing is added behind the list.

The other parts have one shape: a handler reads rows or objects, and writes or deletes
according to what it has read, in a loop; the property is about one that was not
disturbed. The invariant says what is already as it should be, and what the handler
still knows rightly of the rest, with the place it has come to:

- Jenkins (`JenkinsInv`): of each job that a synchronisation has dealt with there are rows,
  and they show its last build; of the one it is at, what it read is so; and what
  it is going to delete is the rows of jobs that are gone (`SyncedSoFar`).
- Releases (`ReleaseInv`): a deletion in which no call has failed and that no deployment
  came between has removed the kinds of objects before the one it is at
  (`Cleaned`); those it tries by the short name come after all of its own. A deployment that starts marks the deletions of its instance, which is why
  nothing more is to be said of the objects.
- YAML tasks (`YamlInv`): the documents that a request has left are the last ones of the template, and
  those before them are in the cluster as its row says (`YamlCalm`, `SetTo`); a log that could be
  written says what became of them.
- Roles (`RoleInv`): a request that was alone still has the rows as it read them, and
  the roles that agreed with Casbin when it began agree still, but for the policies it has
  removed or added so far (`CalmRole`, `CalmApi`, one line for each place of
  each handler). One that Casbin or the database has refused something is not among these. A path that two APIs have breaks this, which the property excludes
  (`OnePathEach`).
- Monitoring (`MonitorInv`, `PassInv`): the pools that a pass has before it are
  a list without repetition; each instance of those behind it has what it is to have
  (`Given`), the instances of the one it is at as far as it has come, and no other
  machine has anything (`Good`). That a pool's targets and rules are shared out, each to one
  instance, is by remainders for targets (`HashModScrapeConfig`) and by place in the sorted list for rules
  (`RuleFile`); that the list has each rule once is a matter of counting
  how many ids are smaller (`Sorted`). `GoodAtEnd` puts it together. Pools that share
  or repeat an instance have no such shares: the part of the property about targets and rules is about
  tables in which they do not (`Apart`).

What the proofs have found in the models:

- `YamlTellsStep` primed an operator of a value that was primed already, which TLC let
  pass: it said nothing of the row that a task ends with. It now speaks of that row.
- `Sorted` of `MonitorConfig` filtered the numbers up to how many items there are, so ids
  had to be without gaps, which rows that are deleted do not leave; it now sorts whatever ids
  there are.
- `A \cup B \ C` and the like, which the provers and TLC read in two ways, stand in parentheses.

### Only model-checked

Liveness, `StartedJobEnds` and `FiringIsStored`, is out of the prover's reach, and `OneAccountEach` is
not proved: an invariant for it has to say which of the accounts found by a name is whose. All other
properties of the runs that pass are proved: `PartsTypeOK` of both joint runs as well as the
invariants and action properties, under the hypotheses named in the tables. Those that
a run violates (section 3) are findings, and not true.

## 8. Not modelled, and the plan

Not modelled: the proxies of Archery, Harbor, Artifactory, Nacos and git servers
(a request is translated and forwarded); pipelines, views, stages and parameters
of Jenkins and the tokens of users for it; menus and the audit log; files and
terminals of pods; tickets' forms, templates and notifications; CRUD of tables
that nothing else reads; dashboards; generated code, configuration and logging. They
keep no state of their own, or one row that one request writes.

What is left, in the order of weight:

1. `OneAccountEach` for people whose names are their own: the accounts that can come to bear such a name
   are his, or were renamed by a stale row.
2. The rest of what `updateJobExecTask` lets a request set (section 5): `JobServer`'s properties would then be
   about jobs that no request has set a status, an action, hosts or a batch for, and its constants `Targets` and
   `BatchSize` columns of the row.
3. `slow_start` and the hour after which `startTime` is forgotten: what remains true of the agents
   with them is model-checked only as far as the runs of section 3 go.
4. Pipelines and parameters of Jenkins, and menus, if they come to keep state that two requests
   write.
