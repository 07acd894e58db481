----------------------------- MODULE MCBackground -----------------------------
(* What is driven from outside the console: the alert webhook, the cron job *)
(* of the rota, the synchronisation with the clouds, and the accounts that  *)
(* logins and the synchronisation with Keycloak make.  They do not meet;    *)
(* part says which of them a behaviour is of.                               *)
EXTENDS MCAlertWebhook, OnDuty, CloudSync, MCUserDirectory, TLC

CONSTANTS a1, a2

VARIABLE part

-----------------------------------------------------------------------------
(* Alerts of one fingerprint that are handled at once.                      *)
MCGoroutines == {a1, a2}
GoroutineSymmetry == Permutations(MCGoroutines)

-----------------------------------------------------------------------------
(* Rotas of two and three people.                                           *)
MCMembers == {1, 2, 3}
MCRotas   == {<<1, 2>>, <<1, 2, 3>>}

(* A machine of Aliyun, which the agent on it may report, and one that is   *)
(* not there in the beginning and too many for the page; a load balancer    *)
(* and a database of AWS; a machine that a work order buys; and a DNS       *)
(* record for the load balancer.                                            *)
MCInstances == {"ecs1", "ecs2", "elb1", "rds1"}
MCVendorOf(i) == IF i \in {"ecs1", "ecs2"} THEN "aliyun" ELSE "aws"
MCFoundAt(u) ==
  CASE u = "ecs1" -> "ip1"
    [] u = "elb1" -> "ip10"
    [] u = "ecs2" -> "unborn"
    [] u = "rds1" -> "ip1"
    [] u = "www" -> "ip10"
MCHostIp(s) == "ip1"
MCOrderIp(o) == "ip10"
MCAssets == MCInstances \cup {"sn1", "order1", "www"}
MCKindOfAsset(u) ==
  CASE u = "rds1" -> "rds"
    [] u = "elb1" -> "elb"
    [] u = "www" -> "dns"
    [] OTHER -> "ecs"
MCPartOf == {<<"ip1", "ip10">>}

-----------------------------------------------------------------------------
(* The state of a part that a behaviour is not of.                          *)
NoDuty == day = 0 /\ group = 0 /\ swap = 0 /\ history = 0 /\ fill = 0

NoCloud ==
  /\ rows = 0 /\ born = 0 /\ nodes = 0 /\ pid = 0 /\ bound = 0 /\ req = 0
  /\ cloud = 0 /\ spec = 0 /\ zone = 0 /\ row = 0 /\ later = 0 /\ link = 0 /\ order = 0 /\ stage = 0
  /\ pass = 0 /\ dns = 0 /\ quiet = 0 /\ cloudChanges = 0 /\ faults = 0

NoDirectory == keycloak = 0 /\ accounts = 0 /\ loginReq = 0 /\ peopleEdits = 0

(* Bounds: the webhook serves when no cache is about to say that it has     *)
(* been filled (AlertStart is about the others); the tree is there before   *)
(* the first asset, and is moved then only; of what may come between the    *)
(* steps of a synchronisation (an agent, a purchase, an asset that is       *)
(* bound, a change in the clouds or a failed call) two things do; a group   *)
(* that is edited has missed no day; people and shifts are such that four   *)
(* days see the first turn come again; with the last request about accounts *)
(* no other is in progress.                                                 *)
AlertBound == part = "alerts" /\ serving => \A c \in Caches : renew[c] = "load"

CloudBound ==
  part = "cloud" =>
    /\ stage # "idle" \/ rows # {} =>
         born = TreeNodes /\ \A n \in TreeNodes : pid[n] = Root
    /\ cloudChanges + faults + Cardinality(rows \cap Hosts)
         + Cardinality({o \in Purchases : order[o] = "done"})
         + Cardinality({r \in TreeRequests : req[r].op # "none"}) <= 2

DutyBound ==
  part = "duty" =>
    /\ group.members # <<>> => Len(group.members) + group.shift = 4
    /\ group.edited => \A d \in group.created + 1 .. day - 1 : Recorded(d)

PeopleBound ==
  part = "people" =>
    /\ DirectoryBound
    /\ peopleEdits = MaxPeopleEdits => \E q \in LoginRequests : loginReq[q].pc = "idle"

BackgroundInit ==
  /\ Init
  /\ \/ part = "alerts" /\ NoDuty /\ NoCloud /\ NoDirectory
     \/ part = "duty" /\ DutyInit /\ NoCloud /\ NoDirectory
     \/ part = "cloud" /\ NoDuty /\ CloudInit /\ NoDirectory
     \/ part = "people" /\ NoDuty /\ NoCloud /\ DirectoryInit /\ DirectoryBound

BackgroundNext ==
  \/ part = "alerts" /\ Next /\ UNCHANGED <<dutyVars, cloudVars, directoryVars, part>> /\ AlertBound'
  \/ part = "duty" /\ DutyNext /\ UNCHANGED <<vars, cloudVars, directoryVars, part>> /\ DutyBound'
  \/ part = "cloud" /\ CloudNext /\ UNCHANGED <<vars, dutyVars, directoryVars, part>> /\ CloudBound'
  \/ part = "people" /\ DirectoryNext /\ UNCHANGED <<vars, dutyVars, cloudVars, part>> /\ PeopleBound'

BackgroundSpec ==
  BackgroundInit
    /\ [][BackgroundNext]_<<vars, dutyVars, cloudVars, directoryVars, part>>

-----------------------------------------------------------------------------
(* The types of the parts.                                                  *)
PartsTypeOK ==
  /\ TypeOK
  /\ part = "duty" => DutyTypeOK
  /\ part = "cloud" => CloudTypeOK
  /\ part = "people" => DirectoryTypeOK

(* A day that the cron recorded was served by the one whose turn it was, or *)
(* by the one he changed with: OnGroup and createMonitorOndutyChange see    *)
(* the same rota.                                                           *)
RotaIsKept == part = "duty" => RotaKept

(* What the console forecasts of a group is what the cron then records,     *)
(* unless the group or its changes are edited after it: the plan and        *)
(* OnGroup compute the rota on their own.                                   *)
PlanIsServed == part = "duty" => PlanComesTrue

(* Whatever clouds, agents, orders and people do meanwhile, and whichever   *)
(* calls fail, an asset leaves a node of the service tree in three ways     *)
(* only: the node is deleted; a request takes it away, or had read the      *)
(* nodes before it was there; or a pass missed the asset, which its cloud   *)
(* has no more, or no cloud ever gave, or of whose account that very pass   *)
(* was not told all, for a failed call or for Aliyun's single page.  What   *)
(* one pass misses does not excuse another.                                 *)
AssetsStayBound == [][part = "cloud" => BindingsSurviveStep]_cloudVars

(* A synchronisation in which nothing failed, and nothing changed           *)
(* meanwhile, ends with the rows as the clouds are, or as a page of Aliyun  *)
(* is where there are more, DNS records linked to their assets; whatever    *)
(* passes that failed have left before, if no asset had two rows.           *)
CloudConverges == [][part = "cloud" => CleanPassConvergesStep]_cloudVars

(* A synchronisation with Keycloak that nothing came between and in which   *)
(* no query or write failed leaves everyone whose name is his alone with an *)
(* account of his own, named and enabled as there, and no other, bound to   *)
(* DingTalk if one of his was, unless two of his were bound already or one  *)
(* did not have his name: syncKeycloakUsers finds, merges and renames what  *)
(* logins, administrators and failing passes have made.                     *)
OneAccountEach == [][part = "people" => OneAccountEachStep]_directoryVars

=============================================================================
