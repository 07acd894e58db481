------------------------------ MODULE CloudSync ------------------------------
(***************************************************************************)
(* The tables of assets and those who write them: the synchronisation with  *)
(* the public clouds (cron/sync_cloud*.go), the reports of the agents       *)
(* (rpc/info_report.go), the machines that a work order buys                *)
(* (cron/auto_order.go) and, through ServiceTree, the people who bind       *)
(* assets to the tree.                                                      *)
(*                                                                         *)
(* An asset is its address, with one number for all else that a hash is     *)
(* made of; tags and times are left out.  A DNS record is bound to one      *)
(* address at a time.  The disks and EIPs of an account fit on one page,    *)
(* and no two assets have one hash.                                         *)
(*                                                                         *)
(* Databases and DNS records may come to have two rows: their ids are not   *)
(* unique in the tables.  What is bound to a node is the first row; a third *)
(* is left out, which is a bound of the model.                              *)
(***************************************************************************)
EXTENDS ServiceTree

CONSTANTS
  CloudInstances, (* the ids that the clouds give: never used twice         *)
  VendorOf(_), (* "aliyun" or "aws": each is one account                    *)
  FoundAt(_),  (* the address of each instance and record in the beginning, *)
               (* "unborn" or "blank" without one                           *)
  PageSize,    (* 100: Aliyun is asked for one page only                    *)
  Hosts,       (* the serial numbers of the machines with an agent          *)
  HostIp(_),   (* the address such a machine reports                        *)
  Purchases,   (* the machines that work orders buy                         *)
  OrderIp(_),  (* the address such a machine is given                       *)
  Records,     (* the DNS records                                           *)
  Hyphened,    (* those whose name contains a hyphen                        *)
  Ips,         (* the addresses                                             *)
  PartOf,      (* pairs of addresses: the first is a part of the text of    *)
               (* the second, as "10.0.0.1" is of "10.0.0.10"               *)
  MaxCloudChanges, (* bound: the changes in the clouds and the zones        *)
  MaxFaults    (* bound: the calls that fail                                *)

Blank == "blank"
AssetKinds == {"ecs", "elb", "rds"}
Accounts == {"aliyun", "aws"}

(* The ids that a cloud gives, serial numbers and the ids that orders make  *)
(* up do not coincide.                                                      *)
ASSUME CloudSyncAssumption ==
  /\ Assets = CloudInstances \cup Hosts \cup Purchases \cup Records
  /\ CloudInstances \cap Hosts = {} /\ CloudInstances \cap Purchases = {}
  /\ Hosts \cap Purchases = {}
  /\ \A i \in CloudInstances : KindOfAsset(i) \in AssetKinds /\ VendorOf(i) \in Accounts
  /\ \A s \in Hosts : KindOfAsset(s) = "ecs" /\ HostIp(s) \in Ips
  /\ \A o \in Purchases : KindOfAsset(o) = "ecs" /\ OrderIp(o) \in Ips
  /\ \A n \in Records : KindOfAsset(n) = "dns"
  /\ \A i \in CloudInstances : FoundAt(i) \in Ips \cup {"unborn"}
  /\ \A n \in Records : FoundAt(n) \in Ips \cup {Blank}
  /\ Hyphened \subseteq Records
  /\ Ips \cap {Blank, "unborn", "gone"} = {} /\ Blank \notin Assets
  /\ PartOf \subseteq Ips \X Ips /\ IsFiniteSet(CloudInstances)
  /\ PageSize \in Nat \ {0} /\ MaxCloudChanges \in Nat /\ MaxFaults \in Nat

VARIABLES
  cloud,   (* the address of each instance; "unborn" and "gone" without one *)
  spec,    (* what else counts as a change: its class, version and status   *)
  zone,    (* the address each DNS record points to at the provider         *)
  row,     (* the first row of each asset, if it is in rows                 *)
  later,   (* its second row, if it has two                                 *)
  link,    (* associated_instance_id of each DNS record, in its first row   *)
  order,   (* how far a work order is with each machine                     *)
  stage,   (* what RunSyncCloudResource is at                               *)
  pass,    (* the local variables of RunSyncCloudResource{Ecs,Elb,Rds}      *)
  dns,     (* and of RunSyncCloudResourceDns                                *)
  quiet,   (* has nothing happened or failed since the pass began, with one *)
           (* row of each asset?                                            *)
  cloudChanges, (* bound: the changes so far                                *)
  faults   (* bound: the calls that failed so far                           *)

worldVars == <<cloud, spec, zone, cloudChanges>>
boundVars == <<quiet, faults>>
syncVars  == <<stage, pass, dns>>
rowVars   == <<rows, row, later, link, bound, req>>
cloudVars == <<treeVars, row, later, link, order, worldVars, syncVars, boundVars>>

Up(i) == cloud[i] \in Ips

Fault == faults < MaxFaults /\ faults' = faults + 1 /\ quiet' = FALSE

Hash(ip, s) == [ip |-> ip, spec |-> s]

NoRow == [vendor |-> Blank, vm |-> 0, ip |-> Blank, hash |-> Hash(Blank, 0)]

NoLater == [row |-> NoRow, link |-> Blank]

Twice(u) == later[u] # NoLater

(* A map that says nothing of any asset.                                    *)
Empty == [u \in {} |-> NoRow]

PutRow(f, g) == [u \in DOMAIN f \cup DOMAIN g |->
                IF u \in DOMAIN g THEN g[u] ELSE f[u]]

(* short is no variable of the code: the accounts whose answers are known    *)
(* to lack instances, or may.                                               *)
NoPass == [pc |-> "none", db |-> Empty, all |-> Empty,
           add |-> {}, mod |-> {}, del |-> {}, short |-> {}]

NoDns == [pc |-> "none", db |-> Empty, all |-> Empty,
          add |-> {}, mod |-> {}, del |-> {}, unlinked |-> {}]

-----------------------------------------------------------------------------
(* the tables                                                               *)

Rows(k) == {u \in rows : KindOfAsset(u) = k}

(* The hash of the fields that count as a change.  The host of a database   *)
(* is not among them.                                                       *)
GenHash(k, ip, s) == Hash(IF k = "rds" THEN Blank ELSE ip, s)

CloudRow(i, ip, s) == [vendor |-> VendorOf(i), vm |-> 1, ip |-> ip,
                       hash |-> GenHash(KindOfAsset(i), ip, s)]

(* LIKE '%ip%'                                                              *)
Like(ip, v) == v # Blank /\ (ip = v \/ <<ip, v>> \in PartOf)

(* The rows a query for an address may return the first of.                 *)
ByIp(k, ip) ==
  {u \in Rows(k) : Like(ip, row[u].ip) \/ Like(ip, later[u].row.ip)}

(* A map of the rows by id has the hash of the row that comes last.         *)
HashOf(u) == IF Twice(u) THEN later[u].row.hash ELSE row[u].hash

(* A mutant of GetResourceEcsUidAndHash: the machines of agents as well.    *)
GetResourceEcsUidAndHashAll == [u \in Rows("ecs") |-> row[u].hash]

(* The ids and hashes of the virtual machines, which agents are not on.     *)
GetResourceEcsUidAndHash ==
  [u \in {v \in Rows("ecs") : row[v].vm = 1} |-> row[u].hash]

GetUidAndHash(k) ==
  IF k = "ecs" THEN GetResourceEcsUidAndHash
  ELSE [u \in Rows(k) |-> HashOf(u)]

(* Machines first, then balancers, then databases; a query that fails has   *)
(* found nothing.                                                           *)
associateDnsWithAsset(v, answering) ==
  LET Found(k) == IF k \in answering THEN ByIp(k, v) ELSE {}
  IN  CASE Found("ecs") # {} -> Found("ecs")
        [] Found("ecs") = {} /\ Found("elb") # {} -> Found("elb")
        [] Found("ecs") = {} /\ Found("elb") = {} /\ Found("rds") # {} -> Found("rds")
        [] OTHER -> {Blank}

-----------------------------------------------------------------------------
CloudTypeOK ==
  /\ TreeTypeOK
  /\ cloud \in [CloudInstances -> Ips \cup {"unborn", "gone"}]
  /\ zone \in [Records -> Ips \cup {Blank}]
  /\ \A u \in rows : row[u].ip \in Ips \cup {Blank}
  /\ \A u \in rows \cap Hosts : row[u].vendor = "self" /\ row[u].vm = 2
  /\ \A u \in rows \cap CloudInstances : row[u].vendor = VendorOf(u) /\ row[u].vm = 1
  /\ \A u \in Assets \ rows : row[u] = NoRow
  /\ \A u \in Assets : Twice(u) => u \in rows /\ KindOfAsset(u) \in {"rds", "dns"}
  /\ spec \in [CloudInstances -> {1, 2}]
  /\ link \in [Records -> Assets \cup {Blank}]
  /\ \A n \in Records : link[n] # Blank => n \in rows
  /\ order \in [Purchases -> {"pending", "done"}]
  /\ stage \in {"idle", "base", "dns"}
  /\ \A k \in AssetKinds :
       /\ pass[k].pc \in {"none", "read", "fetch", "save"}
       /\ pass[k].pc = "none" <=> stage # "base"
       /\ pass[k].add \cup pass[k].mod \subseteq DOMAIN pass[k].all
       /\ pass[k].short \subseteq Accounts
  /\ dns.pc \in {"none", "fetch", "save", "link"}
  /\ dns.pc = "none" <=> stage # "dns"
  /\ quiet \in BOOLEAN
  /\ cloudChanges \in 0 .. MaxCloudChanges /\ faults \in 0 .. MaxFaults

CloudInit ==
  /\ TreeInit
  /\ cloud = [i \in CloudInstances |-> FoundAt(i)]
  /\ spec = [i \in CloudInstances |-> 1]
  /\ zone = [n \in Records |-> FoundAt(n)]
  /\ row = [u \in Assets |-> NoRow]
  /\ later = [u \in Assets |-> NoLater]
  /\ link = [n \in Records |-> Blank]
  /\ order = [o \in Purchases |-> "pending"]
  /\ stage = "idle"
  /\ pass = [k \in AssetKinds |-> NoPass]
  /\ dns = NoDns
  /\ quiet = FALSE
  /\ cloudChanges = 0 /\ faults = 0

-----------------------------------------------------------------------------
(* the world                                                                *)

CloudChange == cloudChanges < MaxCloudChanges /\ cloudChanges' = cloudChanges + 1 /\ quiet' = FALSE

(* An instance is bought, gets another address or is released.  A load      *)
(* balancer keeps its address.  Or its class or status changes.             *)
CloudChanges(i, ip) ==
  /\ CloudChange
  /\ \/ cloud[i] = "unborn" /\ ip \in Ips
     \/ Up(i) /\ ip \in Ips \ {cloud[i]} /\ KindOfAsset(i) # "elb"
     \/ Up(i) /\ ip = "gone"
  /\ cloud' = [cloud EXCEPT ![i] = ip]
  /\ UNCHANGED <<treeVars, row, later, link, order, spec, zone, syncVars, faults>>

SpecChanges(i) ==
  /\ CloudChange
  /\ Up(i)
  /\ spec' = [spec EXCEPT ![i] = 3 - @]
  /\ UNCHANGED <<treeVars, row, later, link, order, cloud, zone, syncVars, faults>>

ZoneChanges(n, ip) ==
  /\ CloudChange
  /\ ip # zone[n]
  /\ zone' = [zone EXCEPT ![n] = ip]
  /\ UNCHANGED <<treeVars, row, later, link, order, cloud, spec, syncVars, faults>>

-----------------------------------------------------------------------------
(* the agents                                                               *)

SelfRow(s) == [vendor |-> "self", vm |-> 2, ip |-> HostIp(s), hash |-> Hash(HostIp(s), 0)]

(* GetResourceEcsBySnOrIP: the row of the serial number, else the first one *)
(* whose addresses contain the address; none: a new machine.                *)
GetResourceEcsBySnOrIP(s) == IF s \in rows THEN {s} ELSE ByIp("ecs", HostIp(s))

(* A new machine is registered.  A machine of a cloud only has its          *)
(* heartbeat noted.  A row found by address under another serial number is  *)
(* left alone: the update asks for both keys.  The row of a serial number   *)
(* is written by nobody else, so the query and the update are one step.     *)
AgentInfoReport(s) ==
  /\ GetResourceEcsBySnOrIP(s) \in {{}, {s}}
  /\ row[s] # SelfRow(s)
  /\ rows' = rows \cup {s}
  /\ row' = [row EXCEPT ![s] = SelfRow(s)]
  /\ quiet' = FALSE
  /\ UNCHANGED <<born, nodes, pid, bound, req, later, link, order, worldVars,
                 syncVars, faults>>

-----------------------------------------------------------------------------
(* the work orders                                                          *)

OrderRow(o) == [vendor |-> Blank, vm |-> 1, ip |-> OrderIp(o), hash |-> Hash(OrderIp(o), 0)]

(* The node of the order's title, if there is one.                          *)
autoBindToStreeNode(title) == title \cap nodes

(* The machine is entered as one of a cloud and bound to the node that the  *)
(* order names.  Until it is bound nobody has a use for it: one step.       *)
RunAutoOrderOneByEcs(o, title) ==
  /\ order[o] = "pending"
  /\ order' = [order EXCEPT ![o] = "done"]
  /\ rows' = rows \cup {o}
  /\ row' = [row EXCEPT ![o] = OrderRow(o)]
  /\ bound' = [bound EXCEPT ![o] = autoBindToStreeNode(title)]
  /\ quiet' = FALSE
  /\ UNCHANGED <<born, nodes, pid, req, later, link, worldVars, syncVars, faults>>

-----------------------------------------------------------------------------
(* the machines, load balancers and databases of the clouds                 *)

(* A pass begins: three goroutines.                                         *)
RunSyncCloudResource ==
  /\ stage = "idle"
  /\ stage' = "base"
  /\ pass' = [k \in AssetKinds |-> [NoPass EXCEPT !.pc = "read"]]
  /\ quiet' = \A u \in Assets : ~Twice(u)
  /\ UNCHANGED <<treeVars, row, later, link, order, worldVars, dns, faults>>

(* Each reads what is in the database first.  If it cannot, it goes on as   *)
(* if that were nothing.                                                    *)
ReadUids(k) ==
  /\ pass[k].pc = "read"
  /\ \/ /\ pass' = [pass EXCEPT ![k].pc = "fetch", ![k].db = GetUidAndHash(k)]
        /\ UNCHANGED boundVars
     \/ /\ Fault
        /\ pass' = [pass EXCEPT ![k].pc = "fetch"]
  /\ UNCHANGED <<treeVars, row, later, link, order, worldVars, stage, dns>>

Listed(k, a) == {i \in CloudInstances : KindOfAsset(i) = k /\ VendorOf(i) = a /\ Up(i)}

(* What one page may hold.                                                  *)
FirstPage(S) ==
  {T \in SUBSET S : Cardinality(T) <= PageSize
                    /\ (T # S => Cardinality(T) = PageSize)}

(* Of a machine or a balancer it may be unknown of which account it is, or  *)
(* which disks it has: the hash is another.  Of a machine of Aliyun that    *)
(* has its address as an EIP of a second network card, and of a database,   *)
(* the address may be unknown.                                              *)
SpecIf(i, known) == IF known THEN spec[i] ELSE 0
ConvertEcsCloudAli(i, ip, known) == CloudRow(i, ip, SpecIf(i, known))
ConvertEc2CloudAws(i, known) == CloudRow(i, cloud[i], SpecIf(i, known))
ConvertLbCloudAli(i, known)  == CloudRow(i, cloud[i], SpecIf(i, known))
ConvertElbCloudAws(i, known) == CloudRow(i, cloud[i], SpecIf(i, known))
ConvertRdsCloudAli(i, host) == CloudRow(i, host, spec[i])
ConvertRdsCloudAws(i) == CloudRow(i, cloud[i], spec[i])

(* The addresses, all but those that could not be asked for.                *)
AddressBut(H, i) == IF i \in H THEN Blank ELSE cloud[i]

(* The answers of an account, in good order or after an error.  Machines:   *)
(* a page, or all of AWS; or none.  The lists of addresses, disks and       *)
(* classes, and the account's number, are asked for before: without them    *)
(* the machines are stored as they are known.                               *)
RunSyncOneCloudEcsAli(ok) ==
  LET T == Listed("ecs", "aliyun")
      Known(S, H, all) == [i \in S |-> ConvertEcsCloudAli(i, AddressBut(H, i), all)]
  IN  IF ok THEN {Known(S, {}, TRUE) : S \in FirstPage(T)}
      ELSE {Empty} \cup {Known(S, H, all) : S \in FirstPage(T), H \in SUBSET T, all \in BOOLEAN}

RunSyncOneCloudEc2Aws(ok) ==
  LET Known(all) == [i \in Listed("ecs", "aws") |-> ConvertEc2CloudAws(i, all)]
  IN  IF ok THEN {Known(TRUE)} ELSE {Empty, Known(FALSE)}

(* Load balancers: each product, or page, is asked for on its own, so that  *)
(* an error leaves some.                                                    *)
RunSyncOneCloudElbAli(ok) ==
  LET T == Listed("elb", "aliyun")
  IN  IF ok THEN {[i \in S |-> ConvertLbCloudAli(i, TRUE)] : S \in FirstPage(T)}
      ELSE {[i \in S |-> ConvertLbCloudAli(i, all)] : S \in SUBSET T, all \in BOOLEAN}

RunSyncOneCloudElbAws(ok) ==
  LET T == Listed("elb", "aws")
  IN  IF ok THEN {[i \in T |-> ConvertElbCloudAws(i, TRUE)]}
      ELSE {[i \in S |-> ConvertElbCloudAws(i, all)] : S \in SUBSET T, all \in BOOLEAN}

(* Databases: Aliyun is asked for the address of each one; if that fails    *)
(* the database is stored without.                                          *)
RunSyncOneCloudRdsAli(ok) ==
  LET T == Listed("rds", "aliyun")
      Without(S, H) == [i \in S |-> ConvertRdsCloudAli(i, AddressBut(H, i))]
  IN  IF ok THEN {Without(S, {}) : S \in FirstPage(T)}
      ELSE {Empty} \cup {Without(S, H) : S \in FirstPage(T), H \in SUBSET T}

RunSyncOneCloudRdsAws(ok) ==
  {[i \in T |-> ConvertRdsCloudAws(i)] :
     T \in IF ok THEN {Listed("rds", "aws")} ELSE SUBSET Listed("rds", "aws")}

Answers(k, a, ok) ==
  CASE k = "ecs" /\ a = "aliyun" -> RunSyncOneCloudEcsAli(ok)
    [] k = "ecs" /\ a = "aws"    -> RunSyncOneCloudEc2Aws(ok)
    [] k = "elb" /\ a = "aliyun" -> RunSyncOneCloudElbAli(ok)
    [] k = "elb" /\ a = "aws"    -> RunSyncOneCloudElbAws(ok)
    [] k = "rds" /\ a = "aliyun" -> RunSyncOneCloudRdsAli(ok)
    [] k = "rds" /\ a = "aws"    -> RunSyncOneCloudRdsAws(ok)

(* Aliyun's list is longer than the page.                                   *)
Cut(k) == IF Cardinality(Listed(k, "aliyun")) > PageSize THEN {"aliyun"} ELSE {}

(* What differs: new ids, other hashes, ids that the clouds no longer give. *)
Differences(p) ==
  [p EXCEPT !.add = DOMAIN p.all \ DOMAIN p.db,
            !.mod = {u \in DOMAIN p.all \cap DOMAIN p.db : p.all[u].hash # p.db[u]},
            !.del = DOMAIN p.db \ DOMAIN p.all]

(* The accounts are asked at the same time.  They have no instance in       *)
(* common, so that it makes no difference when each answers: one step, with *)
(* the comparison.  A second account that fails is a second fault.          *)
Fetch(k) ==
  /\ pass[k].pc = "fetch"
  /\ \E failed \in SUBSET Accounts :
       /\ faults + Cardinality(failed) <= MaxFaults
       /\ faults' = faults + Cardinality(failed)
       /\ quiet' = (quiet /\ failed = {})
       /\ \E f \in Answers(k, "aliyun", "aliyun" \notin failed),
            g \in Answers(k, "aws", "aws" \notin failed) :
            pass' = [pass EXCEPT ![k] =
                       Differences([@ EXCEPT !.pc = "save", !.all = PutRow(f, g),
                                             !.short = failed \cup Cut(k)])]
  /\ UNCHANGED <<treeVars, row, later, link, order, worldVars, stage, dns>>

Saved(k) == pass[k].pc = "save" /\ pass[k].add \cup pass[k].mod \cup pass[k].del = {}

(* The differences are saved one by one; an error is only logged.  The id   *)
(* of a row that is there already is refused, but that of a database is     *)
(* not: its hash is, so that one that has changed gets a second row.        *)
CreateRow(k, u) ==
  /\ pass[k].pc = "save" /\ u \in pass[k].add
  /\ pass' = [pass EXCEPT ![k].add = @ \ {u}]
  /\ LET new == pass[k].all[u]
         refused == k = "rds" => row[u].hash = new.hash \/ Twice(u)
     IN  \/ /\ u \notin rows
            /\ rows' = rows \cup {u}
            /\ row' = [row EXCEPT ![u] = new]
            /\ UNCHANGED <<later, boundVars>>
         \/ u \in rows /\ refused /\ UNCHANGED <<rows, row, later, boundVars>>
         \/ /\ u \in rows /\ ~refused
            /\ later' = [later EXCEPT ![u] = [NoLater EXCEPT !.row = new]]
            /\ UNCHANGED <<rows, row, boundVars>>
         \/ Fault /\ UNCHANGED <<rows, row, later>>
  /\ UNCHANGED <<born, nodes, pid, bound, req, link, order, worldVars, stage, dns>>

(* The rows of the id are updated at once.  Two cannot have one hash: they  *)
(* stay as they are.                                                        *)
UpdateRow(k, u) ==
  /\ pass[k].pc = "save" /\ pass[k].add = {} /\ u \in pass[k].mod
  /\ pass' = [pass EXCEPT ![k].mod = @ \ {u}]
  /\ \/ /\ u \in rows /\ ~Twice(u)
        /\ row' = [row EXCEPT ![u] = pass[k].all[u]]
        /\ UNCHANGED boundVars
     \/ (u \notin rows \/ Twice(u)) /\ UNCHANGED <<row, boundVars>>
     \/ Fault /\ UNCHANGED row
  /\ UNCHANGED <<treeVars, later, link, order, worldVars, stage, dns>>

(* The first row of the id is deleted.                                      *)
DeleteFirst(u) ==
  /\ DropRow(u, Twice(u))
  /\ row' = [row EXCEPT ![u] = later[u].row]
  /\ link' = [n \in Records |-> IF n = u THEN later[n].link ELSE link[n]]
  /\ later' = [later EXCEPT ![u] = NoLater]

RemoveRow(k, u) ==
  /\ pass[k].pc = "save" /\ pass[k].add = {} /\ pass[k].mod = {}
  /\ u \in pass[k].del
  /\ pass' = [pass EXCEPT ![k].del = @ \ {u}]
  /\ \/ DeleteFirst(u) /\ UNCHANGED boundVars
     \/ Fault /\ UNCHANGED rowVars
  /\ UNCHANGED <<born, nodes, pid, order, worldVars, stage, dns>>

-----------------------------------------------------------------------------
(* the DNS records, when the three are done                                 *)

(* A mutant: nobody waits for the three.                                    *)
RunSyncCloudResourceDnsAtOnce ==
  /\ stage = "base"
  /\ stage' = "dns"
  /\ dns' = [NoDns EXCEPT !.pc = "fetch", !.db = GetUidAndHash("dns")]
  /\ UNCHANGED <<treeVars, row, later, link, order, worldVars, pass, boundVars>>

RunSyncCloudResourceDns ==
  /\ stage = "base"
  /\ \A k \in AssetKinds : Saved(k)
  /\ pass' = [k \in AssetKinds |-> NoPass]
  /\ \/ /\ stage' = "dns"
        /\ dns' = [NoDns EXCEPT !.pc = "fetch", !.db = GetUidAndHash("dns")]
        /\ UNCHANGED boundVars
     \/ Fault /\ stage' = "idle" /\ UNCHANGED dns
  /\ UNCHANGED <<treeVars, row, later, link, order, worldVars>>

DnsRow(n) == [vendor |-> "godaddy", vm |-> 0, ip |-> zone[n], hash |-> Hash(zone[n], 0)]

(* The records of the domain; an error counts as none.                      *)
RunSyncOneDomainGodaddy(ok) ==
  [n \in {m \in Records : ok /\ zone[m] # Blank} |-> DnsRow(n)]

FetchDns ==
  /\ dns.pc = "fetch"
  /\ \E ok \in BOOLEAN :
       /\ dns' = Differences([dns EXCEPT !.pc = "save",
                                         !.all = RunSyncOneDomainGodaddy(ok)])
       /\ IF ok THEN UNCHANGED boundVars ELSE Fault
  /\ UNCHANGED <<treeVars, row, later, link, order, worldVars, stage, pass>>

(* A record is looked up among the assets and saved, over its first row or  *)
(* as a new one: also when the query for the first row failed.              *)
WriteRecord(n, answering, second) ==
  \E u \in associateDnsWithAsset(dns.all[n].ip, answering) :
    IF second
    THEN /\ later' = [later EXCEPT ![n] = [row |-> dns.all[n], link |-> u]]
         /\ UNCHANGED <<rows, row, link>>
    ELSE /\ rows' = rows \cup {n}
         /\ row' = [row EXCEPT ![n] = dns.all[n]]
         /\ link' = [link EXCEPT ![n] = u]
         /\ UNCHANGED later

SaveRecord(n) ==
  /\ dns.pc = "save" /\ n \in dns.add \cup dns.mod
  /\ n \in dns.mod => dns.add = {}
  /\ dns' = [dns EXCEPT !.add = @ \ {n}, !.mod = @ \ {n}]
  /\ \/ WriteRecord(n, AssetKinds, FALSE) /\ UNCHANGED boundVars
     \/ Fault /\ \E k \in AssetKinds : WriteRecord(n, AssetKinds \ {k}, FALSE)
     \/ Fault /\ n \in dns.mod \cap rows /\ ~Twice(n) /\ WriteRecord(n, AssetKinds, TRUE)
     \/ Fault /\ UNCHANGED <<rows, row, later, link>>
  /\ UNCHANGED <<born, nodes, pid, bound, req, order, worldVars, stage, pass>>

(* Records that are gone are deleted, but not one with a hyphen in its      *)
(* name, whose key falls into too many parts, nor one bound to a node,      *)
(* which the foreign key of the join table keeps (Delete without            *)
(* clause.Associations).                                                    *)
DeleteRecord(n) ==
  /\ dns.pc = "save" /\ dns.add \cup dns.mod = {} /\ n \in dns.del
  /\ dns' = [dns EXCEPT !.del = @ \ {n}]
  /\ \/ n \notin Hyphened /\ bound[n] = {} /\ DeleteFirst(n) /\ UNCHANGED boundVars
     \/ (n \in Hyphened \/ bound[n] # {}) /\ UNCHANGED <<rowVars, boundVars>>
     \/ Fault /\ UNCHANGED rowVars
  /\ UNCHANGED <<born, nodes, pid, order, worldVars, stage, pass>>

(* The rows of records without an asset are looked up once more.            *)
Unlinked ==
  /\ dns.pc = "save" /\ dns.add \cup dns.mod \cup dns.del = {}
  /\ dns' = [dns EXCEPT !.pc = "link",
               !.unlinked = {n \in Rows("dns") :
                               link[n] = Blank \/ (Twice(n) /\ later[n].link = Blank)}]
  /\ UNCHANGED <<treeVars, row, later, link, order, worldVars, stage, pass, boundVars>>

LinkRows(n, answering) ==
  /\ \E u \in associateDnsWithAsset(row[n].ip, answering) :
       link' = IF link[n] = Blank THEN [link EXCEPT ![n] = u] ELSE link
  /\ \E u \in associateDnsWithAsset(later[n].row.ip, answering) :
       later' = IF Twice(n) /\ later[n].link = Blank
                THEN [later EXCEPT ![n].link = u] ELSE later

LinkRecord(n) ==
  /\ dns.pc = "link" /\ n \in dns.unlinked
  /\ dns' = [dns EXCEPT !.unlinked = @ \ {n}]
  /\ \/ LinkRows(n, AssetKinds) /\ UNCHANGED boundVars
     \/ Fault /\ \E k \in AssetKinds : LinkRows(n, AssetKinds \ {k})
     \/ Fault /\ UNCHANGED <<link, later>>
  /\ UNCHANGED <<treeVars, row, order, worldVars, stage, pass>>

PassEnds ==
  /\ dns.pc = "link" /\ dns.unlinked = {}
  /\ stage' = "idle" /\ dns' = NoDns
  /\ UNCHANGED <<treeVars, row, later, link, order, worldVars, pass, boundVars>>

-----------------------------------------------------------------------------
SyncNext ==
  \/ RunSyncCloudResource
  \/ \E k \in AssetKinds : ReadUids(k) \/ Fetch(k)
  \/ \E k \in AssetKinds, u \in Assets :
       CreateRow(k, u) \/ UpdateRow(k, u) \/ RemoveRow(k, u)
  \/ RunSyncCloudResourceDns \/ FetchDns
  \/ \E n \in Records : SaveRecord(n) \/ DeleteRecord(n) \/ LinkRecord(n)
  \/ Unlinked \/ PassEnds

CloudNext ==
  \/ \E i \in CloudInstances, ip \in Ips \cup {"gone"} : CloudChanges(i, ip)
  \/ \E i \in CloudInstances : SpecChanges(i)
  \/ \E n \in Records, ip \in Ips \cup {Blank} : ZoneChanges(n, ip)
  \/ \E s \in Hosts : AgentInfoReport(s)
  \/ \E o \in Purchases, n \in TreeNodes : RunAutoOrderOneByEcs(o, {n})
  \/ SyncNext
  \/ /\ TreeNext
     /\ quiet' = (quiet /\ \A n \in Records : bound[n] # {} => bound'[n] # {})
     /\ UNCHANGED <<row, later, link, order, worldVars, syncVars, faults>>

CloudSpec == CloudInit /\ [][CloudNext]_cloudVars

-----------------------------------------------------------------------------
(* properties                                                               *)

(* The pass is about to delete u, which no cloud has given or a cloud has   *)
(* no more, or which is of an account that did not tell of all it has.      *)
Missed(u) ==
  /\ KindOfAsset(u) \in AssetKinds /\ u \in pass[KindOfAsset(u)].del
  /\ u \in CloudInstances =>
       ~Up(u) \/ VendorOf(u) \in pass[KindOfAsset(u)].short

(* A request replaces the nodes of u without n: it takes n away, or it read *)
(* them before n was bound.                                                 *)
Released(u, n) ==
  \E r \in TreeRequests :
    /\ req[r].asset = u /\ req'[r] = Ended
    /\ n \notin thisNode(req[r])

(* What is bound stays bound.  Whatever the clouds, the agents, the work    *)
(* orders and the people do at the same time, and whichever queries fail,   *)
(* an asset loses a node only with the node itself, or to a request that    *)
(* takes it away or that had read the nodes before it was bound, or to a    *)
(* pass that missed it.                                                     *)
BindingsSurviveStep ==
  \A u \in Assets : \A n \in bound[u] :
    n \notin bound'[u] =>
      n \notin nodes' \/ Released(u, n) \/ (u \notin Hosts /\ Missed(u))

BindingsSurvive == [][BindingsSurviveStep]_cloudVars

Settled(n) == n \in rows /\ (n \in Hyphened \/ bound[n] # {})

(* The tables show what the clouds have, or a full page of it, as it is     *)
(* (but for the addresses of databases), and each DNS record; and every     *)
(* record that points to a known address is linked.  Records that the code  *)
(* never deletes are left out.                                              *)
Converged ==
  /\ \A k \in AssetKinds, a \in Accounts :
       rows \cap {i \in CloudInstances : KindOfAsset(i) = k /\ VendorOf(i) = a}
         \in IF a = "aliyun" THEN FirstPage(Listed(k, a)) ELSE {Listed(k, a)}
  /\ \A i \in rows \cap CloudInstances :
       /\ row[i].hash = GenHash(KindOfAsset(i), cloud[i], spec[i])
       /\ KindOfAsset(i) # "rds" => row[i].ip = cloud[i]
  /\ \A n \in Records :
       /\ zone[n] # Blank => n \in rows /\ row[n].ip = zone[n]
       /\ n \in rows /\ zone[n] = Blank => Settled(n)
       /\ n \in rows /\ link[n] = Blank =>
            associateDnsWithAsset(row[n].ip, AssetKinds) = {Blank}

(* One pass during which nothing happens and no call fails is enough,       *)
(* whatever earlier passes left behind when they failed half-way, but for   *)
(* second rows, which no pass sets right.  That a record loses its last     *)
(* node, which may be what kept it from being deleted, is something that    *)
(* happens.                                                                 *)
CleanPassConvergesStep ==
  PassEnds /\ quiet => Converged

CleanPassConverges == [][CleanPassConvergesStep]_cloudVars
=============================================================================
