---------------------------- MODULE MonitorConfig ----------------------------
(***************************************************************************)
(* The configuration files that the console computes for Prometheus and     *)
(* the Alertmanager: the four goroutines of MonitorCache (cache/monitor_..), *)
(* each of which reads the tables row by row while people edit them         *)
(* (web/view_server/api_monitor_prom_*.go, api_monitor_alertm_pool.go,      *)
(* api_monitor_alertm_sendgroup.go), and replaces what it serves.           *)
(*                                                                         *)
(* A file is what it tells a machine to do: the part of the targets it      *)
(* scrapes, the jobs, rules or send groups in it, and, for each place where *)
(* a secret belongs, whose it should be and whose it is.  Rows are read in  *)
(* the order of their ids.  A request on a single row whose check changes   *)
(* nothing about its write is one step.                                     *)
(***************************************************************************)
EXTENDS Naturals, FiniteSets, Sequences
Seqs == INSTANCE SequencesExt

CONSTANTS
  Pools,            (* the pools of instances there may be                  *)
  PoolTypeOf(_),    (* "scrape" or "alertm": the table a pool is in         *)
  PoolForms(_),     (* the instances and the files a pool may have; a row   *)
                    (* without instances is read with a blank one           *)
  Items,            (* the ids of the rows in the tables of a pool          *)
  ItemTypeOf(_),    (* the file that such a row goes into                   *)
  JobForms(_),      (* the way of discovery a job may have, and whether its *)
                    (* row has a token                                      *)
  MonitorRequests,  (* the requests that may be in progress at once         *)
  MaxTableEdits,    (* bound: the writes to the tables                      *)
  MonitorFaults     (* "db": a query fails                                  *)

Files == {"main", "alert", "record", "alertmanager"}

ASSUME MonitorConfigAssumption ==
  /\ Items \subseteq Nat /\ Pools \subseteq Nat /\ IsFiniteSet(Items \cup Pools)
  /\ \A p \in Pools : PoolTypeOf(p) \in {"scrape", "alertm"}
  /\ \A i \in Items : ItemTypeOf(i) \in Files
  /\ \A p \in Pools : \A form \in PoolForms(p) :
       /\ form.ips \in Seq(Seqs!Range(form.ips)) \ {<<>>}
       /\ form.supports \subseteq IF PoolTypeOf(p) = "scrape" THEN {"alert", "record"} ELSE {}
  /\ \A i \in Items : ItemTypeOf(i) = "main" =>
       JobForms(i) \subseteq
         [sd : {"http", "apiserver", "kubeconfig", "tokenfile"}, token : BOOLEAN]
  /\ MonitorFaults \subseteq {"db"} /\ MaxTableEdits \in Nat

Machines == UNION {UNION {Seqs!Range(form.ips) : form \in PoolForms(p)} : p \in Pools}

VARIABLES
  pools,   (* the rows of the pools                                         *)
  items,   (* the rows of jobs, rules and send groups                       *)
  served,  (* PrometheusMainConfigMap, AlertRuleMap, RecordRuleMap and      *)
           (* AlertManagerMainConfigMap                                     *)
  gen,     (* the local variables of the goroutine of each file             *)
  calm,    (* has nothing changed or failed since it read the pools?        *)
  monReq,  (* the requests between their check and their write              *)
  tableEdits (* bound: the writes to the tables so far                      *)

monitorVars == <<pools, items, served, gen, calm, monReq, tableEdits>>

-----------------------------------------------------------------------------
(* An id is given once: a row is in one of three states.                    *)
There(row) == row.state = "there"

NoPool == [state |-> "unborn", ips |-> <<>>, supports |-> {}]
NoItem == [state |-> "unborn", pool |-> 0, on |-> FALSE, sd |-> "none",
           token |-> FALSE, group |-> 0]

NoFile == [part |-> <<0, 0>>, items |-> <<>>, secrets |-> <<>>]
NoFiles == [ip \in Machines |-> NoFile]

IdleGenerator == [pc |-> "idle", todo |-> <<>>, rows |-> <<>>, at |-> 1, files |-> NoFiles]

NoMonReq == [pc |-> "idle", id |-> 0, row |-> NoPool]

PoolTypeOfFile(f) == IF f = "alertmanager" THEN "alertm" ELSE "scrape"

(* GetMonitorPromScrapePoolAll, ...SupportAlertAll, ...SupportRecordAll and *)
(* GetMonitorAlertManagerPoolAll.                                           *)
PoolsFor(f) ==
  {p \in Pools :
     /\ There(pools[p]) /\ PoolTypeOf(p) = PoolTypeOfFile(f)
     /\ f \in {"alert", "record"} => f \in pools[p].supports}

(* GetMonitorPromScrapeJobByPoolId, GetMonitorPromAlertRuleByPoolId,        *)
(* GetMonitorPromRecordRuleByPoolId, GetMonitorAlertManagerSendGroupByPoolId*)
ItemsOf(p, f) ==
  {i \in Items : There(items[i]) /\ items[i].on
                 /\ items[i].pool = p /\ ItemTypeOf(i) = f}

(* The ids in S by size: as many are smaller than the k-th as come before.  *)
Sorted(S) ==
  [k \in 1..Cardinality(S) |-> CHOOSE n \in S : Cardinality({m \in S : m < n}) = k - 1]

Times(n, x) == [k \in 1..n |-> x]

(* How often the marshaller writes <secret> for a row: for a job only if    *)
(* its discovery is by Kubernetes and it has the token itself, once for the *)
(* job, and once more for an API server; for the URL of a send group once.  *)
Masked(i) ==
  CASE ItemTypeOf(i) = "alertmanager" -> 1
    [] ~items[i].token -> 0
    [] items[i].sd = "apiserver" -> 2
    [] items[i].sd = "kubeconfig" -> 1
    [] OTHER -> 0

(* How many of them are then replaced by the secret of a row.               *)
Unmasked(i) ==
  CASE ItemTypeOf(i) = "alertmanager" -> 1
    [] ~items[i].token -> 0
    [] items[i].sd = "http" -> 1
    [] OTHER -> 2

(* The rows with a number each, and each as often as its number says.       *)
Numbered(number) ==
  LET rows == Sorted(DOMAIN number)
  IN  [k \in DOMAIN rows |-> <<rows[k], number[rows[k]]>>]

SecretPlaces(rows) == Seqs!FlattenSeq([k \in DOMAIN rows |-> Times(rows[k][2], rows[k][1])])

(* The n-th place with <secret> is given the n-th of the secrets, if there  *)
(* are so many.                                                             *)
Replace(places, secrets) ==
  [n \in 1..Len(places) |->
     <<places[n], IF n <= Len(secrets) THEN secrets[n] ELSE 0>>]

-----------------------------------------------------------------------------
(* A mutant of HashModScrapeConfig: the first instance keeps what is left.  *)
HashModFromOne(n, k) == IF n > 1 THEN <<n, k>> ELSE <<1, 0>>

(* With several instances each keeps the targets whose hash has its index   *)
(* as remainder.                                                            *)
HashModScrapeConfig(n, k) == IF n > 1 THEN <<n, k - 1>> ELSE <<1, 0>>

(* A rule goes to one of the instances, in turn.  An instance that is named *)
(* again loses what it was given before.                                    *)
GeneratePrometheusRuleConfigYamlOnePool(ips, rules, files) ==
  [ip \in Machines |->
     IF rules # <<>> /\ ip \in Seqs!Range(ips)
     THEN LET k == CHOOSE n \in DOMAIN ips :
                     ips[n] = ip /\ \A m \in DOMAIN ips : ips[m] = ip => m <= n
              mine == {j \in DOMAIN rules : (j - 1) % Len(ips) = k - 1}
          IN  [NoFile EXCEPT !.part = <<1, 0>>,
                             !.items = Sorted({rules[j] : j \in mine})]
     ELSE files[ip]]

(* Without a pool the files stay as they are.                               *)
GenerateStarts(f) ==
  /\ gen[f].pc = "idle"
  /\ PoolsFor(f) # {}
  /\ gen' = [gen EXCEPT ![f] =
       [IdleGenerator EXCEPT !.pc = "pool",
                    !.todo = LET ps == Sorted(PoolsFor(f))
                             IN  [k \in DOMAIN ps |-> <<ps[k], pools[ps[k]].ips>>]]]
  /\ calm' = [calm EXCEPT ![f] = TRUE]
  /\ UNCHANGED <<pools, items, served, monReq, tableEdits>>

QueryEnds(ok) == ok \/ "db" \in MonitorFaults

(* The rows of the next pool, and what its goroutine then has.              *)
RowsNow(f, ok) == IF ok THEN ItemsOf(Head(gen[f].todo)[1], f) ELSE {}

PoolRead(f, ok, g) ==
  /\ gen[f].pc = "pool"
  /\ gen[f].todo # <<>>
  /\ QueryEnds(ok)
  /\ gen' = [gen EXCEPT ![f] = g]
  /\ calm' = [calm EXCEPT ![f] = @ /\ ok]
  /\ UNCHANGED <<pools, items, served, monReq, tableEdits>>

ToSecrets(f, rows) ==
  [gen[f] EXCEPT !.pc = "secrets", !.at = 1, !.rows = Numbered([i \in rows |-> Masked(i)])]

(* A pool that has no jobs, or whose jobs cannot be read, is left out.      *)
GeneratePrometheusScrapeConfigYamlOnePool(ok) ==
  LET rows == RowsNow("main", ok)
  IN  PoolRead("main", ok, IF rows = {} THEN [gen["main"] EXCEPT !.todo = Tail(@)]
                                        ELSE ToSecrets("main", rows))

(* One without send groups has the routes left out.                         *)
GenerateAlertManagerRouteConfigYamlOnePool(ok) ==
  PoolRead("alertmanager", ok, ToSecrets("alertmanager", RowsNow("alertmanager", ok)))

RulesOfPool(f, ok) ==
  PoolRead(f, ok,
    [gen[f] EXCEPT
       !.todo = Tail(@),
       !.files = GeneratePrometheusRuleConfigYamlOnePool(
                   Head(gen[f].todo)[2], Sorted(RowsNow(f, ok)), @)])

GeneratePrometheusAlertRuleConfigYamlOnePool(ok)  == RulesOfPool("alert", ok)
GeneratePrometheusRecordRuleConfigYamlOnePool(ok) == RulesOfPool("record", ok)

(* The file with its places, and the secrets of the rows as they are now.   *)
WithSecrets(f, part, rows, ok) ==
  [part |-> part,
   items |-> [k \in DOMAIN rows |-> rows[k][1]],
   secrets |-> Replace(SecretPlaces(rows), SecretPlaces(Numbered([i \in RowsNow(f, ok) |-> Unmasked(i)])))]

(* For each instance of the pool the jobs are read once more.               *)
GeneratePrometheusMainConfigYaml(ok) ==
  LET g   == gen["main"]
      ips == Head(g.todo)[2]
      new == WithSecrets("main", HashModScrapeConfig(Len(ips), g.at), g.rows, ok)
      done == [g EXCEPT !.files[ips[g.at]] = new, !.at = @ + 1]
  IN  /\ g.pc = "secrets"
      /\ QueryEnds(ok)
      /\ gen' = [gen EXCEPT !["main"] =
           IF g.at = Len(ips)
           THEN [done EXCEPT !.pc = "pool", !.todo = Tail(@), !.rows = <<>>]
           ELSE done]
      /\ calm' = [calm EXCEPT !["main"] = @ /\ ok]
      /\ UNCHANGED <<pools, items, served, monReq, tableEdits>>

(* For the pool the send groups are read once more.                         *)
GenerateAlertManagerMainConfigYaml(ok) ==
  LET f   == "alertmanager"
      g   == gen[f]
      new == WithSecrets(f, <<1, 0>>, g.rows, ok)
  IN  /\ g.pc = "secrets"
      /\ QueryEnds(ok)
      /\ gen' = [gen EXCEPT ![f] =
           [g EXCEPT !.pc = "pool", !.todo = Tail(@), !.rows = <<>>,
                     !.files = [ip \in Machines |->
                                  IF ip \in Seqs!Range(Head(g.todo)[2]) THEN new ELSE @[ip]]]]
      /\ calm' = [calm EXCEPT ![f] = @ /\ ok]
      /\ UNCHANGED <<pools, items, served, monReq, tableEdits>>

(* Under the lock of the map, all of it at once.                            *)
GenerateEnds(f) ==
  /\ gen[f].pc = "pool"
  /\ gen[f].todo = <<>>
  /\ served' = [served EXCEPT ![f] = gen[f].files]
  /\ gen' = [gen EXCEPT ![f] = IdleGenerator]
  /\ UNCHANGED <<pools, items, calm, monReq, tableEdits>>

(* fetchPrometheusMainConfigYaml, fetchAlertManagerMainConfigYaml and those *)
(* of the rules: what a machine is given.                                   *)
FileFor(files, f, ip) == files[f][ip]

-----------------------------------------------------------------------------
(* People edit the tables.                                                  *)
TablesChange ==
  /\ tableEdits < MaxTableEdits
  /\ tableEdits' = tableEdits + 1
  /\ calm' = [f \in Files |-> FALSE]

PoolRows(p) ==
  {[state |-> "there", ips |-> form.ips, supports |-> form.supports] : form \in PoolForms(p)}

(* The rows of an item: a job has a discovery, an alert rule a send group.  *)
ItemRows(i) ==
  LET t     == ItemTypeOf(i)
      forms == IF t = "main" THEN JobForms(i) ELSE {[sd |-> "none", token |-> FALSE]}
  IN  {[state |-> "there", pool |-> p, on |-> on, sd |-> form.sd,
        token |-> form.token, group |-> j] :
         p \in {q \in Pools : PoolTypeOf(q) = PoolTypeOfFile(t)}, on \in BOOLEAN,
         form \in forms,
         j \in IF t = "alert" THEN {k \in Items : ItemTypeOf(k) = "alertmanager"} ELSE {0}}

CheckInstanceIpExists(p, ips) ==
  \E q \in Pools \ {p} :
    /\ There(pools[q]) /\ PoolTypeOf(q) = PoolTypeOf(p)
    /\ Seqs!Range(pools[q].ips) \cap Seqs!Range(ips) # {}

Check(r, op, id, row) ==
  /\ monReq[r].pc = "idle"
  /\ monReq' = [monReq EXCEPT ![r] = [pc |-> op, id |-> id, row |-> row]]
  /\ UNCHANGED <<pools, items, served, gen, calm, tableEdits>>

CreatePool(r, p, row) ==
  /\ pools[p].state = "unborn"
  /\ \A s \in MonitorRequests : monReq[s].pc = "create" => monReq[s].id # p
  /\ ~CheckInstanceIpExists(p, row.ips)
  /\ Check(r, "create", p, row)

UpdatePool(r, p, row) ==
  /\ There(pools[p])
  /\ ~CheckInstanceIpExists(p, row.ips)
  /\ Check(r, "update", p, row)

(* Only what is enabled stands against it.                                  *)
DeletePool(r, p, f) ==
  /\ There(pools[p])
  /\ ItemsOf(p, f) = {}
  /\ Check(r, "delete", p, NoPool)

createMonitorPromScrapePool(r, p, row) == PoolTypeOf(p) = "scrape" /\ CreatePool(r, p, row)
updateMonitorPromScrapePool(r, p, row) == PoolTypeOf(p) = "scrape" /\ UpdatePool(r, p, row)
deleteMonitorPromScrapePool(r, p) == PoolTypeOf(p) = "scrape" /\ DeletePool(r, p, "main")

createMonitorAlertManagerPool(r, p, row) == PoolTypeOf(p) = "alertm" /\ CreatePool(r, p, row)
updateMonitorAlertManagerPool(r, p, row) == PoolTypeOf(p) = "alertm" /\ UpdatePool(r, p, row)
deleteMonitorAlertManagerPool(r, p) ==
  PoolTypeOf(p) = "alertm" /\ DeletePool(r, p, "alertmanager")

(* A rule that has the send group, enabled or not, stands against it.       *)
deleteMonitorAlertManagerSendGroup(r, i) ==
  /\ ItemTypeOf(i) = "alertmanager" /\ There(items[i])
  /\ \A j \in Items : There(items[j]) => items[j].group # i
  /\ Check(r, "deleteGroup", i, NoPool)

(* CreateOne, UpdateOne and DeleteOne of a pool, whatever has become of it  *)
(* and of what stood against it.                                            *)
PoolWrite(r) ==
  LET q == monReq[r]
  IN  /\ q.pc \in {"create", "update", "delete"}
      /\ pools' = [pools EXCEPT ![q.id] =
           CASE q.pc = "create" -> q.row
             [] q.pc = "update" /\ There(@) -> q.row
             [] q.pc = "delete" -> [NoPool EXCEPT !.state = "gone"]
             [] OTHER -> @]
      /\ monReq' = [monReq EXCEPT ![r] = NoMonReq]
      /\ TablesChange
      /\ UNCHANGED <<items, served, gen>>

SendGroupDelete(r) ==
  /\ monReq[r].pc = "deleteGroup"
  /\ items' = [items EXCEPT ![monReq[r].id] = [NoItem EXCEPT !.state = "gone"]]
  /\ monReq' = [monReq EXCEPT ![r] = NoMonReq]
  /\ TablesChange
  /\ UNCHANGED <<pools, served, gen>>

(* The tables of the rows of a pool.                                        *)
WriteItems(new) ==
  /\ items' = new
  /\ TablesChange
  /\ UNCHANGED <<pools, served, gen, monReq>>

CreateItem(f, i, row) ==
  ItemTypeOf(i) = f /\ items[i].state = "unborn" /\ WriteItems([items EXCEPT ![i] = row])

UpdateItem(f, i, row) ==
  ItemTypeOf(i) = f /\ There(items[i]) /\ WriteItems([items EXCEPT ![i] = row])

EnableItems(f, S, on) ==
  /\ S # {} /\ \A i \in S : ItemTypeOf(i) = f /\ There(items[i])
  /\ WriteItems([i \in Items |-> IF i \in S THEN [items[i] EXCEPT !.on = on] ELSE items[i]])

DeleteItems(f, S) ==
  /\ S # {} /\ \A i \in S : ItemTypeOf(i) = f /\ There(items[i])
  /\ WriteItems([i \in Items |->
       IF i \in S THEN [NoItem EXCEPT !.state = "gone"] ELSE items[i]])

createMonitorPromScrapeJob(i, row)       == CreateItem("main", i, row)
updateMonitorPromScrapeJob(i, row)       == UpdateItem("main", i, row)
setMonitorPromScrapeJobStatus(i, on)     == EnableItems("main", {i}, on)
deleteMonitorPromScrapeJob(i)            == DeleteItems("main", {i})

createMonitorPromAlertRule(i, row)       == CreateItem("alert", i, row)
updateMonitorPromAlertRule(i, row)       == UpdateItem("alert", i, row)
setMonitorPromAlertRuleStatus(i, on)     == EnableItems("alert", {i}, on)
setMonitorPromAlertRuleStatusBatch(S, on) == EnableItems("alert", S, on)
deleteMonitorPromAlertRule(i)            == DeleteItems("alert", {i})
deleteMonitorPromAlertRuleBatch(S)       == DeleteItems("alert", S)

createMonitorPromRecordRule(i, row)      == CreateItem("record", i, row)
updateMonitorPromRecordRule(i, row)      == UpdateItem("record", i, row)
setMonitorPromRecordRuleStatus(i, on)    == EnableItems("record", {i}, on)
setMonitorPromRecordRuleStatusBatch(S, on) == EnableItems("record", S, on)
deleteMonitorPromRecordRule(i)           == DeleteItems("record", {i})
deleteMonitorPromRecordRuleBatch(S)      == DeleteItems("record", S)

createMonitorAlertManagerSendGroup(i, row) == CreateItem("alertmanager", i, row)
updateMonitorAlertManagerSendGroup(i, row) == UpdateItem("alertmanager", i, row)
setAlertManagerSendGroupStatus(i, on)      == EnableItems("alertmanager", {i}, on)

-----------------------------------------------------------------------------
MonitorInit ==
  /\ pools = [p \in Pools |-> NoPool]
  /\ items = [i \in Items |-> NoItem]
  /\ served = [f \in Files |-> NoFiles]
  /\ gen = [f \in Files |-> IdleGenerator]
  /\ calm = [f \in Files |-> FALSE]
  /\ monReq = [r \in MonitorRequests |-> NoMonReq]
  /\ tableEdits = 0

MonitorCacheManager ==
  \/ \E f \in Files : GenerateStarts(f) \/ GenerateEnds(f)
  \/ \E ok \in BOOLEAN :
       \/ GeneratePrometheusScrapeConfigYamlOnePool(ok)
       \/ GeneratePrometheusAlertRuleConfigYamlOnePool(ok)
       \/ GeneratePrometheusRecordRuleConfigYamlOnePool(ok)
       \/ GenerateAlertManagerRouteConfigYamlOnePool(ok)
       \/ GeneratePrometheusMainConfigYaml(ok) \/ GenerateAlertManagerMainConfigYaml(ok)

PoolHandlers ==
  \/ \E r \in MonitorRequests, p \in Pools :
       \/ \E row \in PoolRows(p) :
            \/ createMonitorPromScrapePool(r, p, row) \/ updateMonitorPromScrapePool(r, p, row)
            \/ createMonitorAlertManagerPool(r, p, row)
            \/ updateMonitorAlertManagerPool(r, p, row)
       \/ deleteMonitorPromScrapePool(r, p) \/ deleteMonitorAlertManagerPool(r, p)
  \/ \E r \in MonitorRequests, i \in Items : deleteMonitorAlertManagerSendGroup(r, i)
  \/ \E r \in MonitorRequests : PoolWrite(r) \/ SendGroupDelete(r)

RulesThere(f) == {i \in Items : ItemTypeOf(i) = f /\ There(items[i])}

Writable == {i \in Items : items[i].state # "gone"}

ItemHandlers ==
  \/ \E i \in Writable : \E row \in ItemRows(i) :
       \/ createMonitorPromScrapeJob(i, row) \/ updateMonitorPromScrapeJob(i, row)
       \/ createMonitorPromAlertRule(i, row) \/ updateMonitorPromAlertRule(i, row)
       \/ createMonitorPromRecordRule(i, row) \/ updateMonitorPromRecordRule(i, row)
       \/ createMonitorAlertManagerSendGroup(i, row)
       \/ updateMonitorAlertManagerSendGroup(i, row)
  \/ \E i \in Writable, on \in BOOLEAN :
       \/ setMonitorPromScrapeJobStatus(i, on) \/ setMonitorPromAlertRuleStatus(i, on)
       \/ setMonitorPromRecordRuleStatus(i, on) \/ setAlertManagerSendGroupStatus(i, on)
  \/ \E i \in Writable :
       \/ deleteMonitorPromScrapeJob(i) \/ deleteMonitorPromAlertRule(i)
       \/ deleteMonitorPromRecordRule(i)
  \/ \E S \in SUBSET RulesThere("alert") :
       \/ \E on \in BOOLEAN : setMonitorPromAlertRuleStatusBatch(S, on)
       \/ deleteMonitorPromAlertRuleBatch(S)
  \/ \E S \in SUBSET RulesThere("record") :
       \/ \E on \in BOOLEAN : setMonitorPromRecordRuleStatusBatch(S, on)
       \/ deleteMonitorPromRecordRuleBatch(S)

MonitorNext ==
  \/ MonitorCacheManager \/ PoolHandlers
  \/ tableEdits < MaxTableEdits /\ ItemHandlers

MonitorSpec == MonitorInit /\ [][MonitorNext]_monitorVars

-----------------------------------------------------------------------------
MonitorTypeOK ==
  /\ \A p \in Pools : pools[p].state \in {"unborn", "gone"} \/ pools[p] \in PoolRows(p)
  /\ \A i \in Items : items[i].state \in {"unborn", "gone"} \/ items[i] \in ItemRows(i)
  /\ \A f \in Files :
       /\ DOMAIN served[f] = Machines
       /\ gen[f].pc \in {"idle", "pool", "secrets"}
       /\ gen[f].pc = "secrets" => gen[f].todo # <<>> /\ f \in {"main", "alertmanager"}
  /\ calm \in [Files -> BOOLEAN]
  /\ tableEdits \in 0..MaxTableEdits
  /\ \A r \in MonitorRequests :
       monReq[r].pc \in {"idle", "create", "update", "delete", "deleteGroup"}

(* No instance is in two pools, as CheckInstanceIpExists is to see to, and  *)
(* none is in a pool twice, which nobody looks at.                          *)
Apart ==
  \A p \in Pools : There(pools[p]) =>
    ~CheckInstanceIpExists(p, pools[p].ips) /\ Seqs!IsInjective(pools[p].ips)

InFile(file) == Seqs!Range(file.items)

(* Each enabled rule of a pool that evaluates rules is with exactly one     *)
(* instance, which is one of the pool's, and no other rule is anywhere.     *)
RulesOnce(files, f) ==
  \A i \in Items : ItemTypeOf(i) = f =>
    {ip \in Machines : i \in InFile(FileFor(files, f, ip))} \in
      (UNION {IF i \in ItemsOf(p, f)
              THEN {{ip} : ip \in Seqs!Range(pools[p].ips)} ELSE {} : p \in PoolsFor(f)})
      \cup (IF \E p \in PoolsFor(f) : i \in ItemsOf(p, f) THEN {} ELSE {{}})

(* A target of the enabled jobs of a pool, by its hash, is scraped by       *)
(* exactly one of the pool's instances.                                     *)
Scrapes(file, hash) == file.part[1] > 0 /\ hash % file.part[1] = file.part[2]

TargetsOnce(files) ==
  \A p \in PoolsFor("main") : ItemsOf(p, "main") # {} =>
    \A hash \in 0..5 :
      Cardinality({ip \in Seqs!Range(pools[p].ips) : Scrapes(FileFor(files, "main", ip), hash)}) = 1

(* Whatever is with an instance is enabled and of its pool.                 *)
Complete(files, f) ==
  \A p \in PoolsFor(f) : \A ip \in Seqs!Range(pools[p].ips) :
    InFile(FileFor(files, f, ip)) = ItemsOf(p, f)

(* Secrets come where they belong, at least while each row gets as many as  *)
(* it has places.                                                           *)
Paired(files, f) ==
  \A p \in PoolsFor(f) :
    (\A i \in ItemsOf(p, f) : Masked(i) = Unmasked(i)) =>
      \A ip \in Seqs!Range(pools[p].ips) :
        \A n \in DOMAIN FileFor(files, f, ip).secrets :
          LET place == FileFor(files, f, ip).secrets[n] IN place[1] = place[2]

AsConfigured(files, f) ==
  IF f \in {"alert", "record"} THEN RulesOnce(files, f)
  ELSE /\ Complete(files, f) /\ Paired(files, f)
       /\ f = "main" => TargetsOnce(files)

(* A pass over the tables that nothing came between, and in which nothing   *)
(* failed, serves what the tables say, if they name each instance once:     *)
(* every target and every rule is one instance's, and each secret is in its *)
(* place.                                                                   *)
ServesAsConfiguredStep ==
  \A f \in Files :
    calm[f] /\ gen[f].pc = "pool" /\ gen'[f].pc = "idle" /\ Apart => AsConfigured(served', f)

=============================================================================
