----------------------------- MODULE RolePolicies -----------------------------
(***************************************************************************)
(* What the roles of the console may call: the rows of roles and of APIs    *)
(* (models/tbl_system_role.go, tbl_system_api.go), which decide what the    *)
(* pages offer (getPermCode), and beside them the policies of Casbin, which *)
(* decide what CasBinRbacMiddleware lets through.  The handlers of          *)
(* api_system_role.go and api_system_api.go write the two one after the     *)
(* other.  mockSystemData and EnsureIncrementalApis fill both when the      *)
(* server first meets its database; a later start finds a user admin, and   *)
(* adds nothing (MockUserRegister).                                         *)
(*                                                                         *)
(* An API is a row with a path, which stands for its method too; menus, and *)
(* the status of a role, which nothing reads, are left out.                 *)
(***************************************************************************)
EXTENDS Naturals, FiniteSets

CONSTANTS
  RoleRows,      (* the ids of roles                                        *)
  RoleValues,    (* what a role may be called; "super" and "user" are names *)
                 (* the code knows                                          *)
  ApiRows,       (* the ids of APIs                                         *)
  ApiPaths,      (* where an API may be                                     *)
  SeedRoles,     (* the value of each role of a new database ...            *)
  SeedApis(_),   (* ... and the APIs that it is given                       *)
  SeedPath,      (* the path of each API of a new database                  *)
  RoleRequests,  (* the requests that may be in progress at once            *)
  MaxRoleEdits,  (* bound: the requests                                     *)
  RoleFaults     (* "restart": the server is restarted; "db": a write of    *)
                 (* rows fails; "casbin": one of policies does              *)

ASSUME RolePoliciesAssumption ==
  /\ RoleRows \subseteq Nat /\ ApiRows \subseteq Nat /\ IsFiniteSet(ApiRows)
  /\ "super" \in RoleValues
  /\ DOMAIN SeedRoles \subseteq RoleRows
  /\ \A r, s \in DOMAIN SeedRoles : SeedRoles[r] = SeedRoles[s] => r = s
  /\ DOMAIN SeedPath \subseteq ApiRows
  /\ \A r \in DOMAIN SeedRoles :
       /\ SeedRoles[r] \in RoleValues
       /\ SeedApis(r) \subseteq DOMAIN SeedPath
       /\ SeedRoles[r] = "super" => SeedApis(r) = DOMAIN SeedPath
  /\ \A a \in DOMAIN SeedPath : SeedPath[a] \in ApiPaths
  /\ MaxRoleEdits \in Nat /\ RoleFaults \subseteq {"restart", "db", "casbin"}

VARIABLES
  roleRow,   (* id -> its state, RoleValue and Apis                         *)
  apiRow,    (* id -> its state and Path                                    *)
  policy,    (* the policies of Casbin: a value and a path                  *)
  roleReq,   (* the requests in progress, whether one is undisturbed, and   *)
             (* the roles that were in order when it began                  *)
  roleEdits  (* bound: the requests so far                                  *)

roleVars == <<roleRow, apiRow, policy, roleReq, roleEdits>>

-----------------------------------------------------------------------------
(* An id is given once.  calm: no other request came between, and Casbin    *)
(* took every change of a policy, or had a reason to refuse it.             *)
NoRole == [state |-> "unborn", value |-> "none", apis |-> {}]
NoApi  == [state |-> "unborn", path |-> "none"]

NoRoleReq == [pc |-> "idle", op |-> "none", id |-> 0, value |-> "none",
              apis |-> {}, old |-> "none", calm |-> FALSE, agreed |-> {}]

RolesThere == {r \in RoleRows : roleRow[r].state = "there"}
ApisThere  == {a \in ApiRows : apiRow[a].state = "there"}

(* CasBinCheckPermission: where a role with this value is let through.      *)
Allowed(v) == {p \in ApiPaths : <<v, p>> \in policy}

(* getPermCode: what the pages offer to a role.                             *)
PermCodes(r) ==
  {apiRow[a].path : a \in IF roleRow[r].value = "super" THEN ApisThere ELSE roleRow[r].apis}

MayWhatItSees(r) == PermCodes(r) \subseteq Allowed(roleRow[r].value)

Agree(r) == Allowed(roleRow[r].value) = PermCodes(r)

AgreeingRoles == {r \in RolesThere : Agree(r)}

(* No two APIs with one path, whose policies would be one.                  *)
OnePathEach == \A a, b \in ApisThere : apiRow[a].path = apiRow[b].path => a = b

(* Casbin adds all rules or, if it has one of them or there are equal ones, *)
(* none.                                                                    *)
WithPolicies(v, apis) ==
  LET new == {<<v, a[2]>> : a \in apis}
  IN  IF new \cap policy = {} /\ Cardinality(new) = Cardinality(apis)
      THEN policy \cup new ELSE policy

(* It changes a rule only if it has it, and has not what it is to become.   *)
WithPolicyMoved(v, old, new) ==
  IF <<v, old>> \in policy /\ <<v, new>> \notin policy
  THEN (policy \ {<<v, old>>}) \cup {<<v, new>>} ELSE policy

(* Another role that has the value already.                                 *)
ValueTaken(r, v) == \E s \in RolesThere \ {r} : roleRow[s].value = v

(* The rows of a request's APIs; Gorm inserts the ones that have gone.      *)
WithApis(apis) ==
  [a \in ApiRows |->
     IF apiRow[a].state = "gone" /\ \E p \in ApiPaths : <<a, p>> \in apis
     THEN [state |-> "there", path |-> CHOOSE p \in ApiPaths : <<a, p>> \in apis]
     ELSE apiRow[a]]

Ids(apis) == {a[1] : a \in apis}

-----------------------------------------------------------------------------
(* A request reads what it needs ...                                        *)
MayBegin(q) == roleReq[q].pc = "idle" /\ roleEdits < MaxRoleEdits

BeginRoleEdit(q, op, pc, id, value, apis, old) ==
  /\ MayBegin(q)
  /\ roleEdits' = roleEdits + 1
  /\ roleReq' = [roleReq EXCEPT ![q] =
       [pc |-> pc, op |-> op, id |-> id, value |-> value, apis |-> apis,
        old |-> old, calm |-> OnePathEach, agreed |-> AgreeingRoles]]
  /\ UNCHANGED <<roleRow, apiRow, policy>>

(* ... and writes it in steps, which the others may come between.           *)
RoleEditGoes(q, pc) ==
  /\ roleReq' = [s \in RoleRequests |->
       IF s # q THEN [roleReq[s] EXCEPT !.calm = FALSE]
       ELSE IF pc = "idle" THEN NoRoleReq ELSE [roleReq[q] EXCEPT !.pc = pc]]
  /\ UNCHANGED roleEdits

At(q, op, pc) == roleReq[q].op = op /\ roleReq[q].pc = pc

(* A write of rows that fails ends a request, but for createApi, where the  *)
(* error of Casbin takes the place of the row's.                            *)
RowsFail(q) ==
  /\ "db" \in RoleFaults
  /\ roleReq[q].pc \in {"create", "row", "apis"}
  /\ RoleEditGoes(q, IF roleReq[q].op = "createApi" THEN "add" ELSE "idle")
  /\ UNCHANGED <<roleRow, apiRow, policy>>

(* One of policies that fails is passed over.                               *)
PoliciesFail(q) ==
  /\ "casbin" \in RoleFaults
  /\ roleReq[q].pc \in {"remove", "add", "move"}
  /\ roleReq' = [roleReq EXCEPT ![q] =
       IF roleReq[q].pc = "remove" /\ roleReq[q].op = "updateRole"
       THEN [roleReq[q] EXCEPT !.pc = "add", !.calm = FALSE] ELSE NoRoleReq]
  /\ UNCHANGED <<roleRow, apiRow, policy, roleEdits>>

ApisAsRead(S) == {<<a, apiRow[a].path>> : a \in S}

createRole(q, r, v, S) ==
  /\ roleRow[r].state = "unborn"
  /\ \A s \in RoleRequests : ~(At(s, "createRole", "create") /\ roleReq[s].id = r)
  /\ BeginRoleEdit(q, "createRole", "create", r, v, ApisAsRead(S), "none")

(* No policy comes with it.                                                 *)
CreateRoleRow(q) ==
  LET x == roleReq[q]
  IN  /\ At(q, "createRole", "create")
      /\ IF ValueTaken(x.id, x.value) THEN UNCHANGED <<roleRow, apiRow>>
         ELSE /\ roleRow' = [roleRow EXCEPT ![x.id] =
                    [state |-> "there", value |-> x.value, apis |-> Ids(x.apis)]]
              /\ apiRow' = WithApis(x.apis)
      /\ RoleEditGoes(q, "idle")
      /\ UNCHANGED policy

updateRole(q, r, v, S) ==
  /\ r \in RolesThere
  /\ BeginRoleEdit(q, "updateRole", "row", r, v, ApisAsRead(S), "none")

(* UpdateMenus: the row itself.                                             *)
UpdateRoleRow(q) ==
  LET x == roleReq[q]
  IN  /\ At(q, "updateRole", "row")
      /\ IF ValueTaken(x.id, x.value) THEN UNCHANGED roleRow /\ RoleEditGoes(q, "idle")
         ELSE /\ roleRow' = IF x.id \in RolesThere
                            THEN [roleRow EXCEPT ![x.id].value = x.value] ELSE roleRow
              /\ RoleEditGoes(q, "apis")
      /\ UNCHANGED <<apiRow, policy>>

(* The row once more, and its APIs, which a role that has gone cannot have. *)
UpdateApis(q) ==
  LET x == roleReq[q]
  IN  /\ At(q, "updateRole", "apis")
      /\ IF ValueTaken(x.id, x.value) \/ (x.id \notin RolesThere /\ x.apis # {})
         THEN UNCHANGED <<roleRow, apiRow>> /\ RoleEditGoes(q, "idle")
         ELSE /\ roleRow' = IF x.id \in RolesThere
                            THEN [roleRow EXCEPT ![x.id].value = x.value,
                                                 ![x.id].apis = Ids(x.apis)] ELSE roleRow
              /\ apiRow' = WithApis(x.apis)
              /\ RoleEditGoes(q, "remove")
      /\ UNCHANGED policy

RemoveRolePolicies(q) ==
  /\ At(q, "updateRole", "remove")
  /\ policy' = {rule \in policy : rule[1] # roleReq[q].value}
  /\ RoleEditGoes(q, "add")
  /\ UNCHANGED <<roleRow, apiRow>>

AddRolePolicies(q) ==
  /\ At(q, "updateRole", "add")
  /\ policy' = WithPolicies(roleReq[q].value, roleReq[q].apis)
  /\ RoleEditGoes(q, "idle")
  /\ UNCHANGED <<roleRow, apiRow>>

setRoleStatus(q, r) ==
  /\ r \in RolesThere
  /\ BeginRoleEdit(q, "setRoleStatus", "row", r, roleRow[r].value, {}, "none")

(* The row as it was read.                                                  *)
WriteRoleAsRead(q) ==
  LET x == roleReq[q]
  IN  /\ At(q, "setRoleStatus", "row")
      /\ roleRow' = IF x.id \in RolesThere /\ ~ValueTaken(x.id, x.value)
                    THEN [roleRow EXCEPT ![x.id].value = x.value] ELSE roleRow
      /\ RoleEditGoes(q, "idle")
      /\ UNCHANGED <<apiRow, policy>>

(* Its policies stay.                                                       *)
deleteRole(r) ==
  /\ r \in RolesThere
  /\ roleEdits < MaxRoleEdits
  /\ roleEdits' = roleEdits + 1
  /\ roleRow' = [roleRow EXCEPT ![r] = [NoRole EXCEPT !.state = "gone"]]
  /\ roleReq' = [s \in RoleRequests |-> [roleReq[s] EXCEPT !.calm = FALSE]]
  /\ UNCHANGED <<apiRow, policy>>

createApi(q, a, p) ==
  /\ apiRow[a].state = "unborn"
  /\ \A s \in RoleRequests : ~(At(s, "createApi", "create") /\ roleReq[s].id = a)
  /\ BeginRoleEdit(q, "createApi", "create", a, "none", {}, p)

(* A row with the title of another is refused (RowsFail).                   *)
CreateApiRow(q) ==
  /\ At(q, "createApi", "create")
  /\ apiRow' = [apiRow EXCEPT ![roleReq[q].id] = [state |-> "there", path |-> roleReq[q].old]]
  /\ RoleEditGoes(q, "add")
  /\ UNCHANGED <<roleRow, policy>>

AddSuperPolicy(q) ==
  /\ At(q, "createApi", "add")
  /\ policy' = WithPolicies("super", {<<0, roleReq[q].old>>})
  /\ RoleEditGoes(q, "idle")
  /\ UNCHANGED <<roleRow, apiRow>>

updateApi(q, a, p) ==
  /\ a \in ApisThere
  /\ BeginRoleEdit(q, "updateApi", "row", a, "none", {<<a, p>>}, apiRow[a].path)

PathOf(q) == (CHOOSE a \in roleReq[q].apis : TRUE)[2]

UpdateApiRow(q) ==
  LET x == roleReq[q]
  IN  /\ At(q, "updateApi", "row")
      /\ apiRow' = IF x.id \in ApisThere
                   THEN [apiRow EXCEPT ![x.id].path = PathOf(q)] ELSE apiRow
      /\ RoleEditGoes(q, IF x.old = PathOf(q) THEN "idle" ELSE "move")
      /\ UNCHANGED <<roleRow, policy>>

(* Only that of role super.                                                 *)
MoveSuperPolicy(q) ==
  /\ At(q, "updateApi", "move")
  /\ policy' = WithPolicyMoved("super", roleReq[q].old, PathOf(q))
  /\ RoleEditGoes(q, "idle")
  /\ UNCHANGED <<roleRow, apiRow>>

deleteApi(q, a) ==
  /\ a \in ApisThere
  /\ BeginRoleEdit(q, "deleteApi", "row", a, "none", {}, apiRow[a].path)

(* With its place in every role.                                            *)
DeleteApiRow(q) ==
  LET x == roleReq[q]
  IN  /\ At(q, "deleteApi", "row")
      /\ apiRow' = [apiRow EXCEPT ![x.id] = [NoApi EXCEPT !.state = "gone"]]
      /\ roleRow' = [r \in RoleRows |-> [roleRow[r] EXCEPT !.apis = @ \ {x.id}]]
      /\ RoleEditGoes(q, "remove")
      /\ UNCHANGED policy

(* A mutant of RemoveApiPolicies: as createApi and updateApi, only super's. *)
RemoveSuperApiPolicy(q) ==
  /\ At(q, "deleteApi", "remove")
  /\ policy' = policy \ {<<"super", roleReq[q].old>>}
  /\ RoleEditGoes(q, "idle")
  /\ UNCHANGED <<roleRow, apiRow>>

(* Those of every role.                                                     *)
RemoveApiPolicies(q) ==
  /\ At(q, "deleteApi", "remove")
  /\ policy' = {rule \in policy : rule[2] # roleReq[q].old}
  /\ RoleEditGoes(q, "idle")
  /\ UNCHANGED <<roleRow, apiRow>>

(* What was in progress ends where it was.                                  *)
RestartRoles ==
  /\ "restart" \in RoleFaults
  /\ roleReq' = [q \in RoleRequests |-> NoRoleReq]
  /\ UNCHANGED <<roleRow, apiRow, policy, roleEdits>>

-----------------------------------------------------------------------------
RoleInit ==
  /\ roleRow = [r \in RoleRows |->
       IF r \in DOMAIN SeedRoles
       THEN [state |-> "there", value |-> SeedRoles[r], apis |-> SeedApis(r)] ELSE NoRole]
  /\ apiRow = [a \in ApiRows |->
       IF a \in DOMAIN SeedPath THEN [state |-> "there", path |-> SeedPath[a]] ELSE NoApi]
  /\ policy = UNION {{<<SeedRoles[r], SeedPath[a]>> : a \in SeedApis(r)} : r \in DOMAIN SeedRoles}
  /\ roleReq = [q \in RoleRequests |-> NoRoleReq]
  /\ roleEdits = 0

RoleHandlers(q) ==
  \/ /\ MayBegin(q)
     /\ \E r \in RoleRows, v \in RoleValues, S \in SUBSET ApisThere :
          createRole(q, r, v, S) \/ updateRole(q, r, v, S)
  \/ \E r \in RoleRows : setRoleStatus(q, r)
  \/ CreateRoleRow(q) \/ UpdateRoleRow(q) \/ UpdateApis(q)
  \/ RemoveRolePolicies(q) \/ AddRolePolicies(q) \/ WriteRoleAsRead(q)

ApiHandlers(q) ==
  \/ /\ MayBegin(q)
     /\ \E a \in ApiRows, p \in ApiPaths : createApi(q, a, p) \/ updateApi(q, a, p)
  \/ \E a \in ApiRows : deleteApi(q, a)
  \/ CreateApiRow(q) \/ AddSuperPolicy(q)
  \/ UpdateApiRow(q) \/ MoveSuperPolicy(q)
  \/ DeleteApiRow(q) \/ RemoveApiPolicies(q)

RoleNext ==
  \/ \E q \in RoleRequests :
       RoleHandlers(q) \/ ApiHandlers(q) \/ RowsFail(q) \/ PoliciesFail(q)
  \/ \E r \in RoleRows : deleteRole(r)
  \/ RestartRoles

RoleSpec == RoleInit /\ [][RoleNext]_roleVars

-----------------------------------------------------------------------------
RoleTypeOK ==
  /\ \A r \in RoleRows :
       /\ roleRow[r].state \in {"unborn", "there", "gone"}
       /\ roleRow[r].apis \subseteq ApisThere
  /\ \A r, s \in RolesThere : roleRow[r].value = roleRow[s].value => r = s
  /\ \A a \in ApisThere : apiRow[a].path \in ApiPaths
  /\ policy \subseteq RoleValues \X ApiPaths
  /\ roleEdits \in 0..MaxRoleEdits

(* The roles that a request leaves in order: all that were, but, when the   *)
(* path of an API changes, the ones that list it; and the one that it saves *)
(* unless that is super, which lists all APIs whatever is saved.            *)
LeftInOrder(q) ==
  LET x == roleReq[q]
  IN  {r \in x.agreed :
         /\ x.op = "updateApi" => roleRow[r].value = "super" \/ x.id \notin roleRow[r].apis
         /\ x.op = "updateRole" => r # x.id}
      \cup {r \in RolesThere : At(q, "updateRole", "add") /\ r = x.id /\ x.value # "super"}

(* A request that none came between leaves what the pages offer to a role   *)
(* and what it is let through to the same thing; super may call an API too  *)
(* that createApi has no row of.                                            *)
RolesInOrderStep ==
  \A q \in RoleRequests :
    LET x == roleReq[q]
    IN  /\ x.calm /\ roleReq'[q].pc = "idle" /\ OnePathEach'
        /\ ~RestartRoles /\ ~PoliciesFail(q)
        => \A r \in LeftInOrder(q) :
             /\ MayWhatItSees(r)'
             /\ x.op # "createApi" \/ apiRow'[x.id].state = "there" => Agree(r)'

=============================================================================
