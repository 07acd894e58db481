---------------------------- MODULE UserDirectory ----------------------------
(***************************************************************************)
(* The accounts of the console (models/tbl_system_user.go) and the four     *)
(* ways in which they come about: the administrator's handlers              *)
(* (web/view_server/api_system_user.go), a login by Keycloak (OidcCallback) *)
(* or DingTalk (DingTalkCallback), and the synchronisation with Keycloak    *)
(* (syncKeycloakUsers).  The last three look for an account that is the     *)
(* same person's already, and rename, complete or merge it.                 *)
(*                                                                         *)
(* A value is <<what it is, whose>>.  People may share a name, but not a    *)
(* mobile number or an address.  A reading of several rows is one step, and *)
(* which of several is the first is left open.  The synchronisation drops   *)
(* the errors of the database; the other requests end with one.             *)
(***************************************************************************)
EXTENDS Naturals, FiniteSets, Sequences, SequencesExt

CONSTANTS
  People,          (* who may have accounts                                 *)
  NameOf(_),       (* the first of the people of the same name              *)
  KeycloakHas(_),  (* which of "mobile" and "email" Keycloak knows          *)
  DingTalkHas(_),  (* and DingTalk                                          *)
  AccountIds,      (* the ids of accounts at one time                       *)
  GroupRoles(_),   (* the roles that the groups of a person in Keycloak name*)
  LoginRequests,   (* the requests that may be in progress at once          *)
  MaxPeopleEdits,  (* bound: the requests, and the changes in Keycloak      *)
  DirectoryFaults  (* "detail": DingTalk does not give the details of an    *)
                   (* employee; "userid": nor the user id; "db": the        *)
                   (* database does not answer a synchronisation            *)

ASSUME UserDirectoryAssumption ==
  /\ \A p \in People : KeycloakHas(p) \cup DingTalkHas(p) \subseteq {"mobile", "email"}
  /\ \A p \in People : NameOf(p) \in People /\ NameOf(NameOf(p)) = NameOf(p)
  /\ IsFiniteSet(People) /\ IsFiniteSet(AccountIds)
  /\ AccountIds \subseteq (Nat \ {0}) /\ MaxPeopleEdits \in Nat
  /\ DirectoryFaults \subseteq {"detail", "userid", "db"}

VARIABLES
  keycloak,    (* what Keycloak has of each person                          *)
  accounts,    (* id -> the row of an account                               *)
  loginReq,    (* the requests in progress                                  *)
  peopleEdits  (* bound: the requests and changes so far                    *)

directoryVars == <<keycloak, accounts, loginReq, peopleEdits>>

-----------------------------------------------------------------------------
Nothing == <<"none", "none">>

NoAccount == [username |-> Nothing, name |-> Nothing, mobile |-> Nothing,
              email |-> Nothing, userid |-> Nothing, unionid |-> Nothing,
              enable |-> 0, roles |-> {}]

NoLoginReq == [op |-> "none", pc |-> "idle", who |-> "none", id |-> 0, row |-> NoAccount,
               answer |-> NoAccount, dup |-> 0, dupRow |-> NoAccount, todo |-> <<>>,
               listed |-> {}, new |-> {}, bound |-> {}, clear |-> {}, calm |-> FALSE]

AccountsThere == {id \in AccountIds : accounts[id].username # Nothing}

With(field, v) == {id \in AccountsThere : v # Nothing /\ accounts[id][field] = v}

(* A row can be inserted with an id that nobody has in hand.                *)
FreeId(id) ==
  /\ id \notin AccountsThere
  /\ \A q \in LoginRequests : id \notin {loginReq[q].id, loginReq[q].dup}

Taken(id, username) == With("username", username) \ {id} # {}

Name(p) == <<"name", NameOf(p)>>

Value(what, p, known) == IF what \in known THEN <<what, p>> ELSE Nothing

Status(enabled) == IF enabled THEN 1 ELSE 0

(* One of the rows of S, or none.                                           *)
FirstOf(S) == IF S = {} THEN {0} ELSE S

RowOf(id) == IF id = 0 THEN NoAccount ELSE accounts[id]

(* UpdateOne: a whole row as it was read, what is empty in it left out, and *)
(* its roles; both or neither.                                              *)
Overwritten(id, row, roles) ==
  IF id \notin AccountsThere \/ Taken(id, row.username) THEN accounts
  ELSE [accounts EXCEPT ![id] =
         [f \in DOMAIN NoAccount |->
            IF f = "roles" THEN roles
            ELSE IF row[f] = NoAccount[f] THEN accounts[id][f] ELSE row[f]]]

(* Updates: of what was read as row, the fields that are to be different.   *)
Updated(id, row, new) ==
  IF id \notin AccountsThere \/ Taken(id, new.username) THEN accounts
  ELSE [accounts EXCEPT ![id] =
         [f \in DOMAIN NoAccount |-> IF new[f] = row[f] THEN accounts[id][f] ELSE new[f]]]

(* What Keycloak says of someone, over the row that was read.               *)
KeycloakOver(row, p, enabled) ==
  [row EXCEPT !.name = Name(p), !.enable = Status(enabled),
              !.email = IF "email" \in KeycloakHas(p) THEN <<"email", p>> ELSE @,
              !.mobile = IF "mobile" \in KeycloakHas(p) THEN <<"mobile", p>> ELSE @]

-----------------------------------------------------------------------------
Counts == peopleEdits < MaxPeopleEdits /\ peopleEdits' = peopleEdits + 1

(* One request of a kind for a person at a time.                            *)
Enters(q, op, p, req) ==
  /\ loginReq[q].pc = "idle"
  /\ \A r \in LoginRequests : loginReq[r].op = op => loginReq[r].who # p
  /\ Counts
  /\ loginReq' = [loginReq EXCEPT ![q] = req]
  /\ UNCHANGED <<keycloak, accounts>>

(* A step of a request; whatever it writes, the others were not alone.      *)
Continues(q, req) ==
  /\ loginReq' = [r \in LoginRequests |->
       IF r = q THEN req ELSE [loginReq[r] EXCEPT !.calm = @ /\ accounts' = accounts]]
  /\ UNCHANGED <<keycloak, peopleEdits>>

Reads(q, req) == UNCHANGED accounts /\ Continues(q, req)

(* A query or a write of a synchronisation fails: it goes on with req.      *)
Fails(q, req) ==
  "db" \in DirectoryFaults /\ Reads(q, [req EXCEPT !.calm = FALSE])

In(q, op, pc) == loginReq[q].op = op /\ loginReq[q].pc = pc

-----------------------------------------------------------------------------
AccountsOf(p, rows) ==
  {id \in AccountIds : rows[id].username # Nothing /\ rows[id].username[2] = p}

(* Someone of whom more than one account is left for good: DingTalk has not *)
(* always said everything, so that the account made for him does not look   *)
(* like his, or two accounts have his user id (he logged in, or a write     *)
(* failed, between SyncCleans and SyncSaves).                               *)
Obscure(p) ==
  \/ Cardinality(With("userid", <<"userid", p>>)) > 1
  \/ \E id \in AccountsOf(p, accounts) :
       \/ accounts[id].name \notin {Nothing, Name(p)}
       \/ accounts[id].username = <<"dd", p>>

-----------------------------------------------------------------------------
(* syncKeycloakUsers: the users of Keycloak at one time.  The fields bound  *)
(* and clear, of those whom DingTalk is known to know and who are not       *)
(* obscure, and new and calm are no variables of the code.                  *)
syncKeycloakUsers(q) ==
  LET there == {p \in People : keycloak[p] # "absent"}
  IN  /\ there # {}
      /\ Enters(q, "sync", "all",
           [NoLoginReq EXCEPT
              !.op = "sync", !.pc = "read", !.who = "all",
              !.todo = LET s == SetToSeq(there)
                       IN  [k \in DOMAIN s |-> <<s[k], keycloak[s[k]] = "enabled">>],
              !.listed = {<<p, keycloak[p] = "enabled">> : p \in there},
              !.bound = {p \in People : With("userid", <<"userid", p>>) # {}},
              !.clear = {p \in People : ~Obscure(p)},
              !.calm = TRUE])

Syncing(q) == Head(loginReq[q].todo)[1]

SyncedEnabled(q) == Head(loginReq[q].todo)[2]

NextUser(q) ==
  LET todo == Tail(loginReq[q].todo)
  IN  [loginReq[q] EXCEPT !.pc = IF todo = <<>> THEN "end" ELSE "read",
                          !.todo = todo, !.id = 0, !.row = NoAccount,
                          !.dup = 0, !.dupRow = NoAccount]

(* There is an account with the name; if it has no user id of DingTalk,     *)
(* another of the same name may, whoever's it is.                           *)
SyncFinds(q) ==
  LET p    == Syncing(q)
      dups == {d \in With("name", Name(p)) : accounts[d].userid # Nothing}
      Found(id, dup) == [loginReq[q] EXCEPT !.pc = IF dup = 0 THEN "save" ELSE "clean",
                                            !.id = id, !.row = accounts[id],
                                            !.dup = dup, !.dupRow = RowOf(dup)]
  IN  /\ In(q, "sync", "read")
      /\ \E id \in With("username", <<"keycloak", p>>) :
           \/ \E dup \in IF accounts[id].userid = Nothing THEN FirstOf(dups \ {id}) ELSE {0} :
                Reads(q, Found(id, dup))
           \/ Fails(q, Found(id, 0))

(* A mutant of SyncCleans: the account that was merged stays.               *)
SyncLeavesDuplicate(q) ==
  /\ In(q, "sync", "clean")
  /\ Reads(q, [loginReq[q] EXCEPT !.pc = "save"])

(* Its roles and the row go.                                                *)
SyncCleans(q) ==
  LET next == [loginReq[q] EXCEPT !.pc = "save"]
  IN  /\ In(q, "sync", "clean")
      /\ \/ accounts' = [accounts EXCEPT ![loginReq[q].dup] = NoAccount] /\ Continues(q, next)
         \/ Fails(q, next)
         \/ /\ "db" \in DirectoryFaults
            /\ accounts' = [accounts EXCEPT ![loginReq[q].dup].roles = {}]
            /\ Continues(q, [next EXCEPT !.calm = FALSE])

SyncSaves(q) ==
  LET x   == loginReq[q]
      kc  == KeycloakOver(x.row, Syncing(q), SyncedEnabled(q))
      new == IF x.dup = 0 THEN kc
             ELSE [kc EXCEPT
                     !.userid = x.dupRow.userid,
                     !.unionid = IF x.dupRow.unionid # Nothing THEN x.dupRow.unionid ELSE @,
                     !.mobile = IF x.row.mobile = Nothing /\ x.dupRow.mobile # Nothing
                                THEN x.dupRow.mobile ELSE @]
  IN  /\ In(q, "sync", "save")
      /\ \/ accounts' = Updated(x.id, x.row, new) /\ Continues(q, NextUser(q))
         \/ Fails(q, NextUser(q))

(* There is none: one with the mobile number, the address, or the name and  *)
(* a user id of DingTalk, in that order, is taken for the person's.         *)
Candidates(p, known) ==
  LET byMobile == With("mobile", Value("mobile", p, known))
      byEmail  == With("email", Value("email", p, known))
      byName   == {d \in With("name", Name(p)) : accounts[d].userid # Nothing}
  IN  IF byMobile # {} THEN byMobile ELSE IF byEmail # {} THEN byEmail ELSE byName

SyncMisses(q) ==
  LET p == Syncing(q)
      Missed(id) == [loginReq[q] EXCEPT !.pc = IF id = 0 THEN "create" ELSE "claim",
                                        !.id = id, !.row = RowOf(id)]
  IN  /\ In(q, "sync", "read")
      /\ \/ /\ With("username", <<"keycloak", p>>) = {}
            /\ \E id \in FirstOf(Candidates(p, KeycloakHas(p))) : Reads(q, Missed(id))
         \/ \E known \in SUBSET KeycloakHas(p) :
              \E id \in FirstOf(Candidates(p, known)) \cup {0} : Fails(q, Missed(id))

SyncClaims(q) ==
  LET x == loginReq[q]
      p == Syncing(q)
  IN  /\ In(q, "sync", "claim")
      /\ \/ /\ accounts' = Updated(x.id, x.row,
                 [KeycloakOver(x.row, p, SyncedEnabled(q)) EXCEPT !.username = <<"keycloak", p>>])
            /\ Continues(q, NextUser(q))
         \/ Fails(q, NextUser(q))

(* The column's default stands in for a status of 0.                        *)
SyncCreates(q) ==
  LET p == Syncing(q)
  IN  /\ In(q, "sync", "create")
      /\ \/ /\ Taken(0, <<"keycloak", p>>)
            /\ Reads(q, NextUser(q))
         \/ \E id \in AccountIds :
              /\ FreeId(id) /\ ~Taken(0, <<"keycloak", p>>)
              /\ accounts' = [accounts EXCEPT ![id] =
                   [KeycloakOver(NoAccount, p, TRUE) EXCEPT !.username = <<"keycloak", p>>]]
              /\ Continues(q, [loginReq[q] EXCEPT !.pc = "role", !.id = id,
                                                  !.new = @ \cup {p}])
         \/ Fails(q, NextUser(q))

SyncRole(q) ==
  /\ In(q, "sync", "role")
  /\ \/ /\ accounts' = IF loginReq[q].id \in AccountsThere
                      THEN [accounts EXCEPT ![loginReq[q].id].roles = @ \cup {"user"}]
                      ELSE accounts
        /\ Continues(q, NextUser(q))
     \/ Fails(q, NextUser(q))

SyncEnds(q) == In(q, "sync", "end") /\ Reads(q, NoLoginReq)

-----------------------------------------------------------------------------
(* What DingTalk may say of someone.                                        *)
DingTalkAnswers(p) ==
  LET full == [NoAccount EXCEPT
                 !.username = <<"userid", p>>, !.userid = <<"userid", p>>,
                 !.unionid = <<"unionid", p>>, !.name = Name(p), !.enable = 1,
                 !.mobile = Value("mobile", p, DingTalkHas(p)),
                 !.email = Value("email", p, DingTalkHas(p))]
      bare == [full EXCEPT !.name = <<"nick", p>>, !.mobile = Nothing, !.email = Nothing]
  IN  {full}
      \cup {bare : f \in DirectoryFaults \cap {"detail"}}
      \cup {[bare EXCEPT !.username = <<"dd", p>>, !.userid = Nothing] :
              f \in DirectoryFaults \cap {"userid"}}

(* DingTalkCallback: the account with the id, the mobile number, or the     *)
(* name and no id, in that order.                                           *)
DingTalkFinds(a) ==
  LET byId     == With("userid", a.userid) \cup With("unionid", a.unionid)
      byMobile == With("mobile", a.mobile)
      byName   == {id \in With("name", a.name) : accounts[id].userid = Nothing}
      proper   == {id \in byName : accounts[id].username[1] # "dd"}
  IN  IF byId # {} THEN byId ELSE IF byMobile # {} THEN byMobile
      ELSE IF proper # {} THEN proper ELSE byName

DingTalkCallback(q, p) ==
  \E a \in DingTalkAnswers(p) : \E id \in FirstOf(DingTalkFinds(a)) :
    Enters(q, "ding", p,
      [NoLoginReq EXCEPT !.op = "ding", !.pc = IF id = 0 THEN "create" ELSE "patch",
                         !.who = p, !.id = id, !.row = [RowOf(id) EXCEPT !.roles = {}],
                         !.answer = a])

DingTalkCreates(q) ==
  LET a == loginReq[q].answer
  IN  /\ In(q, "ding", "create")
      /\ IF Taken(0, a.username) THEN UNCHANGED accounts /\ Continues(q, NoLoginReq)
         ELSE \E id \in AccountIds :
                /\ FreeId(id)
                /\ accounts' = [accounts EXCEPT ![id] = a]
                /\ Continues(q, [loginReq[q] EXCEPT !.pc = "made", !.id = id, !.row = a])

(* It is looked up by its name; if that has gone nobody is let in, and if   *)
(* the row has been given roles they are replaced all the same.             *)
DingTalkMade(q) ==
  /\ In(q, "ding", "made")
  /\ \E id \in FirstOf(With("username", loginReq[q].row.username)) :
       Reads(q, IF id = 0 THEN NoLoginReq
                ELSE [loginReq[q] EXCEPT !.pc = "role", !.id = id, !.row = accounts[id]])

(* What the row that was read lacks.                                        *)
DingTalkPatches(q) ==
  LET x == loginReq[q]
      new == [f \in DOMAIN NoAccount |->
                IF f \in {"userid", "unionid", "name", "mobile", "email"} /\ x.row[f] = Nothing
                THEN x.answer[f] ELSE x.row[f]]
  IN  /\ In(q, "ding", "patch")
      /\ accounts' = IF new = x.row THEN accounts ELSE Updated(x.id, x.row, new)
      /\ Continues(q, [loginReq[q] EXCEPT !.pc = "reload", !.row = new])

(* The row again, by its name; if that has gone, what was read before does, *)
(* with no roles.                                                           *)
DingTalkReloads(q) ==
  LET x    == loginReq[q]
      now  == With("username", x.row.username)
  IN  /\ In(q, "ding", "reload")
      /\ \E id \in IF now = {} THEN {x.id} ELSE now :
           LET row == IF now = {} THEN x.row ELSE accounts[id]
           IN  Reads(q, IF row.roles = {}
                        THEN [x EXCEPT !.pc = "role", !.id = id, !.row = row] ELSE NoLoginReq)

DingTalkRole(q) ==
  /\ In(q, "ding", "role")
  /\ accounts' = Overwritten(loginReq[q].id, loginReq[q].row, {"user"})
  /\ Continues(q, NoLoginReq)

-----------------------------------------------------------------------------
(* OidcCallback: Keycloak lets someone in; his account, or one to claim.    *)
OidcCallback(q, p) ==
  /\ keycloak[p] = "enabled"
  /\ LET mine == With("username", <<"keycloak", p>>)
         pc(id) == IF mine # {} THEN "role" ELSE IF id = 0 THEN "create" ELSE "claim"
     IN  \E id \in IF mine # {} THEN mine
                   ELSE FirstOf(Candidates(p, KeycloakHas(p) \cap {"email"})) :
           Enters(q, "oidc", p,
             [NoLoginReq EXCEPT !.op = "oidc", !.pc = pc(id), !.who = p,
                                !.id = id, !.row = RowOf(id)])

OidcRow(p) ==
  [NoAccount EXCEPT !.username = <<"keycloak", p>>, !.name = Name(p), !.enable = 1,
                    !.email = Value("email", p, KeycloakHas(p))]

OidcClaims(q) ==
  LET x   == loginReq[q]
      row == OidcRow(x.who)
  IN  /\ In(q, "oidc", "claim")
      /\ accounts' =
           IF x.id \notin AccountsThere \/ Taken(x.id, row.username) THEN accounts
           ELSE [accounts EXCEPT ![x.id].username = row.username, ![x.id].name = row.name,
                                 ![x.id].email = IF row.email # Nothing THEN row.email ELSE @]
      /\ Continues(q, [x EXCEPT !.pc = "reload"])

OidcCreates(q) ==
  LET row == OidcRow(loginReq[q].who)
  IN  /\ In(q, "oidc", "create")
      /\ IF Taken(0, row.username) THEN UNCHANGED accounts /\ Continues(q, NoLoginReq)
         ELSE \E id \in AccountIds :
                /\ FreeId(id)
                /\ accounts' = [accounts EXCEPT ![id] = row]
                /\ Continues(q, [loginReq[q] EXCEPT !.pc = "reload", !.id = id])

(* If it has gone there is nobody to let in.                                *)
OidcReloads(q) ==
  LET now == With("username", <<"keycloak", loginReq[q].who>>)
  IN  /\ In(q, "oidc", "reload")
      /\ \E id \in FirstOf(now) :
           Reads(q, IF id = 0 THEN NoLoginReq
                    ELSE [loginReq[q] EXCEPT !.pc = "role", !.id = id, !.row = accounts[id]])

(* The roles of the groups in Keycloak take the place of all others; without*)
(* them, and any other, it is the default.                                  *)
OidcRole(q) ==
  LET x     == loginReq[q]
      roles == IF GroupRoles(x.who) # {} THEN GroupRoles(x.who)
               ELSE IF x.row.roles = {} THEN {"user"} ELSE {}
  IN  /\ In(q, "oidc", "role")
      /\ accounts' = IF roles = {} THEN accounts ELSE Overwritten(x.id, x.row, roles)
      /\ Continues(q, NoLoginReq)

-----------------------------------------------------------------------------
(* updateUserInfo, and as it changePassword and uploadAvatar: the row as it *)
(* was read is written back with its roles.                                 *)
updateUserInfo(q, p, id) ==
  /\ accounts[id].username \in {<<"keycloak", p>>, <<"userid", p>>, <<"dd", p>>}
  /\ Enters(q, "info", p,
       [NoLoginReq EXCEPT !.op = "info", !.pc = "write", !.who = p, !.id = id,
                          !.row = [accounts[id] EXCEPT !.name = Name(p),
                                                       !.mobile = <<"mobile", p>>]])

WritesInfo(q) ==
  /\ In(q, "info", "write")
  /\ accounts' = Overwritten(loginReq[q].id, loginReq[q].row, loginReq[q].row.roles)
  /\ Continues(q, NoLoginReq)

(* The administrator's requests, each of one write; of an account's form    *)
(* only the roles are changed.                                              *)
Administers(new) ==
  /\ Counts
  /\ accounts' = new
  /\ loginReq' = [r \in LoginRequests |-> [loginReq[r] EXCEPT !.calm = FALSE]]
  /\ UNCHANGED keycloak

createAccount(id, p, roles) ==
  /\ FreeId(id) /\ ~Taken(0, <<"keycloak", p>>)
  /\ Administers([accounts EXCEPT ![id] =
       [NoAccount EXCEPT !.username = <<"keycloak", p>>, !.enable = 1, !.roles = roles]])

updateAccount(id, roles) ==
  id \in AccountsThere /\ Administers([accounts EXCEPT ![id].roles = roles])

setAccountStatus(id, enable) ==
  id \in AccountsThere /\ Administers([accounts EXCEPT ![id].enable = enable])

deleteAccount(id) ==
  id \in AccountsThere /\ Administers([accounts EXCEPT ![id] = NoAccount])

KeycloakChanges(p, now) ==
  /\ now # keycloak[p]
  /\ Counts
  /\ keycloak' = [keycloak EXCEPT ![p] = now]
  /\ UNCHANGED <<accounts, loginReq>>

-----------------------------------------------------------------------------
DirectoryInit ==
  /\ keycloak \in [People -> {"absent", "enabled"}]
  /\ accounts = [id \in AccountIds |-> NoAccount]
  /\ loginReq = [q \in LoginRequests |-> NoLoginReq]
  /\ peopleEdits = 0

Synchronises(q) ==
  \/ syncKeycloakUsers(q) \/ SyncFinds(q) \/ SyncCleans(q) \/ SyncSaves(q)
  \/ SyncMisses(q) \/ SyncClaims(q) \/ SyncCreates(q) \/ SyncRole(q) \/ SyncEnds(q)

LogsIn(q) ==
  \/ \E p \in People : DingTalkCallback(q, p) \/ OidcCallback(q, p)
  \/ DingTalkCreates(q) \/ DingTalkMade(q)
  \/ DingTalkPatches(q) \/ DingTalkReloads(q) \/ DingTalkRole(q)
  \/ OidcClaims(q) \/ OidcCreates(q) \/ OidcReloads(q) \/ OidcRole(q)

EditsAccounts ==
  \/ \E q \in LoginRequests :
       \/ \E p \in People, id \in AccountIds : updateUserInfo(q, p, id)
       \/ WritesInfo(q)
  \/ \E id \in AccountIds, p \in People : createAccount(id, p, {"ops"})
  \/ \E id \in AccountIds : updateAccount(id, {"ops"}) \/ deleteAccount(id)
  \/ \E id \in AccountIds, enable \in {1, 2} : setAccountStatus(id, enable)

DirectoryNext ==
  \/ \E q \in LoginRequests : Synchronises(q) \/ LogsIn(q)
  \/ EditsAccounts
  \/ \E p \in People, now \in {"absent", "enabled", "disabled"} : KeycloakChanges(p, now)

DirectorySpec == DirectoryInit /\ [][DirectoryNext]_directoryVars

-----------------------------------------------------------------------------
DirectoryTypeOK ==
  /\ keycloak \in [People -> {"absent", "enabled", "disabled"}]
  /\ \A id \in AccountIds : DOMAIN accounts[id] = DOMAIN NoAccount
  /\ \A id \in AccountsThere : accounts[id].enable \in 0..2
  /\ \A a, b \in AccountsThere : accounts[a].username = accounts[b].username => a = b
  /\ \A q \in LoginRequests : loginReq[q].pc = "idle" => loginReq[q] = NoLoginReq
  /\ peopleEdits \in 0..MaxPeopleEdits

Namesakes(p) == {o \in People \ {p} : NameOf(o) = NameOf(p)}

(* A synchronisation that nothing came between, and during which the        *)
(* database failed at nothing, leaves everyone it listed whose name nobody  *)
(* else has with an account by his name in Keycloak, with his name and      *)
(* status (which is not so for one that it has made), whatever logins,      *)
(* stale writes and half-done synchronisations there were before; and       *)
(* unless he was obscure before, he has no other, and the user id of        *)
(* DingTalk if he had been known by it.  Of namesakes one may lose his      *)
(* account to the other.                                                    *)
OneAccountEachStep ==
  \A q \in LoginRequests :
    In(q, "sync", "end") /\ loginReq'[q].pc = "idle" /\ loginReq[q].calm =>
      \A user \in loginReq[q].listed :
        LET p == user[1]
        IN  Namesakes(p) = {} =>
            \E id \in AccountIds :
              LET row == accounts'[id]
              IN  /\ row.username = <<"keycloak", p>>
                  /\ row.name = Name(p)
                  /\ row.enable = IF p \in loginReq[q].new THEN 1 ELSE Status(user[2])
                  /\ p \in loginReq[q].clear =>
                       /\ AccountsOf(p, accounts') = {id}
                       /\ p \in loginReq[q].bound => row.userid = <<"userid", p>>

=============================================================================
