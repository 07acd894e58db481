------------------------- MODULE UserDirectory_proofs -------------------------
(***************************************************************************)
(* Lemmas about the accounts that logins and the synchronisation with       *)
(* Keycloak make, for whatever people, ids and requests.  The theorems over *)
(* what is driven from outside the console are in Background_proofs.        *)
(*                                                                          *)
(* The rows have to be accounts, those in the hands of a request included,  *)
(* and a request that is idle holds none (PeopleInv): this is what the      *)
(* types need, one lemma per step.  Whose an account is cannot be told so:  *)
(* two people may have one name, by which the code finds its rows, and what *)
(* OneAccountEach says of a synchronisation is model-checked only.          *)
(***************************************************************************)
EXTENDS UserDirectory, TLAPS, FiniteSetTheorems, SequenceTheorems, WellFoundedInduction

-----------------------------------------------------------------------------
(* The accounts.                                                            *)

(* The rows of accounts and the variables of a request have their fields,   *)
(* whatever values the fields may have; a request that is idle holds none.  *)
IsAccount(r) == DOMAIN r = DOMAIN NoAccount /\ r.enable \in 0 .. 2

IsLogin(x) ==
  /\ DOMAIN x = DOMAIN NoLoginReq
  /\ IsAccount(x.row) /\ IsAccount(x.answer) /\ IsAccount(x.dupRow)
  /\ x.pc = "idle" => x = NoLoginReq

AreAccounts(f) ==
  /\ DOMAIN f = AccountIds
  /\ \A id \in AccountIds : IsAccount(f[id])
  /\ \A a, b \in AccountIds :
       f[a].username = f[b].username /\ f[a].username # Nothing => a = b

PeopleInv ==
  /\ keycloak \in [People -> {"absent", "enabled", "disabled"}]
  /\ AreAccounts(accounts)
  /\ DOMAIN loginReq = LoginRequests
  /\ loginReq = [q \in LoginRequests |-> loginReq[q]]
  /\ \A q \in LoginRequests : IsLogin(loginReq[q])
  /\ peopleEdits \in 0 .. MaxPeopleEdits

LEMMA FieldsAre ==
  /\ DOMAIN NoAccount = {"username", "name", "mobile", "email", "userid", "unionid",
                         "enable", "roles"}
  /\ DOMAIN NoLoginReq = {"op", "pc", "who", "id", "row", "answer", "dup", "dupRow", "todo",
                          "listed", "new", "bound", "clear", "calm"}
BY DEF NoAccount, NoLoginReq

LEMMA NoAccountIs == IsAccount(NoAccount) /\ NoAccount.username = Nothing
BY DEF NoAccount, IsAccount

LEMMA NoLoginReqIs == IsLogin(NoLoginReq)
BY NoAccountIs DEF NoLoginReq, IsLogin

LEMMA AccountsOverwritten ==
  ASSUME PeopleInv, NEW id, NEW acc, IsAccount(acc), NEW roles
  PROVE  AreAccounts(Overwritten(id, acc, roles))
<1>1. CASE id \notin AccountsThere \/ Taken(id, acc.username)
  BY <1>1 DEF Overwritten, PeopleInv
<1>2. CASE id \in AccountsThere /\ ~Taken(id, acc.username)
  <2>1. PICK new : new = [f \in DOMAIN NoAccount |->
            IF f = "roles" THEN roles
            ELSE IF acc[f] = NoAccount[f] THEN accounts[id][f] ELSE acc[f]]
    OBVIOUS
  <2>2. id \in AccountIds /\ AreAccounts(accounts)
    BY <1>2 DEF AccountsThere, PeopleInv
  <2>3. Overwritten(id, acc, roles) = [accounts EXCEPT ![id] = new]
    BY <1>2, <2>1 DEF Overwritten
  <2>4. IsAccount(new)
    BY <2>1, <2>2, FieldsAre DEF IsAccount, AreAccounts
  <2>5. new.username = accounts[id].username \/ new.username = acc.username
    BY <2>1, FieldsAre
  <2>6. new.username = acc.username /\ new.username # Nothing =>
          \A b \in AccountIds \ {id} : accounts[b].username # new.username
    BY <1>2 DEF Taken, With, AccountsThere
  <2>. QED
    BY <2>2, <2>3, <2>4, <2>5, <2>6 DEF AreAccounts
<1>. QED
  BY <1>1, <1>2

LEMMA AccountsUpdated ==
  ASSUME PeopleInv, NEW id, NEW acc, IsAccount(acc), NEW over, IsAccount(over)
  PROVE  AreAccounts(Updated(id, acc, over))
<1>1. CASE id \notin AccountsThere \/ Taken(id, over.username)
  BY <1>1 DEF Updated, PeopleInv
<1>2. CASE id \in AccountsThere /\ ~Taken(id, over.username)
  <2>1. PICK new : new = [f \in DOMAIN NoAccount |->
                            IF over[f] = acc[f] THEN accounts[id][f] ELSE over[f]]
    OBVIOUS
  <2>2. id \in AccountIds /\ AreAccounts(accounts)
    BY <1>2 DEF AccountsThere, PeopleInv
  <2>3. Updated(id, acc, over) = [accounts EXCEPT ![id] = new]
    BY <1>2, <2>1 DEF Updated
  <2>4. IsAccount(new)
    BY <2>1, <2>2, FieldsAre DEF IsAccount, AreAccounts
  <2>5. new.username = accounts[id].username \/ new.username = over.username
    BY <2>1, FieldsAre
  <2>6. new.username = over.username /\ new.username # Nothing =>
          \A b \in AccountIds \ {id} : accounts[b].username # new.username
    BY <1>2 DEF Taken, With, AccountsThere
  <2>. QED
    BY <2>2, <2>3, <2>4, <2>5, <2>6 DEF AreAccounts
<1>. QED
  BY <1>1, <1>2

LEMMA AccountMade ==
  ASSUME PeopleInv, NEW id \in AccountIds, NEW acc, IsAccount(acc), ~Taken(0, acc.username)
  PROVE  AreAccounts([accounts EXCEPT ![id] = acc])
<1>1. acc.username # Nothing => \A b \in AccountIds : accounts[b].username # acc.username
  BY UserDirectoryAssumption DEF Taken, With, AccountsThere
<1>. QED
  BY <1>1 DEF AreAccounts, PeopleInv

LEMMA AccountGone ==
  ASSUME PeopleInv, NEW id
  PROVE  AreAccounts([accounts EXCEPT ![id] = NoAccount])
BY NoAccountIs DEF AreAccounts, PeopleInv

LEMMA AccountChanged ==
  ASSUME PeopleInv, NEW id \in AccountIds, NEW acc, IsAccount(acc),
         acc.username = accounts[id].username
  PROVE  AreAccounts([accounts EXCEPT ![id] = acc])
BY DEF AreAccounts, PeopleInv

LEMMA RolesChanged ==
  ASSUME PeopleInv, NEW id \in AccountIds, NEW roles
  PROVE  AreAccounts([accounts EXCEPT ![id].roles = roles])
<1>1. PICK acc : acc = [accounts[id] EXCEPT !.roles = roles]
  OBVIOUS
<1>2. IsAccount(acc) /\ acc.username = accounts[id].username
  BY <1>1, FieldsAre DEF IsAccount, PeopleInv, AreAccounts
<1>. QED
  BY <1>1, <1>2, AccountChanged

(* What is left of an idle request when others go on is nothing as before.  *)
LEMMA IdleStays ==
  ASSUME NEW b
  PROVE  [NoLoginReq EXCEPT !.calm = @ /\ b] = NoLoginReq
<1>1. PICK x : x = [NoLoginReq EXCEPT !.calm = @ /\ b]
  OBVIOUS
<1>2. DOMAIN x = DOMAIN NoLoginReq /\ \A f \in DOMAIN NoLoginReq : x[f] = NoLoginReq[f]
  BY <1>1 DEF NoLoginReq
<1>3. x = [f \in DOMAIN x |-> x[f]] /\ NoLoginReq = [f \in DOMAIN NoLoginReq |-> NoLoginReq[f]]
  BY <1>1 DEF NoLoginReq
<1>. QED
  BY <1>1, <1>2, <1>3

LEMMA CalmChanges ==
  ASSUME NEW x, IsLogin(x), NEW b
  PROVE  IsLogin([x EXCEPT !.calm = @ /\ b])
<1>1. CASE x.pc = "idle"
  BY <1>1, IdleStays, NoLoginReqIs DEF IsLogin
<1>2. CASE x.pc # "idle"
  BY <1>2, FieldsAre DEF IsLogin
<1>. QED
  BY <1>1, <1>2

LEMMA ContinuesIs ==
  ASSUME PeopleInv, NEW q \in LoginRequests, NEW x, Continues(q, x), IsLogin(x),
         AreAccounts(accounts')
  PROVE  PeopleInv'
<1>1. \A r \in LoginRequests : IsLogin([loginReq[r] EXCEPT !.calm = @ /\ accounts' = accounts])
  BY CalmChanges DEF PeopleInv
<1>2. /\ loginReq' = [r \in LoginRequests |->
           IF r = q THEN x ELSE [loginReq[r] EXCEPT !.calm = @ /\ accounts' = accounts]]
      /\ UNCHANGED <<keycloak, peopleEdits>>
  BY DEF Continues
<1>3. \A r \in LoginRequests : IsLogin(loginReq'[r])
  BY <1>1, <1>2
<1>4. AreAccounts(accounts)'
  BY DEF AreAccounts, IsAccount
<1>5. \A r \in LoginRequests : IsLogin(loginReq[r])'
  BY <1>3 DEF IsLogin
<1>. QED
  BY <1>2, <1>4, <1>5 DEF PeopleInv

LEMMA ReadsIs ==
  ASSUME PeopleInv, NEW q \in LoginRequests, NEW x, Reads(q, x), IsLogin(x)
  PROVE  PeopleInv'
<1>1. AreAccounts(accounts')
  BY DEF Reads, PeopleInv
<1>. QED
  BY <1>1, ContinuesIs DEF Reads

LEMMA EntersIs ==
  ASSUME PeopleInv, NEW q \in LoginRequests, NEW op, NEW p, NEW x, Enters(q, op, p, x),
         IsLogin(x)
  PROVE  PeopleInv'
<1>1. /\ loginReq' = [loginReq EXCEPT ![q] = x] /\ UNCHANGED <<keycloak, accounts>>
      /\ peopleEdits' \in 0 .. MaxPeopleEdits
  BY UserDirectoryAssumption DEF Enters, Counts, PeopleInv
<1>2. \A r \in LoginRequests : IsLogin(loginReq'[r])
  BY <1>1 DEF PeopleInv
<1>3. \A r \in LoginRequests : IsLogin(loginReq[r])'
  BY <1>2 DEF IsLogin
<1>. QED
  BY <1>1, <1>3 DEF PeopleInv, AreAccounts, IsAccount

LEMMA AdministersIs ==
  ASSUME PeopleInv, NEW new, Administers(new), AreAccounts(new)
  PROVE  PeopleInv'
<1>1. /\ loginReq' = [r \in LoginRequests |-> [loginReq[r] EXCEPT !.calm = FALSE]]
      /\ accounts' = new /\ UNCHANGED keycloak
      /\ peopleEdits' \in 0 .. MaxPeopleEdits
  BY UserDirectoryAssumption DEF Administers, Counts, PeopleInv
<1>2. ASSUME NEW r \in LoginRequests PROVE IsLogin(loginReq'[r])
  <2>1. PICK x : x = loginReq[r] /\ IsLogin(x)
    BY DEF PeopleInv
  <2>2. CASE x.pc = "idle"
    <3>1. [x EXCEPT !.calm = @ /\ FALSE] = [x EXCEPT !.calm = FALSE]
      OBVIOUS
    <3>. QED
      BY <1>1, <2>1, <3>1, CalmChanges
  <2>3. CASE x.pc # "idle"
    BY <1>1, <2>1, <2>3, FieldsAre DEF IsLogin
  <2>. QED
    BY <2>2, <2>3
<1>3. \A r \in LoginRequests : IsLogin(loginReq[r])'
  BY <1>2 DEF IsLogin
<1>. QED
  BY <1>1, <1>3 DEF PeopleInv, AreAccounts, IsAccount

(* Whoever is looked for is an account, if there is one.                    *)
LEMMA FoundIs ==
  ASSUME PeopleInv
  PROVE  /\ \A field, v : With(field, v) \subseteq AccountIds
         /\ \A S \in SUBSET AccountIds : \A id \in FirstOf(S) : IsAccount(RowOf(id))
         /\ \A id \in AccountIds : IsAccount(accounts[id])
<1>1. \A field, v : With(field, v) \subseteq AccountIds
  BY DEF With, AccountsThere
<1>2. \A id \in AccountIds : IsAccount(accounts[id])
  BY DEF PeopleInv, AreAccounts
<1>3. ASSUME NEW S \in SUBSET AccountIds, NEW id \in FirstOf(S) PROVE IsAccount(RowOf(id))
  <2>1. id = 0 \/ id \in AccountIds
    BY DEF FirstOf
  <2>. QED
    BY <1>2, <2>1, NoAccountIs DEF RowOf
<1>. QED
  BY <1>1, <1>2, <1>3

(* A request that goes on with another acc.                                 *)
LEMMA GoesOnWith ==
  ASSUME NEW x, IsLogin(x), NEW y, DOMAIN y = DOMAIN x, y.pc # "idle",
         IsAccount(y.row), IsAccount(y.answer), IsAccount(y.dupRow)
  PROVE  IsLogin(y)
BY DEF IsLogin

LEMMA KeycloakOverIs ==
  ASSUME NEW acc, IsAccount(acc), NEW p, NEW enabled
  PROVE  IsAccount(KeycloakOver(acc, p, enabled))
         /\ KeycloakOver(acc, p, enabled).username = acc.username
<1>1. Status(enabled) \in 0 .. 2
  BY DEF Status
<1>. QED
  BY <1>1, FieldsAre DEF KeycloakOver, IsAccount

LEMMA NextUserIs ==
  ASSUME PeopleInv, NEW q \in LoginRequests
  PROVE  IsLogin(NextUser(q)) /\ NextUser(q).pc # "idle"
<1>1. PICK x : x = loginReq[q] /\ IsLogin(x)
  BY DEF PeopleInv
<1>2. PICK todo, pc : todo = Tail(x.todo) /\ pc = IF todo = <<>> THEN "end" ELSE "read"
  OBVIOUS
<1>3. PICK y : y = [x EXCEPT !.pc = pc, !.todo = todo, !.id = 0, !.row = NoAccount,
                             !.dup = 0, !.dupRow = NoAccount]
  OBVIOUS
<1>4. IsLogin(y) /\ y.pc # "idle"
  BY <1>1, <1>2, <1>3, NoAccountIs, FieldsAre DEF IsLogin
<1>5. NextUser(q) = y
  BY <1>1, <1>2, <1>3 DEF NextUser
<1>. QED
  BY <1>4, <1>5

(* A synchronisation goes on although the database did not answer.          *)
LEMMA FailsIs ==
  ASSUME PeopleInv, NEW q \in LoginRequests, NEW y, IsLogin(y), y.pc # "idle", Fails(q, y)
  PROVE  PeopleInv'
<1>1. PICK z : z = [y EXCEPT !.calm = FALSE]
  OBVIOUS
<1>2. IsLogin(z)
  BY <1>1, FieldsAre DEF IsLogin
<1>. QED
  BY <1>1, <1>2, ReadsIs DEF Fails

LEMMA syncKeycloakUsersIs ==
  ASSUME PeopleInv, NEW q \in LoginRequests, syncKeycloakUsers(q)
  PROVE  PeopleInv'
<1>1. PICK todo, listed, known, plain :
        Enters(q, "sync", "all",
          [NoLoginReq EXCEPT !.op = "sync", !.pc = "read", !.who = "all", !.todo = todo,
                             !.listed = listed, !.bound = known, !.clear = plain, !.calm = TRUE])
  BY DEF syncKeycloakUsers
<1>2. PICK x : x = [NoLoginReq EXCEPT !.op = "sync", !.pc = "read", !.who = "all", !.todo = todo,
                             !.listed = listed, !.bound = known, !.clear = plain, !.calm = TRUE]
  OBVIOUS
<1>3. IsLogin(x)
  BY <1>2, NoLoginReqIs, FieldsAre DEF IsLogin
<1>. QED
  BY <1>1, <1>2, <1>3, EntersIs

LEMMA SyncFindsIs ==
  ASSUME PeopleInv, NEW q \in LoginRequests, SyncFinds(q)
  PROVE  PeopleInv'
<1>1. PICK x : x = loginReq[q] /\ IsLogin(x)
  BY DEF PeopleInv
<1>2. PICK S : S = {d \in With("name", Name(Syncing(q))) : accounts[d].userid # Nothing}
  OBVIOUS
<1>3. S \in SUBSET AccountIds
  BY <1>2, FoundIs
<1>4. PICK id \in AccountIds :
        \/ \E dup \in IF accounts[id].userid = Nothing THEN FirstOf(S \ {id}) ELSE {0} :
             Reads(q, [x EXCEPT !.pc = IF dup = 0 THEN "save" ELSE "clean",
                                !.id = id, !.row = accounts[id],
                                !.dup = dup, !.dupRow = RowOf(dup)])
        \/ Fails(q, [x EXCEPT !.pc = IF 0 = 0 THEN "save" ELSE "clean",
                              !.id = id, !.row = accounts[id],
                              !.dup = 0, !.dupRow = RowOf(0)])
  BY <1>1, <1>2, FoundIs DEF SyncFinds
<1>5. ASSUME NEW dup \in AccountIds \cup {0}
      PROVE  LET y == [x EXCEPT !.pc = IF dup = 0 THEN "save" ELSE "clean", !.id = id,
                                !.row = accounts[id], !.dup = dup, !.dupRow = RowOf(dup)]
             IN  IsLogin(y) /\ y.pc # "idle"
  <2>1. PICK acc, dupRow : /\ acc = accounts[id] /\ dupRow = RowOf(dup)
                           /\ IsAccount(acc) /\ IsAccount(dupRow)
    BY FoundIs, NoAccountIs DEF RowOf
  <2>2. PICK y : y = [x EXCEPT !.pc = IF dup = 0 THEN "save" ELSE "clean", !.id = id,
                               !.row = acc, !.dup = dup, !.dupRow = dupRow]
    OBVIOUS
  <2>3. IsLogin(y) /\ y.pc # "idle"
    BY <1>1, <2>1, <2>2, FieldsAre DEF IsLogin
  <2>. QED
    BY <2>1, <2>2, <2>3
<1>6. ASSUME NEW dup \in IF accounts[id].userid = Nothing THEN FirstOf(S \ {id}) ELSE {0}
      PROVE  dup \in AccountIds \cup {0}
  BY <1>3 DEF FirstOf
<1>7. 0 \in AccountIds \cup {0}
  OBVIOUS
<1>8. CASE Fails(q, [x EXCEPT !.pc = IF 0 = 0 THEN "save" ELSE "clean",
                              !.id = id, !.row = accounts[id],
                              !.dup = 0, !.dupRow = RowOf(0)])
  BY <1>5, <1>7, <1>8, FailsIs
<1>. QED
  BY <1>4, <1>5, <1>6, <1>8, ReadsIs

LEMMA SyncCleansIs ==
  ASSUME PeopleInv, NEW q \in LoginRequests, SyncCleans(q)
  PROVE  PeopleInv'
<1>1. PICK x : x = loginReq[q] /\ IsLogin(x)
  BY DEF PeopleInv
<1>2. PICK y, z : y = [x EXCEPT !.pc = "save"] /\ z = [y EXCEPT !.calm = FALSE]
  OBVIOUS
<1>3. IsLogin(y) /\ y.pc # "idle" /\ IsLogin(z)
  BY <1>1, <1>2, FieldsAre DEF IsLogin
<1>4. CASE accounts' = [accounts EXCEPT ![x.dup] = NoAccount] /\ Continues(q, y)
  BY <1>3, <1>4, AccountGone, ContinuesIs
<1>5. CASE Fails(q, y)
  BY <1>3, <1>5, FailsIs
<1>6. CASE accounts' = [accounts EXCEPT ![x.dup].roles = {}] /\ Continues(q, z)
  <2>1. CASE x.dup \in AccountIds
    BY <1>3, <1>6, <2>1, RolesChanged, ContinuesIs
  <2>2. CASE x.dup \notin AccountIds
    <3>1. AreAccounts(accounts')
      BY <1>6, <2>2 DEF PeopleInv, AreAccounts
    <3>. QED
      BY <1>3, <1>6, <3>1, ContinuesIs
  <2>. QED
    BY <2>1, <2>2
<1>. QED
  BY <1>1, <1>2, <1>4, <1>5, <1>6 DEF SyncCleans

LEMMA SyncSavesIs ==
  ASSUME PeopleInv, NEW q \in LoginRequests, SyncSaves(q)
  PROVE  PeopleInv'
<1>1. PICK x : x = loginReq[q] /\ IsLogin(x)
  BY DEF PeopleInv
<1>2. PICK kc : kc = KeycloakOver(x.row, Syncing(q), SyncedEnabled(q)) /\ IsAccount(kc)
  BY <1>1, KeycloakOverIs DEF IsLogin
<1>3. PICK new :
        new = IF x.dup = 0 THEN kc
              ELSE [kc EXCEPT
                     !.userid = x.dupRow.userid,
                     !.unionid = IF x.dupRow.unionid # Nothing THEN x.dupRow.unionid ELSE @,
                     !.mobile = IF x.row.mobile = Nothing /\ x.dupRow.mobile # Nothing
                                THEN x.dupRow.mobile ELSE @]
  OBVIOUS
<1>4. IsAccount(new)
  BY <1>2, <1>3, FieldsAre DEF IsAccount
<1>5. \/ accounts' = Updated(x.id, x.row, new) /\ Continues(q, NextUser(q))
      \/ Fails(q, NextUser(q))
  BY <1>1, <1>2, <1>3 DEF SyncSaves
<1>6. AreAccounts(Updated(x.id, x.row, new))
  BY <1>1, <1>4, AccountsUpdated DEF IsLogin
<1>. QED
  BY <1>5, <1>6, NextUserIs, ContinuesIs, FailsIs

LEMMA CandidatesAre ==
  ASSUME PeopleInv, NEW p, NEW known
  PROVE  Candidates(p, known) \subseteq AccountIds
BY FoundIs DEF Candidates

LEMMA SyncMissesIs ==
  ASSUME PeopleInv, NEW q \in LoginRequests, SyncMisses(q)
  PROVE  PeopleInv'
<1>1. PICK x : x = loginReq[q] /\ IsLogin(x)
  BY DEF PeopleInv
<1>2. ASSUME NEW id \in AccountIds \cup {0}
      PROVE  LET y == [x EXCEPT !.pc = IF id = 0 THEN "create" ELSE "claim",
                                !.id = id, !.row = RowOf(id)]
             IN  IsLogin(y) /\ y.pc # "idle"
  <2>1. PICK acc : acc = RowOf(id) /\ IsAccount(acc)
    BY FoundIs, NoAccountIs DEF RowOf
  <2>2. PICK y : y = [x EXCEPT !.pc = IF id = 0 THEN "create" ELSE "claim",
                               !.id = id, !.row = acc]
    OBVIOUS
  <2>3. IsLogin(y) /\ y.pc # "idle"
    BY <1>1, <2>1, <2>2, FieldsAre DEF IsLogin
  <2>. QED
    BY <2>1, <2>2, <2>3
<1>3. \A known : FirstOf(Candidates(Syncing(q), known)) \subseteq AccountIds \cup {0}
  BY CandidatesAre DEF FirstOf
<1>4. PICK id \in AccountIds \cup {0} :
        \/ Reads(q, [x EXCEPT !.pc = IF id = 0 THEN "create" ELSE "claim",
                              !.id = id, !.row = RowOf(id)])
        \/ Fails(q, [x EXCEPT !.pc = IF id = 0 THEN "create" ELSE "claim",
                              !.id = id, !.row = RowOf(id)])
  BY <1>1, <1>3 DEF SyncMisses
<1>. QED
  BY <1>2, <1>4, ReadsIs, FailsIs

LEMMA SyncClaimsIs ==
  ASSUME PeopleInv, NEW q \in LoginRequests, SyncClaims(q)
  PROVE  PeopleInv'
<1>1. PICK x : x = loginReq[q] /\ IsLogin(x)
  BY DEF PeopleInv
<1>2. PICK kc : kc = KeycloakOver(x.row, Syncing(q), SyncedEnabled(q)) /\ IsAccount(kc)
  BY <1>1, KeycloakOverIs DEF IsLogin
<1>3. PICK new : new = [kc EXCEPT !.username = <<"keycloak", Syncing(q)>>]
  OBVIOUS
<1>4. IsAccount(new)
  BY <1>2, <1>3, FieldsAre DEF IsAccount
<1>5. \/ accounts' = Updated(x.id, x.row, new) /\ Continues(q, NextUser(q))
      \/ Fails(q, NextUser(q))
  BY <1>1, <1>2, <1>3 DEF SyncClaims
<1>6. AreAccounts(Updated(x.id, x.row, new))
  BY <1>1, <1>4, AccountsUpdated DEF IsLogin
<1>. QED
  BY <1>5, <1>6, NextUserIs, ContinuesIs, FailsIs

LEMMA SyncCreatesIs ==
  ASSUME PeopleInv, NEW q \in LoginRequests, SyncCreates(q)
  PROVE  PeopleInv'
<1>1. PICK x : x = loginReq[q] /\ IsLogin(x)
  BY DEF PeopleInv
<1>2. PICK p : p = Syncing(q)
  OBVIOUS
<1>3. CASE Reads(q, NextUser(q)) \/ Fails(q, NextUser(q))
  BY <1>3, NextUserIs, ReadsIs, FailsIs
<1>4. CASE /\ ~Taken(0, <<"keycloak", p>>)
           /\ \E id \in AccountIds :
                /\ accounts' = [accounts EXCEPT ![id] =
                     [KeycloakOver(NoAccount, p, TRUE) EXCEPT !.username = <<"keycloak", p>>]]
                /\ Continues(q, [x EXCEPT !.pc = "role", !.id = id, !.new = @ \cup {p}])
  <2>1. PICK id \in AccountIds :
          /\ accounts' = [accounts EXCEPT ![id] =
               [KeycloakOver(NoAccount, p, TRUE) EXCEPT !.username = <<"keycloak", p>>]]
          /\ Continues(q, [x EXCEPT !.pc = "role", !.id = id, !.new = @ \cup {p}])
    BY <1>4
  <2>2. PICK kc : kc = KeycloakOver(NoAccount, p, TRUE) /\ IsAccount(kc)
    BY KeycloakOverIs, NoAccountIs
  <2>3. PICK acc : acc = [kc EXCEPT !.username = <<"keycloak", p>>]
    OBVIOUS
  <2>4. IsAccount(acc) /\ acc.username = <<"keycloak", p>>
    BY <2>2, <2>3, FieldsAre DEF IsAccount
  <2>8. accounts' = [accounts EXCEPT ![id] = acc]
    BY <2>1, <2>2, <2>3
  <2>9. ~Taken(0, acc.username)
    BY <1>4, <2>4
  <2>5. AreAccounts(accounts')
    BY <2>4, <2>8, <2>9, AccountMade
  <2>6. PICK y : y = [x EXCEPT !.pc = "role", !.id = id, !.new = @ \cup {p}]
    OBVIOUS
  <2>7. IsLogin(y)
    BY <1>1, <2>6, FieldsAre DEF IsLogin
  <2>. QED
    BY <2>1, <2>5, <2>6, <2>7, ContinuesIs
<1>. QED
  BY <1>1, <1>2, <1>3, <1>4 DEF SyncCreates

LEMMA SyncRoleIs ==
  ASSUME PeopleInv, NEW q \in LoginRequests, SyncRole(q)
  PROVE  PeopleInv'
<1>1. PICK id : id = loginReq[q].id
  OBVIOUS
<1>2. CASE Fails(q, NextUser(q))
  BY <1>2, NextUserIs, FailsIs
<1>3. CASE ~Fails(q, NextUser(q)) /\ id \in AccountsThere
  <2>1. PICK acc : acc = [accounts[id] EXCEPT !.roles = @ \cup {"user"}]
    OBVIOUS
  <2>2. id \in AccountIds /\ IsAccount(accounts[id])
    BY <1>3, FoundIs DEF AccountsThere
  <2>3. IsAccount(acc) /\ acc.username = accounts[id].username
    BY <2>1, <2>2, FieldsAre DEF IsAccount
  <2>4. accounts' = [accounts EXCEPT ![id] = acc] /\ Continues(q, NextUser(q))
    BY <1>1, <1>3, <2>1 DEF SyncRole
  <2>5. AreAccounts(accounts')
    BY <2>2, <2>3, <2>4, AccountChanged
  <2>. QED
    BY <2>4, <2>5, NextUserIs, ContinuesIs
<1>4. CASE ~Fails(q, NextUser(q)) /\ id \notin AccountsThere
  <2>1. accounts' = accounts /\ Continues(q, NextUser(q))
    BY <1>1, <1>4 DEF SyncRole
  <2>2. AreAccounts(accounts')
    BY <2>1 DEF PeopleInv
  <2>. QED
    BY <2>1, <2>2, NextUserIs, ContinuesIs
<1>. QED
  BY <1>2, <1>3, <1>4

LEMMA SyncEndsIs ==
  ASSUME PeopleInv, NEW q \in LoginRequests, SyncEnds(q)
  PROVE  PeopleInv'
BY NoLoginReqIs, ReadsIs DEF SyncEnds

(* What DingTalk says of someone is an account.                             *)
LEMMA DingTalkAnswersAre ==
  ASSUME NEW p, NEW a \in DingTalkAnswers(p)
  PROVE  IsAccount(a)
<1>1. PICK full : full = [NoAccount EXCEPT
                 !.username = <<"userid", p>>, !.userid = <<"userid", p>>,
                 !.unionid = <<"unionid", p>>, !.name = Name(p), !.enable = 1,
                 !.mobile = Value("mobile", p, DingTalkHas(p)),
                 !.email = Value("email", p, DingTalkHas(p))]
  OBVIOUS
<1>2. IsAccount(full)
  BY <1>1, FieldsAre DEF IsAccount
<1>3. PICK bare : bare = [full EXCEPT !.name = <<"nick", p>>, !.mobile = Nothing, !.email = Nothing]
  OBVIOUS
<1>4. IsAccount(bare)
  BY <1>2, <1>3, FieldsAre DEF IsAccount
<1>5. PICK least : least = [bare EXCEPT !.username = <<"dd", p>>, !.userid = Nothing]
  OBVIOUS
<1>6. IsAccount(least)
  BY <1>4, <1>5, FieldsAre DEF IsAccount
<1>7. a = full \/ a = bare \/ a = least
  BY <1>1, <1>3, <1>5 DEF DingTalkAnswers
<1>. QED
  BY <1>2, <1>4, <1>6, <1>7

LEMMA DingTalkFindsAre ==
  ASSUME PeopleInv, NEW a
  PROVE  DingTalkFinds(a) \subseteq AccountIds
BY FoundIs DEF DingTalkFinds

LEMMA DingTalkCallbackIs ==
  ASSUME PeopleInv, NEW q \in LoginRequests, NEW p, DingTalkCallback(q, p)
  PROVE  PeopleInv'
<1>0. PICK a \in DingTalkAnswers(p) : \E id \in FirstOf(DingTalkFinds(a)) :
        Enters(q, "ding", p,
          [NoLoginReq EXCEPT !.op = "ding", !.pc = IF id = 0 THEN "create" ELSE "patch",
                             !.who = p, !.id = id, !.row = [RowOf(id) EXCEPT !.roles = {}],
                             !.answer = a])
  BY DEF DingTalkCallback
<1>1. PICK id \in FirstOf(DingTalkFinds(a)) :
        Enters(q, "ding", p,
          [NoLoginReq EXCEPT !.op = "ding", !.pc = IF id = 0 THEN "create" ELSE "patch",
                             !.who = p, !.id = id, !.row = [RowOf(id) EXCEPT !.roles = {}],
                             !.answer = a])
  BY <1>0
<1>2. PICK r : r = RowOf(id) /\ IsAccount(r)
  BY FoundIs, DingTalkFindsAre
<1>3. PICK acc : acc = [r EXCEPT !.roles = {}] /\ IsAccount(acc)
  <2>1. IsAccount([r EXCEPT !.roles = {}])
    BY <1>2, FieldsAre DEF IsAccount
  <2>. QED
    BY <2>1
<1>4. PICK x : x = [NoLoginReq EXCEPT !.op = "ding", !.pc = IF id = 0 THEN "create" ELSE "patch",
                                      !.who = p, !.id = id, !.row = acc, !.answer = a]
  OBVIOUS
<1>5. IsLogin(x)
  BY <1>3, <1>4, NoLoginReqIs, DingTalkAnswersAre, FieldsAre DEF IsLogin
<1>6. Enters(q, "ding", p, x)
  BY <1>1, <1>2, <1>3, <1>4
<1>. QED
  BY <1>5, <1>6, EntersIs

LEMMA DingTalkCreatesIs ==
  ASSUME PeopleInv, NEW q \in LoginRequests, DingTalkCreates(q)
  PROVE  PeopleInv'
<1>1. PICK x : x = loginReq[q] /\ IsLogin(x)
  BY DEF PeopleInv
<1>2. PICK a : a = x.answer /\ IsAccount(a)
  BY <1>1 DEF IsLogin
<1>3. CASE UNCHANGED accounts /\ Continues(q, NoLoginReq)
  <2>1. AreAccounts(accounts')
    BY <1>3 DEF PeopleInv
  <2>. QED
    BY <1>3, <2>1, NoLoginReqIs, ContinuesIs
<1>4. CASE /\ ~Taken(0, a.username)
           /\ \E id \in AccountIds :
                /\ accounts' = [accounts EXCEPT ![id] = a]
                /\ Continues(q, [x EXCEPT !.pc = "made", !.id = id, !.row = a])
  <2>1. PICK id \in AccountIds :
          /\ accounts' = [accounts EXCEPT ![id] = a]
          /\ Continues(q, [x EXCEPT !.pc = "made", !.id = id, !.row = a])
    BY <1>4
  <2>2. AreAccounts(accounts')
    BY <1>2, <1>4, <2>1, AccountMade
  <2>3. PICK y : y = [x EXCEPT !.pc = "made", !.id = id, !.row = a]
    OBVIOUS
  <2>4. IsLogin(y)
    BY <1>1, <1>2, <2>3, FieldsAre DEF IsLogin
  <2>. QED
    BY <2>1, <2>2, <2>3, <2>4, ContinuesIs
<1>. QED
  BY <1>1, <1>2, <1>3, <1>4 DEF DingTalkCreates

(* A request ends or goes on to the roles of an account that is there.      *)
LEMMA RoleNext ==
  ASSUME PeopleInv, NEW x, IsLogin(x), NEW id, NEW acc, IsAccount(acc)
  PROVE  IsLogin([x EXCEPT !.pc = "role", !.id = id, !.row = acc])
<1>1. PICK y : y = [x EXCEPT !.pc = "role", !.id = id, !.row = acc]
  OBVIOUS
<1>2. IsLogin(y)
  BY <1>1, FieldsAre DEF IsLogin
<1>. QED
  BY <1>1, <1>2

LEMMA DingTalkMadeIs ==
  ASSUME PeopleInv, NEW q \in LoginRequests, DingTalkMade(q)
  PROVE  PeopleInv'
<1>1. PICK x : x = loginReq[q] /\ IsLogin(x)
  BY DEF PeopleInv
<1>2. PICK id \in FirstOf(With("username", x.row.username)) :
        Reads(q, IF id = 0 THEN NoLoginReq
                 ELSE [x EXCEPT !.pc = "role", !.id = id, !.row = accounts[id]])
  BY <1>1 DEF DingTalkMade
<1>3. CASE id = 0
  BY <1>2, <1>3, NoLoginReqIs, ReadsIs
<1>4. CASE id # 0
  <2>1. id \in AccountIds
    BY <1>4, FoundIs DEF FirstOf
  <2>2. IsLogin([x EXCEPT !.pc = "role", !.id = id, !.row = accounts[id]])
    BY <1>1, <2>1, FoundIs, RoleNext
  <2>. QED
    BY <1>2, <1>4, <2>2, ReadsIs
<1>. QED
  BY <1>3, <1>4

LEMMA DingTalkPatchesIs ==
  ASSUME PeopleInv, NEW q \in LoginRequests, DingTalkPatches(q)
  PROVE  PeopleInv'
<1>1. PICK x : x = loginReq[q] /\ IsLogin(x)
  BY DEF PeopleInv
<1>2. PICK new : new = [f \in DOMAIN NoAccount |->
                IF f \in {"userid", "unionid", "name", "mobile", "email"} /\ x.row[f] = Nothing
                THEN x.answer[f] ELSE x.row[f]]
  OBVIOUS
<1>3. IsAccount(new)
  BY <1>1, <1>2, FieldsAre DEF IsLogin, IsAccount
<1>4. /\ accounts' = IF new = x.row THEN accounts ELSE Updated(x.id, x.row, new)
      /\ Continues(q, [x EXCEPT !.pc = "reload", !.row = new])
  BY <1>1, <1>2 DEF DingTalkPatches
<1>5. AreAccounts(accounts')
  <2>1. AreAccounts(accounts) /\ AreAccounts(Updated(x.id, x.row, new))
    BY <1>1, <1>3, AccountsUpdated DEF IsLogin, PeopleInv
  <2>. QED
    BY <1>4, <2>1
<1>6. PICK y : y = [x EXCEPT !.pc = "reload", !.row = new]
  OBVIOUS
<1>7. IsLogin(y)
  BY <1>1, <1>3, <1>6, FieldsAre DEF IsLogin
<1>. QED
  BY <1>4, <1>5, <1>6, <1>7, ContinuesIs

LEMMA DingTalkReloadsIs ==
  ASSUME PeopleInv, NEW q \in LoginRequests, DingTalkReloads(q)
  PROVE  PeopleInv'
<1>1. PICK x : x = loginReq[q] /\ IsLogin(x)
  BY DEF PeopleInv
<1>2. PICK now : now = With("username", x.row.username) /\ now \subseteq AccountIds
  BY FoundIs
<1>0. PICK id \in IF now = {} THEN {x.id} ELSE now : \E acc :
        /\ acc = IF now = {} THEN x.row ELSE accounts[id]
        /\ Reads(q, IF acc.roles = {}
                    THEN [x EXCEPT !.pc = "role", !.id = id, !.row = acc] ELSE NoLoginReq)
  BY <1>1, <1>2 DEF DingTalkReloads
<1>3. PICK acc :
        /\ acc = IF now = {} THEN x.row ELSE accounts[id]
        /\ Reads(q, IF acc.roles = {}
                    THEN [x EXCEPT !.pc = "role", !.id = id, !.row = acc] ELSE NoLoginReq)
  BY <1>0
<1>4. IsAccount(acc)
  BY <1>0, <1>1, <1>2, <1>3, FoundIs DEF IsLogin
<1>5. IsLogin([x EXCEPT !.pc = "role", !.id = id, !.row = acc])
  BY <1>1, <1>4, RoleNext
<1>. QED
  BY <1>3, <1>5, NoLoginReqIs, ReadsIs

LEMMA DingTalkRoleIs ==
  ASSUME PeopleInv, NEW q \in LoginRequests, DingTalkRole(q)
  PROVE  PeopleInv'
<1>1. IsAccount(loginReq[q].row)
  BY DEF PeopleInv, IsLogin
<1>2. AreAccounts(accounts')
  BY <1>1, AccountsOverwritten DEF DingTalkRole
<1>. QED
  BY <1>2, NoLoginReqIs, ContinuesIs DEF DingTalkRole

LEMMA OidcCallbackIs ==
  ASSUME PeopleInv, NEW q \in LoginRequests, NEW p, OidcCallback(q, p)
  PROVE  PeopleInv'
<1>1. PICK mine : mine = With("username", <<"keycloak", p>>) /\ mine \subseteq AccountIds
  BY FoundIs
<1>2. PICK S : S = Candidates(p, KeycloakHas(p) \cap {"email"}) /\ S \in SUBSET AccountIds
  BY CandidatesAre
<1>3. PICK id \in IF mine # {} THEN mine ELSE FirstOf(S) :
        Enters(q, "oidc", p,
             [NoLoginReq EXCEPT
                !.op = "oidc",
                !.pc = IF mine # {} THEN "role" ELSE IF id = 0 THEN "create" ELSE "claim",
                !.who = p, !.id = id, !.row = RowOf(id)])
  BY <1>1, <1>2 DEF OidcCallback
<1>4. PICK acc : acc = RowOf(id) /\ IsAccount(acc)
  BY <1>1, <1>2, <1>3, FoundIs DEF FirstOf
<1>5. PICK x : x = [NoLoginReq EXCEPT
                !.op = "oidc",
                !.pc = IF mine # {} THEN "role" ELSE IF id = 0 THEN "create" ELSE "claim",
                !.who = p, !.id = id, !.row = acc]
  OBVIOUS
<1>6. IsLogin(x)
  BY <1>4, <1>5, NoLoginReqIs, FieldsAre DEF IsLogin
<1>. QED
  BY <1>3, <1>4, <1>5, <1>6, EntersIs

LEMMA OidcRowIs ==
  ASSUME NEW p
  PROVE  IsAccount(OidcRow(p))
BY FieldsAre, NoAccountIs DEF OidcRow, IsAccount

LEMMA OidcClaimsIs ==
  ASSUME PeopleInv, NEW q \in LoginRequests, OidcClaims(q)
  PROVE  PeopleInv'
<1>1. PICK x : x = loginReq[q] /\ IsLogin(x)
  BY DEF PeopleInv
<1>2. PICK acc, id : acc = OidcRow(x.who) /\ IsAccount(acc) /\ id = x.id
  BY OidcRowIs
<1>3. AreAccounts(accounts')
  <2>1. CASE id \notin AccountsThere \/ Taken(id, acc.username)
    BY <1>1, <1>2, <2>1 DEF OidcClaims, PeopleInv
  <2>2. CASE id \in AccountsThere /\ ~Taken(id, acc.username)
    <3>1. PICK old : old = accounts[id] /\ id \in AccountIds /\ IsAccount(old)
      BY <2>2, FoundIs DEF AccountsThere
    <3>2. PICK new : new = [old EXCEPT !.username = acc.username, !.name = acc.name,
                                       !.email = IF acc.email # Nothing THEN acc.email ELSE @]
      OBVIOUS
    <3>3. IsAccount(new) /\ new.username = acc.username
      BY <3>1, <3>2, FieldsAre DEF IsAccount
    <3>4. accounts' = [accounts EXCEPT ![id] = new]
      BY <1>1, <1>2, <2>2, <3>1, <3>2 DEF OidcClaims, PeopleInv, AreAccounts
    <3>5. \A b \in AccountIds \ {id} : accounts[b].username # new.username \/ new.username = Nothing
      BY <2>2, <3>3 DEF Taken, With, AccountsThere
    <3>. QED
      BY <3>1, <3>3, <3>4, <3>5 DEF AreAccounts, PeopleInv
  <2>. QED
    BY <2>1, <2>2
<1>4. PICK y : y = [x EXCEPT !.pc = "reload"]
  OBVIOUS
<1>5. IsLogin(y) /\ Continues(q, y)
  BY <1>1, <1>4, FieldsAre DEF IsLogin, OidcClaims
<1>. QED
  BY <1>3, <1>5, ContinuesIs

LEMMA OidcCreatesIs ==
  ASSUME PeopleInv, NEW q \in LoginRequests, OidcCreates(q)
  PROVE  PeopleInv'
<1>1. PICK x : x = loginReq[q] /\ IsLogin(x)
  BY DEF PeopleInv
<1>2. PICK acc : acc = OidcRow(x.who) /\ IsAccount(acc)
  BY OidcRowIs
<1>3. CASE UNCHANGED accounts /\ Continues(q, NoLoginReq)
  <2>1. AreAccounts(accounts')
    BY <1>3 DEF PeopleInv
  <2>. QED
    BY <1>3, <2>1, NoLoginReqIs, ContinuesIs
<1>4. CASE /\ ~Taken(0, acc.username)
           /\ \E id \in AccountIds :
                /\ accounts' = [accounts EXCEPT ![id] = acc]
                /\ Continues(q, [x EXCEPT !.pc = "reload", !.id = id])
  <2>1. PICK id \in AccountIds :
          /\ accounts' = [accounts EXCEPT ![id] = acc]
          /\ Continues(q, [x EXCEPT !.pc = "reload", !.id = id])
    BY <1>4
  <2>2. AreAccounts(accounts')
    BY <1>2, <1>4, <2>1, AccountMade
  <2>3. PICK y : y = [x EXCEPT !.pc = "reload", !.id = id]
    OBVIOUS
  <2>4. IsLogin(y)
    BY <1>1, <2>3, FieldsAre DEF IsLogin
  <2>. QED
    BY <2>1, <2>2, <2>3, <2>4, ContinuesIs
<1>. QED
  BY <1>1, <1>2, <1>3, <1>4 DEF OidcCreates

LEMMA OidcReloadsIs ==
  ASSUME PeopleInv, NEW q \in LoginRequests, OidcReloads(q)
  PROVE  PeopleInv'
<1>1. PICK x : x = loginReq[q] /\ IsLogin(x)
  BY DEF PeopleInv
<1>2. PICK id \in FirstOf(With("username", <<"keycloak", x.who>>)) :
        Reads(q, IF id = 0 THEN NoLoginReq
                 ELSE [x EXCEPT !.pc = "role", !.id = id, !.row = accounts[id]])
  BY <1>1 DEF OidcReloads
<1>3. CASE id = 0
  BY <1>2, <1>3, NoLoginReqIs, ReadsIs
<1>4. CASE id # 0
  <2>1. id \in AccountIds
    BY <1>4, FoundIs DEF FirstOf
  <2>2. IsLogin([x EXCEPT !.pc = "role", !.id = id, !.row = accounts[id]])
    BY <1>1, <2>1, FoundIs, RoleNext
  <2>. QED
    BY <1>2, <1>4, <2>2, ReadsIs
<1>. QED
  BY <1>3, <1>4

LEMMA OidcRoleIs ==
  ASSUME PeopleInv, NEW q \in LoginRequests, OidcRole(q)
  PROVE  PeopleInv'
<1>1. PICK x : x = loginReq[q] /\ IsLogin(x)
  BY DEF PeopleInv
<1>2. PICK roles : accounts' = IF roles = {} THEN accounts ELSE Overwritten(x.id, x.row, roles)
  BY <1>1 DEF OidcRole
<1>3. AreAccounts(accounts) /\ AreAccounts(Overwritten(x.id, x.row, roles))
  BY <1>1, AccountsOverwritten DEF IsLogin, PeopleInv
<1>4. AreAccounts(accounts')
  BY <1>2, <1>3
<1>. QED
  BY <1>4, NoLoginReqIs, ContinuesIs DEF OidcRole

LEMMA updateUserInfoIs ==
  ASSUME PeopleInv, NEW q \in LoginRequests, NEW p, NEW id \in AccountIds,
         updateUserInfo(q, p, id)
  PROVE  PeopleInv'
<1>1. PICK acc : acc = [accounts[id] EXCEPT !.name = Name(p), !.mobile = <<"mobile", p>>]
  OBVIOUS
<1>2. IsAccount(acc)
  BY <1>1, FoundIs, FieldsAre DEF IsAccount
<1>3. PICK x : x = [NoLoginReq EXCEPT !.op = "info", !.pc = "write", !.who = p, !.id = id,
                                      !.row = acc]
  OBVIOUS
<1>4. IsLogin(x) /\ Enters(q, "info", p, x)
  BY <1>1, <1>2, <1>3, NoLoginReqIs, FieldsAre DEF IsLogin, updateUserInfo
<1>. QED
  BY <1>4, EntersIs

LEMMA WritesInfoIs ==
  ASSUME PeopleInv, NEW q \in LoginRequests, WritesInfo(q)
  PROVE  PeopleInv'
<1>1. IsAccount(loginReq[q].row)
  BY DEF PeopleInv, IsLogin
<1>2. AreAccounts(accounts')
  BY <1>1, AccountsOverwritten DEF WritesInfo
<1>. QED
  BY <1>2, NoLoginReqIs, ContinuesIs DEF WritesInfo

LEMMA AdministrationIs ==
  ASSUME PeopleInv, NEW id \in AccountIds, NEW p, NEW roles, NEW enable \in {1, 2},
         \/ createAccount(id, p, roles) \/ updateAccount(id, roles)
         \/ deleteAccount(id) \/ setAccountStatus(id, enable)
  PROVE  PeopleInv'
<1>1. CASE createAccount(id, p, roles)
  <2>1. PICK acc : acc = [NoAccount EXCEPT !.username = <<"keycloak", p>>, !.enable = 1,
                                           !.roles = roles]
    OBVIOUS
  <2>2. IsAccount(acc) /\ acc.username = <<"keycloak", p>>
    BY <2>1, NoAccountIs, FieldsAre DEF IsAccount
  <2>3. ~Taken(0, acc.username) /\ Administers([accounts EXCEPT ![id] = acc])
    BY <1>1, <2>1, <2>2 DEF createAccount
  <2>. QED
    BY <2>2, <2>3, AccountMade, AdministersIs
<1>2. CASE updateAccount(id, roles)
  BY <1>2, RolesChanged, AdministersIs DEF updateAccount
<1>3. CASE deleteAccount(id)
  BY <1>3, AccountGone, AdministersIs DEF deleteAccount
<1>4. CASE setAccountStatus(id, enable)
  <2>1. PICK acc : acc = [accounts[id] EXCEPT !.enable = enable]
    OBVIOUS
  <2>2. IsAccount(acc) /\ acc.username = accounts[id].username
    BY <2>1, FoundIs, FieldsAre DEF IsAccount
  <2>3. Administers([accounts EXCEPT ![id] = acc])
    BY <1>4, <2>1 DEF setAccountStatus, PeopleInv, AreAccounts
  <2>. QED
    BY <2>2, <2>3, AccountChanged, AdministersIs
<1>. QED
  BY <1>1, <1>2, <1>3, <1>4

LEMMA KeycloakChangesIs ==
  ASSUME PeopleInv, NEW p \in People, NEW now \in {"absent", "enabled", "disabled"},
         KeycloakChanges(p, now)
  PROVE  PeopleInv'
<1>1. /\ keycloak' = [keycloak EXCEPT ![p] = now] /\ UNCHANGED <<accounts, loginReq>>
      /\ peopleEdits' \in 0 .. MaxPeopleEdits
  BY UserDirectoryAssumption DEF KeycloakChanges, Counts, PeopleInv
<1>. QED
  BY <1>1 DEF PeopleInv, AreAccounts, IsAccount, IsLogin

LEMMA PeopleBegin ==
  ASSUME DirectoryInit
  PROVE  PeopleInv
<1>1. AreAccounts(accounts)
  BY NoAccountIs DEF DirectoryInit, AreAccounts
<1>2. 0 \in 0 .. MaxPeopleEdits
  BY UserDirectoryAssumption
<1>. QED
  BY <1>1, <1>2, NoLoginReqIs DEF PeopleInv, DirectoryInit

LEMMA PeopleGoOn ==
  ASSUME PeopleInv, DirectoryNext
  PROVE  PeopleInv'
<1>1. ASSUME NEW q \in LoginRequests, Synchronises(q) PROVE PeopleInv'
  BY <1>1, syncKeycloakUsersIs, SyncFindsIs, SyncCleansIs, SyncSavesIs, SyncMissesIs,
     SyncClaimsIs, SyncCreatesIs, SyncRoleIs, SyncEndsIs DEF Synchronises
<1>2. ASSUME NEW q \in LoginRequests, LogsIn(q) PROVE PeopleInv'
  BY <1>2, DingTalkCallbackIs, OidcCallbackIs, DingTalkCreatesIs, DingTalkMadeIs,
     DingTalkPatchesIs, DingTalkReloadsIs, DingTalkRoleIs, OidcClaimsIs, OidcCreatesIs,
     OidcReloadsIs, OidcRoleIs DEF LogsIn
<1>3. ASSUME EditsAccounts PROVE PeopleInv'
  <2>1. ASSUME NEW id \in AccountIds, NEW enable \in {1, 2}, setAccountStatus(id, enable)
        PROVE  PeopleInv'
    BY <2>1, AdministrationIs
  <2>2. ASSUME NEW id \in AccountIds, NEW p, NEW roles,
               createAccount(id, p, roles) \/ updateAccount(id, roles) \/ deleteAccount(id)
        PROVE  PeopleInv'
    BY <2>2, AdministrationIs
  <2>. QED
    BY <1>3, <2>1, <2>2, updateUserInfoIs, WritesInfoIs DEF EditsAccounts
<1>. QED
  BY <1>1, <1>2, <1>3, KeycloakChangesIs DEF DirectoryNext

LEMMA PeopleStutter ==
  ASSUME PeopleInv, UNCHANGED directoryVars
  PROVE  PeopleInv'
BY DEF directoryVars, PeopleInv, AreAccounts, IsAccount, IsLogin

LEMMA DirectoryTyped ==
  ASSUME PeopleInv
  PROVE  DirectoryTypeOK
BY DEF DirectoryTypeOK, PeopleInv, AreAccounts, IsAccount, IsLogin, AccountsThere

=============================================================================
