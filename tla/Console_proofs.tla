---------------------------- MODULE Console_proofs ----------------------------
(***************************************************************************)
(* Proofs about the console: sessions, work orders (WorkOrder), the         *)
(* permissions of Jenkins jobs (JobPermission) and the rows about them      *)
(* (JenkinsJobs); and the theorems on what is configured in clusters,       *)
(* monitoring instances and roles, of which the lemmas are in               *)
(* Configuration_proofs.                                                    *)
(*                                                                          *)
(* A behaviour is one of a part, and the parts do not meet: PartsInv is     *)
(* the invariant of the part that the behaviour is of.                      *)
(*                                                                          *)
(* A request, the goroutine of the robot and the cron job each read the row *)
(* of an order, work on the copy and write it back whole, any number of     *)
(* them at once: copies are older than the row, answers are lost, and the   *)
(* invariant (OrderInv) has to hold of each copy as well as of the row.     *)
(* Sound is that: the nodes but those of executors are answered in order,   *)
(* and, as long as no executor has worked on the order, its status and its  *)
(* user are what its nodes say.  It is about one record alone, so that a    *)
(* copy that is written late, over a newer row, leaves a sound row.  Of an  *)
(* order that an executor has worked on it says nothing but that it has     *)
(* been: a cron job or a goroutine marks the node it has, whatever else     *)
(* became of the order.  Processes is what a process holds; that all copies *)
(* of an order have the nodes of one flow is SameOrder.                     *)
(***************************************************************************)
EXTENDS MCConsole, Configuration_proofs, TLAPS, WellFoundedInduction, SequenceTheorems,
        FiniteSetTheorems

-----------------------------------------------------------------------------
(* Sessions.  A request stores tokens that it looked at several steps       *)
(* before; Inv says what is still true of them.                             *)

(* A request in progress has signed tokens; one that is about to store a    *)
(* renewal stores it with another token of the same login.                  *)
HandlerInv(r) ==
  /\ handler[r].tok # 0 => Signed(handler[r].tok)
  /\ handler[r].new # 0 => Signed(handler[r].new)
  /\ handler[r].tok = 0 => handler[r].pc \in {"idle", "purge", "clear", "kick"}
  /\ handler[r].pc = "renewStore" =>
       /\ handler[r].new \notin {0, handler[r].tok}
       /\ token[handler[r].new].login = token[handler[r].tok].login

(* The latest and the previous token are two tokens of one login.           *)
PairInv ==
  /\ active.prev # 0 =>
       /\ active.latest # 0
       /\ Signed(active.prev)
       /\ token[active.latest].login = token[active.prev].login
  /\ active.grace => active.present /\ active.prev \notin {0, active.latest}

(* No request past its check holds a token that was shut out.               *)
BarredInv ==
  /\ \A t \in barred : Signed(t)
  /\ \A t \in barred : t \notin InFlight
  /\ ~active.present => barred = {}
  /\ BarredTokensStayOut

Inv == TypeOK /\ (\A r \in Handlers : HandlerInv(r)) /\ PairInv /\ BarredInv

-----------------------------------------------------------------------------
(* The actions that write token, and those that write active.               *)
LEMMA TokenSteps ==
  ASSUME Next
  PROVE  \/ UNCHANGED token
         \/ \E r \in Handlers : (\E t \in Tokens : UserLogin(r, t)) \/ RenewUserToken(r)
         \/ \E t \in Tokens : FallsDue(t) \/ Expires(t)
BY DEF Next, Arrival, Step, Time, RegisterOnlineSession, SetUserActiveToken, Request,
       CheckUserTokenStatus, Heal, RenewStore, EnsureOnlineSession, RefreshSession,
       CreateSession, HealActive, UserLogout, ClearUserActiveToken, GetOnlineSessionList,
       DeleteSession, KickoutOnlineUser, MarkKicked, CooldownEnds, GraceEnds, RestartServer

LEMMA ActiveSteps ==
  ASSUME Next
  PROVE  \/ UNCHANGED active
         \/ \E r \in Handlers :
              \/ SetUserActiveToken(r) \/ Heal(r) \/ RenewStore(r)
              \/ HealActive(r) \/ ClearUserActiveToken(r) \/ MarkKicked(r)
         \/ CooldownEnds \/ GraceEnds \/ RestartServer
BY DEF Next, Arrival, Step, Time, UserLogin, RegisterOnlineSession, Request,
       CheckUserTokenStatus, RenewUserToken, EnsureOnlineSession, RefreshSession,
       CreateSession, UserLogout, GetOnlineSessionList, DeleteSession, KickoutOnlineUser,
       FallsDue, Expires

(* A signed token stays signed, and of its login.                           *)
LEMMA SignedStays ==
  ASSUME TypeOK, Next, NEW u \in Tokens, Signed(u)
  PROVE  Signed(u)' /\ token'[u].login = token[u].login
<1> USE DEF TypeOK, TokenRecord, Signed, SignsNext
<1>1. CASE UNCHANGED token
  BY <1>1
<1>2. ASSUME NEW r \in Handlers, NEW t \in Tokens, UserLogin(r, t)
     PROVE  Signed(u)' /\ token'[u].login = token[u].login
  BY <1>2 DEF UserLogin
<1>3. ASSUME NEW r \in Handlers, RenewUserToken(r)
     PROVE  Signed(u)' /\ token'[u].login = token[u].login
  BY <1>3 DEF RenewUserToken
<1>4. ASSUME NEW t \in Tokens, FallsDue(t)
     PROVE  Signed(u)' /\ token'[u].login = token[u].login
  BY <1>4 DEF FallsDue
<1>5. ASSUME NEW t \in Tokens, Expires(t)
     PROVE  Signed(u)' /\ token'[u].login = token[u].login
  BY <1>5 DEF Expires
<1>. QED
  BY <1>1, <1>2, <1>3, <1>4, <1>5, TokenSteps

(* The two fields that CheckUserTokenStatus sets for a request it lets pass. *)
LEMMA HandlerUpdate ==
  ASSUME NEW h \in [Handlers -> HandlerRecord], NEW r \in Handlers,
         NEW pc \in {"ensure", "renew"}, NEW new \in Tokens \cup {0}
  PROVE  [h EXCEPT ![r].pc = pc, ![r].new = new] \in [Handlers -> HandlerRecord]
BY DEF HandlerRecord

(* Every step keeps the types.                                              *)
LEMMA TypeStep ==
  ASSUME TypeOK, \A r \in Handlers : HandlerInv(r), PairInv, Next
  PROVE  TypeOK'
<1> USE TokensAssumption DEF TypeOK, TokenRecord, TokenState, HandlerRecord, Signed,
                             HandlerInv, Idle, NoState, Active, Goto, Done
<1>1. ASSUME NEW r \in Handlers, NEW t \in Tokens, UserLogin(r, t)
     PROVE  TypeOK'
  BY <1>1 DEF UserLogin, SignsNext
<1>2. ASSUME NEW r \in Handlers, RegisterOnlineSession(r)
     PROVE  TypeOK'
  BY <1>2 DEF RegisterOnlineSession
<1>3. ASSUME NEW r \in Handlers, SetUserActiveToken(r)
     PROVE  TypeOK'
  BY <1>3 DEF SetUserActiveToken
<1>4. ASSUME NEW r \in Handlers, NEW t \in Tokens, Request(r, t)
     PROVE  TypeOK'
  BY <1>4 DEF Request, Valid
<1>5. ASSUME NEW r \in Handlers, CheckUserTokenStatus(r)
     PROVE  TypeOK'
  <2>1. handler' \in [Handlers -> HandlerRecord]
    <3>1. CASE ~active.present /\ Goto(r, "heal")
      BY <3>1
    <3>2. CASE Done(r)
      BY <3>2
    <3>3. CASE handler' = [handler EXCEPT ![r].pc = AfterCheck(handler[r].tok),
                 ![r].new = IF active.latest # handler[r].tok THEN active.latest ELSE 0]
      <4>1. AfterCheck(handler[r].tok) \in {"ensure", "renew"}
        BY DEF AfterCheck
      <4>2. (IF active.latest # handler[r].tok THEN active.latest ELSE 0) \in Tokens \cup {0}
        OBVIOUS
      <4>3. handler \in [Handlers -> HandlerRecord]
        OBVIOUS
      <4>. QED
        BY <3>3, <4>1, <4>2, <4>3, HandlerUpdate
    <3>. QED
      BY <1>5, <3>1, <3>2, <3>3 DEF CheckUserTokenStatus
  <2>. QED
    BY <1>5, <2>1 DEF CheckUserTokenStatus
<1>6. ASSUME NEW r \in Handlers, Heal(r)
     PROVE  TypeOK'
  <2>1. handler' \in [Handlers -> HandlerRecord]
    BY <1>6 DEF Heal, AfterCheck
  <2>2. handler[r].tok \in Tokens /\ Signed(handler[r].tok)
    BY <1>6 DEF Heal
  <2>3. active' = Active(handler[r].tok) /\ UNCHANGED <<token, session, barred>>
    BY <1>6 DEF Heal
  <2>. QED
    BY <2>1, <2>2, <2>3
<1>7. ASSUME NEW r \in Handlers, RenewUserToken(r)
     PROVE  TypeOK'
  BY <1>7 DEF RenewUserToken, SignsNext
<1>8. ASSUME NEW r \in Handlers, RenewStore(r)
     PROVE  TypeOK'
  BY <1>8 DEF RenewStore, Renewed
<1>9. ASSUME NEW r \in Handlers, EnsureOnlineSession(r)
     PROVE  TypeOK'
  BY <1>9 DEF EnsureOnlineSession
<1>10. ASSUME NEW r \in Handlers, RefreshSession(r)
     PROVE  TypeOK'
  BY <1>10 DEF RefreshSession
<1>11. ASSUME NEW r \in Handlers, CreateSession(r)
     PROVE  TypeOK'
  BY <1>11 DEF CreateSession
<1>12. ASSUME NEW r \in Handlers, HealActive(r)
     PROVE  TypeOK'
  BY <1>12 DEF HealActive
<1>13. ASSUME NEW r \in Handlers, NEW t \in Tokens, UserLogout(r, t)
     PROVE  TypeOK'
  BY <1>13 DEF UserLogout, Valid
<1>14. ASSUME NEW r \in Handlers, ClearUserActiveToken(r)
     PROVE  TypeOK'
  BY <1>14 DEF ClearUserActiveToken
<1>15. ASSUME NEW r \in Handlers, GetOnlineSessionList(r)
     PROVE  TypeOK'
  BY <1>15 DEF GetOnlineSessionList
<1>16. ASSUME NEW r \in Handlers, DeleteSession(r)
     PROVE  TypeOK'
  BY <1>16 DEF DeleteSession
<1>17. ASSUME NEW r \in Handlers, KickoutOnlineUser(r)
     PROVE  TypeOK'
  BY <1>17 DEF KickoutOnlineUser
<1>18. ASSUME NEW r \in Handlers, MarkKicked(r)
     PROVE  TypeOK'
  BY <1>18 DEF MarkKicked, Kicked
<1>19. ASSUME NEW t \in Tokens, FallsDue(t)
     PROVE  TypeOK'
  BY <1>19 DEF FallsDue
<1>20. ASSUME NEW t \in Tokens, Expires(t)
     PROVE  TypeOK'
  BY <1>20 DEF Expires
<1>21. CASE CooldownEnds
  BY <1>21 DEF CooldownEnds
<1>22. CASE GraceEnds
  BY <1>22 DEF GraceEnds, PairInv
<1>23. CASE RestartServer
  BY <1>23 DEF RestartServer
<1>. QED
  BY <1>1, <1>2, <1>3, <1>4, <1>5, <1>6, <1>7, <1>8, <1>9, <1>10, <1>11, <1>12, <1>13,
     <1>14, <1>15, <1>16, <1>17, <1>18, <1>19, <1>20, <1>21, <1>22, <1>23 DEF Next,
     Arrival, Step, Time

(* A request that is over remembers nothing; the others are as they were.   *)
LEMMA HandlerEnds ==
  ASSUME TypeOK, NEW r \in Handlers, Done(r), NEW q \in Handlers, HandlerInv(q),
         \A u \in Tokens : Signed(u) => Signed(u)' /\ token'[u].login = token[u].login
  PROVE  HandlerInv(q)'
<1>1. handler'[q] = IF q = r THEN Idle ELSE handler[q]
  BY DEF Done, TypeOK
<1>2. CASE q = r
  <2>1. handler'[q].pc = "idle" /\ handler'[q].tok = 0 /\ handler'[q].new = 0
    BY <1>1, <1>2 DEF Idle
  <2>. QED
    BY <2>1 DEF HandlerInv
<1>3. CASE q # r
  <2>1. handler'[q] = handler[q]
    BY <1>1, <1>3
  <2>2. handler[q].tok \in Tokens \cup {0} /\ handler[q].new \in Tokens \cup {0}
    BY DEF TypeOK, HandlerRecord
  <2>. HIDE DEF Signed
  <2>. QED
    BY <2>1, <2>2 DEF HandlerInv
<1>. QED
  BY <1>2, <1>3

(* Every step keeps what a request remembers good.                          *)
LEMMA HandlerStep ==
  ASSUME TypeOK, \A r \in Handlers : HandlerInv(r), Next, NEW q \in Handlers
  PROVE  HandlerInv(q)'
<1> DEFINE Kept == \A u \in Tokens : Signed(u) => Signed(u)' /\ token'[u].login = token[u].login
<1>0. Kept
  BY SignedStays
<1> USE TokensAssumption, <1>0 DEF TypeOK, TokenRecord, HandlerRecord, HandlerInv, Idle, Goto, Done
<1> HIDE DEF Signed
<1>1. ASSUME NEW r \in Handlers, NEW t \in Tokens, UserLogin(r, t)
     PROVE  HandlerInv(q)'
  BY <1>1 DEF UserLogin, Signed
<1>2. ASSUME NEW r \in Handlers, RegisterOnlineSession(r)
     PROVE  HandlerInv(q)'
  BY <1>2 DEF RegisterOnlineSession
<1>3. ASSUME NEW r \in Handlers, SetUserActiveToken(r)
     PROVE  HandlerInv(q)'
  BY <1>3, HandlerEnds DEF SetUserActiveToken
<1>4. ASSUME NEW r \in Handlers, NEW t \in Tokens, Request(r, t)
     PROVE  HandlerInv(q)'
  BY <1>4 DEF Request, Valid, Signed
<1>5. ASSUME NEW r \in Handlers, CheckUserTokenStatus(r)
     PROVE  HandlerInv(q)'
  BY <1>5 DEF CheckUserTokenStatus, AfterCheck, TokenState
<1>6. ASSUME NEW r \in Handlers, Heal(r)
     PROVE  HandlerInv(q)'
  BY <1>6 DEF Heal, AfterCheck
<1>7. ASSUME NEW r \in Handlers, RenewUserToken(r)
     PROVE  HandlerInv(q)'
  BY <1>7 DEF RenewUserToken, SignsNext, Signed, TokenState
<1>8. ASSUME NEW r \in Handlers, RenewStore(r)
     PROVE  HandlerInv(q)'
  BY <1>8 DEF RenewStore
<1>9. ASSUME NEW r \in Handlers, EnsureOnlineSession(r)
     PROVE  HandlerInv(q)'
  BY <1>9 DEF EnsureOnlineSession
<1>10. ASSUME NEW r \in Handlers, RefreshSession(r)
     PROVE  HandlerInv(q)'
  BY <1>10, HandlerEnds DEF RefreshSession
<1>11. ASSUME NEW r \in Handlers, CreateSession(r)
     PROVE  HandlerInv(q)'
  BY <1>11 DEF CreateSession
<1>12. ASSUME NEW r \in Handlers, HealActive(r)
     PROVE  HandlerInv(q)'
  BY <1>12, HandlerEnds DEF HealActive
<1>13. ASSUME NEW r \in Handlers, NEW t \in Tokens, UserLogout(r, t)
     PROVE  HandlerInv(q)'
  BY <1>13 DEF UserLogout
<1>14. ASSUME NEW r \in Handlers, ClearUserActiveToken(r)
     PROVE  HandlerInv(q)'
  BY <1>14, HandlerEnds DEF ClearUserActiveToken
<1>15. ASSUME NEW r \in Handlers, GetOnlineSessionList(r)
     PROVE  HandlerInv(q)'
  BY <1>15 DEF GetOnlineSessionList
<1>16. ASSUME NEW r \in Handlers, DeleteSession(r)
     PROVE  HandlerInv(q)'
  BY <1>16 DEF DeleteSession
<1>17. ASSUME NEW r \in Handlers, KickoutOnlineUser(r)
     PROVE  HandlerInv(q)'
  BY <1>17 DEF KickoutOnlineUser
<1>18. ASSUME NEW r \in Handlers, MarkKicked(r)
     PROVE  HandlerInv(q)'
  BY <1>18, HandlerEnds DEF MarkKicked
<1>19. ASSUME NEW t \in Tokens, FallsDue(t)
     PROVE  HandlerInv(q)'
  BY <1>19 DEF FallsDue
<1>20. ASSUME NEW t \in Tokens, Expires(t)
     PROVE  HandlerInv(q)'
  BY <1>20 DEF Expires
<1>21. CASE CooldownEnds
  BY <1>21 DEF CooldownEnds
<1>22. CASE GraceEnds
  BY <1>22 DEF GraceEnds
<1>23. CASE RestartServer
  BY <1>23 DEF RestartServer
<1>. QED
  BY <1>1, <1>2, <1>3, <1>4, <1>5, <1>6, <1>7, <1>8, <1>9, <1>10, <1>11, <1>12, <1>13,
     <1>14, <1>15, <1>16, <1>17, <1>18, <1>19, <1>20, <1>21, <1>22, <1>23 DEF Next,
     Arrival, Step, Time

(* Every step keeps the pair of accepted tokens to one login.               *)
LEMMA PairStep ==
  ASSUME TypeOK, \A r \in Handlers : HandlerInv(r), PairInv, Next
  PROVE  PairInv'
<1> DEFINE Kept == \A u \in Tokens : Signed(u) => Signed(u)' /\ token'[u].login = token[u].login
<1>0. Kept
  BY SignedStays
<1> USE TokensAssumption, <1>0 DEF TypeOK, TokenState, HandlerRecord, HandlerInv, PairInv, NoState, Active
<1>1. CASE UNCHANGED active
  BY <1>1
<1>2. ASSUME NEW r \in Handlers, SetUserActiveToken(r)
     PROVE  PairInv'
  BY <1>2 DEF SetUserActiveToken
<1>3. ASSUME NEW r \in Handlers, Heal(r)
     PROVE  PairInv'
  BY <1>3 DEF Heal
<1>4. ASSUME NEW r \in Handlers, RenewStore(r)
     PROVE  PairInv'
  BY <1>4 DEF RenewStore, Renewed
<1>5. ASSUME NEW r \in Handlers, HealActive(r)
     PROVE  PairInv'
  BY <1>5 DEF HealActive
<1>6. ASSUME NEW r \in Handlers, ClearUserActiveToken(r)
     PROVE  PairInv'
  BY <1>6 DEF ClearUserActiveToken
<1>7. ASSUME NEW r \in Handlers, MarkKicked(r)
     PROVE  PairInv'
  BY <1>7 DEF MarkKicked, Kicked
<1>8. CASE CooldownEnds
  BY <1>8 DEF CooldownEnds
<1>9. CASE GraceEnds
  BY <1>9 DEF GraceEnds
<1>10. CASE RestartServer
  BY <1>10 DEF RestartServer
<1>. QED
  BY <1>1, <1>2, <1>3, <1>4, <1>5, <1>6, <1>7, <1>8, <1>9, <1>10, ActiveSteps

(* No step makes a token that was shut out acceptable, or lets a request    *)
(* past its check with one.                                                 *)
LEMMA BarredStep ==
  ASSUME Inv, TypeOK', Next
  PROVE  BarredInv'
<1> DEFINE Kept == \A u \in Tokens : Signed(u) => Signed(u)' /\ token'[u].login = token[u].login
<1>0. Kept
  BY SignedStays DEF Inv
<1> USE TokensAssumption, <1>0 DEF Inv, TypeOK, TokenState, HandlerRecord, HandlerInv, PairInv, BarredInv,
     BarredTokensStayOut, Accepts, InFlight, NoState, Active, Idle, Goto, Done
<1>1. ASSUME NEW r \in Handlers, NEW t \in Tokens, UserLogin(r, t)
     PROVE  BarredInv'
  BY <1>1 DEF UserLogin, SignsNext
<1>2. ASSUME NEW r \in Handlers, RegisterOnlineSession(r)
     PROVE  BarredInv'
  BY <1>2 DEF RegisterOnlineSession
<1>3. ASSUME NEW r \in Handlers, SetUserActiveToken(r)
     PROVE  BarredInv'
  BY <1>3 DEF SetUserActiveToken
<1>4. ASSUME NEW r \in Handlers, NEW t \in Tokens, Request(r, t)
     PROVE  BarredInv'
  BY <1>4 DEF Request
<1>5. ASSUME NEW r \in Handlers, CheckUserTokenStatus(r)
     PROVE  BarredInv'
  BY <1>5 DEF CheckUserTokenStatus, AfterCheck
<1>6. ASSUME NEW r \in Handlers, Heal(r)
     PROVE  BarredInv'
  BY <1>6 DEF Heal, AfterCheck
<1>7. ASSUME NEW r \in Handlers, RenewUserToken(r)
     PROVE  BarredInv'
  BY <1>7 DEF RenewUserToken, SignsNext
<1>8. ASSUME NEW r \in Handlers, RenewStore(r)
     PROVE  BarredInv'
  BY <1>8 DEF RenewStore, Renewed
<1>9. ASSUME NEW r \in Handlers, EnsureOnlineSession(r)
     PROVE  BarredInv'
  BY <1>9 DEF EnsureOnlineSession
<1>10. ASSUME NEW r \in Handlers, RefreshSession(r)
     PROVE  BarredInv'
  BY <1>10 DEF RefreshSession
<1>11. ASSUME NEW r \in Handlers, CreateSession(r)
     PROVE  BarredInv'
  BY <1>11 DEF CreateSession
<1>12. ASSUME NEW r \in Handlers, HealActive(r)
     PROVE  BarredInv'
  BY <1>12 DEF HealActive
<1>13. ASSUME NEW r \in Handlers, NEW t \in Tokens, UserLogout(r, t)
     PROVE  BarredInv'
  BY <1>13 DEF UserLogout
<1>14. ASSUME NEW r \in Handlers, ClearUserActiveToken(r)
     PROVE  BarredInv'
  BY <1>14 DEF ClearUserActiveToken
<1>15. ASSUME NEW r \in Handlers, GetOnlineSessionList(r)
     PROVE  BarredInv'
  BY <1>15 DEF GetOnlineSessionList
<1>16. ASSUME NEW r \in Handlers, DeleteSession(r)
     PROVE  BarredInv'
  BY <1>16 DEF DeleteSession
<1>17. ASSUME NEW r \in Handlers, KickoutOnlineUser(r)
     PROVE  BarredInv'
  BY <1>17 DEF KickoutOnlineUser
<1>18. ASSUME NEW r \in Handlers, MarkKicked(r)
     PROVE  BarredInv'
  BY <1>18 DEF MarkKicked, Kicked
<1>19. ASSUME NEW t \in Tokens, FallsDue(t)
     PROVE  BarredInv'
  BY <1>19 DEF FallsDue
<1>20. ASSUME NEW t \in Tokens, Expires(t)
     PROVE  BarredInv'
  BY <1>20 DEF Expires
<1>21. CASE CooldownEnds
  BY <1>21 DEF CooldownEnds
<1>22. CASE GraceEnds
  BY <1>22 DEF GraceEnds
<1>23. CASE RestartServer
  BY <1>23 DEF RestartServer
<1>. QED
  BY <1>1, <1>2, <1>3, <1>4, <1>5, <1>6, <1>7, <1>8, <1>9, <1>10, <1>11, <1>12, <1>13,
     <1>14, <1>15, <1>16, <1>17, <1>18, <1>19, <1>20, <1>21, <1>22, <1>23 DEF Next,
     Arrival, Step, Time

-----------------------------------------------------------------------------
(* Nothing is stored at first.                                               *)
LEMMA SessionStart ==
  ASSUME Init
  PROVE  Inv
BY TokensAssumption DEF Init, Inv, TypeOK, TokenRecord, TokenState, HandlerRecord, NoState,
   Idle, HandlerInv, PairInv, BarredInv, BarredTokensStayOut, Accepts

(* No step breaks the invariant.                                             *)
LEMMA SessionStep ==
  ASSUME Inv, [Next]_vars
  PROVE  Inv'
<1>1. CASE Next
  BY <1>1, TypeStep, HandlerStep, PairStep, BarredStep DEF Inv
<1>2. CASE UNCHANGED vars
  BY <1>2 DEF vars, Inv, TypeOK, HandlerInv, PairInv, BarredInv, BarredTokensStayOut,
     Accepts, Signed, InFlight
<1>. QED
  BY <1>1, <1>2

(* The map never lets in the tokens of two logins.                           *)
LEMMA SessionSafety ==
  ASSUME Inv
  PROVE  TypeOK /\ OneLoginAccepted /\ BarredTokensStayOut
BY TokensAssumption DEF Inv, PairInv, BarredInv, OneLoginAccepted, Accepts

(* What a request remembers of the tokens, and what the map holds, stays     *)
(* good until it is used: the invariant of UserSession.                      *)
THEOREM SessionInvariance == Spec => []Inv
BY SessionStart, SessionStep, PTL DEF Spec

(* The types of the maps, the tokens and the requests, and that only signed  *)
(* tokens are stored.                                                        *)
THEOREM SessionTypes == Spec => []TypeOK
BY SessionInvariance, SessionSafety, PTL

(* The tokens of request_jwt.go's map that are accepted at one time are of   *)
(* one login.                                                                *)
THEOREM OneLogin == Spec => []OneLoginAccepted
BY SessionInvariance, SessionSafety, PTL

(* A login, a kick-out and the end of the grace period shut tokens out for   *)
(* as long as the map has an entry of the user.                              *)
THEOREM BarredOut == Spec => []BarredTokensStayOut
BY SessionInvariance, SessionSafety, PTL

-----------------------------------------------------------------------------
(* Work orders.                                                             *)

(* What a node of an order may be marked.                                   *)
Marks == {"open", "passed", "failed"}

(* A row with a flow of a template and a mark for each of its nodes.        *)
OrderType(o) == o \in Orders /\ DOMAIN o.mark = DOMAIN o.flow /\ o.flow \in Flows

IsLeast(i, S) == i \in S /\ \A k \in S : i <= k

(* The order is as it is written when i is the node that it waits for: the  *)
(* first of a flow, or one that the search for the next has found.          *)
WaitsAt(o, i) ==
  /\ IsLeast(i, Waiting(o))
  /\ o.current = o.flow[i].who
  /\ i = 1 => o.status = "pendingApproval"
  /\ i # 1 => /\ o.status = IF o.flow[i].type = "approval" THEN "pendingApproval" ELSE "pendingAction"
              /\ o.flow[i].type # "stop"
              /\ o.mark[FirstOpen(o) - 1] = "passed"

(* What a row is, and each copy that was read of it.  It says nothing of an *)
(* order that an executor has worked on, but that it stays one: so the      *)
(* copies that are written back may be as old as they like.                 *)
Sound(o) ==
  /\ Exists(o)
  /\ OrderType(o)
  /\ AnswersInOrder(o)
  /\ Pending(o) /\ Untouched(o) => \E i \in DOMAIN o.flow : WaitsAt(o, i)
  /\ FinishesLast(o)

-----------------------------------------------------------------------------
(* The order of the natural numbers as a relation.                          *)
Less == {p \in Nat \X Nat : p[1] < p[2]}

(* A set of natural numbers has a least element.                            *)
LEMMA LeastIs ==
  ASSUME NEW S \in SUBSET Nat, S # {}
  PROVE  \E x \in S : \A y \in S : x <= y
<1>1. OpToRel(<, Nat) = Less
  BY DEF OpToRel, Less
<1>2. IsWellFoundedOn(OpToRel(<, Nat), Nat) => IsWellFoundedOn(Less, Nat)
  BY <1>1, Zenon
<1>3. IsWellFoundedOn(Less, Nat)
  BY NatLessThanWellFounded, <1>2, Zenon
<1>4. PICK x \in S : \A y \in S : ~ (<<y, x>> \in Less)
  BY <1>3, WFMin
<1>5. ASSUME NEW y \in S PROVE x <= y
  <2>1. <<y, x>> \in Nat \X Nat /\ <<y, x>>[1] = y /\ <<y, x>>[2] = x
    OBVIOUS
  <2>2. ~ (y < x)
    BY <1>4, <2>1, Zenon DEF Less
  <2>. QED
    BY <2>2
<1>. QED
  BY <1>5

(* Lowest finds the least element of a set of natural numbers.              *)
LEMMA LowestIs ==
  ASSUME NEW S \in SUBSET Nat, S # {}
  PROVE  Lowest(S) \in S /\ \A k \in S : Lowest(S) <= k
BY LeastIs DEF Lowest

(* A least element is the lowest.                                           *)
LEMMA LeastIsLowest ==
  ASSUME NEW S \in SUBSET Nat, NEW i, IsLeast(i, S)
  PROVE  Lowest(S) = i
<1>1. S # {} /\ i \in S /\ \A k \in S : i <= k
  BY DEF IsLeast
<1>2. Lowest(S) \in S /\ \A k \in S : Lowest(S) <= k
  BY <1>1, LowestIs
<1>3. PICK n : n = Lowest(S)
  OBVIOUS
<1>4. n \in Nat /\ i \in Nat /\ n <= i /\ i <= n
  BY <1>1, <1>2, <1>3
<1>. QED
  BY <1>3, <1>4

(* A flow is a sequence of at least one node.                               *)
LEMMA FlowsAre ==
  ASSUME NEW f \in Flows
  PROVE  /\ Len(f) \in Nat \ {0}
         /\ DOMAIN f = 1..Len(f)
         /\ \A i \in DOMAIN f : f[i].type \in NodeTypes /\ f[i].who \in Names
<1>. DEFINE N == [type : NodeTypes, who : Names]
<1>1. f \in Seq(N) /\ f # <<>>
  BY WorkOrderAssumption
<1>2. \A n \in N : n.type \in NodeTypes /\ n.who \in Names
  OBVIOUS
<1>. HIDE DEF N
<1>3. Len(f) \in Nat \ {0}
  BY <1>1, EmptySeq
<1>4. DOMAIN f = 1..Len(f) /\ f \in [1..Len(f) -> N]
  BY <1>1, LenProperties
<1>. QED
  BY <1>2, <1>3, <1>4

(* The nodes of an order are numbered from 1, each has its mark.            *)
LEMMA OrderFlow ==
  ASSUME NEW o, OrderType(o)
  PROVE  /\ DOMAIN o.flow = 1..Len(o.flow) /\ Len(o.flow) \in Nat \ {0}
         /\ DOMAIN o.mark = DOMAIN o.flow
         /\ \A i \in DOMAIN o.flow :
              o.flow[i].type \in NodeTypes /\ o.flow[i].who \in Names
         /\ Open(o) \subseteq DOMAIN o.flow
         /\ DOMAIN o.flow \subseteq Nat
BY FlowsAre DEF OrderType, Open

(* The first open node.                                                     *)
LEMMA FirstOpenIs ==
  ASSUME NEW o, OrderType(o), Open(o) # {}
  PROVE  /\ FirstOpen(o) \in DOMAIN o.flow
         /\ o.mark[FirstOpen(o)] = "open"
         /\ \A k \in DOMAIN o.flow : o.mark[k] = "open" => FirstOpen(o) <= k
<1>1. Open(o) \in SUBSET Nat
  BY OrderFlow
<1>2. FirstOpen(o) \in Open(o) /\ \A k \in Open(o) : FirstOpen(o) <= k
  BY <1>1, LowestIs DEF FirstOpen
<1>. QED
  BY <1>2 DEF Open

(* The order with another mark of one node.                                 *)
WithMark(o, i, v) ==
  [status |-> o.status, current |-> o.current, flow |-> o.flow,
   mark |-> [o.mark EXCEPT ![i] = v]]

(* A mark that is set leaves the other marks and the rest of the row.       *)
LEMMA Marking ==
  ASSUME NEW o, OrderType(o), NEW i \in DOMAIN o.flow, NEW ok \in BOOLEAN,
         NEW p, p = WithMark(o, i, Verdict(ok))
  PROVE  /\ OrderType(p)
         /\ p.flow = o.flow /\ p.status = o.status /\ p.current = o.current
         /\ p.mark[i] = Verdict(ok)
         /\ \A k \in DOMAIN o.flow : k # i => p.mark[k] = o.mark[k]
<1>1. DOMAIN o.mark = DOMAIN o.flow
  BY OrderFlow
<1>2. o.mark \in Seq(Marks) /\ o.status \in OrderStatuses \cup {"none", "deleted"}
      /\ o.current \in Names \cup {Nobody} /\ o.flow \in Flows
  BY DEF OrderType, Orders, Marks
<1>3. Verdict(ok) \in Marks
  BY DEF Verdict, Marks
<1>. DEFINE m == [o.mark EXCEPT ![i] = Verdict(ok)]
<1>4. /\ m \in Seq(Marks) /\ DOMAIN m = DOMAIN o.mark
      /\ m[i] = Verdict(ok) /\ \A k \in DOMAIN o.flow : k # i => m[k] = o.mark[k]
  BY <1>1, <1>2, <1>3
<1>5. p = [status |-> o.status, current |-> o.current, flow |-> o.flow, mark |-> m]
  BY DEF WithMark
<1>. HIDE DEF m
<1>. QED
  BY <1>1, <1>2, <1>4, <1>5 DEF OrderType, Orders, Marks

(* A new status and a new name leave flow and marks as they are.            *)
WithStatus(o, status, who) ==
  [status |-> status, current |-> who, flow |-> o.flow, mark |-> o.mark]

(* The row has what was written, and is a row still.                        *)
LEMMA Naming ==
  ASSUME NEW o, OrderType(o), NEW status \in OrderStatuses,
         NEW who \in Names \cup {Nobody}, NEW p,
         p = WithStatus(o, status, who)
  PROVE  /\ OrderType(p) /\ Exists(p)
         /\ p.flow = o.flow /\ p.mark = o.mark
         /\ p.status = status /\ p.current = who
BY DEF OrderType, Orders, Exists, WithStatus

(* An order that ends waits for nobody, whatever was marked.                *)
LEMMA Ending ==
  ASSUME NEW o, OrderType(o), NEW status \in OrderStatuses, NEW p, p = EndedAs(o, status)
  PROVE  /\ OrderType(p) /\ Exists(p) /\ p.flow = o.flow /\ p.mark = o.mark
         /\ p.status = status
<1>1. Nobody \in Names \cup {Nobody}
  OBVIOUS
<1>2. p = WithStatus(o, status, Nobody)
  BY DEF EndedAs, OrderType, Orders, WithStatus
<1>. QED
  BY <1>1, <1>2, Naming

(* Flow and marks tell where an order stands.                               *)
LEMMA SameNodes ==
  ASSUME NEW o, NEW p, p.flow = o.flow, p.mark = o.mark
  PROVE  /\ Open(p) = Open(o) /\ Waiting(p) = Waiting(o) /\ FirstOpen(p) = FirstOpen(o)
         /\ Untouched(p) <=> Untouched(o)
         /\ AnswersInOrder(p) <=> AnswersInOrder(o)
<1>1. Open(p) = Open(o) /\ ForExecutors(p) = ForExecutors(o) /\ (Untouched(p) <=> Untouched(o))
  BY DEF Open, ForExecutors, Untouched
<1>. QED
  BY <1>1 DEF Waiting, FirstOpen, AnswersInOrder

(* What it waits for is a node of the flow.                                 *)
LEMMA WaitingAre ==
  ASSUME NEW o, OrderType(o)
  PROVE  Waiting(o) \in SUBSET Nat /\ Waiting(o) \subseteq DOMAIN o.flow
BY OrderFlow DEF Waiting

(* The invariant is enough for what the run checks of an order.             *)
LEMMA SoundNames ==
  ASSUME NEW o, Sound(o)
  PROVE  NamesFirst(o)
<1>. SUFFICES ASSUME Pending(o), Untouched(o)
              PROVE  /\ Waiting(o) # {}
                     /\ LET i == Lowest(Waiting(o))
                        IN /\ o.current = o.flow[i].who
                           /\ i # 1 => /\ o.status = IF o.flow[i].type = "approval"
                                                     THEN "pendingApproval" ELSE "pendingAction"
                                       /\ o.mark[FirstOpen(o) - 1] = "passed"
  BY DEF NamesFirst
<1>1. PICK i \in DOMAIN o.flow : WaitsAt(o, i)
  BY DEF Sound
<1>2. Lowest(Waiting(o)) = i /\ Waiting(o) # {}
  BY <1>1, WaitingAre, LeastIsLowest DEF Sound, WaitsAt, IsLeast
<1>. QED
  BY <1>1, <1>2 DEF WaitsAt

-----------------------------------------------------------------------------
(* The order moves to the next node, which somebody has to process, or is   *)
(* finished, if there is none before a stop node.                           *)
LEMMA Advancing ==
  ASSUME NEW o, OrderType(o), NEW i, NEW p, p = Advanced(o, i)
  PROVE  /\ OrderType(p) /\ Exists(p) /\ p.flow = o.flow /\ p.mark = o.mark
         /\ \/ /\ p.status = "finished"
               /\ \A k \in Ahead(o, i) : \E n \in 1..k : o.flow[n].type = "stop"
            \/ \E n \in Ahead(o, i) :
                 /\ IsLeast(n, Ahead(o, i)) /\ o.flow[n].type # "stop"
                 /\ p.current = o.flow[n].who
                 /\ p.status = IF o.flow[n].type = "approval"
                               THEN "pendingApproval" ELSE "pendingAction"
<1>1. /\ Ahead(o, i) \subseteq DOMAIN o.flow
      /\ DOMAIN o.flow = 1..Len(o.flow) /\ Len(o.flow) \in Nat
  BY OrderFlow DEF Ahead
<1>2. CASE Ahead(o, i) = {}
  <2>1. p = EndedAs(o, "finished") /\ "finished" \in OrderStatuses
    BY <1>2 DEF Advanced, OrderStatuses
  <2>. QED
    BY <1>2, <2>1, Ending
<1>3. CASE Ahead(o, i) # {}
  <2>1. PICK n : n = Lowest(Ahead(o, i))
    OBVIOUS
  <2>2. IsLeast(n, Ahead(o, i))
    BY <1>1, <1>3, <2>1, LowestIs DEF IsLeast
  <2>3. n \in Ahead(o, i) /\ n \in 1..Len(o.flow) /\ \A k \in Ahead(o, i) : n \in 1..k
    BY <1>1, <2>2 DEF IsLeast
  <2>4. CASE o.flow[n].type = "stop"
    <3>1. p = EndedAs(o, "finished") /\ "finished" \in OrderStatuses
      BY <2>1, <2>4 DEF Advanced, OrderStatuses
    <3>. QED
      BY <2>3, <2>4, <3>1, Ending
  <2>5. CASE o.flow[n].type # "stop"
    <3>1. PICK status : status = IF o.flow[n].type = "approval"
                                 THEN "pendingApproval" ELSE "pendingAction"
      OBVIOUS
    <3>2. status \in OrderStatuses /\ o.flow[n].who \in Names \cup {Nobody}
      BY <1>1, <2>3, <3>1, OrderFlow DEF OrderStatuses
    <3>3. p = [o EXCEPT !.status = status, !.current = o.flow[n].who]
      BY <1>3, <2>1, <2>5, <3>1, Zenon DEF Advanced
    <3>4. p = WithStatus(o, status, o.flow[n].who)
      BY <3>3 DEF OrderType, Orders, WithStatus
    <3>5. /\ OrderType(p) /\ Exists(p) /\ p.flow = o.flow /\ p.mark = o.mark
          /\ p.status = status /\ p.current = o.flow[n].who
      BY <3>2, <3>4, Naming
    <3>. QED
      BY <2>2, <2>3, <2>5, <3>1, <3>5
  <2>. QED
    BY <2>4, <2>5
<1>. QED
  BY <1>2, <1>3

(* Behind the first open node of an order that no executor has worked on    *)
(* all are open.                                                            *)
LEMMA OpenBehind ==
  ASSUME NEW o, OrderType(o), AnswersInOrder(o), Untouched(o), NEW i \in DOMAIN o.flow,
         o.mark[i] = "open"
  PROVE  \A k \in DOMAIN o.flow : i < k => o.mark[k] = "open"
BY DEF AnswersInOrder

(* An answer given to an order: the first open node is marked.              *)
Answered(o, i, ok, q) ==
  /\ OrderType(q) /\ q.flow = o.flow /\ q.mark[i] = Verdict(ok)
  /\ \A k \in DOMAIN o.flow : k # i => q.mark[k] = o.mark[k]

LEMMA AnswerKeepsOrder ==
  ASSUME NEW o, OrderType(o), AnswersInOrder(o), Open(o) # {},
         NEW ok \in BOOLEAN, NEW q, Answered(o, FirstOpen(o), ok, q)
  PROVE  /\ AnswersInOrder(q)
         /\ Untouched(q) => Untouched(o)
<1>1. PICK i : i = FirstOpen(o)
  OBVIOUS
<1>2. /\ i \in DOMAIN o.flow /\ o.mark[i] = "open"
      /\ \A k \in DOMAIN o.flow : o.mark[k] = "open" => i <= k
  BY <1>1, FirstOpenIs
<1>3. /\ q.flow = o.flow /\ q.mark[i] = Verdict(ok)
      /\ \A k \in DOMAIN o.flow : k # i => q.mark[k] = o.mark[k]
  BY <1>1 DEF Answered
<1>4. Verdict(ok) # "open"
  BY DEF Verdict
<1>5. Untouched(q) => Untouched(o)
  BY <1>2, <1>3 DEF Untouched
<1>6. ForExecutors(q) = ForExecutors(o) /\ DOMAIN o.flow \subseteq Nat
  BY <1>3, OrderFlow DEF ForExecutors
<1>7. ASSUME NEW a \in DOMAIN q.flow, NEW b \in DOMAIN q.flow,
             a < b, q.mark[a] = "open", q.mark[b] # "open"
      PROVE  b \in ForExecutors(q) /\ ~Untouched(q)
  <2>1. a # i /\ o.mark[a] = "open" /\ a \in DOMAIN o.flow /\ b \in DOMAIN o.flow
    BY <1>3, <1>4, <1>7
  <2>2. i <= a /\ i \in Nat /\ a \in Nat /\ b \in Nat
    BY <1>2, <1>6, <2>1
  <2>3. b # i
    BY <1>7, <2>1, <2>2
  <2>4. o.mark[b] # "open"
    BY <1>3, <1>7, <2>1, <2>3
  <2>. QED
    BY <1>5, <1>6, <1>7, <2>1, <2>4 DEF AnswersInOrder
<1>. QED
  BY <1>5, <1>7 DEF AnswersInOrder

(* What then is open is behind the answered node, if no executor has worked *)
(* on the order, and is what the search for the next node looks at.         *)
LEMMA AnswerLeaves ==
  ASSUME NEW o, OrderType(o), AnswersInOrder(o), Open(o) # {}, Untouched(o),
         NEW ok \in BOOLEAN, NEW i, i = FirstOpen(o), NEW q, Answered(o, i, ok, q)
  PROVE  /\ Open(q) = {k \in DOMAIN q.flow : i < k}
         /\ Waiting(q) = Ahead(q, i)
         /\ i \in DOMAIN q.flow /\ i \in Nat
<1>1. /\ i \in DOMAIN o.flow /\ o.mark[i] = "open"
      /\ \A k \in DOMAIN o.flow : o.mark[k] = "open" => i <= k
  BY FirstOpenIs
<1>2. /\ OrderType(q) /\ q.flow = o.flow /\ q.mark[i] # "open"
      /\ \A k \in DOMAIN o.flow : k # i => q.mark[k] = o.mark[k]
  BY DEF Answered, Verdict
<1>3. DOMAIN o.flow = 1..Len(o.flow) /\ Len(o.flow) \in Nat
  BY OrderFlow
<1>4. \A k \in DOMAIN o.flow : i < k => o.mark[k] = "open"
  BY <1>1, OpenBehind
<1>5. ASSUME NEW k \in DOMAIN o.flow PROVE q.mark[k] = "open" <=> i < k
  <2>1. i < k => q.mark[k] = "open"
    BY <1>2, <1>3, <1>4
  <2>2. q.mark[k] = "open" => k # i /\ o.mark[k] = "open"
    BY <1>2
  <2>3. q.mark[k] = "open" => i < k
    BY <1>1, <1>3, <2>2
  <2>. QED
    BY <2>1, <2>3
<1>6. Open(q) = {k \in DOMAIN q.flow : i < k}
  BY <1>2, <1>5 DEF Open
<1>7. Waiting(q) = Ahead(q, i)
  <2>1. \A k \in Open(q) : k # 1
    BY <1>1, <1>2, <1>3, <1>6
  <2>. QED
    BY <1>6, <2>1 DEF Waiting, Ahead
<1>. QED
  BY <1>1, <1>2, <1>3, <1>6, <1>7

(* An answer leaves the order sound.                                        *)
LEMMA Deciding ==
  ASSUME NEW o, Sound(o), Open(o) # {}, NEW ok \in BOOLEAN, NEW p, p = Decided(o, ok)
  PROVE  /\ Sound(p) /\ Exists(p) /\ p.flow = o.flow
         /\ p.status = "pendingAction" => \E k \in DOMAIN p.flow : p.current = p.flow[k].who
<1>0. OrderType(o) /\ AnswersInOrder(o)
  BY DEF Sound
<1>1. PICK i : i = FirstOpen(o)
  OBVIOUS
<1>2. i \in DOMAIN o.flow
  BY <1>0, <1>1, FirstOpenIs
<1>3. PICK q : q = [o EXCEPT !.mark[i] = Verdict(ok)]
  OBVIOUS
<1>4. q = WithMark(o, i, Verdict(ok))
  BY <1>0, <1>3 DEF OrderType, Orders, WithMark
<1>5. Answered(o, i, ok, q)
  BY <1>0, <1>2, <1>4, Marking DEF Answered
<1>6. p = IF ok THEN Advanced(q, i) ELSE EndedAs(q, "approvalReject")
  BY <1>1, <1>3, Zenon DEF Decided
<1>7. AnswersInOrder(q) /\ (Untouched(q) => Untouched(o)) /\ OrderType(q) /\ q.flow = o.flow
  BY <1>0, <1>1, <1>5, AnswerKeepsOrder DEF Answered
<1>8. CASE ~ok
  <2>1. p = EndedAs(q, "approvalReject") /\ "approvalReject" \in OrderStatuses
    BY <1>6, <1>8 DEF OrderStatuses
  <2>2. /\ OrderType(p) /\ Exists(p) /\ p.flow = q.flow /\ p.mark = q.mark
        /\ p.status = "approvalReject"
    BY <1>7, <2>1, Ending
  <2>3. AnswersInOrder(p)
    BY <1>7, <2>2, SameNodes
  <2>. QED
    BY <1>7, <2>2, <2>3 DEF Sound, Pending, FinishesLast
<1>9. CASE ok
  <2>1. p = Advanced(q, i)
    BY <1>6, <1>9
  <2>2. /\ OrderType(p) /\ Exists(p) /\ p.flow = q.flow /\ p.mark = q.mark
        /\ \/ /\ p.status = "finished"
              /\ \A k \in Ahead(q, i) : \E n \in 1..k : q.flow[n].type = "stop"
           \/ \E n \in Ahead(q, i) :
                /\ IsLeast(n, Ahead(q, i)) /\ q.flow[n].type # "stop"
                /\ p.current = q.flow[n].who
                /\ p.status = IF q.flow[n].type = "approval"
                              THEN "pendingApproval" ELSE "pendingAction"
    BY <1>7, <2>1, Advancing
  <2>3. /\ Waiting(p) = Waiting(q) /\ Open(p) = Open(q) /\ (Untouched(p) <=> Untouched(q))
        /\ AnswersInOrder(p) /\ FirstOpen(p) = FirstOpen(q)
    BY <1>7, <2>2, SameNodes
  <2>4. ASSUME Untouched(p)
        PROVE  /\ Open(q) = {k \in DOMAIN q.flow : i < k}
               /\ Waiting(p) = Ahead(q, i)
               /\ i \in DOMAIN q.flow /\ i \in Nat /\ q.mark[i] = Verdict(ok)
    BY <1>0, <1>1, <1>5, <1>7, <2>3, <2>4, AnswerLeaves DEF Answered
  <2>5. FinishesLast(p)
    <3>. SUFFICES ASSUME p.status = "finished", Untouched(p), NEW k \in Waiting(p)
                  PROVE  \E n \in 1..k : p.flow[n].type = "stop"
      BY DEF FinishesLast
    <3>1. ~\E n \in Ahead(q, i) : p.status = IF q.flow[n].type = "approval"
                                             THEN "pendingApproval" ELSE "pendingAction"
      OBVIOUS
    <3>. QED
      BY <2>2, <2>4, <3>1
  <2>6. ASSUME Pending(p), Untouched(p)
        PROVE  \E n \in DOMAIN p.flow : WaitsAt(p, n)
    <3>1. PICK n \in Ahead(q, i) :
            /\ IsLeast(n, Ahead(q, i)) /\ q.flow[n].type # "stop"
            /\ p.current = q.flow[n].who
            /\ p.status = IF q.flow[n].type = "approval"
                          THEN "pendingApproval" ELSE "pendingAction"
      BY <2>2, <2>6 DEF Pending
    <3>2. n \in DOMAIN q.flow /\ i < n /\ n \in Nat /\ i \in Nat /\ 0 < i
          /\ DOMAIN q.flow = 1..Len(q.flow) /\ Len(q.flow) \in Nat
      BY <1>7, <2>4, <2>6, OrderFlow DEF Ahead
    <3>3. n # 1
      BY <3>2
    <3>4. IsLeast(i + 1, Open(q))
      <4>1. i + 1 \in DOMAIN q.flow
        BY <3>2
      <4>. QED
        BY <2>4, <2>6, <3>2, <4>1 DEF IsLeast
    <3>5. FirstOpen(p) = i + 1
      <4>1. Open(q) \in SUBSET Nat
        BY <1>7, OrderFlow
      <4>2. Lowest(Open(q)) = i + 1
        BY <3>4, <4>1, LeastIsLowest
      <4>. QED
        BY <2>3, <4>2 DEF FirstOpen
    <3>6. p.mark[FirstOpen(p) - 1] = "passed"
      <4>1. FirstOpen(p) - 1 = i
        BY <3>2, <3>5
      <4>. QED
        BY <1>9, <2>2, <2>4, <2>6, <4>1 DEF Verdict
    <3>7. IsLeast(n, Waiting(p))
      BY <2>4, <2>6, <3>1
    <3>. QED
      BY <2>2, <3>1, <3>2, <3>3, <3>6, <3>7 DEF WaitsAt
  <2>7. p.status = "pendingAction" => \E k \in DOMAIN p.flow : p.current = p.flow[k].who
    <3>1. Ahead(q, i) \subseteq DOMAIN q.flow
      BY DEF Ahead
    <3>. QED
      BY <2>2, <3>1
  <2>8. Sound(p)
    BY <2>2, <2>3, <2>5, <2>6 DEF Sound
  <2>. QED
    BY <1>7, <2>2, <2>7, <2>8
<1>. QED
  BY <1>8, <1>9

(* An executor marks the first open node that he takes for his.             *)
LEMMA Marked ==
  ASSUME NEW o, OrderType(o), NEW S \in SUBSET Open(o), NEW ok \in BOOLEAN,
         NEW status \in OrderStatuses, NEW p, p = EndedAs(MarkFirst(o, S, ok), status)
  PROVE  /\ OrderType(p) /\ Exists(p) /\ p.flow = o.flow
         /\ \A k \in DOMAIN o.flow : p.mark[k] = o.mark[k] \/ (k \in S /\ p.mark[k] # "open")
         /\ S # {} => Lowest(S) \in S /\ p.mark[Lowest(S)] # "open"
<1>1. PICK q : q = MarkFirst(o, S, ok)
  OBVIOUS
<1>2. S \in SUBSET Nat /\ S \subseteq DOMAIN o.flow
  BY OrderFlow
<1>3. /\ OrderType(q) /\ q.flow = o.flow
      /\ \A k \in DOMAIN o.flow : q.mark[k] = o.mark[k] \/ (k \in S /\ q.mark[k] # "open")
      /\ S # {} => Lowest(S) \in S /\ q.mark[Lowest(S)] # "open"
  <2>1. CASE S = {}
    BY <1>1, <2>1 DEF MarkFirst
  <2>2. CASE S # {}
    <3>1. PICK i \in S : i = Lowest(S)
      BY <1>2, <2>2, LowestIs
    <3>2. q = WithMark(o, i, Verdict(ok)) /\ i \in DOMAIN o.flow
      BY <1>1, <1>2, <2>2, <3>1 DEF MarkFirst, OrderType, Orders, WithMark
    <3>3. Verdict(ok) # "open"
      BY DEF Verdict
    <3>. QED
      BY <3>1, <3>2, <3>3, Marking
  <2>. QED
    BY <2>1, <2>2
<1>4. p = EndedAs(q, status)
  BY <1>1
<1>5. OrderType(p) /\ Exists(p) /\ p.flow = q.flow /\ p.mark = q.mark
  BY <1>3, <1>4, Ending
<1>. QED
  BY <1>3, <1>5

(* Once he has marked one of his own, little is said of the order.          *)
LEMMA Executing ==
  ASSUME NEW o, Sound(o), NEW S \in SUBSET (Open(o) \cap ForExecutors(o)),
         NEW ok \in BOOLEAN, NEW status \in OrderStatuses,
         NEW p, p = EndedAs(MarkFirst(o, S, ok), status), ~Untouched(p)
  PROVE  Sound(p) /\ Exists(p) /\ p.flow = o.flow
<1>1. OrderType(o) /\ AnswersInOrder(o)
  BY DEF Sound
<1>2. /\ OrderType(p) /\ Exists(p) /\ p.flow = o.flow
      /\ \A k \in DOMAIN o.flow : p.mark[k] = o.mark[k] \/ (k \in S /\ p.mark[k] # "open")
  BY <1>1, Marked
<1>3. AnswersInOrder(p)
  <2>. SUFFICES ASSUME NEW a \in DOMAIN p.flow, NEW b \in DOMAIN p.flow,
                       a < b, p.mark[a] = "open", p.mark[b] # "open"
                PROVE  b \in ForExecutors(p)
    BY DEF AnswersInOrder
  <2>1. ForExecutors(p) = ForExecutors(o)
    BY <1>2 DEF ForExecutors
  <2>2. a \in DOMAIN o.flow /\ b \in DOMAIN o.flow /\ o.mark[a] = "open"
    BY <1>2
  <2>3. CASE b \in S
    BY <2>1, <2>3
  <2>4. CASE b \notin S
    <3>1. o.mark[b] # "open"
      BY <1>2, <2>2, <2>4
    <3>. QED
      BY <1>1, <2>1, <2>2, <3>1 DEF AnswersInOrder
  <2>. QED
    BY <2>3, <2>4
<1>. QED
  BY <1>2, <1>3 DEF Sound, FinishesLast

(* The robot was called for a node of its own in the flow: it marks it, or  *)
(* it is marked.                                                            *)
LEMMA RobotTouches ==
  ASSUME NEW o, OrderType(o), NEW k \in DOMAIN o.flow, o.flow[k].who = Robot,
         NEW ok \in BOOLEAN, NEW status \in OrderStatuses,
         NEW p, p = EndedAs(MarkFirst(o, RobotNodes(o), ok), status)
  PROVE  ~Untouched(p)
<1>1. PICK S : S = RobotNodes(o)
  OBVIOUS
<1>2. S \in SUBSET Open(o) /\ Open(o) \subseteq DOMAIN o.flow
  BY <1>1, OrderFlow DEF RobotNodes
<1>3. /\ p.flow = o.flow
      /\ \A m \in DOMAIN o.flow : p.mark[m] = o.mark[m] \/ (m \in S /\ p.mark[m] # "open")
      /\ S # {} => Lowest(S) \in S /\ p.mark[Lowest(S)] # "open"
  BY <1>1, <1>2, Marked
<1>4. CASE S = {}
  <2>1. o.mark[k] # "open"
    BY <1>1, <1>4 DEF RobotNodes, Open
  <2>. QED
    BY <1>3, <1>4, <2>1 DEF Untouched
<1>5. CASE S # {}
  <2>1. Lowest(S) \in DOMAIN o.flow /\ o.flow[Lowest(S)].who = Robot
    BY <1>1, <1>2, <1>3, <1>5 DEF RobotNodes
  <2>. QED
    BY <1>3, <1>5, <2>1 DEF Untouched
<1>. QED
  BY <1>4, <1>5

(* The cron job takes an order up for a node of its account.                *)
Taken(o) == o.status = "pendingAction" /\ o.current = ServiceAccount

LEMMA TakenWaits ==
  ASSUME NEW o, Sound(o), Taken(o), Untouched(o)
  PROVE  \E k \in ActionNodes(o) :
           /\ k = Lowest(ActionNodes(o)) /\ k = Lowest(Waiting(o)) /\ o.flow[k].who = ServiceAccount
           /\ k > 1 /\ o.mark[FirstOpen(o) - 1] = "passed"
<1>1. OrderType(o)
  BY DEF Sound
<1>2. PICK k \in DOMAIN o.flow : WaitsAt(o, k)
  BY DEF Sound, Taken, Pending
<1>3. /\ DOMAIN o.flow = 1..Len(o.flow) /\ Len(o.flow) \in Nat
      /\ o.flow[k].type \in NodeTypes /\ ActionNodes(o) \in SUBSET Nat
  BY <1>1, OrderFlow DEF ActionNodes
<1>4. IsLeast(k, Waiting(o)) /\ o.flow[k].who = ServiceAccount
  BY <1>2 DEF WaitsAt, Taken
<1>5. k # 1 /\ o.flow[k].type \notin {"approval", "stop"} /\ o.mark[FirstOpen(o) - 1] = "passed"
  BY <1>2 DEF WaitsAt, Taken
<1>6. k \in Open(o) /\ o.flow[k].type # "start"
  BY <1>4, <1>5 DEF IsLeast, Waiting
<1>7. k \in ActionNodes(o)
  BY <1>3, <1>5, <1>6 DEF ActionNodes, NodeTypes
<1>8. ActionNodes(o) \subseteq Waiting(o)
  BY DEF ActionNodes, Waiting
<1>9. IsLeast(k, ActionNodes(o))
  BY <1>4, <1>7, <1>8 DEF IsLeast
<1>10. k = Lowest(ActionNodes(o)) /\ k = Lowest(Waiting(o))
  BY <1>1, <1>3, <1>4, <1>9, LeastIsLowest, WaitingAre
<1>11. k > 1
  BY <1>3, <1>5
<1>12. /\ k = Lowest(ActionNodes(o)) /\ k = Lowest(Waiting(o)) /\ o.flow[k].who = ServiceAccount
       /\ k > 1 /\ o.mark[FirstOpen(o) - 1] = "passed"
  BY <1>4, <1>5, <1>10, <1>11
<1>13. WITNESS k \in ActionNodes(o)
<1>. QED
  BY <1>12

LEMMA CronTouches ==
  ASSUME NEW o, Sound(o), Taken(o), NEW ok \in BOOLEAN, NEW status \in OrderStatuses,
         NEW S, S = ActionNodes(o), NEW p, p = EndedAs(MarkFirst(o, S, ok), status)
  PROVE  ~Untouched(p)
<1>1. OrderType(o) /\ S \in SUBSET Open(o)
  BY DEF Sound, ActionNodes
<1>2. /\ p.flow = o.flow
      /\ \A m \in DOMAIN o.flow : p.mark[m] = o.mark[m] \/ (m \in S /\ p.mark[m] # "open")
      /\ S # {} => Lowest(S) \in S /\ p.mark[Lowest(S)] # "open"
  BY <1>1, Marked
<1>3. CASE ~Untouched(o)
  BY <1>2, <1>3 DEF Untouched
<1>4. CASE Untouched(o)
  <2>1. PICK k \in S : k = Lowest(S) /\ o.flow[k].who = ServiceAccount
    BY <1>4, TakenWaits
  <2>2. k \in DOMAIN o.flow /\ p.mark[k] # "open"
    BY <1>1, <1>2, <2>1, OrderFlow
  <2>. QED
    BY <1>2, <2>1, <2>2 DEF Untouched
<1>. QED
  BY <1>3, <1>4

-----------------------------------------------------------------------------
(* A process that does nothing holds no order.                              *)
LEMMA IdleProcessType ==
  /\ IdleProcess \in [pc : {"idle"}, ok : BOOLEAN, copy : Orders]
  /\ DOMAIN IdleProcess.copy.mark = DOMAIN IdleProcess.copy.flow
  /\ IdleProcess.pc = "idle"
<1>1. <<>> \in Seq({"open", "passed", "failed"})
  OBVIOUS
<1>2. NoOrder \in Orders
  BY <1>1 DEF NoOrder, Orders
<1>. QED
  BY <1>2 DEF IdleProcess, NoOrder

(* The processes of requests, and those of the robots.                      *)
Requesting == Process({"idle", "approval", "action", "comment", "form"})
Working    == Process({"idle", "read", "work"})

(* A row that can be read has a mark for each node of a flow, and is sound. *)
RowTyped(o) ==
  /\ o \in Orders /\ DOMAIN o.mark = DOMAIN o.flow
  /\ IF Exists(o) THEN Sound(o) ELSE o.flow = <<>>

(* A process that works on a copy of the row has read it, or been called.   *)
RequestTyped(q) ==
  /\ q \in Requesting /\ DOMAIN q.copy.mark = DOMAIN q.copy.flow
  /\ q.pc # "idle" => Sound(q.copy)
  /\ q.pc \in {"approval", "action"} => Open(q.copy) # {}

RobotTyped(q) == q \in Working /\ (q.pc = "work" => Sound(q.copy))

CronTyped(q) ==
  /\ q \in Process({"idle", "work"}) /\ DOMAIN q.copy.mark = DOMAIN q.copy.flow
  /\ q.pc = "work" => Sound(q.copy) /\ Taken(q.copy)

HasRobot(flow) == \E k \in DOMAIN flow : flow[k].who = Robot

(* Before there is a row nobody works on it; while there is one, all work   *)
(* on copies of it, and the robots for a node of theirs.                    *)
SameOrder ==
  /\ workOrder.status = "none" =>
       /\ \A r \in OrderRequests : request[r].pc = "idle"
       /\ \A g \in Goroutines : robot[g].pc = "idle"
       /\ cron.pc = "idle"
  /\ Exists(workOrder) =>
       /\ \A r \in OrderRequests : request[r].pc # "idle" => request[r].copy.flow = workOrder.flow
       /\ \A g \in Goroutines :
            /\ robot[g].pc # "idle" => HasRobot(workOrder.flow)
            /\ robot[g].pc = "work" => robot[g].copy.flow = workOrder.flow
       /\ cron.pc # "idle" => cron.copy.flow = workOrder.flow

(* The invariant of an order: it holds for all flows, however many requests *)
(* and goroutines there are.                                                *)
Processes ==
  /\ RowTyped(workOrder)
  /\ request = [r \in OrderRequests |-> request[r]]
  /\ \A r \in OrderRequests : RequestTyped(request[r])
  /\ robot = [g \in Goroutines |-> robot[g]]
  /\ \A g \in Goroutines : RobotTyped(robot[g])
  /\ CronTyped(cron)

OrderInv == Processes /\ SameOrder

LEMMA OrdersAreTyped ==
  ASSUME OrderInv
  PROVE  OrderTypeOK
<1>1. request \in [OrderRequests -> Requesting]
  BY DEF OrderInv, Processes, RequestTyped
<1>2. robot \in [Goroutines -> Working]
  BY DEF OrderInv, Processes, RobotTyped
<1>3. \A o \in {workOrder, cron.copy} \cup {request[r].copy : r \in OrderRequests} :
        DOMAIN o.mark = DOMAIN o.flow
  BY DEF OrderInv, Processes, RequestTyped, CronTyped, RowTyped
<1>4. workOrder \in Orders /\ cron \in Process({"idle", "work"})
  BY DEF OrderInv, Processes, CronTyped, RowTyped
<1>. QED
  BY <1>1, <1>2, <1>3, <1>4 DEF OrderTypeOK, Requesting, Working

(* The invariant is enough for what the run checks.                         *)
LEMMA OrderSafety ==
  ASSUME OrderInv
  PROVE  NodesInOrder /\ PendingNamesFirstOpen /\ FinishedMeansProcessed /\ ExecutedWhenApproved
<1>1. RowTyped(workOrder) /\ CronTyped(cron)
  BY DEF OrderInv, Processes
<1>2. AnswersInOrder(workOrder) /\ NamesFirst(workOrder) /\ FinishesLast(workOrder)
  <2>1. CASE Exists(workOrder)
    BY <1>1, <2>1, SoundNames DEF RowTyped, Sound
  <2>2. CASE ~Exists(workOrder)
    <3>1. workOrder.flow = <<>> /\ workOrder.status \notin OrderStatuses
      BY <1>1, <2>2 DEF RowTyped, Exists
    <3>. QED
      BY <3>1 DEF AnswersInOrder, NamesFirst, FinishesLast, Pending, OrderStatuses
  <2>. QED
    BY <2>1, <2>2
<1>3. ExecutedWhenApproved
  <2>. SUFFICES ASSUME cron.pc = "work", Untouched(cron.copy)
                PROVE  \E k \in ActionNodes(cron.copy) :
                         /\ k = Lowest(ActionNodes(cron.copy)) /\ k = Lowest(Waiting(cron.copy))
                         /\ k > 1 /\ cron.copy.mark[FirstOpen(cron.copy) - 1] = "passed"
    BY DEF ExecutedWhenApproved
  <2>. QED
    BY <1>1, TakenWaits DEF CronTyped
<1>. QED
  BY <1>2, <1>3 DEF NodesInOrder, PendingNamesFirstOpen, FinishedMeansProcessed

(* A process that does nothing is any process.                              *)
LEMMA IdleTyped ==
  /\ RequestTyped(IdleProcess) /\ RobotTyped(IdleProcess) /\ CronTyped(IdleProcess)
  /\ RobotTyped([IdleProcess EXCEPT !.pc = "read"]) /\ IdleProcess.pc = "idle"
  /\ [IdleProcess EXCEPT !.pc = "read"].pc = "read"
<1>1. /\ IdleProcess \in Requesting /\ IdleProcess \in Working
      /\ IdleProcess \in Process({"idle", "work"})
      /\ IdleProcess.pc = "idle"
      /\ DOMAIN IdleProcess.copy.mark = DOMAIN IdleProcess.copy.flow
  BY IdleProcessType DEF Requesting, Working, Process
<1>2. /\ [IdleProcess EXCEPT !.pc = "read"] \in Working
      /\ [IdleProcess EXCEPT !.pc = "read"].pc = "read"
  BY IdleProcessType DEF Working, Process
<1>. QED
  BY <1>1, <1>2 DEF RequestTyped, RobotTyped, CronTyped

-----------------------------------------------------------------------------
(* How a step may change the row, and the processes.                        *)
RowMoves ==
  \/ workOrder' = workOrder
  \/ Exists(workOrder) /\ Exists(workOrder') /\ workOrder'.flow = workOrder.flow

RequestMoves ==
  \A r \in OrderRequests :
    \/ request'[r] = request[r] \/ request'[r].pc = "idle"
    \/ Exists(workOrder) /\ request'[r].copy = workOrder

RobotMoves ==
  \A g \in Goroutines :
    \/ robot'[g] = robot[g] \/ robot'[g].pc = "idle"
    \/ Exists(workOrder) /\ HasRobot(workOrder.flow) /\ robot'[g].copy = workOrder
    \/ /\ robot'[g].pc = "read" /\ workOrder.status # "none"
       /\ Exists(workOrder) => HasRobot(workOrder.flow)

CronMoves ==
  cron' = cron \/ cron'.pc = "idle" \/ (Exists(workOrder) /\ cron'.copy = workOrder)

LEMMA SameOrderKept ==
  ASSUME SameOrder, RowMoves \/ workOrder'.status = "deleted", RequestMoves, RobotMoves, CronMoves
  PROVE  SameOrder'
<1>1. "none" \notin OrderStatuses /\ "deleted" \notin OrderStatuses
  BY DEF OrderStatuses
<1>2. ASSUME workOrder'.status = "none" PROVE workOrder' = workOrder /\ ~Exists(workOrder)
  BY <1>1, <1>2 DEF RowMoves, Exists
<1>3. ASSUME Exists(workOrder') PROVE Exists(workOrder) /\ workOrder'.flow = workOrder.flow
  BY <1>1, <1>3 DEF RowMoves, Exists
<1>4. ASSUME workOrder'.status = "none"
      PROVE  /\ \A r \in OrderRequests : request'[r].pc = "idle"
             /\ \A g \in Goroutines : robot'[g].pc = "idle"
             /\ cron'.pc = "idle"
  BY <1>2, <1>4 DEF SameOrder, RequestMoves, RobotMoves, CronMoves
<1>5. ASSUME Exists(workOrder'), NEW r \in OrderRequests, request'[r].pc # "idle"
      PROVE  request'[r].copy.flow = workOrder'.flow
  BY <1>3, <1>5 DEF SameOrder, RequestMoves
<1>6. ASSUME Exists(workOrder'), NEW g \in Goroutines
      PROVE  /\ robot'[g].pc # "idle" => HasRobot(workOrder'.flow)
             /\ robot'[g].pc = "work" => robot'[g].copy.flow = workOrder'.flow
  BY <1>3, <1>6 DEF SameOrder, RobotMoves
<1>7. ASSUME Exists(workOrder'), cron'.pc # "idle"
      PROVE  cron'.copy.flow = workOrder'.flow
  BY <1>3, <1>7 DEF SameOrder, CronMoves
<1>. QED
  BY <1>4, <1>5, <1>6, <1>7 DEF SameOrder

(* What is written is sound, whether all of it is written or Nobody is not: *)
(* a name that counts is a name.                                            *)
LEMMA RowWritten ==
  ASSUME RowTyped(workOrder), NEW o, UpdateMap(o) \/ UpdateOrder(o),
         Exists(workOrder) => Sound(o) /\ o.flow = workOrder.flow
  PROVE  RowTyped(workOrder') /\ RowMoves
<1>1. CASE ~Exists(workOrder)
  BY <1>1 DEF UpdateMap, UpdateOrder, RowMoves
<1>2. CASE Exists(workOrder) /\ UpdateMap(o)
  BY <1>2 DEF UpdateMap, RowTyped, RowMoves, Sound, OrderType
<1>3. CASE Exists(workOrder) /\ UpdateOrder(o)
  <2>1. PICK who : who = IF o.current = Nobody THEN workOrder.current ELSE o.current
    OBVIOUS
  <2>2. OrderType(o) /\ o.status \in OrderStatuses
    BY <1>3 DEF Sound, Exists
  <2>3. who \in Names \cup {Nobody}
    BY <2>1, <2>2 DEF RowTyped, OrderType, Orders
  <2>4. workOrder' = [o EXCEPT !.current = IF @ = Nobody THEN workOrder.current ELSE @]
    BY <1>3, Zenon DEF UpdateOrder
  <2>5. workOrder' = [o EXCEPT !.current = who]
    BY <2>1, <2>4, Zenon
  <2>6. workOrder' = WithStatus(o, o.status, who)
    BY <2>2, <2>5 DEF OrderType, Orders, WithStatus
  <2>7. PICK p : p = workOrder'
    OBVIOUS
  <2>8. /\ OrderType(p) /\ Exists(p) /\ p.flow = o.flow /\ p.mark = o.mark
        /\ p.status = o.status /\ p.current = who
    BY <2>2, <2>3, <2>6, <2>7, Naming
  <2>9. /\ Waiting(p) = Waiting(o) /\ FirstOpen(p) = FirstOpen(o)
        /\ Untouched(p) <=> Untouched(o)
        /\ AnswersInOrder(p) <=> AnswersInOrder(o)
    BY <2>8, SameNodes
  <2>10. FinishesLast(p)
    BY <1>3, <2>8, <2>9 DEF Sound, FinishesLast
  <2>11. ASSUME Pending(p), Untouched(p) PROVE \E i \in DOMAIN p.flow : WaitsAt(p, i)
    <3>1. PICK i \in DOMAIN o.flow : WaitsAt(o, i)
      BY <1>3, <2>8, <2>9, <2>11 DEF Sound, Pending
    <3>2. o.flow[i].who \in Names /\ Nobody \notin Names
      BY <2>2, OrderFlow, WorkOrderAssumption
    <3>3. p.current = o.current
      BY <2>1, <2>8, <3>1, <3>2 DEF WaitsAt
    <3>4. WaitsAt(p, i)
      BY <2>8, <2>9, <3>1, <3>3 DEF WaitsAt
    <3>. QED
      BY <2>8, <3>1, <3>4
  <2>12. Sound(p)
    BY <1>3, <2>8, <2>9, <2>10, <2>11 DEF Sound
  <2>13. RowTyped(p) /\ Exists(p) /\ p.flow = workOrder.flow
    BY <1>3, <2>8, <2>12 DEF RowTyped, OrderType
  <2>. QED
    BY <1>3, <2>7, <2>13 DEF RowMoves
<1>. QED
  BY <1>1, <1>2, <1>3

-----------------------------------------------------------------------------
(* A step that leaves every process as it should be.                        *)
RequestsTyped ==
  /\ request = [r \in OrderRequests |-> request[r]]
  /\ \A r \in OrderRequests : RequestTyped(request[r])

RobotsTyped ==
  /\ robot = [g \in Goroutines |-> robot[g]]
  /\ \A g \in Goroutines : RobotTyped(robot[g])

LEMMA RequestGoes ==
  ASSUME RequestsTyped, NEW r \in OrderRequests, NEW w, RequestTyped(w),
         w.pc = "idle" \/ (Exists(workOrder) /\ w.copy = workOrder),
         request' = [request EXCEPT ![r] = w]
  PROVE  RequestsTyped' /\ RequestMoves
<1>1. request = [s \in OrderRequests |-> request[s]]
  BY DEF RequestsTyped
<1>2. request'[r] = w /\ \A s \in OrderRequests : s # r => request'[s] = request[s]
  BY <1>1
<1>3. request' = [s \in OrderRequests |-> request'[s]]
  BY <1>1
<1>. QED
  BY <1>2, <1>3 DEF RequestsTyped, RequestMoves

LEMMA RequestEnds ==
  ASSUME RequestsTyped, NEW r \in OrderRequests, EndRequest(r)
  PROVE  RequestsTyped' /\ RequestMoves
BY IdleTyped, RequestGoes DEF EndRequest

LEMMA RequestsStay ==
  ASSUME UNCHANGED request
  PROVE  (RequestsTyped => RequestsTyped') /\ RequestMoves
BY DEF RequestsTyped, RequestMoves

LEMMA RobotGoes ==
  ASSUME RobotsTyped, NEW g \in Goroutines, NEW w, RobotTyped(w),
         \/ w.pc = "idle"
         \/ Exists(workOrder) /\ HasRobot(workOrder.flow) /\ w.copy = workOrder
         \/ /\ w.pc = "read" /\ workOrder.status # "none"
            /\ Exists(workOrder) => HasRobot(workOrder.flow),
         robot' = [robot EXCEPT ![g] = w]
  PROVE  RobotsTyped' /\ RobotMoves
<1>1. robot = [s \in Goroutines |-> robot[s]]
  BY DEF RobotsTyped
<1>2. robot'[g] = w /\ \A s \in Goroutines : s # g => robot'[s] = robot[s]
  BY <1>1
<1>3. robot' = [s \in Goroutines |-> robot'[s]]
  BY <1>1
<1>. QED
  BY <1>2, <1>3 DEF RobotsTyped, RobotMoves

LEMMA RobotsStay ==
  ASSUME UNCHANGED robot
  PROVE  (RobotsTyped => RobotsTyped') /\ RobotMoves
BY DEF RobotsTyped, RobotMoves

LEMMA RobotIsCalled ==
  ASSUME RobotsTyped, Spawn, workOrder.status # "none",
         Exists(workOrder) => HasRobot(workOrder.flow)
  PROVE  RobotsTyped' /\ RobotMoves
BY IdleTyped, RobotGoes DEF Spawn

LEMMA ProcessesAre == Processes <=> RowTyped(workOrder) /\ RequestsTyped /\ RobotsTyped /\ CronTyped(cron)
BY DEF Processes, RequestsTyped, RobotsTyped

(* What a step has to keep.                                                 *)
LEMMA Keeping ==
  ASSUME OrderInv, RowTyped(workOrder'), RowMoves \/ workOrder'.status = "deleted",
         RequestsTyped', RequestMoves, RobotsTyped', RobotMoves, CronTyped(cron'), CronMoves
  PROVE  OrderInv'
<1>1. SameOrder'
  BY SameOrderKept DEF OrderInv
<1>2. Processes'
  BY DEF Processes, RequestsTyped, RobotsTyped
<1>. QED
  BY <1>1, <1>2 DEF OrderInv

(* A request reads the row.                                                 *)
LEMMA Reading ==
  ASSUME OrderInv, NEW r \in OrderRequests, NEW ok \in BOOLEAN,
         NEW pc \in {"approval", "action", "comment", "form"}, Read(r, pc, ok),
         pc \in {"approval", "action"} => Open(workOrder) # {}
  PROVE  OrderInv'
<1>1. PICK w : w = [pc |-> pc, ok |-> ok, copy |-> workOrder]
  OBVIOUS
<1>2. /\ Exists(workOrder) /\ request' = [request EXCEPT ![r] = w]
      /\ UNCHANGED <<workOrder, robot, cron>>
  BY <1>1, Zenon DEF Read
<1>3. RowTyped(workOrder) /\ Sound(workOrder) /\ RequestsTyped /\ RobotsTyped /\ CronTyped(cron)
  BY <1>2, ProcessesAre DEF OrderInv, RowTyped
<1>4. w \in Requesting /\ w.pc = pc /\ w.copy = workOrder
  BY <1>1, <1>3 DEF RowTyped, Requesting, Process
<1>5. RequestTyped(w)
  BY <1>3, <1>4 DEF RequestTyped, RowTyped
<1>6. RequestsTyped' /\ RequestMoves
  BY <1>2, <1>3, <1>4, <1>5, RequestGoes
<1>7. RobotsTyped' /\ RobotMoves
  BY <1>2, <1>3, RobotsStay
<1>8. RowTyped(workOrder') /\ RowMoves /\ CronTyped(cron') /\ CronMoves
  BY <1>2, <1>3 DEF RowMoves, CronMoves
<1>. QED
  BY <1>6, <1>7, <1>8, Keeping

(* A comment, or a form, writes the copy back.                              *)
LEMMA WritingBack ==
  ASSUME OrderInv, NEW r \in OrderRequests, SaveComment(r) \/ updateWorkOrderInstance(r)
  PROVE  OrderInv'
<1>1. PICK q : q = request[r]
  OBVIOUS
<1>2. RowTyped(workOrder) /\ RequestsTyped /\ RobotsTyped /\ CronTyped(cron) /\ RequestTyped(q)
  BY <1>1, ProcessesAre DEF OrderInv, RequestsTyped
<1>3. q.pc # "idle" /\ UpdateOrder(q.copy) /\ EndRequest(r) /\ UNCHANGED <<robot, cron>>
  BY <1>1 DEF SaveComment, updateWorkOrderInstance
<1>4. Sound(q.copy) /\ (Exists(workOrder) => q.copy.flow = workOrder.flow)
  BY <1>1, <1>2, <1>3 DEF RequestTyped, OrderInv, SameOrder
<1>5. RowTyped(workOrder') /\ RowMoves
  BY <1>2, <1>3, <1>4, RowWritten
<1>6. RequestsTyped' /\ RequestMoves /\ RobotsTyped' /\ RobotMoves
  BY <1>2, <1>3, RequestEnds, RobotsStay
<1>7. CronTyped(cron') /\ CronMoves
  BY <1>2, <1>3 DEF CronMoves
<1>. QED
  BY <1>5, <1>6, <1>7, Keeping

(* An approval, or an action, answers the first open node of the copy.      *)
LEMMA Answering ==
  ASSUME OrderInv, NEW r \in OrderRequests, SaveApproval(r) \/ SaveAction(r)
  PROVE  OrderInv'
<1>1. PICK q : q = request[r]
  OBVIOUS
<1>2. RowTyped(workOrder) /\ RequestsTyped /\ RobotsTyped /\ CronTyped(cron) /\ RequestTyped(q)
  BY <1>1, ProcessesAre DEF OrderInv, RequestsTyped
<1>3. PICK o : o = Decided(q.copy, q.ok)
  OBVIOUS
<1>4. /\ q.pc \in {"approval", "action"} /\ UpdateMap(o) /\ EndRequest(r) /\ UNCHANGED cron
      /\ (o.status = "pendingAction" /\ o.current = Robot /\ Spawn) \/ UNCHANGED robot
  <2>1. CASE SaveApproval(r)
    BY <1>1, <1>3, <2>1 DEF SaveApproval
  <2>2. CASE SaveAction(r)
    BY <1>1, <1>3, <2>2 DEF SaveAction
  <2>. QED
    BY <2>1, <2>2
<1>5. /\ Sound(q.copy) /\ Open(q.copy) # {} /\ q.ok \in BOOLEAN
      /\ Exists(workOrder) => q.copy.flow = workOrder.flow
      /\ workOrder.status # "none"
  BY <1>1, <1>2, <1>4 DEF RequestTyped, Requesting, Process, OrderInv, SameOrder
<1>6. /\ Sound(o) /\ o.flow = q.copy.flow
      /\ o.status = "pendingAction" => \E k \in DOMAIN o.flow : o.current = o.flow[k].who
  BY <1>3, <1>5, Deciding
<1>7. RowTyped(workOrder') /\ RowMoves
  BY <1>2, <1>4, <1>5, <1>6, RowWritten
<1>8. RobotsTyped' /\ RobotMoves
  <2>1. CASE UNCHANGED robot
    BY <1>2, <2>1, RobotsStay
  <2>2. CASE o.status = "pendingAction" /\ o.current = Robot /\ Spawn
    <3>1. Exists(workOrder) => HasRobot(workOrder.flow)
      BY <1>5, <1>6, <2>2 DEF HasRobot
    <3>. QED
      BY <1>2, <1>5, <2>2, <3>1, RobotIsCalled
  <2>. QED
    BY <1>4, <2>1, <2>2
<1>9. RequestsTyped' /\ RequestMoves /\ CronTyped(cron') /\ CronMoves
  BY <1>2, <1>4, RequestEnds DEF CronMoves
<1>. QED
  BY <1>7, <1>8, <1>9, Keeping

(* The robot reads the row, works and writes it.                            *)
LEMMA RobotWorks ==
  ASSUME OrderInv, NEW g \in Goroutines,
         autoExecuteOrderRobotTask(g) \/ \E ok \in BOOLEAN : recordRobotExecution(g, ok)
  PROVE  OrderInv'
<1>1. PICK q : q = robot[g]
  OBVIOUS
<1>2. RowTyped(workOrder) /\ RequestsTyped /\ RobotsTyped /\ CronTyped(cron) /\ RobotTyped(q)
  BY <1>1, ProcessesAre DEF OrderInv, RobotsTyped
<1>3. CASE autoExecuteOrderRobotTask(g)
  <2>1. PICK w : w = IF Exists(workOrder)
                     THEN [IdleProcess EXCEPT !.pc = "work", !.copy = workOrder]
                     ELSE IdleProcess
    OBVIOUS
  <2>2. /\ q.pc = "read" /\ robot' = [robot EXCEPT ![g] = w]
        /\ UNCHANGED <<workOrder, request, cron>>
    BY <1>1, <1>3, <2>1, Zenon DEF autoExecuteOrderRobotTask
  <2>3. /\ RobotTyped(w)
        /\ w.pc = "idle" \/ (Exists(workOrder) /\ HasRobot(workOrder.flow) /\ w.copy = workOrder)
    <3>1. CASE ~Exists(workOrder)
      BY <2>1, <3>1, IdleTyped
    <3>2. CASE Exists(workOrder)
      <4>1. Sound(workOrder) /\ workOrder \in Orders
        BY <1>2, <3>2 DEF RowTyped
      <4>2. w \in Working /\ w.copy = workOrder
        BY <2>1, <3>2, <4>1, IdleProcessType DEF Working, Process
      <4>3. HasRobot(workOrder.flow)
        BY <1>1, <2>2, <3>2 DEF OrderInv, SameOrder
      <4>. QED
        BY <3>2, <4>1, <4>2, <4>3 DEF RobotTyped
    <3>. QED
      BY <3>1, <3>2
  <2>4. RobotsTyped' /\ RobotMoves
    BY <1>2, <2>2, <2>3, RobotGoes
  <2>5. RequestsTyped' /\ RequestMoves
    BY <1>2, <2>2, RequestsStay
  <2>6. RowTyped(workOrder') /\ RowMoves /\ CronTyped(cron') /\ CronMoves
    BY <1>2, <2>2 DEF RowMoves, CronMoves
  <2>. QED
    BY <2>4, <2>5, <2>6, Keeping
<1>4. ASSUME NEW ok \in BOOLEAN, recordRobotExecution(g, ok) PROVE OrderInv'
  <2>1. PICK status \in OrderStatuses : status = IF ok THEN "finished" ELSE "approvalReject"
    BY DEF OrderStatuses
  <2>2. PICK S : S = RobotNodes(q.copy)
    OBVIOUS
  <2>3. PICK o : o = EndedAs(MarkFirst(q.copy, S, ok), status)
    OBVIOUS
  <2>4. /\ q.pc = "work" /\ UpdateMap(o) /\ UNCHANGED <<request, cron>>
        /\ robot' = [robot EXCEPT ![g] = IdleProcess]
    BY <1>1, <1>4, <2>1, <2>2, <2>3 DEF recordRobotExecution
  <2>5. Sound(q.copy) /\ OrderType(q.copy) /\ S \in SUBSET (Open(q.copy) \cap ForExecutors(q.copy))
    BY <1>2, <2>2, <2>4 DEF RobotTyped, RobotNodes, Sound, Open, ForExecutors
  <2>6. ASSUME Exists(workOrder) PROVE Sound(o) /\ o.flow = workOrder.flow
    <3>1. q.copy.flow = workOrder.flow /\ HasRobot(workOrder.flow)
      BY <1>1, <2>4, <2>6 DEF OrderInv, SameOrder
    <3>2. PICK k \in DOMAIN q.copy.flow : q.copy.flow[k].who = Robot
      BY <3>1 DEF HasRobot
    <3>3. ~Untouched(o)
      BY <2>2, <2>3, <2>5, <3>2, RobotTouches
    <3>. QED
      BY <2>3, <2>5, <3>1, <3>3, Executing
  <2>7. RowTyped(workOrder') /\ RowMoves
    BY <1>2, <2>4, <2>6, RowWritten
  <2>8. RobotsTyped' /\ RobotMoves
    BY <1>2, <2>4, RobotGoes, IdleTyped
  <2>9. RequestsTyped' /\ RequestMoves /\ CronTyped(cron') /\ CronMoves
    BY <1>2, <2>4, RequestsStay DEF CronMoves
  <2>. QED
    BY <2>7, <2>8, <2>9, Keeping
<1>. QED
  BY <1>3, <1>4

(* So does the cron job.                                                    *)
LEMMA CronWorks ==
  ASSUME OrderInv, RunAutoOrder \/ \E ok \in BOOLEAN : finishAutoAction(ok)
  PROVE  OrderInv'
<1>1. RowTyped(workOrder) /\ RequestsTyped /\ RobotsTyped /\ CronTyped(cron)
  BY ProcessesAre DEF OrderInv
<1>2. CASE RunAutoOrder
  <2>1. PICK w : w = [IdleProcess EXCEPT !.pc = "work", !.copy = workOrder]
    OBVIOUS
  <2>2. /\ workOrder.status = "pendingAction" /\ workOrder.current = ServiceAccount
        /\ cron' = w /\ UNCHANGED <<workOrder, request, robot>>
    BY <1>2, <2>1, Zenon DEF RunAutoOrder
  <2>3. Exists(workOrder) /\ Taken(workOrder)
    BY <2>2 DEF Exists, OrderStatuses, Taken
  <2>4. Sound(workOrder) /\ workOrder \in Orders /\ DOMAIN workOrder.mark = DOMAIN workOrder.flow
    BY <1>1, <2>3 DEF RowTyped
  <2>5. w \in Process({"idle", "work"}) /\ w.copy = workOrder
    BY <2>1, <2>4, IdleProcessType DEF Process
  <2>6. CronTyped(w)
    BY <2>3, <2>4, <2>5 DEF CronTyped
  <2>7. CronTyped(cron') /\ CronMoves /\ RowTyped(workOrder') /\ RowMoves
    BY <1>1, <2>2, <2>3, <2>5, <2>6 DEF CronMoves, RowMoves
  <2>8. RequestsTyped' /\ RequestMoves /\ RobotsTyped' /\ RobotMoves
    BY <1>1, <2>2, RequestsStay, RobotsStay
  <2>. QED
    BY <2>7, <2>8, Keeping
<1>3. ASSUME NEW ok \in BOOLEAN, finishAutoAction(ok) PROVE OrderInv'
  <2>1. PICK status \in OrderStatuses : status = IF ok THEN "finished" ELSE "pendingAction"
    BY DEF OrderStatuses
  <2>2. PICK S : S = ActionNodes(cron.copy)
    OBVIOUS
  <2>3. PICK o : o = EndedAs(MarkFirst(cron.copy, S, ok), status)
    OBVIOUS
  <2>4. /\ cron.pc = "work" /\ UpdateOrder(o) /\ UNCHANGED <<request, robot>>
        /\ cron' = IdleProcess
    BY <1>3, <2>1, <2>2, <2>3 DEF finishAutoAction
  <2>5. /\ Sound(cron.copy) /\ Taken(cron.copy)
        /\ S \in SUBSET (Open(cron.copy) \cap ForExecutors(cron.copy))
    BY <1>1, <2>2, <2>4 DEF CronTyped, ActionNodes, Sound, Open, ForExecutors
  <2>6. ASSUME Exists(workOrder) PROVE Sound(o) /\ o.flow = workOrder.flow
    <3>1. cron.copy.flow = workOrder.flow
      BY <2>4, <2>6 DEF OrderInv, SameOrder
    <3>2. ~Untouched(o)
      BY <2>2, <2>3, <2>5, CronTouches
    <3>. QED
      BY <2>3, <2>5, <3>1, <3>2, Executing
  <2>7. RowTyped(workOrder') /\ RowMoves
    BY <1>1, <2>4, <2>6, RowWritten
  <2>8. RequestsTyped' /\ RequestMoves /\ RobotsTyped' /\ RobotMoves
    BY <1>1, <2>4, RequestsStay, RobotsStay
  <2>9. CronTyped(cron') /\ CronMoves
    BY <2>4, IdleTyped DEF CronMoves
  <2>. QED
    BY <2>7, <2>8, <2>9, Keeping
<1>. QED
  BY <1>2, <1>3

(* An order is created, and deleted.                                        *)
LEMMA NewIsSound ==
  ASSUME NEW f \in Flows, NEW o, o = NewOrder(f)
  PROVE  Sound(o) /\ RowTyped(o) /\ o.flow = f
<1>1. /\ Len(f) \in Nat \ {0} /\ DOMAIN f = 1..Len(f)
      /\ \A i \in DOMAIN f : f[i].who \in Names
  BY FlowsAre
<1>2. [i \in DOMAIN f |-> "open"] \in Seq({"open", "passed", "failed"})
  BY <1>1
<1>3. 1 \in DOMAIN f /\ f[1].who \in Names
  BY <1>1
<1>4. /\ o.status = "pendingApproval" /\ o.current = f[1].who /\ o.flow = f
      /\ o.mark = [i \in DOMAIN f |-> "open"]
  BY DEF NewOrder
<1>5. o \in Orders /\ OrderType(o) /\ Exists(o)
  BY <1>2, <1>3 DEF NewOrder, OrderType, Orders, OrderStatuses, Exists
<1>6. \A i \in DOMAIN o.flow : o.mark[i] = "open"
  BY <1>4
<1>7. AnswersInOrder(o) /\ FinishesLast(o)
  BY <1>4, <1>6 DEF AnswersInOrder, FinishesLast
<1>8. WaitsAt(o, 1)
  <2>1. IsLeast(1, Waiting(o))
    BY <1>1, <1>3, <1>4, <1>6 DEF IsLeast, Waiting, Open
  <2>. QED
    BY <1>4, <2>1 DEF WaitsAt
<1>9. Sound(o)
  BY <1>3, <1>4, <1>5, <1>7, <1>8 DEF Sound
<1>. QED
  BY <1>4, <1>5, <1>9 DEF RowTyped, OrderType

LEMMA Creating ==
  ASSUME OrderInv, NEW f \in Flows, createWorkOrderInstance(f)
  PROVE  OrderInv'
<1>1. PICK o : o = NewOrder(f)
  OBVIOUS
<1>2. /\ workOrder = NoOrder /\ workOrder' = o /\ UNCHANGED <<request, cron>>
      /\ (f[1].who = Robot /\ Spawn) \/ UNCHANGED robot
  BY <1>1 DEF createWorkOrderInstance
<1>3. RequestsTyped /\ RobotsTyped /\ CronTyped(cron)
  BY ProcessesAre DEF OrderInv
<1>4. Sound(o) /\ RowTyped(o) /\ o.flow = f /\ 1 \in DOMAIN f
  BY <1>1, NewIsSound, FlowsAre
<1>5. workOrder.status = "none"
  BY <1>2 DEF NoOrder
<1>6. /\ \A r \in OrderRequests : request'[r].pc = "idle"
      /\ \A g \in Goroutines : robot[g].pc = "idle"
      /\ cron'.pc = "idle"
  BY <1>2, <1>5 DEF OrderInv, SameOrder
<1>7. /\ RobotsTyped'
      /\ \A g \in Goroutines : robot'[g].pc # "idle" => HasRobot(f) /\ robot'[g].pc = "read"
  <2>1. CASE UNCHANGED robot
    BY <1>3, <1>6, <2>1, RobotsStay
  <2>2. CASE f[1].who = Robot /\ Spawn
    <3>1. PICK g \in Goroutines : robot' = [robot EXCEPT ![g] = [IdleProcess EXCEPT !.pc = "read"]]
      BY <2>2 DEF Spawn
    <3>2. PICK w : w = [IdleProcess EXCEPT !.pc = "read"]
      OBVIOUS
    <3>3. RobotTyped(w) /\ w.pc = "read"
      BY <3>2, IdleTyped
    <3>4. robot = [s \in Goroutines |-> robot[s]] /\ robot' = [robot EXCEPT ![g] = w]
      BY <1>3, <3>1, <3>2, Zenon DEF RobotsTyped
    <3>5. /\ robot'[g] = w /\ \A s \in Goroutines : s # g => robot'[s] = robot[s]
          /\ robot' = [s \in Goroutines |-> robot'[s]]
      BY <3>4
    <3>6. RobotsTyped'
      BY <1>3, <3>3, <3>5 DEF RobotsTyped
    <3>7. HasRobot(f)
      BY <1>4, <2>2 DEF HasRobot
    <3>. QED
      BY <1>6, <3>3, <3>5, <3>6, <3>7
  <2>. QED
    BY <1>2, <2>1, <2>2
<1>8. RequestsTyped' /\ CronTyped(cron') /\ RowTyped(workOrder')
  BY <1>2, <1>3, <1>4, RequestsStay
<1>9. workOrder'.status # "none" /\ workOrder'.flow = f
  BY <1>2, <1>4 DEF Sound, Exists, OrderStatuses
<1>10. SameOrder'
  BY <1>6, <1>7, <1>9 DEF SameOrder
<1>11. Processes'
  BY <1>7, <1>8 DEF Processes, RequestsTyped, RobotsTyped
<1>. QED
  BY <1>10, <1>11 DEF OrderInv

LEMMA Deleting ==
  ASSUME OrderInv, deleteWorkOrderInstance
  PROVE  OrderInv'
<1>1. workOrder' = [status |-> "deleted", current |-> Nobody, flow |-> <<>>, mark |-> <<>>]
      /\ UNCHANGED <<request, robot, cron>>
  BY DEF deleteWorkOrderInstance, NoOrder
<1>2. <<>> \in Seq({"open", "passed", "failed"})
  OBVIOUS
<1>3. RowTyped(workOrder') /\ workOrder'.status = "deleted"
  BY <1>1, <1>2 DEF RowTyped, Orders, Exists, OrderStatuses
<1>4. RequestsTyped' /\ RequestMoves /\ RobotsTyped' /\ RobotMoves /\ CronTyped(cron') /\ CronMoves
  BY <1>1, ProcessesAre, RequestsStay, RobotsStay DEF OrderInv, CronMoves
<1>. QED
  BY <1>3, <1>4, Keeping

(* A write fails, and all that the process knew is gone.                    *)
LEMMA WriteFails ==
  ASSUME OrderInv, OrderWriteFails
  PROVE  OrderInv'
<1>1. RowTyped(workOrder) /\ RequestsTyped /\ RobotsTyped /\ CronTyped(cron)
  BY ProcessesAre DEF OrderInv
<1>2. RowTyped(workOrder') /\ RowMoves
  BY <1>1 DEF OrderWriteFails, RowMoves
<1>3. RequestsTyped' /\ RequestMoves
  BY <1>1, RequestEnds, RequestsStay DEF OrderWriteFails
<1>4. RobotsTyped' /\ RobotMoves
  BY <1>1, RobotGoes, RobotsStay, IdleTyped DEF OrderWriteFails
<1>5. CronTyped(cron') /\ CronMoves
  BY <1>1, IdleTyped DEF OrderWriteFails, CronMoves
<1>. QED
  BY <1>2, <1>3, <1>4, <1>5, Keeping

(* After a restart nobody works on the order, but forms are still open.     *)
LEMMA Restarting ==
  ASSUME OrderInv, RestartOrderServer
  PROVE  OrderInv'
<1>1. RowTyped(workOrder) /\ RequestsTyped /\ RobotsTyped /\ CronTyped(cron)
  BY ProcessesAre DEF OrderInv
<1>2. RequestsTyped' /\ RequestMoves
  BY <1>1, IdleTyped DEF RestartOrderServer, RequestsTyped, RequestMoves
<1>3. RobotsTyped' /\ RobotMoves
  BY <1>1, IdleTyped DEF RestartOrderServer, RobotsTyped, RobotMoves
<1>4. RowTyped(workOrder') /\ RowMoves /\ CronTyped(cron') /\ CronMoves
  BY <1>1, IdleTyped DEF RestartOrderServer, RowMoves, CronMoves
<1>. QED
  BY <1>2, <1>3, <1>4, Keeping

(* There is no order at first.                                              *)
LEMMA OrderStart ==
  ASSUME OrderInit
  PROVE  OrderInv
<1>1. RowTyped(NoOrder)
  <2>1. IdleProcess.copy = NoOrder
    BY DEF IdleProcess
  <2>2. NoOrder \in Orders /\ DOMAIN NoOrder.mark = DOMAIN NoOrder.flow
    BY <2>1, IdleProcessType
  <2>. QED
    BY <2>2 DEF RowTyped, Exists, NoOrder, OrderStatuses
<1>2. Processes
  BY <1>1, IdleTyped DEF OrderInit, Processes
<1>3. ~Exists(workOrder)
  BY DEF OrderInit, Exists, NoOrder, OrderStatuses
<1>4. SameOrder
  BY <1>3, IdleTyped DEF OrderInit, SameOrder
<1>. QED
  BY <1>2, <1>4 DEF OrderInv

(* No step of an order, of whatever requests, breaks the invariant.         *)
LEMMA OrderStep ==
  ASSUME OrderInv, [OrderNext]_orderVars
  PROVE  OrderInv'
<1>1. ASSUME NEW r \in OrderRequests, NEW ok \in BOOLEAN,
             approvalWorkOrderInstance(r, ok) \/ actionWorkOrderInstance(r, ok)
      PROVE  OrderInv'
  BY <1>1, Reading DEF approvalWorkOrderInstance, actionWorkOrderInstance
<1>2. ASSUME NEW r \in OrderRequests, commentWorkOrderInstance(r) \/ ShowForm(r) PROVE OrderInv'
  BY <1>2, Reading DEF commentWorkOrderInstance, ShowForm
<1>3. ASSUME UNCHANGED orderVars PROVE OrderInv'
  <2>1. RowTyped(workOrder') /\ RowMoves /\ CronTyped(cron') /\ CronMoves
    BY <1>3, ProcessesAre DEF orderVars, OrderInv, RowMoves, CronMoves
  <2>2. RequestsTyped' /\ RequestMoves /\ RobotsTyped' /\ RobotMoves
    BY <1>3, ProcessesAre, RequestsStay, RobotsStay DEF orderVars, OrderInv
  <2>. QED
    BY <2>1, <2>2, Keeping
<1>. QED
  BY <1>1, <1>2, <1>3, WritingBack, Answering, RobotWorks, CronWorks, Creating, Deleting,
     WriteFails, Restarting DEF OrderNext

-----------------------------------------------------------------------------
(* The rules that a role is given are rules.                                *)
LEMMA RuleSetsAreRules ==
  ASSUME NEW S \in RuleSets
  PROVE  S \in SUBSET Rules
<1>1. PICK n \in 0..MaxRules : \E f \in [1..n -> Rules] : S = {f[i] : i \in 1..n}
  BY DEF RuleSets
<1>. QED
  BY <1>1

(* What a rule allows for its project is gathered with the others'.         *)
LEMMA Gathered ==
  ASSUME NEW R, NEW p \in GetPermissionsByRoleIDs(R), NEW e \in p.envs
  PROVE  e \in EnvsOf(R, p.project)
BY DEF EnvsOf

(* A rule that lets somebody build lets him see: its project is that of the *)
(* row, or what the name begins with, which LIKE finds as well.             *)
LEMMA AllowedIsListed ==
  ASSUME PermissionTypeOK, NEW R \in SUBSET Roles, NEW j \in BaselineJobs,
         CheckJobOperationPermission(R, j, TRUE)
  PROVE  FilterJobsByPermission(R, j)
<1>. DEFINE P == GetPermissionsByRoleIDs(R)
<1>1. PICK p \in P :
        /\ \/ p.project = "*"
           \/ p.project = IF j.project # "" THEN j.project ELSE j.prefix
        /\ \E e \in p.envs :
             e = "*" \/ (IF j.env # "" THEN e = j.env ELSE e \in j.inName)
  BY Zenon DEF CheckJobOperationPermission
<1>2. PICK e \in p.envs :
        e = "*" \/ (IF j.env # "" THEN e = j.env ELSE e \in j.inName)
  BY <1>1, Zenon
<1>3. e \in EnvsOf(R, p.project)
  BY Gathered
<1>4. p.project # ""
  <2>1. PICK r \in R : p \in rules[r]
    BY Zenon DEF GetPermissionsByRoleIDs
  <2>2. p \in Rules
    BY <2>1, Zenon DEF PermissionTypeOK
  <2>3. p.project \in Projects \cup {"*"}
    BY <2>2, Zenon DEF Rules
  <2>4. "" \notin Projects
    BY JobPermissionAssumption, Zenon
  <2>5. "" # "*"
    BY Zenon
  <2>. QED
    BY <2>3, <2>4, <2>5, Zenon
<1>5. j.prefix # "" => j.like = j.prefix
  BY Zenon DEF BaselineJobs
<1>6. p.project = "*" \/ p.project = IF j.project # "" THEN j.project ELSE j.like
  BY <1>1, <1>4, <1>5, Zenon
<1>7. \/ "*" \in EnvsOf(R, p.project)
      \/ IF j.env # "" THEN j.env \in EnvsOf(R, p.project)
                       ELSE j.inName \cap EnvsOf(R, p.project) # {}
  BY <1>2, <1>3, Zenon
<1>8. p.project \in {x.project : x \in P}
  BY Zenon
<1>. QED
  BY <1>6, <1>7, <1>8, Zenon DEF FilterJobsByPermission

(* The table holds rules of roles, and nothing else is needed.              *)
LEMMA PermissionStep ==
  ASSUME PermissionTypeOK, [PermissionNext]_rules
  PROVE  PermissionTypeOK'
<1>1. CASE PermissionNext
  <2>1. PICK r \in Roles, S \in RuleSets : saveRoleJobPermissions(r, S)
    BY <1>1 DEF PermissionNext
  <2>2. S \in SUBSET Rules
    BY RuleSetsAreRules
  <2>. QED
    BY <2>1, <2>2 DEF saveRoleJobPermissions, PermissionTypeOK
<1>. QED
  BY <1>1 DEF PermissionTypeOK

(* The rules are enough for what the run checks of them.                    *)
LEMMA PermissionsListed ==
  ASSUME PermissionTypeOK
  PROVE  BuildableIsVisible
BY AllowedIsListed, Zenon DEF BuildableIsVisible

-----------------------------------------------------------------------------
(* Jenkins jobs and their rows.                                             *)
CiRowRecords == [job : CiJobs \cup {"none"}, lock : {1, 2}, status : Statuses, count : 0 .. MaxBuilds]

CiPcs == {"idle", "find", "write", "read", "sweep", "look", "fix", "edit", "remove", "rows",
          "schedule", "mark", "set"}

CiOps == {"none", "sync", "list", "create", "update", "delete", "instance", "trigger", "stop", "logs"}

CiReqRecords ==
  [op : CiOps, pc : CiPcs, job : CiJobs \cup {"none"}, other : CiJobs \cup {"none"},
   id : 0 .. MaxCiRows, lock : 0 .. 2, status : Statuses \cup {"none"}, count : 0 .. MaxBuilds,
   todo : SUBSET CiJobs, keys : SUBSET CiJobs, rows : SUBSET (1 .. MaxCiRows),
   own : 0 .. 2, alone : BOOLEAN]

BuildMarks == CiResults \cup {"ABORTED", "running"}

CiTables ==
  /\ ciThere \subseteq CiJobs
  /\ ciBuilds \in [CiJobs -> Seq(BuildMarks)]
  /\ ciQueue \in [CiJobs -> Nat]
  /\ \A j \in CiJobs : Len(ciBuilds[j]) + ciQueue[j] <= MaxBuilds
  /\ ciRow \in [1 .. MaxCiRows -> CiRowRecords]
  /\ ciNext \in 1 .. MaxCiRows + 1
  /\ \A i \in 1 .. MaxCiRows : i >= ciNext => ciRow[i] = NoCiRow
  /\ \A i, k \in RowIds : ciRow[i].job = ciRow[k].job => i = k

(* What a request has for its next step.                                    *)
CiHas(q) ==
  /\ q.pc \in {"find", "write"} => q.job \in CiJobs /\ q.lock # 0
  /\ q.pc \in {"edit", "remove", "set", "schedule", "mark"} => q.job \in CiJobs
  /\ q.pc \in {"fix", "set"} => q.status \in Statuses
  /\ q.pc \in {"schedule", "mark"} => q.other \in CiJobs
  /\ q.op = "sync" => q.pc \in {"read", "find", "write", "sweep"}
  /\ q.op = "sync" /\ q.pc \in {"read", "find"} => q.id = 0
  /\ q.op # "sync" => ~q.alone

(* A row that shows what a job is in Jenkins.                               *)
CiShows(i, j) ==
  /\ Shown(j, i)
  /\ ciRow[i].count = Len(ciBuilds[j]) \/ ciBuilds[j] = <<>>

(* A synchronisation that was alone so far: what it has seen is in the      *)
(* table, what it knows of the next is so, and it deletes all else.         *)
SyncedSoFar(q) ==
  /\ q.keys = ciThere /\ q.todo \subseteq q.keys
  /\ \A j \in q.keys \ q.todo : RowsOf(j) # {} /\ \A i \in RowsOf(j) : CiShows(i, j)
  /\ q.pc \in {"find", "write"} => q.job \in q.todo
  /\ q.pc = "find" => q.status = LastStatus(q.job) /\ q.count = Len(ciBuilds[q.job])
  /\ q.pc = "write" /\ q.id = 0 =>
       RowsOf(q.job) = {} /\ q.status = LastStatus(q.job) /\ q.count = Len(ciBuilds[q.job])
  /\ q.pc = "write" /\ q.id # 0 =>
       /\ RowsOf(q.job) = {q.id}
       /\ q.status = LastStatus(q.job) \/ (q.status = "BUILDING" /\ LastStatus(q.job) \notin Terminal)
       /\ q.count = Len(ciBuilds[q.job]) \/ ciBuilds[q.job] = <<>>
  /\ q.pc = "sweep" =>
       /\ q.todo = {}
       /\ \A i \in RowIds : ciRow[i].job \notin q.keys => i \in q.rows
       /\ \A i \in q.rows : ciRow[i].job \notin q.keys

CiReqInv(q) == CiHas(q) /\ (q.alone => SyncedSoFar(q))

JenkinsInv ==
  /\ CiTables
  /\ ciCalls \in 0 .. MaxCiCalls
  /\ ciReq \in [CiRequests -> CiReqRecords]
  /\ \A r \in CiRequests : CiReqInv(ciReq[r])

LEMMA NoCiRowIs ==
  NoCiRow \in CiRowRecords /\ NoCiRow.job = "none" /\ NoCiRow.status = "NOT_BUILT" /\ NoCiRow.count = 0
  /\ NoCiRow.lock = 2
BY JenkinsAssumption DEF NoCiRow, CiRowRecords, Statuses, Terminal

LEMMA NoCiRequestIs ==
  /\ NoCiRequest \in CiReqRecords /\ NoCiRequest.pc = "idle" /\ NoCiRequest.op = "none"
  /\ ~NoCiRequest.alone
BY JenkinsAssumption DEF NoCiRequest, CiReqRecords, CiPcs, CiOps

LEMMA NoCiRequestInv == CiHas(NoCiRequest)
BY NoCiRequestIs DEF CiHas

LEMMA FirstIdIs ==
  ASSUME NEW S \in SUBSET (1 .. MaxCiRows)
  PROVE  /\ S = {} => FirstId(S) = 0
         /\ S # {} => FirstId(S) \in S
         /\ FirstId(S) \in 0 .. MaxCiRows /\ (FirstId(S) = 0 <=> S = {})
<1>4. ASSUME S # {} PROVE FirstId(S) \in S
  <2>1. S \in SUBSET Nat
    BY JenkinsAssumption
  <2>. QED
    BY <1>4, <2>1, LeastIs DEF FirstId
<1>5. S = {} => FirstId(S) = 0
  BY DEF FirstId
<1>6. MaxCiRows \in Nat /\ 0 \notin S
  BY JenkinsAssumption
<1>7. FirstId(S) \in 0 .. MaxCiRows
  <2>1. CASE S = {}
    BY <1>5, <1>6, <2>1
  <2>2. CASE S # {}
    <3>1. FirstId(S) \in 1 .. MaxCiRows
      BY <1>4, <2>2
    <3>. QED
      BY <3>1, <1>6
  <2>. QED
    BY <2>1, <2>2
<1>. QED
  BY <1>4, <1>5, <1>6, <1>7

LEMMA BuildsAre ==
  ASSUME CiTables, NEW j \in CiJobs
  PROVE  /\ ciBuilds[j] \in Seq(BuildMarks) /\ Len(ciBuilds[j]) \in 0 .. MaxBuilds
         /\ Len(ciBuilds[j]) + ciQueue[j] <= MaxBuilds /\ ciQueue[j] \in Nat
         /\ DOMAIN ciBuilds[j] = 1 .. Len(ciBuilds[j])
         /\ \A n \in DOMAIN ciBuilds[j] : ciBuilds[j][n] \in BuildMarks
         /\ (Len(ciBuilds[j]) = 0 <=> ciBuilds[j] = <<>>)
         /\ LastStatus(j) \in Statuses
<1>1. ciBuilds[j] \in Seq(BuildMarks) /\ ciQueue[j] \in Nat /\ Len(ciBuilds[j]) + ciQueue[j] <= MaxBuilds
  BY DEF CiTables
<1>2. Len(ciBuilds[j]) \in Nat /\ DOMAIN ciBuilds[j] = 1 .. Len(ciBuilds[j])
  BY <1>1, LenProperties
<1>3. Len(ciBuilds[j]) = 0 <=> ciBuilds[j] = <<>>
  BY <1>1, EmptySeq
<1>4. \A n \in DOMAIN ciBuilds[j] : ciBuilds[j][n] \in BuildMarks
  BY <1>1, <1>2
<1>5. Len(ciBuilds[j]) \in 0 .. MaxBuilds
  BY <1>1, <1>2, JenkinsAssumption
<1>6. LastStatus(j) \in Statuses
  <2>1. CASE ciBuilds[j] = <<>>
    BY <2>1 DEF LastStatus, Statuses
  <2>2. CASE ciBuilds[j] # <<>>
    <3>1. Len(ciBuilds[j]) \in DOMAIN ciBuilds[j]
      BY <1>2, <1>3, <2>2
    <3>2. ciBuilds[j][Len(ciBuilds[j])] \in BuildMarks
      BY <1>4, <3>1
    <3>. QED
      BY <2>2, <3>2, JenkinsAssumption DEF LastStatus, Building, Statuses, Terminal, BuildMarks
  <2>. QED
    BY <2>1, <2>2
<1>. QED
  BY <1>1, <1>2, <1>3, <1>4, <1>5, <1>6

LEMMA RowAre ==
  ASSUME CiTables
  PROVE  /\ RowIds \subseteq 1 .. MaxCiRows
         /\ \A j : RowsOf(j) \subseteq 1 .. MaxCiRows
         /\ \A n : Named(n) \subseteq RowIds
         /\ \A i \in 1 .. MaxCiRows : ciRow[i] \in CiRowRecords
         /\ \A i \in RowIds : ciRow[i].job \in CiJobs
         /\ 0 \notin RowIds
<1>1. RowIds \subseteq 1 .. MaxCiRows /\ (\A j : RowsOf(j) \subseteq 1 .. MaxCiRows)
  BY DEF RowIds, RowsOf
<1>2. \A n : Named(n) \subseteq RowIds
  BY DEF Named
<1>3. \A i \in 1 .. MaxCiRows : ciRow[i] \in CiRowRecords
  BY DEF CiTables
<1>4. \A i \in RowIds : ciRow[i].job \in CiJobs
  BY <1>3 DEF RowIds, CiRowRecords
<1>5. 0 \notin RowIds
  BY DEF RowIds
<1>. QED
  BY <1>1, <1>2, <1>3, <1>4, <1>5

(* What another request does is not part of what one has; only that it is   *)
(* alone no more.                                                           *)
LEMMA CiDisturbed ==
  ASSUME NEW q \in CiReqRecords, CiReqInv(q), NEW y, y = [q EXCEPT !.alone = FALSE]
  PROVE  y \in CiReqRecords /\ CiReqInv(y)' /\ y.pc = q.pc /\ ~y.alone
<1>1. y \in CiReqRecords /\ ~y.alone /\ y.pc = q.pc /\ y.op = q.op /\ y.id = q.id /\ y.job = q.job
      /\ y.lock = q.lock /\ y.status = q.status /\ y.other = q.other
  BY DEF CiReqRecords
<1>2. CiHas(y)
  BY <1>1 DEF CiReqInv, CiHas
<1>. QED
  BY <1>1, <1>2 DEF CiReqInv, CiHas

(* A synchronisation ends when all is swept.                                *)
SyncGoesOn(s) ==
  ciReq[s].op = "sync" => ciReq'[s].pc # "idle" \/ (ciReq[s].pc = "sweep" /\ ciReq[s].rows = {})

CiStep == JenkinsInv' /\ \A s \in CiRequests : SyncGoesOn(s)

LEMMA JenkinsGoes ==
  ASSUME JenkinsInv, NEW r \in CiRequests, NEW y \in CiReqRecords, CiGoes(r, y),
         CiHas(y), y.alone => SyncedSoFar(y)', CiTables', ciCalls' \in 0 .. MaxCiCalls,
         \/ y.pc # "idle" \/ ciReq[r].op # "sync"
         \/ ciReq[r].pc = "sweep" /\ ciReq[r].rows = {}
  PROVE  CiStep
<1>1. ASSUME NEW s \in CiRequests
      PROVE  ciReq'[s] \in CiReqRecords /\ CiReqInv(ciReq[s])' /\ SyncGoesOn(s)
  <2>1. CASE s = r
    <3>1. ciReq'[s] = y
      BY <2>1 DEF CiGoes, Disturbed
    <3>2. CiReqInv(y)'
      BY DEF CiReqInv, CiHas
    <3>. QED
      BY <2>1, <3>1, <3>2 DEF SyncGoesOn
  <2>2. CASE s # r
    <3>1. PICK q \in CiReqRecords : q = ciReq[s] /\ CiReqInv(q)
      BY DEF JenkinsInv
    <3>2. PICK z : z = [q EXCEPT !.alone = FALSE]
      OBVIOUS
    <3>3. ciReq'[s] = z
      BY <2>2, <3>1, <3>2 DEF CiGoes, Disturbed
    <3>4. z \in CiReqRecords /\ CiReqInv(z)' /\ z.pc = q.pc
      BY <3>1, <3>2, CiDisturbed
    <3>. QED
      BY <3>1, <3>3, <3>4 DEF SyncGoesOn, CiReqInv, CiHas
  <2>. QED
    BY <2>1, <2>2
<1>2. ciReq' \in [CiRequests -> CiReqRecords]
  BY <1>1 DEF CiGoes, Disturbed
<1>. QED
  BY <1>1, <1>2 DEF JenkinsInv, CiStep

LEMMA JenkinsEnds ==
  ASSUME JenkinsInv, NEW r \in CiRequests, CiEnds(r), CiTables', ciCalls' \in 0 .. MaxCiCalls,
         ciReq[r].op # "sync" \/ (ciReq[r].pc = "sweep" /\ ciReq[r].rows = {})
  PROVE  CiStep
BY NoCiRequestIs, NoCiRequestInv, JenkinsGoes DEF CiEnds

LEMMA JenkinsChanges ==
  ASSUME JenkinsInv, ciReq' = Disturbed, CiTables', ciCalls' \in 0 .. MaxCiCalls
  PROVE  CiStep
<1>1. ASSUME NEW s \in CiRequests
      PROVE  ciReq'[s] \in CiReqRecords /\ CiReqInv(ciReq[s])' /\ SyncGoesOn(s)
  <2>1. PICK q \in CiReqRecords : q = ciReq[s] /\ CiReqInv(q)
    BY DEF JenkinsInv
  <2>2. PICK z : z = [q EXCEPT !.alone = FALSE]
    OBVIOUS
  <2>3. ciReq'[s] = z
    BY <2>1, <2>2 DEF Disturbed
  <2>4. z \in CiReqRecords /\ CiReqInv(z)' /\ z.pc = q.pc
    BY <2>1, <2>2, CiDisturbed
  <2>. QED
    BY <2>1, <2>3, <2>4 DEF SyncGoesOn, CiReqInv, CiHas
<1>2. ciReq' \in [CiRequests -> CiReqRecords]
  BY <1>1 DEF Disturbed
<1>. QED
  BY <1>1, <1>2 DEF JenkinsInv, CiStep

(* The tables as they were, with another job in Jenkins, or other builds.   *)
LEMMA CiTablesStay ==
  ASSUME CiTables, UNCHANGED <<ciBuilds, ciQueue, ciTable>>, ciThere' \subseteq CiJobs
  PROVE  CiTables'
BY DEF CiTables, ciTable, RowIds

LEMMA CiBuildsChange ==
  ASSUME CiTables, UNCHANGED ciTable, ciThere' \subseteq CiJobs, NEW j \in CiJobs,
         NEW builds \in Seq(BuildMarks), NEW n \in Nat, Len(builds) + n <= MaxBuilds,
         ciBuilds' = [ciBuilds EXCEPT ![j] = builds], ciQueue' = [ciQueue EXCEPT ![j] = n]
  PROVE  CiTables'
<1>1. \A k \in CiJobs : Len(ciBuilds'[k]) + ciQueue'[k] <= MaxBuilds
  BY DEF CiTables
<1>. QED
  BY <1>1 DEF CiTables, ciTable, RowIds

(* The rows keep their jobs, or are deleted.                                *)
LEMMA CiRowsChange ==
  ASSUME CiTables, UNCHANGED <<ciRemote, ciNext>>,
         ciRow' \in [1 .. MaxCiRows -> CiRowRecords],
         \A i \in 1 .. MaxCiRows :
           \/ ciRow'[i] = NoCiRow
           \/ ciRow'[i].job = ciRow[i].job /\ (ciRow[i] = NoCiRow => ciRow'[i] = NoCiRow)
  PROVE  CiTables'
<1>1. \A i \in 1 .. MaxCiRows : ciRow'[i].job # "none" => ciRow'[i].job = ciRow[i].job
  BY NoCiRowIs
<1>2. \A i, k \in RowIds' : ciRow'[i].job = ciRow'[k].job => i = k
  BY <1>1 DEF CiTables, RowIds
<1>. QED
  BY <1>2 DEF CiTables, ciRemote

LEMMA JenkinsStart ==
  ASSUME JenkinsInit
  PROVE  JenkinsInv
<1>. USE JenkinsAssumption DEF JenkinsInit
<1>1. \A j \in CiJobs : ciBuilds[j] = <<>> /\ ciQueue[j] = 0
  OBVIOUS
<1>2. <<>> \in Seq(BuildMarks) /\ Len(<<>>) = 0
  OBVIOUS
<1>3. RowIds = {}
  BY NoCiRowIs DEF RowIds
<1>4. CiTables
  BY <1>1, <1>2, <1>3, NoCiRowIs DEF CiTables
<1>. QED
  BY <1>4, NoCiRequestIs, NoCiRequestInv DEF JenkinsInv, CiReqInv

(* A call is counted, or there is none.                                     *)
LEMMA CiCalls ==
  ASSUME JenkinsInv, CiCall \/ UNCHANGED ciCalls
  PROVE  ciCalls' \in 0 .. MaxCiCalls
BY JenkinsAssumption DEF JenkinsInv, CiCall

LEMMA RemoteStep ==
  ASSUME JenkinsInv, NEW j \in CiJobs,
         RemoteCreates(j) \/ RemoteDeletes(j) \/ BuildStarts(j)
  PROVE  CiStep
<1>1. CiTables /\ ciReq' = Disturbed /\ UNCHANGED ciTable
  BY DEF RemoteCreates, RemoteDeletes, BuildStarts, JenkinsInv, ciTable
<1>2. ciCalls' \in 0 .. MaxCiCalls
  BY CiCalls DEF RemoteCreates, RemoteDeletes, BuildStarts
<1>3. CASE RemoteCreates(j)
  <2>1. CiTables'
    BY <1>1, <1>3, CiTablesStay DEF RemoteCreates, CreateRemote, CiTables
  <2>. QED
    BY <1>1, <1>2, <2>1, JenkinsChanges
<1>4. CASE RemoteDeletes(j)
  <2>1. <<>> \in Seq(BuildMarks) /\ Len(<<>>) = 0 /\ 0 \in Nat /\ 0 + 0 <= MaxBuilds
    BY JenkinsAssumption
  <2>2. CiTables'
    BY <1>1, <1>4, <2>1, CiBuildsChange DEF RemoteDeletes, DeleteRemote, CiTables
  <2>. QED
    BY <1>1, <1>2, <2>2, JenkinsChanges
<1>5. CASE BuildStarts(j)
  <2>1. PICK builds : builds = Append(ciBuilds[j], "running")
    OBVIOUS
  <2>2. ciBuilds[j] \in Seq(BuildMarks) /\ ciQueue[j] \in Nat /\ "running" \in BuildMarks
        /\ Len(ciBuilds[j]) + ciQueue[j] <= MaxBuilds
    BY <1>1 DEF CiTables, BuildMarks
  <2>3. builds \in Seq(BuildMarks) /\ Len(builds) = Len(ciBuilds[j]) + 1 /\ Len(ciBuilds[j]) \in Nat
    BY <2>1, <2>2
  <2>4. ciQueue[j] - 1 \in Nat /\ Len(builds) + (ciQueue[j] - 1) <= MaxBuilds
    BY <1>5, <2>2, <2>3, JenkinsAssumption DEF BuildStarts
  <2>5. ciBuilds' = [ciBuilds EXCEPT ![j] = builds] /\ ciQueue' = [ciQueue EXCEPT ![j] = ciQueue[j] - 1]
        /\ ciThere' \subseteq CiJobs
    BY <1>1, <1>5, <2>1 DEF BuildStarts, CiTables
  <2>6. CiTables'
    BY <1>1, <2>3, <2>4, <2>5, CiBuildsChange
  <2>. QED
    BY <1>1, <1>2, <2>6, JenkinsChanges
<1>. QED
  BY <1>3, <1>4, <1>5

(* A build gets a result.                                                   *)
LEMMA BuildMarked ==
  ASSUME CiTables, UNCHANGED <<ciQueue, ciTable>>, ciThere' \subseteq CiJobs,
         NEW j \in CiJobs, NEW n \in DOMAIN ciBuilds[j], NEW m \in BuildMarks,
         ciBuilds' = [ciBuilds EXCEPT ![j][n] = m]
  PROVE  CiTables'
<1>1. PICK builds : builds = [ciBuilds[j] EXCEPT ![n] = m]
  OBVIOUS
<1>2. ciBuilds[j] \in Seq(BuildMarks) /\ ciQueue[j] \in Nat /\ Len(ciBuilds[j]) + ciQueue[j] <= MaxBuilds
  BY DEF CiTables
<1>3. builds \in Seq(BuildMarks) /\ Len(builds) = Len(ciBuilds[j])
  <2>1. Len(ciBuilds[j]) \in Nat /\ DOMAIN ciBuilds[j] = 1 .. Len(ciBuilds[j])
        /\ ciBuilds[j] \in [1 .. Len(ciBuilds[j]) -> BuildMarks]
    BY <1>2, LenProperties
  <2>2. builds \in [1 .. Len(ciBuilds[j]) -> BuildMarks]
    BY <1>1, <2>1
  <2>3. builds \in Seq(BuildMarks)
    BY <2>1, <2>2
  <2>. QED
    BY <2>1, <2>2, <2>3, LenProperties
<1>4. ciBuilds' = [ciBuilds EXCEPT ![j] = builds]
  BY <1>1 DEF CiTables
<1>5. ciQueue' = [ciQueue EXCEPT ![j] = ciQueue[j]]
  BY DEF CiTables
<1>. QED
  BY <1>2, <1>3, <1>4, <1>5, CiBuildsChange

LEMMA BuildEndsStep ==
  ASSUME JenkinsInv, NEW j \in CiJobs, NEW n \in DOMAIN ciBuilds[j], NEW result \in CiResults,
         BuildEnds(j, n, result)
  PROVE  CiStep
<1>1. CiTables /\ ciReq' = Disturbed /\ UNCHANGED <<ciQueue, ciTable>> /\ ciThere' \subseteq CiJobs
  BY DEF BuildEnds, JenkinsInv, ciTable, CiTables
<1>2. ciCalls' \in 0 .. MaxCiCalls
  BY CiCalls DEF BuildEnds
<1>3. CiTables'
  BY <1>1, BuildMarked DEF BuildEnds, BuildMarks
<1>. QED
  BY <1>1, <1>2, <1>3, JenkinsChanges

LEMMA ToggleStep ==
  ASSUME JenkinsInv, NEW n, NEW lock \in 1 .. 2, toggleJenkinsJobDeleteLock(n, lock)
  PROVE  CiStep
<1>1. CiTables /\ ciReq' = Disturbed /\ UNCHANGED <<ciRemote, ciNext>>
  BY DEF toggleJenkinsJobDeleteLock, JenkinsInv
<1>2. ciCalls' \in 0 .. MaxCiCalls
  BY CiCalls DEF toggleJenkinsJobDeleteLock
<1>3. ASSUME NEW i \in 1 .. MaxCiRows
      PROVE  /\ ciRow'[i] \in CiRowRecords /\ ciRow'[i].job = ciRow[i].job
             /\ ciRow[i] = NoCiRow => ciRow'[i] = NoCiRow
  <2>1. PICK x \in CiRowRecords : x = ciRow[i]
    BY <1>1 DEF CiTables
  <2>2. PICK y : y = [x EXCEPT !.lock = lock]
    OBVIOUS
  <2>3. y \in CiRowRecords /\ y.job = x.job
    BY <2>2 DEF CiRowRecords
  <2>4. ciRow'[i] = IF i \in Named(n) THEN y ELSE x
    BY <2>1, <2>2 DEF toggleJenkinsJobDeleteLock
  <2>5. x = NoCiRow => i \notin Named(n)
    BY <2>1, NoCiRowIs DEF Named, RowIds
  <2>. QED
    BY <2>1, <2>3, <2>4, <2>5
<1>4. ciRow' \in [1 .. MaxCiRows -> CiRowRecords]
  BY <1>3 DEF toggleJenkinsJobDeleteLock
<1>5. CiTables'
  BY <1>1, <1>3, <1>4, CiRowsChange
<1>. QED
  BY <1>1, <1>2, <1>5, JenkinsChanges

(* What a request begins with.                                              *)
LEMMA CiBeginsIs ==
  ASSUME NEW op \in CiOps, NEW pc \in CiPcs, NEW j \in CiJobs \cup {"none"}
  PROVE  \E b \in CiReqRecords :
           /\ b = CiBegins(op, pc, j) /\ b.op = op /\ b.pc = pc /\ b.job = j /\ b.other = "none"
           /\ b.id = 0 /\ b.lock = 0 /\ b.status = "none" /\ b.count = 0 /\ b.todo = {} /\ b.keys = {}
           /\ b.rows = {} /\ b.own = 0 /\ ~b.alone
<1>1. PICK n \in CiReqRecords : n = NoCiRequest
  BY NoCiRequestIs
<1>2. /\ n.other = "none" /\ n.id = 0 /\ n.lock = 0 /\ n.status = "none" /\ n.count = 0
      /\ n.todo = {} /\ n.keys = {} /\ n.rows = {} /\ n.own = 0 /\ ~n.alone
  BY <1>1 DEF NoCiRequest
<1>3. PICK b : b = [n EXCEPT !.op = op, !.pc = pc, !.job = j]
  OBVIOUS
<1>4. /\ b \in CiReqRecords /\ b.op = op /\ b.pc = pc /\ b.job = j /\ b.other = n.other /\ b.id = n.id
      /\ b.lock = n.lock /\ b.status = n.status /\ b.count = n.count /\ b.todo = n.todo
      /\ b.keys = n.keys /\ b.rows = n.rows /\ b.own = n.own /\ b.alone = n.alone
  BY <1>3 DEF CiReqRecords
<1>5. b = CiBegins(op, pc, j)
  BY <1>1, <1>3 DEF CiBegins
<1>. QED
  BY <1>2, <1>4, <1>5

LEMMA SyncBegins ==
  ASSUME JenkinsInv, NEW r \in CiRequests, SyncJenkinsJobsToDB(r)
  PROVE  CiStep
<1>1. CiTables /\ UNCHANGED <<ciRemote, ciTable>>
  BY DEF SyncJenkinsJobsToDB, JenkinsInv
<1>2. ciCalls' \in 0 .. MaxCiCalls
  BY CiCalls DEF SyncJenkinsJobsToDB, CiComes
<1>3. CiTables'
  BY <1>1 DEF CiTables, ciRemote, ciTable, RowIds
<1>4. PICK b \in CiReqRecords :
        b = CiBegins("sync", "read", "none") /\ b.op = "sync" /\ b.pc = "read" /\ b.id = 0
  BY CiBeginsIs DEF CiOps, CiPcs
<1>5. PICK K \in SUBSET ciThere :
        CiGoes(r, [b EXCEPT !.todo = K, !.keys = K,
                       !.alone = K = ciThere /\ \A s \in CiRequests : CiIdle(s)])
  BY <1>4 DEF SyncJenkinsJobsToDB
<1>6. PICK c : c = (K = ciThere /\ \A s \in CiRequests : CiIdle(s))
  OBVIOUS
<1>7. c \in BOOLEAN
  BY <1>6
<1>8. PICK y : y = [b EXCEPT !.todo = K, !.keys = K, !.alone = c]
  OBVIOUS
<1>9. K \subseteq CiJobs
  BY <1>1 DEF CiTables
<1>10. y \in CiReqRecords /\ y.op = b.op /\ y.pc = b.pc /\ y.todo = K /\ y.keys = K /\ y.alone = c /\ y.id = b.id
  BY <1>7, <1>8, <1>9 DEF CiReqRecords
<1>11. CiGoes(r, y)
  BY <1>5, <1>6, <1>8
<1>12. CiHas(y)
  BY <1>4, <1>10 DEF CiHas
<1>13. y.alone => SyncedSoFar(y)'
  BY <1>1, <1>4, <1>6, <1>10 DEF SyncedSoFar, ciRemote
<1>. QED
  BY <1>2, <1>3, <1>4, <1>10, <1>11, <1>12, <1>13, JenkinsGoes

LEMMA ListBegins ==
  ASSUME JenkinsInv, NEW r \in CiRequests, getJenkinsJobList(r)
  PROVE  CiStep
<1>1. CiTables /\ UNCHANGED <<ciRemote, ciTable>>
  BY DEF getJenkinsJobList, JenkinsInv
<1>2. ciCalls' \in 0 .. MaxCiCalls
  BY CiCalls DEF getJenkinsJobList, CiComes
<1>3. CiTables'
  BY <1>1 DEF CiTables, ciRemote, ciTable, RowIds
<1>4. PICK i \in RowIds : CiGoes(r, [CiBegins("list", "look", ciRow[i].job) EXCEPT !.id = i])
  BY DEF getJenkinsJobList
<1>5. ciRow[i].job \in CiJobs /\ i \in 1 .. MaxCiRows
  BY <1>1, RowAre
<1>6. PICK b \in CiReqRecords :
        b = CiBegins("list", "look", ciRow[i].job) /\ b.op = "list" /\ b.pc = "look" /\ ~b.alone
  BY <1>5, CiBeginsIs DEF CiOps, CiPcs
<1>7. PICK y : y = [b EXCEPT !.id = i]
  OBVIOUS
<1>8. y \in CiReqRecords /\ y.op = b.op /\ y.pc = b.pc /\ y.alone = b.alone
  BY <1>5, <1>7, JenkinsAssumption DEF CiReqRecords
<1>9. CiGoes(r, y)
  BY <1>4, <1>6, <1>7
<1>10. CiHas(y)
  BY <1>6, <1>8 DEF CiHas
<1>. QED
  BY <1>2, <1>3, <1>6, <1>8, <1>9, <1>10, JenkinsGoes

LEMMA CreateBegins ==
  ASSUME JenkinsInv, NEW r \in CiRequests, NEW j \in CiJobs, NEW lock \in 0 .. 2,
         createJenkinsJob(r, j, lock)
  PROVE  CiStep
<1>1. CiTables /\ CreateRemote(j) /\ UNCHANGED ciTable
  BY DEF createJenkinsJob, JenkinsInv
<1>2. ciCalls' \in 0 .. MaxCiCalls
  BY CiCalls DEF createJenkinsJob, CiComes
<1>3. CiTables'
  BY <1>1, CiTablesStay DEF CreateRemote, CiTables
<1>4. PICK b \in CiReqRecords :
        b = CiBegins("create", "find", j) /\ b.op = "create" /\ b.pc = "find" /\ b.job = j /\ ~b.alone
  BY CiBeginsIs DEF CiOps, CiPcs
<1>5. PICK l : l = IF lock = 1 THEN 1 ELSE 2
  OBVIOUS
<1>6. PICK y : y = [b EXCEPT !.lock = l, !.status = "NOT_BUILT"]
  OBVIOUS
<1>7. /\ y \in CiReqRecords /\ y.op = b.op /\ y.pc = b.pc /\ y.job = b.job /\ y.lock = l
      /\ y.alone = b.alone
  <2>1. l \in 0 .. 2 /\ "NOT_BUILT" \in Statuses
    BY <1>5 DEF Statuses
  <2>. QED
    BY <1>6, <2>1 DEF CiReqRecords
<1>8. CiGoes(r, y)
  BY <1>4, <1>5, <1>6 DEF createJenkinsJob
<1>9. CiHas(y)
  BY <1>4, <1>5, <1>7 DEF CiHas
<1>. QED
  BY <1>2, <1>3, <1>4, <1>7, <1>8, <1>9, JenkinsGoes

LEMMA UpdateBegins ==
  ASSUME JenkinsInv, NEW r \in CiRequests, NEW j \in CiJobs, NEW i \in 0 .. MaxCiRows,
         NEW lock \in 0 .. 2, updateJenkinsJob(r, j, i, lock)
  PROVE  CiStep
<1>1. CiTables /\ UNCHANGED ciTable /\ (UNCHANGED ciRemote \/ CreateRemote(j))
  BY DEF updateJenkinsJob, JenkinsInv
<1>2. ciCalls' \in 0 .. MaxCiCalls
  BY CiCalls DEF updateJenkinsJob, CiComes
<1>3. CiTables'
  BY <1>1, CiTablesStay DEF CreateRemote, CiTables, ciRemote
<1>4. PICK b \in CiReqRecords :
        b = CiBegins("update", "edit", j) /\ b.op = "update" /\ b.pc = "edit" /\ b.job = j /\ ~b.alone
  BY CiBeginsIs DEF CiOps, CiPcs
<1>5. PICK y : y = [b EXCEPT !.id = i, !.lock = lock]
  OBVIOUS
<1>6. y \in CiReqRecords /\ y.op = b.op /\ y.pc = b.pc /\ y.job = b.job /\ y.alone = b.alone
  BY <1>5 DEF CiReqRecords
<1>7. CiGoes(r, y)
  BY <1>4, <1>5 DEF updateJenkinsJob
<1>8. CiHas(y)
  BY <1>4, <1>6 DEF CiHas
<1>. QED
  BY <1>2, <1>3, <1>4, <1>6, <1>7, <1>8, JenkinsGoes

LEMMA DeleteBegins ==
  ASSUME JenkinsInv, NEW r \in CiRequests, NEW j \in CiJobs, deleteJenkinsJob(r, j)
  PROVE  CiStep
<1>1. CiTables /\ UNCHANGED <<ciRemote, ciTable>>
  BY DEF deleteJenkinsJob, JenkinsInv
<1>2. ciCalls' \in 0 .. MaxCiCalls
  BY CiCalls DEF deleteJenkinsJob, CiComes
<1>3. CiTables'
  BY <1>1 DEF CiTables, ciRemote, ciTable, RowIds
<1>4. PICK b \in CiReqRecords :
        b = CiBegins("delete", "remove", j) /\ b.op = "delete" /\ b.pc = "remove" /\ b.job = j /\ ~b.alone
  BY CiBeginsIs DEF CiOps, CiPcs
<1>5. PICK own : own = FirstId(RowsOf(j))
  OBVIOUS
<1>6. PICK l : l = IF own = 0 THEN 0 ELSE ciRow[own].lock
  OBVIOUS
<1>7. l \in 0 .. 2
  <2>1. own # 0 => own \in 1 .. MaxCiRows
    BY <1>1, <1>5, RowAre, FirstIdIs
  <2>2. own # 0 => ciRow[own].lock \in {1, 2}
    BY <1>1, <2>1 DEF CiTables, CiRowRecords
  <2>. QED
    BY <1>6, <2>2
<1>8. PICK y : y = [b EXCEPT !.own = l]
  OBVIOUS
<1>9. y \in CiReqRecords /\ y.op = b.op /\ y.pc = b.pc /\ y.job = b.job /\ y.alone = b.alone
  BY <1>7, <1>8 DEF CiReqRecords
<1>10. CiGoes(r, y)
  BY <1>4, <1>5, <1>6, <1>8 DEF deleteJenkinsJob
<1>11. CiHas(y)
  BY <1>4, <1>9 DEF CiHas
<1>. QED
  BY <1>2, <1>3, <1>4, <1>9, <1>10, <1>11, JenkinsGoes

LEMMA HelperIs ==
  ASSUME CiTables, NEW j \in CiJobs
  PROVE  getJenkinsJobHelper(j) \subseteq ciThere /\ getJenkinsJobHelper(j) \subseteq CiJobs
BY DEF CiTables, getJenkinsJobHelper

LEMMA TriggerBegins ==
  ASSUME JenkinsInv, NEW r \in CiRequests, NEW j \in CiJobs, triggerJenkinsBuild(r, j)
  PROVE  CiStep
<1>1. CiTables /\ UNCHANGED <<ciRemote, ciTable>>
  BY DEF triggerJenkinsBuild, JenkinsInv
<1>2. ciCalls' \in 0 .. MaxCiCalls
  BY CiCalls DEF triggerJenkinsBuild, CiComes
<1>3. CiTables'
  BY <1>1 DEF CiTables, ciRemote, ciTable, RowIds
<1>4. PICK b \in CiReqRecords :
        b = CiBegins("trigger", "schedule", j) /\ b.op = "trigger" /\ b.pc = "schedule" /\ b.job = j
        /\ ~b.alone
  BY CiBeginsIs DEF CiOps, CiPcs
<1>5. PICK k \in CiJobs : CiGoes(r, [b EXCEPT !.other = k])
  BY <1>1, <1>4, HelperIs DEF triggerJenkinsBuild
<1>6. PICK y : y = [b EXCEPT !.other = k]
  OBVIOUS
<1>7. /\ y \in CiReqRecords /\ y.op = b.op /\ y.pc = b.pc /\ y.job = b.job /\ y.other = k
      /\ y.alone = b.alone
  BY <1>6 DEF CiReqRecords
<1>8. CiHas(y)
  BY <1>4, <1>7 DEF CiHas
<1>. QED
  BY <1>2, <1>3, <1>4, <1>5, <1>6, <1>7, <1>8, JenkinsGoes

LEMMA StopBegins ==
  ASSUME JenkinsInv, NEW r \in CiRequests, NEW j \in CiJobs, stopJenkinsBuild(r, j)
  PROVE  CiStep
<1>1. CiTables /\ UNCHANGED <<ciThere, ciQueue, ciTable>>
  BY DEF stopJenkinsBuild, JenkinsInv
<1>2. ciCalls' \in 0 .. MaxCiCalls
  BY CiCalls DEF stopJenkinsBuild, CiComes
<1>3. PICK b \in CiReqRecords :
        b = CiBegins("stop", "set", j) /\ b.op = "stop" /\ b.pc = "set" /\ b.job = j /\ ~b.alone
  BY CiBeginsIs DEF CiOps, CiPcs
<1>4. PICK k \in CiJobs : \E n \in DOMAIN ciBuilds[k] :
        ciBuilds' = IF ciBuilds[k][n] = "running"
                      THEN [ciBuilds EXCEPT ![k][n] = "ABORTED"] ELSE ciBuilds
  BY <1>1, HelperIs DEF stopJenkinsBuild
<1>4a. PICK n \in DOMAIN ciBuilds[k] :
        ciBuilds' = IF ciBuilds[k][n] = "running"
                      THEN [ciBuilds EXCEPT ![k][n] = "ABORTED"] ELSE ciBuilds
  BY <1>4
<1>5. CiTables'
  <2>1. CASE ciBuilds[k][n] = "running"
    <3>1. ciThere' \subseteq CiJobs /\ "ABORTED" \in BuildMarks
      BY <1>1 DEF CiTables, BuildMarks
    <3>. QED
      BY <1>1, <1>4a, <2>1, <3>1, BuildMarked
  <2>2. CASE ciBuilds[k][n] # "running"
    BY <1>1, <1>4a, <2>2 DEF CiTables, ciTable, RowIds
  <2>. QED
    BY <2>1, <2>2
<1>6. PICK y : y = [b EXCEPT !.status = "ABORTED"]
  OBVIOUS
<1>7. /\ y \in CiReqRecords /\ y.op = b.op /\ y.pc = b.pc /\ y.job = b.job /\ y.status = "ABORTED"
      /\ y.alone = b.alone
  BY <1>6 DEF CiReqRecords, Statuses, Terminal
<1>8. CiGoes(r, y)
  BY <1>3, <1>6 DEF stopJenkinsBuild
<1>9. CiHas(y)
  BY <1>3, <1>7 DEF CiHas, Statuses, Terminal
<1>. QED
  BY <1>2, <1>3, <1>5, <1>7, <1>8, <1>9, JenkinsGoes

LEMMA LogsBegin ==
  ASSUME JenkinsInv, NEW r \in CiRequests, NEW j \in CiJobs, getJenkinsBuildLogs(r, j)
  PROVE  CiStep
<1>1. CiTables /\ UNCHANGED <<ciRemote, ciTable>>
  BY DEF getJenkinsBuildLogs, JenkinsInv
<1>2. ciCalls' \in 0 .. MaxCiCalls
  BY CiCalls DEF getJenkinsBuildLogs, CiComes
<1>3. CiTables'
  BY <1>1 DEF CiTables, ciRemote, ciTable, RowIds
<1>4. PICK b \in CiReqRecords :
        b = CiBegins("logs", "set", j) /\ b.op = "logs" /\ b.pc = "set" /\ b.job = j /\ ~b.alone
  BY CiBeginsIs DEF CiOps, CiPcs
<1>5. PICK k \in CiJobs : \E n \in DOMAIN ciBuilds[k] :
        CiGoes(r, [b EXCEPT !.status = BuildStatus(k, n), !.count = n])
  BY <1>1, <1>4, HelperIs DEF getJenkinsBuildLogs
<1>5a. PICK n \in DOMAIN ciBuilds[k] :
        CiGoes(r, [b EXCEPT !.status = BuildStatus(k, n), !.count = n])
  BY <1>5
<1>6. n \in 0 .. MaxBuilds /\ BuildStatus(k, n) \in Statuses
  <2>1. /\ Len(ciBuilds[k]) \in 0 .. MaxBuilds /\ n \in 1 .. Len(ciBuilds[k])
        /\ ciBuilds[k][n] \in BuildMarks
    BY <1>1, BuildsAre
  <2>2. n \in 0 .. MaxBuilds
    BY <2>1, JenkinsAssumption
  <2>3. BuildStatus(k, n) \in Statuses
    BY <2>1, JenkinsAssumption DEF BuildStatus, BuildMarks, Statuses, Terminal
  <2>. QED
    BY <2>2, <2>3
<1>7. PICK s \in Statuses : s = BuildStatus(k, n)
  BY <1>6
<1>8. PICK y : y = [b EXCEPT !.status = s, !.count = n]
  OBVIOUS
<1>9. /\ y \in CiReqRecords /\ y.op = b.op /\ y.pc = b.pc /\ y.job = b.job /\ y.status = s
      /\ y.alone = b.alone
  BY <1>6, <1>8 DEF CiReqRecords
<1>10. CiGoes(r, y)
  BY <1>5a, <1>7, <1>8
<1>11. CiHas(y)
  BY <1>4, <1>9 DEF CiHas
<1>. QED
  BY <1>2, <1>3, <1>4, <1>9, <1>10, <1>11, JenkinsGoes

LEMMA InstanceDeleted ==
  ASSUME JenkinsInv, NEW r \in CiRequests, deleteJenkinsInstance(r)
  PROVE  CiStep
<1>1. CiTables /\ UNCHANGED <<ciRemote, ciTable>>
  BY DEF deleteJenkinsInstance, JenkinsInv
<1>2. ciCalls' \in 0 .. MaxCiCalls
  BY CiCalls DEF deleteJenkinsInstance, CiComes
<1>3. CiTables'
  BY <1>1 DEF CiTables, ciRemote, ciTable, RowIds
<1>4. PICK b \in CiReqRecords :
        b = CiBegins("instance", "rows", "none") /\ b.op = "instance" /\ b.pc = "rows" /\ ~b.alone
  BY CiBeginsIs DEF CiOps, CiPcs
<1>5. CiHas(b)
  BY <1>4 DEF CiHas
<1>. QED
  BY <1>2, <1>3, <1>4, <1>5, JenkinsGoes DEF deleteJenkinsInstance

(* A step between two calls, with Jenkins and the table as they were.       *)
LEMMA CiTablesSame ==
  ASSUME CiTables, UNCHANGED <<ciRemote, ciTable>>
  PROVE  CiTables'
BY DEF CiTables, ciRemote, ciTable, RowIds

LEMMA SyncedSame ==
  ASSUME UNCHANGED <<ciRemote, ciTable>>, NEW y, SyncedSoFar(y)
  PROVE  SyncedSoFar(y)'
BY DEF SyncedSoFar, ciRemote, ciTable, RowIds, RowsOf, CiShows, Shown, LastStatus, Building

(* The request of a handler under way.                                      *)
LEMMA CiReqIs ==
  ASSUME JenkinsInv, NEW r \in CiRequests
  PROVE  \E q \in CiReqRecords : q = ciReq[r] /\ CiHas(q) /\ (q.alone => SyncedSoFar(q))
BY DEF JenkinsInv, CiReqInv

LEMMA SameCalls ==
  ASSUME JenkinsInv, UNCHANGED ciCalls
  PROVE  ciCalls' \in 0 .. MaxCiCalls
BY DEF JenkinsInv

LEMMA OneRow ==
  ASSUME CiTables, NEW j \in CiJobs, NEW i \in RowsOf(j)
  PROVE  RowsOf(j) = {i}
<1>1. \A k \in RowsOf(j) : k \in RowIds /\ ciRow[k].job = j
  BY JenkinsAssumption DEF RowsOf, RowIds
<1>. QED
  BY <1>1 DEF CiTables

LEMMA FindRowStep ==
  ASSUME JenkinsInv, NEW r \in CiRequests, FindRow(r)
  PROVE  CiStep
<1>1. CiTables /\ UNCHANGED <<ciRemote, ciTable>> /\ CiTables' /\ ciCalls' \in 0 .. MaxCiCalls
  BY CiTablesSame, SameCalls DEF FindRow, JenkinsInv
<1>2. PICK q \in CiReqRecords : q = ciReq[r] /\ CiHas(q) /\ (q.alone => SyncedSoFar(q))
  BY CiReqIs
<1>3. q.pc = "find" /\ q.job \in CiJobs /\ q.lock # 0 /\ (q.alone => q.op = "sync" /\ q.id = 0)
  BY <1>2 DEF FindRow, CiHas, CiReqRecords
<1>4. PICK own : own = FirstId(RowsOf(q.job))
  OBVIOUS
<1>5. PICK i : i = IF own # 0 THEN own ELSE IF q.id \in RowIds THEN q.id ELSE 0
  OBVIOUS
<1>6. /\ own \in 0 .. MaxCiRows /\ (own = 0 <=> RowsOf(q.job) = {})
      /\ own # 0 => own \in RowsOf(q.job)
  BY <1>1, <1>4, FirstIdIs, RowAre
<1>7. i \in 0 .. MaxCiRows /\ (i # 0 => i \in 1 .. MaxCiRows)
  BY <1>1, <1>5, <1>6, RowAre, JenkinsAssumption
<1>8. CASE i = 0
  <2>1. PICK y : y = [q EXCEPT !.pc = "write", !.id = 0]
    OBVIOUS
  <2>2. 0 \in 0 .. MaxCiRows /\ "write" \in CiPcs
    BY JenkinsAssumption DEF CiPcs
  <2>3. /\ y \in CiReqRecords /\ y.op = q.op /\ y.pc = "write" /\ y.job = q.job /\ y.lock = q.lock
        /\ y.id = 0 /\ y.status = q.status /\ y.count = q.count /\ y.todo = q.todo /\ y.keys = q.keys
        /\ y.alone = q.alone
    BY <2>1, <2>2 DEF CiReqRecords
  <2>4. CiGoes(r, y)
    BY <1>2, <1>4, <1>5, <1>8, <2>1 DEF FindRow
  <2>5. CiHas(y)
    BY <1>2, <1>3, <2>3 DEF CiHas
  <2>6. ASSUME y.alone PROVE SyncedSoFar(y)
    <3>1. SyncedSoFar(q)
      BY <1>2, <2>3, <2>6
    <3>2. RowsOf(q.job) = {}
      BY <1>5, <1>6, <1>8
    <3>3. q.status = LastStatus(q.job) /\ q.count = Len(ciBuilds[q.job])
      BY <1>3, <3>1 DEF SyncedSoFar
    <3>4. y.keys = ciThere /\ y.todo \subseteq y.keys /\ q.job \in y.todo
      BY <1>3, <2>3, <3>1 DEF SyncedSoFar
    <3>5. \A j \in y.keys \ y.todo : RowsOf(j) # {} /\ \A k \in RowsOf(j) : CiShows(k, j)
      BY <2>3, <3>1 DEF SyncedSoFar
    <3>6. y.status = LastStatus(y.job) /\ y.count = Len(ciBuilds[y.job]) /\ RowsOf(y.job) = {}
      BY <2>3, <3>2, <3>3
    <3>7. y.pc = "write" /\ y.id = 0 /\ y.job \in y.todo
      BY <2>3, <3>4
    <3>. QED
      BY <3>4, <3>5, <3>6, <3>7, Zenon DEF SyncedSoFar
  <2>7. y.alone => SyncedSoFar(y)'
    BY <1>1, <2>6, SyncedSame
  <2>. QED
    BY <1>1, <2>3, <2>4, <2>5, <2>7, JenkinsGoes
<1>9. CASE i # 0
  <2>1. PICK x \in CiRowRecords : x = ciRow[i]
    BY <1>1, <1>7, <1>9, RowAre
  <2>2. PICK s : s = Protected(x.status, q.status)
    OBVIOUS
  <2>3. PICK n : n = IF q.count = 0 THEN x.count ELSE q.count
    OBVIOUS
  <2>4. s \in Statuses \cup {"none"} /\ n \in 0 .. MaxBuilds /\ "write" \in CiPcs
    BY <2>2, <2>3 DEF CiReqRecords, CiRowRecords, Protected, Statuses, CiPcs
  <2>5. PICK y : y = [q EXCEPT !.pc = "write", !.id = i, !.status = s, !.count = n]
    OBVIOUS
  <2>6. /\ y \in CiReqRecords /\ y.op = q.op /\ y.pc = "write" /\ y.job = q.job /\ y.lock = q.lock
        /\ y.id = i /\ y.status = s /\ y.count = n /\ y.todo = q.todo /\ y.keys = q.keys
        /\ y.alone = q.alone
    BY <1>7, <2>4, <2>5 DEF CiReqRecords
  <2>7. CiGoes(r, y)
    BY <1>2, <1>4, <1>5, <1>9, <2>1, <2>2, <2>3, <2>5 DEF FindRow
  <2>8. CiHas(y)
    BY <1>2, <1>3, <2>6 DEF CiHas
  <2>9. ASSUME y.alone PROVE SyncedSoFar(y)
    <3>1. SyncedSoFar(q) /\ q.id = 0
      BY <1>2, <1>3, <2>6, <2>9
    <3>2. own # 0 /\ i = own
      BY <1>1, <1>5, <1>9, <3>1, RowAre
    <3>3. RowsOf(q.job) = {i}
      BY <1>1, <1>3, <1>6, <3>2, OneRow
    <3>4. q.status = LastStatus(q.job) /\ q.count = Len(ciBuilds[q.job])
      BY <1>3, <3>1 DEF SyncedSoFar
    <3>5. s = LastStatus(q.job) \/ (s = "BUILDING" /\ LastStatus(q.job) \notin Terminal)
      BY <2>2, <3>4 DEF Protected
    <3>6. n = Len(ciBuilds[q.job]) \/ ciBuilds[q.job] = <<>>
      BY <1>1, <1>3, <2>3, <3>4, BuildsAre
    <3>. QED
      BY <1>3, <1>9, <2>6, <3>1, <3>3, <3>5, <3>6 DEF SyncedSoFar
  <2>10. y.alone => SyncedSoFar(y)'
    BY <1>1, <2>9, SyncedSame
  <2>. QED
    BY <1>1, <2>6, <2>7, <2>8, <2>10, JenkinsGoes
<1>. QED
  BY <1>8, <1>9

LEMMA SyncReadStep ==
  ASSUME JenkinsInv, NEW r \in CiRequests, SyncRead(r)
  PROVE  CiStep
<1>1. CiTables /\ UNCHANGED <<ciRemote, ciTable>> /\ CiTables' /\ ciCalls' \in 0 .. MaxCiCalls
  BY CiTablesSame, SameCalls DEF SyncRead, JenkinsInv
<1>2. PICK q \in CiReqRecords : q = ciReq[r] /\ CiHas(q) /\ (q.alone => SyncedSoFar(q))
  BY CiReqIs
<1>3. q.pc = "read" /\ q.op = "sync" /\ q.todo \subseteq CiJobs /\ q.id = 0
  BY <1>2 DEF SyncRead, CiHas, CiReqRecords
<1>4. PICK j \in q.todo :
        \E s \in IF j \in ciThere THEN {LastStatus(j)} ELSE Statuses,
           n \in IF j \in ciThere THEN {Len(ciBuilds[j])} ELSE 0..MaxBuilds :
           CiGoes(r, [q EXCEPT !.pc = "find", !.job = j, !.status = s, !.count = n,
                        !.lock = IF FirstId(RowsOf(j)) # 0 THEN ciRow[FirstId(RowsOf(j))].lock ELSE 2])
  BY <1>2 DEF SyncRead
<1>5. PICK s \in IF j \in ciThere THEN {LastStatus(j)} ELSE Statuses :
        \E n \in IF j \in ciThere THEN {Len(ciBuilds[j])} ELSE 0..MaxBuilds :
           CiGoes(r, [q EXCEPT !.pc = "find", !.job = j, !.status = s, !.count = n,
                        !.lock = IF FirstId(RowsOf(j)) # 0 THEN ciRow[FirstId(RowsOf(j))].lock ELSE 2])
  BY <1>4
<1>6. PICK n \in IF j \in ciThere THEN {Len(ciBuilds[j])} ELSE 0..MaxBuilds :
           CiGoes(r, [q EXCEPT !.pc = "find", !.job = j, !.status = s, !.count = n,
                        !.lock = IF FirstId(RowsOf(j)) # 0 THEN ciRow[FirstId(RowsOf(j))].lock ELSE 2])
  BY <1>5
<1>7. j \in CiJobs
  BY <1>3
<1>8. s \in Statuses /\ n \in 0 .. MaxBuilds
  BY <1>1, <1>5, <1>6, <1>7, BuildsAre
<1>9. PICK l : l = IF FirstId(RowsOf(j)) # 0 THEN ciRow[FirstId(RowsOf(j))].lock ELSE 2
  OBVIOUS
<1>10. l \in 0 .. 2 /\ l # 0
  <2>1. FirstId(RowsOf(j)) # 0 => FirstId(RowsOf(j)) \in 1 .. MaxCiRows
    BY <1>1, RowAre, FirstIdIs
  <2>2. FirstId(RowsOf(j)) # 0 => ciRow[FirstId(RowsOf(j))].lock \in {1, 2}
    BY <1>1, <2>1, RowAre DEF CiRowRecords
  <2>. QED
    BY <1>9, <2>2
<1>11. PICK y : y = [q EXCEPT !.pc = "find", !.job = j, !.status = s, !.count = n, !.lock = l]
  OBVIOUS
<1>12. /\ y \in CiReqRecords /\ y.op = q.op /\ y.pc = "find" /\ y.job = j /\ y.lock = l
       /\ y.id = q.id /\ y.status = s /\ y.count = n /\ y.todo = q.todo /\ y.keys = q.keys
       /\ y.alone = q.alone
  <2>1. "find" \in CiPcs /\ j \in CiJobs \cup {"none"} /\ s \in Statuses \cup {"none"}
    BY <1>7, <1>8 DEF CiPcs
  <2>. QED
    BY <1>8, <1>10, <1>11, <2>1 DEF CiReqRecords
<1>13. CiGoes(r, y)
  BY <1>6, <1>9, <1>11
<1>14. CiHas(y)
  BY <1>2, <1>3, <1>7, <1>10, <1>12 DEF CiHas
<1>15. y.alone => SyncedSoFar(y)
  <2>1. ASSUME y.alone PROVE SyncedSoFar(y)
    <3>1. SyncedSoFar(q) /\ j \in ciThere
      BY <1>2, <1>12, <2>1 DEF SyncedSoFar
    <3>2. s = LastStatus(j) /\ n = Len(ciBuilds[j])
      BY <1>5, <1>6, <3>1
    <3>. QED
      BY <1>12, <3>1, <3>2 DEF SyncedSoFar
  <2>. QED
    BY <2>1
<1>16. y.alone => SyncedSoFar(y)'
  BY <1>1, <1>15, SyncedSame
<1>. QED
  BY <1>1, <1>12, <1>13, <1>14, <1>16, JenkinsGoes

LEMMA SyncSweepStep ==
  ASSUME JenkinsInv, NEW r \in CiRequests, SyncSweep(r)
  PROVE  CiStep
<1>1. CiTables /\ UNCHANGED <<ciRemote, ciTable>> /\ CiTables' /\ ciCalls' \in 0 .. MaxCiCalls
  BY CiTablesSame, SameCalls DEF SyncSweep, JenkinsInv
<1>2. PICK q \in CiReqRecords : q = ciReq[r] /\ CiHas(q) /\ (q.alone => SyncedSoFar(q))
  BY CiReqIs
<1>3. q.pc = "read" /\ q.op = "sync" /\ q.todo = {}
  BY <1>2 DEF SyncSweep
<1>4. PICK S : S = {i \in RowIds : ciRow[i].job \notin q.keys}
  OBVIOUS
<1>5. S \in SUBSET (1 .. MaxCiRows)
  BY <1>1, <1>4, RowAre
<1>6. PICK y : y = [q EXCEPT !.pc = "sweep", !.rows = S]
  OBVIOUS
<1>7. /\ y \in CiReqRecords /\ y.op = q.op /\ y.pc = "sweep" /\ y.rows = S /\ y.todo = q.todo
      /\ y.keys = q.keys /\ y.alone = q.alone
  BY <1>5, <1>6 DEF CiReqRecords, CiPcs
<1>8. CiGoes(r, y)
  BY <1>2, <1>4, <1>6 DEF SyncSweep
<1>9. CiHas(y)
  BY <1>2, <1>3, <1>7 DEF CiHas
<1>10. y.alone => SyncedSoFar(y)
  BY <1>2, <1>3, <1>4, <1>7 DEF SyncedSoFar
<1>11. y.alone => SyncedSoFar(y)'
  BY <1>1, <1>10, SyncedSame
<1>. QED
  BY <1>1, <1>7, <1>8, <1>9, <1>11, JenkinsGoes

LEMMA SweepRowStep ==
  ASSUME JenkinsInv, NEW r \in CiRequests, SweepRow(r)
  PROVE  CiStep
<1>1. CiTables /\ UNCHANGED <<ciRemote, ciNext>> /\ ciCalls' \in 0 .. MaxCiCalls
  BY SameCalls DEF SweepRow, JenkinsInv
<1>2. PICK q \in CiReqRecords : q = ciReq[r] /\ CiHas(q) /\ (q.alone => SyncedSoFar(q))
  BY CiReqIs
<1>3. q.pc = "sweep" /\ q.rows \subseteq 1 .. MaxCiRows /\ q.keys \subseteq CiJobs
  BY <1>2 DEF SweepRow, CiReqRecords
<1>4. CASE q.rows = {} /\ CiEnds(r) /\ UNCHANGED ciRow
  <2>1. UNCHANGED <<ciRemote, ciTable>>
    BY <1>1, <1>4 DEF ciTable
  <2>2. CiTables'
    BY <1>1, <2>1, CiTablesSame
  <2>. QED
    BY <1>1, <1>2, <1>3, <1>4, <2>2, JenkinsEnds
<1>5. ASSUME NEW i \in q.rows, ciRow' = [ciRow EXCEPT ![i] = NoCiRow],
             CiGoes(r, [q EXCEPT !.rows = @ \ {i}])
      PROVE  CiStep
  <2>1. ciRow \in [1 .. MaxCiRows -> CiRowRecords] /\ i \in 1 .. MaxCiRows
    BY <1>1, <1>3 DEF CiTables
  <2>2. \A k \in 1 .. MaxCiRows : ciRow'[k] = IF k = i THEN NoCiRow ELSE ciRow[k]
    BY <1>5, <2>1
  <2>3. ciRow' \in [1 .. MaxCiRows -> CiRowRecords]
    BY <1>5, <2>1, NoCiRowIs
  <2>4. CiTables'
    BY <1>1, <2>2, <2>3, CiRowsChange
  <2>5. PICK y : y = [q EXCEPT !.rows = q.rows \ {i}]
    OBVIOUS
  <2>6. /\ y \in CiReqRecords /\ y.op = q.op /\ y.pc = q.pc /\ y.rows = q.rows \ {i} /\ y.todo = q.todo
        /\ y.keys = q.keys /\ y.alone = q.alone
    BY <1>3, <2>5 DEF CiReqRecords
  <2>7. CiGoes(r, y)
    BY <1>5, <2>5
  <2>8. CiHas(y)
    BY <1>2, <1>3, <2>6 DEF CiHas
  <2>9. ASSUME y.alone PROVE SyncedSoFar(y)'
    <3>1. SyncedSoFar(q)
      BY <1>2, <2>6, <2>9
    <3>2. ciRow[i].job \notin q.keys /\ q.todo = {} /\ q.keys = ciThere
      BY <1>3, <3>1 DEF SyncedSoFar
    <3>3. ASSUME NEW j \in q.keys
          PROVE  RowsOf(j)' # {} /\ \A k \in RowsOf(j)' : CiShows(k, j)'
      <4>1. RowsOf(j) # {} /\ \A k \in RowsOf(j) : CiShows(k, j)
        BY <3>1, <3>2 DEF SyncedSoFar
      <4>2. j # "none"
        BY <1>3, JenkinsAssumption
      <4>3. RowsOf(j)' = RowsOf(j) /\ i \notin RowsOf(j)
        BY <2>2, <3>2, <4>2, NoCiRowIs DEF RowsOf
      <4>4. \A k \in RowsOf(j) : ciRow'[k] = ciRow[k]
        BY <2>2, <4>3 DEF RowsOf
      <4>. QED
        BY <1>1, <4>1, <4>3, <4>4 DEF CiShows, Shown, LastStatus, Building, ciRemote
    <3>4. \A k \in RowIds' : ciRow'[k].job \notin q.keys => k \in q.rows \ {i}
      <4>1. \A k \in RowIds' : k \in RowIds /\ k # i /\ ciRow'[k] = ciRow[k]
        BY <2>2, NoCiRowIs DEF RowIds
      <4>. QED
        BY <1>3, <3>1, <4>1 DEF SyncedSoFar
    <3>5. \A k \in q.rows \ {i} : ciRow'[k].job \notin q.keys
      BY <1>3, <2>2, <3>1 DEF SyncedSoFar
    <3>6. y.keys = ciThere' /\ y.todo = {} /\ y.pc = "sweep"
      BY <1>1, <1>3, <2>6, <3>2 DEF ciRemote
    <3>. QED
      BY <2>6, <3>3, <3>4, <3>5, <3>6 DEF SyncedSoFar
  <2>. QED
    BY <1>1, <1>2, <1>3, <2>4, <2>6, <2>7, <2>8, <2>9, JenkinsGoes
<1>. QED
  BY <1>2, <1>4, <1>5 DEF SweepRow

(* A row is written, a new one or one that has no other of its job.         *)
LEMMA CiRowWritten ==
  ASSUME CiTables, UNCHANGED ciRemote, NEW i \in 1 .. MaxCiRows, NEW x \in CiRowRecords,
         x.job \in CiJobs, RowsOf(x.job) \subseteq {i}, ciRow' = [ciRow EXCEPT ![i] = x],
         \/ i \in RowIds /\ UNCHANGED ciNext
         \/ i = ciNext /\ ciNext' = ciNext + 1
  PROVE  CiTables'
<1>1. ciRow \in [1 .. MaxCiRows -> CiRowRecords] /\ ciNext \in 1 .. MaxCiRows + 1
  BY DEF CiTables
<1>2. \A k \in 1 .. MaxCiRows : ciRow'[k] = IF k = i THEN x ELSE ciRow[k]
  BY <1>1
<1>3. ciRow' \in [1 .. MaxCiRows -> CiRowRecords]
  BY <1>1
<1>4. i \in RowIds => i < ciNext
  BY <1>1, NoCiRowIs, JenkinsAssumption DEF CiTables, RowIds
<1>5. ciNext' \in 1 .. MaxCiRows + 1 /\ i < ciNext' /\ ciNext <= ciNext'
  BY <1>1, <1>4, JenkinsAssumption
<1>6. \A k \in 1 .. MaxCiRows : k >= ciNext' => ciRow'[k] = NoCiRow
  <2>1. TAKE k \in 1 .. MaxCiRows
  <2>2. HAVE k >= ciNext'
  <2>3. k # i /\ k >= ciNext
    BY <1>1, <1>5, <2>2, JenkinsAssumption
  <2>. QED
    BY <1>2, <2>3 DEF CiTables
<1>7. \A k \in RowIds' : k = i \/ (k \in RowIds /\ ciRow'[k] = ciRow[k] /\ ciRow[k].job # x.job)
  BY <1>2 DEF RowIds, RowsOf
<1>8. i \in 1 .. MaxCiRows /\ ciRow'[i] = x
  BY <1>2
<1>9. \A k, l \in RowIds' : ciRow'[k].job = ciRow'[l].job => k = l
  BY <1>7, <1>8 DEF CiTables
<1>. QED
  BY <1>3, <1>5, <1>6, <1>9 DEF CiTables, ciRemote

(* What a synchronisation has written shows the job, and the others are as  *)
(* they were.                                                               *)
LEMMA SyncedOneMore ==
  ASSUME CiTables, UNCHANGED ciRemote, NEW q \in CiReqRecords, SyncedSoFar(q),
         q.pc = "write", q.job \in CiJobs, NEW i \in 1 .. MaxCiRows,
         RowsOf(q.job) \subseteq {i}, ciRow[i].job \in {"none", q.job},
         ciRow' = [ciRow EXCEPT ![i] = Rewritten(ciRow[i], q)],
         q.status = LastStatus(q.job) \/ (q.status = "BUILDING" /\ LastStatus(q.job) \notin Terminal),
         \/ q.count = Len(ciBuilds[q.job]) /\ (q.count = 0 => ciBuilds[q.job] = <<>>)
         \/ ciBuilds[q.job] = <<>>,
         NEW y \in CiReqRecords, y.keys = q.keys, y.todo = q.todo \ {q.job}, y.pc = "read"
  PROVE  SyncedSoFar(y)'
<1>1. ciRow \in [1 .. MaxCiRows -> CiRowRecords] /\ q.job # "none" /\ q.keys \subseteq CiJobs
  BY JenkinsAssumption DEF CiTables, CiReqRecords
<1>2. \A k \in 1 .. MaxCiRows : ciRow'[k] = IF k = i THEN Rewritten(ciRow[i], q) ELSE ciRow[k]
  BY <1>1
<1>3. LastStatus(q.job) \in Statuses /\ "none" \notin Statuses
  BY BuildsAre DEF Statuses, Terminal
<1>4. q.status # "none"
  BY <1>3
<1>5. Rewritten(ciRow[i], q).job = q.job /\ Rewritten(ciRow[i], q).status = q.status
      /\ Rewritten(ciRow[i], q).count = IF q.count = 0 THEN ciRow[i].count ELSE q.count
  BY <1>4 DEF Rewritten
<1>6. ciRow'[i].job = q.job /\ ciRow'[i].status = q.status
      /\ ciRow'[i].count = IF q.count = 0 THEN ciRow[i].count ELSE q.count
  BY <1>2, <1>5
<1>7. RowsOf(q.job)' = {i}
  BY <1>2, <1>6 DEF RowsOf
<1>8. CiShows(i, q.job)'
  <2>1. Shown(q.job, i)'
    BY <1>6 DEF Shown, LastStatus, Building, ciRemote
  <2>2. ciRow'[i].count = Len(ciBuilds'[q.job]) \/ ciBuilds'[q.job] = <<>>
    BY <1>6 DEF ciRemote
  <2>. QED
    BY <2>1, <2>2 DEF CiShows
<1>9. ASSUME NEW j \in q.keys \ q.todo, j # q.job
      PROVE  RowsOf(j)' # {} /\ \A k \in RowsOf(j)' : CiShows(k, j)'
  <2>1. RowsOf(j) # {} /\ \A k \in RowsOf(j) : CiShows(k, j)
    BY DEF SyncedSoFar
  <2>2. j # "none"
    BY <1>1, JenkinsAssumption
  <2>3. RowsOf(j)' = RowsOf(j) /\ i \notin RowsOf(j)
    BY <1>2, <1>6, <1>9, <2>2 DEF RowsOf
  <2>4. \A k \in RowsOf(j) : ciRow'[k] = ciRow[k]
    BY <1>2, <2>3 DEF RowsOf
  <2>. QED
    BY <2>1, <2>3, <2>4 DEF CiShows, Shown, LastStatus, Building, ciRemote
<1>10. \A j \in y.keys \ y.todo :
         RowsOf(j)' # {} /\ \A k \in RowsOf(j)' : CiShows(k, j)'
  BY <1>7, <1>8, <1>9
<1>11. y.keys = ciThere' /\ y.todo \subseteq y.keys
  BY DEF SyncedSoFar, ciRemote
<1>. QED
  BY <1>10, <1>11 DEF SyncedSoFar

LEMMA WriteRowStep ==
  ASSUME JenkinsInv, NEW r \in CiRequests, WriteRow(r)
  PROVE  CiStep
<1>1. CiTables /\ UNCHANGED ciRemote /\ ciCalls' \in 0 .. MaxCiCalls
  BY SameCalls DEF WriteRow, JenkinsInv
<1>2. PICK q \in CiReqRecords : q = ciReq[r] /\ CiHas(q) /\ (q.alone => SyncedSoFar(q))
  BY CiReqIs
<1>3. q.pc = "write" /\ q.job \in CiJobs /\ q.lock \in {1, 2} /\ (q.alone => q.op = "sync")
  BY <1>2 DEF WriteRow, CiHas, CiReqRecords
<1>4. q.id \in 0 .. MaxCiRows /\ q.count \in 0 .. MaxBuilds /\ q.status \in Statuses \cup {"none"}
  BY DEF CiReqRecords
<1>5. ASSUME NEW x \in CiRowRecords
      PROVE  Rewritten(x, q) \in CiRowRecords /\ Rewritten(x, q).job = q.job
  BY <1>3, <1>4 DEF Rewritten, CiRowRecords
<1>6. ciRow \in [1 .. MaxCiRows -> CiRowRecords]
  BY <1>1 DEF CiTables
<1>7. PICK y \in CiReqRecords : CiGoes(r, y) /\ CiHas(y) /\ (y.alone => q.alone)
                                 /\ (q.op = "sync" => /\ y.pc = "read" /\ y.keys = q.keys
                                                       /\ y.todo = q.todo \ {q.job})
                                 /\ (q.op # "sync" => ~y.alone)
  <2>1. CASE q.op # "sync"
    BY <1>2, <2>1, NoCiRequestIs, NoCiRequestInv DEF WriteRow, AfterWrite
  <2>2. CASE q.op = "sync"
    <3>. DEFINE left == q.todo \ {q.job}
    <3>1. PICK todo : todo = left
      OBVIOUS
    <3>2. PICK y : y = [q EXCEPT !.pc = "read", !.job = "none", !.todo = todo,
                 !.id = 0, !.lock = 0, !.status = "none", !.count = 0]
      OBVIOUS
    <3>3. /\ y \in CiReqRecords /\ y.op = q.op /\ y.pc = "read" /\ y.id = 0 /\ y.keys = q.keys
          /\ y.todo = q.todo \ {q.job} /\ y.alone = q.alone
      <4>1. q.todo \in SUBSET CiJobs
        BY DEF CiReqRecords
      <4>2. todo \in SUBSET CiJobs /\ todo = q.todo \ {q.job}
        BY <3>1, <4>1
      <4>3. 0 \in 0 .. MaxCiRows /\ 0 \in 0 .. MaxBuilds /\ 0 \in 0 .. 2 /\ "read" \in CiPcs
            /\ "none" \in CiJobs \cup {"none"} /\ "none" \in Statuses \cup {"none"}
        BY JenkinsAssumption DEF CiPcs
      <4>. QED
        BY <3>2, <4>2, <4>3 DEF CiReqRecords
    <3>4. CiGoes(r, y)
      BY <1>2, <2>2, <3>1, <3>2 DEF WriteRow, AfterWrite
    <3>5. CiHas(y)
      BY <1>2, <2>2, <3>3 DEF CiHas
    <3>. QED
      BY <2>2, <3>3, <3>4, <3>5
  <2>. QED
    BY <2>1, <2>2
<1>8. ciReq[r].op # "sync" \/ y.pc # "idle"
  BY <1>2, <1>7
<1>9. y.alone => q.alone /\ SyncedSoFar(q) /\ y.pc = "read" /\ y.keys = q.keys /\ y.todo = q.todo \ {q.job}
                 /\ (q.count = Len(ciBuilds[q.job]) => (q.count = 0 => ciBuilds[q.job] = <<>>))
  BY <1>1, <1>2, <1>3, <1>7, BuildsAre
<1>10. CASE q.id # 0 /\ q.id \in RowIds /\ RowsOf(q.job) \subseteq {q.id}
  <2>1. q.id \in 1 .. MaxCiRows
    BY <1>10 DEF RowIds
  <2>2. ciRow' = [ciRow EXCEPT ![q.id] = Rewritten(ciRow[q.id], q)] /\ UNCHANGED ciNext
    BY <1>2, <1>6, <1>10, <2>1 DEF WriteRow
  <2>3. PICK x \in CiRowRecords : x = Rewritten(ciRow[q.id], q) /\ x.job = q.job
    BY <1>5, <1>6, <2>1
  <2>4. CiTables'
    BY <1>1, <1>3, <1>10, <2>1, <2>2, <2>3, CiRowWritten
  <2>5. ASSUME y.alone PROVE SyncedSoFar(y)'
    <3>1. q.status = LastStatus(q.job) \/ (q.status = "BUILDING" /\ LastStatus(q.job) \notin Terminal)
      BY <1>3, <1>9, <1>10, <2>5 DEF SyncedSoFar
    <3>2. q.count = Len(ciBuilds[q.job]) \/ ciBuilds[q.job] = <<>>
      BY <1>3, <1>9, <1>10, <2>5 DEF SyncedSoFar
    <3>3. RowsOf(q.job) = {q.id}
      BY <1>3, <1>9, <1>10, <2>5 DEF SyncedSoFar
    <3>4. ciRow[q.id].job \in {"none", q.job}
      BY <3>3 DEF RowsOf
    <3>. QED
      BY <1>1, <1>3, <1>9, <1>10, <2>1, <2>2, <2>5, <3>1, <3>2, <3>4, SyncedOneMore
  <2>. QED
    BY <1>1, <1>7, <1>8, <2>4, <2>5, JenkinsGoes
<1>11. CASE q.id = 0 /\ RowsOf(q.job) = {}
  <2>1. ciNext \in 1 .. MaxCiRows
    BY <1>1, <1>2, <1>11, JenkinsAssumption DEF WriteRow, CiTables
  <2>2. ciRow[ciNext] = NoCiRow
    BY <1>1, <2>1 DEF CiTables
  <2>3. ciRow' = [ciRow EXCEPT ![ciNext] = Rewritten(ciRow[ciNext], q)] /\ ciNext' = ciNext + 1
    BY <1>2, <1>11, <2>2 DEF WriteRow
  <2>4. PICK x \in CiRowRecords : x = Rewritten(ciRow[ciNext], q) /\ x.job = q.job
    BY <1>5, <1>6, <2>1
  <2>5. CiTables'
    BY <1>1, <1>3, <1>11, <2>1, <2>3, <2>4, CiRowWritten
  <2>6. ASSUME y.alone PROVE SyncedSoFar(y)'
    <3>1. q.status = LastStatus(q.job) /\ q.count = Len(ciBuilds[q.job])
      BY <1>3, <1>9, <1>11, <2>6 DEF SyncedSoFar
    <3>2. ciRow[ciNext].job \in {"none", q.job} /\ RowsOf(q.job) \subseteq {ciNext}
      BY <1>11, <2>2, NoCiRowIs
    <3>3. SyncedSoFar(q) /\ y.keys = q.keys /\ y.todo = q.todo \ {q.job} /\ y.pc = "read"
          /\ (q.count = 0 => ciBuilds[q.job] = <<>>)
      BY <1>9, <2>6, <3>1
    <3>. QED
      BY <1>1, <1>3, <2>1, <2>3, <3>1, <3>2, <3>3, SyncedOneMore
  <2>. QED
    BY <1>1, <1>7, <1>8, <2>5, <2>6, JenkinsGoes
<1>12. CASE \/ q.id # 0 /\ ~(q.id \in RowIds /\ RowsOf(q.job) \subseteq {q.id})
            \/ q.id = 0 /\ RowsOf(q.job) # {}
  <2>1. UNCHANGED ciTable
    BY <1>2, <1>12 DEF WriteRow, ciTable
  <2>2. CiTables'
    BY <1>1, <2>1, CiTablesSame
  <2>3. ~y.alone
    <3>1. ASSUME y.alone PROVE FALSE
      <4>1. q.id = 0 => RowsOf(q.job) = {}
        BY <1>3, <1>9, <3>1 DEF SyncedSoFar
      <4>2. q.id # 0 => RowsOf(q.job) = {q.id}
        BY <1>3, <1>9, <3>1 DEF SyncedSoFar
      <4>3. q.id # 0 => q.id \in RowIds
        BY <1>3, <4>2, JenkinsAssumption DEF RowsOf, RowIds
      <4>. QED
        BY <1>12, <4>1, <4>2, <4>3
    <3>. QED
      BY <3>1
  <2>. QED
    BY <1>1, <1>7, <1>8, <2>2, <2>3, JenkinsGoes
<1>. QED
  BY <1>10, <1>11, <1>12

(* A handler that has read Jenkins or the table and goes on.                *)
LEMMA ListLookStep ==
  ASSUME JenkinsInv, NEW r \in CiRequests, ListLook(r)
  PROVE  CiStep
<1>1. CiTables /\ UNCHANGED <<ciRemote, ciTable>> /\ CiTables' /\ ciCalls' \in 0 .. MaxCiCalls
  BY CiTablesSame, SameCalls DEF ListLook, JenkinsInv
<1>2. PICK q \in CiReqRecords : q = ciReq[r] /\ CiHas(q) /\ q.op = "list" /\ ~q.alone
  BY CiReqIs DEF ListLook, CiHas
<1>3. CASE CiEnds(r)
  BY <1>1, <1>2, <1>3, JenkinsEnds
<1>4. ASSUME NEW k \in getJenkinsJobHelper(q.job),
             CiGoes(r, [q EXCEPT !.pc = "fix", !.status = LastStatus(k), !.count = Len(ciBuilds[k])])
      PROVE  CiStep
  <2>1. k \in CiJobs
    BY <1>1 DEF CiTables, getJenkinsJobHelper
  <2>2. PICK s \in Statuses, n \in 0 .. MaxBuilds : s = LastStatus(k) /\ n = Len(ciBuilds[k])
    BY <1>1, <2>1, BuildsAre
  <2>3. PICK y : y = [q EXCEPT !.pc = "fix", !.status = s, !.count = n]
    OBVIOUS
  <2>4. /\ y \in CiReqRecords /\ y.op = q.op /\ y.pc = "fix" /\ y.status = s /\ y.alone = q.alone
    BY <2>2, <2>3 DEF CiReqRecords, CiPcs
  <2>5. CiGoes(r, y)
    BY <1>4, <2>2, <2>3
  <2>6. CiHas(y)
    BY <1>2, <2>4 DEF CiHas
  <2>. QED
    BY <1>1, <1>2, <2>4, <2>5, <2>6, JenkinsGoes
<1>. QED
  BY <1>2, <1>3, <1>4 DEF ListLook

LEMMA EditRowStep ==
  ASSUME JenkinsInv, NEW r \in CiRequests, EditRow(r)
  PROVE  CiStep
<1>1. CiTables /\ UNCHANGED <<ciRemote, ciTable>> /\ CiTables' /\ ciCalls' \in 0 .. MaxCiCalls
  BY CiTablesSame, SameCalls DEF EditRow, JenkinsInv
<1>2. PICK q \in CiReqRecords : q = ciReq[r] /\ CiHas(q) /\ q.pc = "edit"
  BY CiReqIs DEF EditRow
<1>3. q.job \in CiJobs /\ q.op # "sync" /\ ~q.alone
  BY <1>2 DEF CiHas
<1>4. PICK i : i = IF q.id \in RowIds THEN q.id ELSE FirstId(RowsOf(q.job))
  OBVIOUS
<1>5. i \in 0 .. MaxCiRows /\ (i # 0 => i \in 1 .. MaxCiRows)
  BY <1>1, <1>4, RowAre, FirstIdIs
<1>6. PICK row \in CiRowRecords : row = IF i = 0 THEN NoCiRow ELSE ciRow[i]
  BY <1>1, <1>5, RowAre, NoCiRowIs
<1>7. PICK l : l = IF q.lock = 0 THEN row.lock ELSE q.lock
  OBVIOUS
<1>8. l \in 0 .. 2 /\ l # 0
  BY <1>7 DEF CiReqRecords, CiRowRecords
<1>9. PICK s : s = IF i = 0 THEN "none" ELSE row.status
  OBVIOUS
<1>10. PICK n : n = row.count
  OBVIOUS
<1>11. s \in Statuses \cup {"none"} /\ n \in 0 .. MaxBuilds
  BY <1>9, <1>10 DEF CiRowRecords
<1>12. PICK y : y = [q EXCEPT !.pc = "find", !.id = i, !.lock = l, !.status = s, !.count = n]
  OBVIOUS
<1>13. /\ y \in CiReqRecords /\ y.op = q.op /\ y.pc = "find" /\ y.job = q.job /\ y.lock = l
       /\ y.alone = q.alone
  BY <1>5, <1>8, <1>11, <1>12 DEF CiReqRecords, CiPcs
<1>14. CiGoes(r, y)
  BY <1>2, <1>4, <1>6, <1>7, <1>9, <1>10, <1>12 DEF EditRow
<1>15. CiHas(y)
  BY <1>2, <1>3, <1>8, <1>13 DEF CiHas
<1>. QED
  BY <1>1, <1>3, <1>13, <1>14, <1>15, JenkinsGoes

(* Rows get a status, and perhaps a number.                                 *)
LEMMA ListFixStep ==
  ASSUME JenkinsInv, NEW r \in CiRequests, ListFix(r)
  PROVE  CiStep
<1>1. CiTables /\ UNCHANGED <<ciRemote, ciNext>> /\ ciCalls' \in 0 .. MaxCiCalls /\ CiEnds(r)
  BY SameCalls DEF ListFix, JenkinsInv
<1>2. PICK q \in CiReqRecords : q = ciReq[r] /\ CiHas(q) /\ q.pc = "fix"
  BY CiReqIs DEF ListFix
<1>3. q.status \in Statuses /\ q.op # "sync" /\ q.count \in 0 .. MaxBuilds
  BY <1>2 DEF CiHas, CiReqRecords
<1>4. ciRow \in [1 .. MaxCiRows -> CiRowRecords]
  BY <1>1 DEF CiTables
<1>5. CASE q.id \notin RowIds
  <2>1. UNCHANGED <<ciRemote, ciTable>>
    BY <1>1, <1>2, <1>5 DEF ListFix, ciTable
  <2>2. CiTables'
    BY <1>1, <2>1, CiTablesSame
  <2>. QED
    BY <1>1, <1>2, <1>3, <2>2, JenkinsEnds
<1>6. CASE q.id \in RowIds
  <2>1. q.id \in 1 .. MaxCiRows
    BY <1>6 DEF RowIds
  <2>2. PICK x \in CiRowRecords : x = ciRow[q.id]
    BY <1>4, <2>1
  <2>3. x # NoCiRow
    BY <1>6, <2>2, NoCiRowIs DEF RowIds
  <2>4. PICK z : z = [x EXCEPT !.status = q.status, !.count = q.count]
    OBVIOUS
  <2>5. z \in CiRowRecords /\ z.job = x.job
    BY <1>3, <2>4 DEF CiRowRecords
  <2>6. ciRow' = [ciRow EXCEPT ![q.id] = z]
    BY <1>2, <1>4, <1>6, <2>1, <2>2, <2>4 DEF ListFix
  <2>7. \A i \in 1 .. MaxCiRows : ciRow'[i] = IF i = q.id THEN z ELSE ciRow[i]
    BY <1>4, <2>6
  <2>8. CiTables'
    <3>1. ciRow' \in [1 .. MaxCiRows -> CiRowRecords]
      BY <1>4, <2>5, <2>6
    <3>2. \A i \in 1 .. MaxCiRows :
            ciRow'[i].job = ciRow[i].job /\ (ciRow[i] = NoCiRow => ciRow'[i] = NoCiRow)
      BY <2>2, <2>3, <2>5, <2>7
    <3>. QED
      BY <1>1, <3>1, <3>2, CiRowsChange
  <2>. QED
    BY <1>1, <1>2, <1>3, <2>8, JenkinsEnds
<1>. QED
  BY <1>5, <1>6

LEMMA RowsSet ==
  ASSUME CiTables, UNCHANGED <<ciRemote, ciNext>>, NEW S \in SUBSET RowIds,
         NEW s \in Statuses, NEW n \in 0 .. MaxBuilds, SetRows(S, s, n)
  PROVE  CiTables'
<1>1. ASSUME NEW i \in 1 .. MaxCiRows
      PROVE  /\ ciRow'[i] \in CiRowRecords /\ ciRow'[i].job = ciRow[i].job
             /\ ciRow[i] = NoCiRow => ciRow'[i] = NoCiRow
  <2>1. PICK x \in CiRowRecords : x = ciRow[i]
    BY DEF CiTables
  <2>2. PICK m : m = IF n = 0 THEN x.count ELSE n
    OBVIOUS
  <2>3. PICK z : z = [x EXCEPT !.status = s, !.count = m]
    OBVIOUS
  <2>4. z \in CiRowRecords /\ z.job = x.job
    BY <2>2, <2>3 DEF CiRowRecords
  <2>5. ciRow'[i] = IF i \in S THEN z ELSE x
    BY <2>1, <2>2, <2>3 DEF SetRows
  <2>6. x = NoCiRow => i \notin S
    BY <2>1, NoCiRowIs DEF RowIds
  <2>. QED
    BY <2>1, <2>4, <2>5, <2>6
<1>2. ciRow' \in [1 .. MaxCiRows -> CiRowRecords]
  BY <1>1 DEF SetRows
<1>. QED
  BY <1>1, <1>2, CiRowsChange

LEMMA MarkBuildingStep ==
  ASSUME JenkinsInv, NEW r \in CiRequests, MarkBuilding(r)
  PROVE  CiStep
<1>1. CiTables /\ UNCHANGED <<ciRemote, ciNext>> /\ ciCalls' \in 0 .. MaxCiCalls /\ CiEnds(r)
  BY SameCalls DEF MarkBuilding, JenkinsInv
<1>2. PICK q \in CiReqRecords : q = ciReq[r] /\ CiHas(q) /\ q.pc = "mark"
  BY CiReqIs DEF MarkBuilding
<1>3. q.job \in CiJobs /\ q.op # "sync" /\ q.count \in 0 .. MaxBuilds
  BY <1>2 DEF CiHas, CiReqRecords
<1>4. PICK n \in {0, q.count} : SetRows(RowsOf(q.job), "BUILDING", n)
  BY <1>2 DEF MarkBuilding
<1>5. n \in 0 .. MaxBuilds /\ "BUILDING" \in Statuses
  BY <1>3, JenkinsAssumption DEF Statuses
<1>6. RowsOf(q.job) \subseteq RowIds
  BY <1>3, JenkinsAssumption DEF RowsOf, RowIds
<1>7. CiTables'
  BY <1>1, <1>4, <1>5, <1>6, RowsSet
<1>. QED
  BY <1>1, <1>2, <1>3, <1>7, JenkinsEnds

LEMMA SetNamedStep ==
  ASSUME JenkinsInv, NEW r \in CiRequests, SetNamed(r)
  PROVE  CiStep
<1>1. CiTables /\ UNCHANGED <<ciRemote, ciNext>> /\ ciCalls' \in 0 .. MaxCiCalls /\ CiEnds(r)
  BY SameCalls DEF SetNamed, JenkinsInv
<1>2. PICK q \in CiReqRecords : q = ciReq[r] /\ CiHas(q) /\ q.pc = "set"
  BY CiReqIs DEF SetNamed
<1>3. q.status \in Statuses /\ q.op # "sync" /\ q.count \in 0 .. MaxBuilds
  BY <1>2 DEF CiHas, CiReqRecords
<1>4. SetRows(Named(NameOf(q.job)), q.status, q.count)
  BY <1>2 DEF SetNamed
<1>5. Named(NameOf(q.job)) \subseteq RowIds
  BY DEF Named
<1>6. CiTables'
  BY <1>1, <1>3, <1>4, <1>5, RowsSet
<1>. QED
  BY <1>1, <1>2, <1>3, <1>6, JenkinsEnds

LEMMA DeleteRowsStep ==
  ASSUME JenkinsInv, NEW r \in CiRequests, DeleteRows(r)
  PROVE  CiStep
<1>1. CiTables /\ UNCHANGED <<ciRemote, ciNext>> /\ ciCalls' \in 0 .. MaxCiCalls /\ CiEnds(r)
  BY SameCalls DEF DeleteRows, JenkinsInv
<1>2. ciReq[r].op # "sync"
  BY CiReqIs DEF DeleteRows, CiHas
<1>3. PICK gone : ciRow' = [i \in 1..MaxCiRows |-> IF i \in gone THEN NoCiRow ELSE ciRow[i]]
  BY DEF DeleteRows
<1>4. \A i \in 1 .. MaxCiRows : ciRow'[i] = NoCiRow \/ ciRow'[i] = ciRow[i]
  BY <1>3
<1>5. ciRow' \in [1 .. MaxCiRows -> CiRowRecords]
  BY <1>1, <1>3, NoCiRowIs, RowAre
<1>6. CiTables'
  BY <1>1, <1>4, <1>5, CiRowsChange
<1>. QED
  BY <1>1, <1>2, <1>6, JenkinsEnds

LEMMA DeleteHelperStep ==
  ASSUME JenkinsInv, NEW r \in CiRequests, deleteJenkinsJobHelper(r)
  PROVE  CiStep
<1>1. CiTables /\ UNCHANGED ciTable /\ ciCalls' \in 0 .. MaxCiCalls
  BY SameCalls DEF deleteJenkinsJobHelper, JenkinsInv
<1>2. PICK q \in CiReqRecords : q = ciReq[r] /\ CiHas(q) /\ q.pc = "remove"
  BY CiReqIs DEF deleteJenkinsJobHelper
<1>3. q.job \in CiJobs /\ q.op # "sync" /\ ~q.alone
  BY <1>2 DEF CiHas
<1>4. CiTables'
  <2>1. CASE UNCHANGED ciRemote
    BY <1>1, <2>1, CiTablesSame
  <2>2. ASSUME NEW k \in getJenkinsJobHelper(q.job), DeleteRemote(k) PROVE CiTables'
    <3>1. k \in CiJobs /\ ciThere' \subseteq CiJobs
      BY <1>1, <2>2 DEF CiTables, getJenkinsJobHelper, DeleteRemote
    <3>2. <<>> \in Seq(BuildMarks) /\ Len(<<>>) = 0 /\ 0 \in Nat /\ 0 + 0 <= MaxBuilds
      BY JenkinsAssumption
    <3>. QED
      BY <1>1, <2>2, <3>1, <3>2, CiBuildsChange DEF DeleteRemote
  <2>. QED
    BY <1>2, <2>1, <2>2 DEF deleteJenkinsJobHelper
<1>5. CASE CiEnds(r)
  BY <1>1, <1>2, <1>3, <1>4, <1>5, JenkinsEnds
<1>6. CASE CiGoes(r, [q EXCEPT !.pc = "rows"])
  <2>1. PICK y : y = [q EXCEPT !.pc = "rows"]
    OBVIOUS
  <2>2. y \in CiReqRecords /\ y.op = q.op /\ y.pc = "rows" /\ y.alone = q.alone
    BY <2>1 DEF CiReqRecords, CiPcs
  <2>3. CiHas(y)
    BY <1>3, <2>2 DEF CiHas
  <2>. QED
    BY <1>1, <1>3, <1>4, <1>6, <2>1, <2>2, <2>3, JenkinsGoes
<1>. QED
  BY <1>2, <1>5, <1>6 DEF deleteJenkinsJobHelper

LEMMA ScheduleStep ==
  ASSUME JenkinsInv, NEW r \in CiRequests, triggerJenkinsBuildWithCause(r)
  PROVE  CiStep
<1>1. CiTables /\ UNCHANGED <<ciThere, ciBuilds, ciTable>> /\ ciCalls' \in 0 .. MaxCiCalls
  BY SameCalls DEF triggerJenkinsBuildWithCause, JenkinsInv
<1>2. PICK q \in CiReqRecords : q = ciReq[r] /\ CiHas(q) /\ q.pc = "schedule"
  BY CiReqIs DEF triggerJenkinsBuildWithCause
<1>3. q.job \in CiJobs /\ q.other \in CiJobs /\ q.op # "sync" /\ ~q.alone
  BY <1>2 DEF CiHas
<1>4. PICK k \in CiJobs : k = IF q.job \in ciThere THEN q.job ELSE q.other
  BY <1>3
<1>5. /\ ciBuilds \in [CiJobs -> Seq(BuildMarks)] /\ ciBuilds[k] \in Seq(BuildMarks)
      /\ Len(ciBuilds[k]) \in 0 .. MaxBuilds /\ ciQueue[k] \in Nat /\ ciThere' \subseteq CiJobs
      /\ Len(ciBuilds[k]) + ciQueue[k] <= MaxBuilds /\ MaxBuilds \in Nat
  BY <1>1, BuildsAre, JenkinsAssumption DEF CiTables
<1>6. ASSUME NEW n \in 0 .. MaxBuilds, CiTables',
             CiGoes(r, [q EXCEPT !.pc = "mark", !.other = k, !.count = n])
      PROVE  CiStep
  <2>1. PICK y : y = [q EXCEPT !.pc = "mark", !.other = k, !.count = n]
    OBVIOUS
  <2>2. /\ y \in CiReqRecords /\ y.op = q.op /\ y.pc = "mark" /\ y.alone = q.alone
        /\ y.job = q.job /\ y.other = k
    BY <2>1 DEF CiReqRecords, CiPcs
  <2>3. CiHas(y)
    BY <1>3, <2>2 DEF CiHas
  <2>. QED
    BY <1>1, <1>3, <1>6, <2>1, <2>2, <2>3, JenkinsGoes
<1>7. CASE UNCHANGED ciQueue /\ CiEnds(r)
  <2>1. CiTables'
    BY <1>1, <1>7, CiTablesSame DEF ciRemote
  <2>. QED
    BY <1>1, <1>2, <1>3, <1>7, <2>1, JenkinsEnds
<1>8. CASE /\ Len(ciBuilds[k]) + ciQueue[k] < MaxBuilds
           /\ ciQueue' = [ciQueue EXCEPT ![k] = @ + 1]
           /\ CiGoes(r, [q EXCEPT !.pc = "mark", !.other = k,
                                  !.count = Len(ciBuilds[k]) + ciQueue[k] + 1])
  <2>1. /\ Len(ciBuilds[k]) + ciQueue[k] + 1 \in 0 .. MaxBuilds
        /\ ciQueue[k] + 1 \in Nat /\ Len(ciBuilds[k]) + (ciQueue[k] + 1) <= MaxBuilds
    BY <1>5, <1>8
  <2>2. ciBuilds' = [ciBuilds EXCEPT ![k] = ciBuilds[k]] /\ ciQueue' = [ciQueue EXCEPT ![k] = ciQueue[k] + 1]
    BY <1>1, <1>5, <1>8
  <2>3. CiTables'
    BY <1>1, <1>5, <2>1, <2>2, CiBuildsChange
  <2>. QED
    BY <1>6, <1>8, <2>1, <2>3
<1>9. CASE UNCHANGED ciQueue /\ CiGoes(r, [q EXCEPT !.pc = "mark", !.other = k,
                                             !.count = Len(ciBuilds[k]) + ciQueue[k]])
  <2>1. CiTables'
    BY <1>1, <1>9, CiTablesSame DEF ciRemote
  <2>2. Len(ciBuilds[k]) + ciQueue[k] \in 0 .. MaxBuilds
    BY <1>5
  <2>. QED
    BY <1>6, <1>9, <2>1, <2>2
<1>. QED
  BY <1>2, <1>4, <1>7, <1>8, <1>9 DEF triggerJenkinsBuildWithCause

(* The cache of clients is no part of it.                                   *)
LEMMA CacheRenewed ==
  ASSUME JenkinsInv, UNCHANGED <<ciRemote, ciTable, ciReq, ciCalls>>
  PROVE  CiStep
<1>1. CiTables'
  BY CiTablesSame DEF JenkinsInv
<1>2. \A s \in CiRequests : CiReqInv(ciReq[s])'
  <2>1. TAKE s \in CiRequests
  <2>2. PICK q \in CiReqRecords : q = ciReq[s] /\ CiHas(q) /\ (q.alone => SyncedSoFar(q))
    BY CiReqIs
  <2>3. CiHas(q) /\ (q.alone => SyncedSoFar(q)')
    BY <2>2, SyncedSame
  <2>. QED
    BY <2>2, <2>3 DEF CiReqInv, CiHas
<1>3. \A s \in CiRequests : SyncGoesOn(s)
  BY DEF SyncGoesOn, JenkinsInv, CiReqInv, CiHas
<1>. QED
  BY <1>1, <1>2, <1>3 DEF CiStep, JenkinsInv

LEMMA JenkinsSteps ==
  ASSUME JenkinsInv, JenkinsNext \/ UNCHANGED ciVars
  PROVE  CiStep
<1>1. CASE UNCHANGED ciVars \/ ReNewJenkinsClientsMap
  BY <1>1, CacheRenewed DEF ciVars, ReNewJenkinsClientsMap
<1>2. ASSUME NEW j \in CiJobs,
             RemoteCreates(j) \/ RemoteDeletes(j) \/ BuildStarts(j)
      PROVE  CiStep
  BY <1>2, RemoteStep
<1>3. ASSUME NEW j \in CiJobs, NEW n \in DOMAIN ciBuilds[j], NEW result \in CiResults,
             BuildEnds(j, n, result)
      PROVE  CiStep
  BY <1>3, BuildEndsStep
<1>4. ASSUME NEW j \in CiJobs, NEW lock \in 1 .. 2, toggleJenkinsJobDeleteLock(NameOf(j), lock)
      PROVE  CiStep
  BY <1>4, ToggleStep
<1>5. ASSUME NEW j \in CiJobs, NEW r \in CiRequests, NEW lock \in 0 .. 2,
             \/ createJenkinsJob(r, j, lock)
             \/ \E i \in 0..MaxCiRows : updateJenkinsJob(r, j, i, lock)
      PROVE  CiStep
  BY <1>5, CreateBegins, UpdateBegins
<1>6. ASSUME NEW j \in CiJobs, NEW r \in CiRequests,
             \/ deleteJenkinsJob(r, j) \/ triggerJenkinsBuild(r, j)
             \/ stopJenkinsBuild(r, j) \/ getJenkinsBuildLogs(r, j)
      PROVE  CiStep
  BY <1>6, DeleteBegins, TriggerBegins, StopBegins, LogsBegin
<1>7. ASSUME NEW r \in CiRequests,
             \/ FindRow(r) \/ WriteRow(r) \/ EditRow(r)
             \/ SyncJenkinsJobsToDB(r) \/ SyncRead(r) \/ SyncSweep(r) \/ SweepRow(r)
             \/ getJenkinsJobList(r) \/ ListLook(r) \/ ListFix(r)
      PROVE  CiStep
  BY <1>7, FindRowStep, WriteRowStep, EditRowStep, SyncBegins, SyncReadStep, SyncSweepStep,
     SweepRowStep, ListBegins, ListLookStep, ListFixStep
<1>8. ASSUME NEW r \in CiRequests,
             \/ deleteJenkinsJobHelper(r) \/ DeleteRows(r)
             \/ triggerJenkinsBuildWithCause(r) \/ MarkBuilding(r) \/ SetNamed(r)
             \/ deleteJenkinsInstance(r)
      PROVE  CiStep
  BY <1>8, DeleteHelperStep, DeleteRowsStep, ScheduleStep, MarkBuildingStep, SetNamedStep,
     InstanceDeleted
<1>. QED
  BY <1>1, <1>2, <1>3, <1>4, <1>5, <1>6, <1>7, <1>8 DEF JenkinsNext

(* A synchronisation that was alone ends with the table as Jenkins is.      *)
LEMMA JobsConverged ==
  ASSUME JenkinsInv, JenkinsNext \/ UNCHANGED ciVars
  PROVE  JobsConvergeStep
<1>1. \A s \in CiRequests : SyncGoesOn(s)
  BY JenkinsSteps DEF CiStep
<1>2. SUFFICES ASSUME NEW r \in CiRequests,
                      ciReq[r].op = "sync" /\ ciReq[r].alone /\ ciReq'[r].pc = "idle"
               PROVE  /\ {ciRow[i].job : i \in RowIds} = ciThere
                      /\ \A i \in RowIds : CiShows(i, ciRow[i].job)
  BY DEF JobsConvergeStep, CiShows
<1>3. PICK q \in CiReqRecords : q = ciReq[r] /\ SyncedSoFar(q)
  BY <1>2, CiReqIs
<1>4. q.pc = "sweep" /\ q.rows = {}
  BY <1>1, <1>2, <1>3 DEF SyncGoesOn
<1>5. q.keys = ciThere /\ q.todo = {}
  BY <1>3, <1>4 DEF SyncedSoFar
<1>6. \A i \in RowIds : ciRow[i].job \in ciThere
  BY <1>3, <1>4, <1>5 DEF SyncedSoFar
<1>7. \A j \in ciThere : RowsOf(j) # {} /\ \A i \in RowsOf(j) : CiShows(i, j)
  BY <1>3, <1>5 DEF SyncedSoFar
<1>8. \A j \in ciThere : \A i \in RowsOf(j) : i \in RowIds /\ ciRow[i].job = j
  BY JenkinsAssumption DEF JenkinsInv, CiTables, RowsOf, RowIds
<1>9. \A i \in RowIds : i \in RowsOf(ciRow[i].job)
  BY DEF RowIds, RowsOf
<1>10. {ciRow[i].job : i \in RowIds} = ciThere
  BY <1>6, <1>7, <1>8
<1>. QED
  BY <1>6, <1>7, <1>9, <1>10

LEMMA JenkinsTyped ==
  ASSUME JenkinsInv
  PROVE  JenkinsTypeOK
<1>1. CiTables /\ ciCalls \in 0 .. MaxCiCalls /\ ciReq \in [CiRequests -> CiReqRecords]
  BY DEF JenkinsInv
<1>2. ASSUME NEW j \in CiJobs
      PROVE  /\ ciQueue[j] + Len(ciBuilds[j]) \in 0..MaxBuilds
             /\ \A n \in DOMAIN ciBuilds[j] :
                  ciBuilds[j][n] \in CiResults \cup {"ABORTED", "running"}
  BY <1>1, BuildsAre, JenkinsAssumption DEF BuildMarks
<1>3. ASSUME NEW i \in 1 .. MaxCiRows
      PROVE  /\ ciRow[i].job \in CiJobs \cup {"none"} /\ ciRow[i].lock \in 1..2
             /\ ciRow[i].status \in Statuses /\ ciRow[i].count \in 0..MaxBuilds
             /\ i >= ciNext => ciRow[i] = NoCiRow
  BY <1>1, RowAre DEF CiRowRecords, CiTables
<1>4. \A i, k \in 1 .. MaxCiRows :
        ciRow[k].job = ciRow[i].job => k = i \/ ciRow[i].job = "none"
  BY <1>1 DEF CiTables, RowIds
<1>5. \A r \in CiRequests : ciReq[r].pc = "write" =>
        ciReq[r].job \in CiJobs /\ ciReq[r].lock \in 1..2
  <2>1. TAKE r \in CiRequests
  <2>2. PICK q \in CiReqRecords : q = ciReq[r] /\ CiHas(q)
    BY CiReqIs
  <2>3. q.lock \in 0 .. 2
    BY DEF CiReqRecords
  <2>. QED
    BY <2>2, <2>3 DEF CiHas
<1>. QED
  BY <1>1, <1>2, <1>3, <1>4, <1>5 DEF JenkinsTypeOK, CiTables

-----------------------------------------------------------------------------
(* The parts do not meet: a step of the console is one of the part that a   *)
(* behaviour is of, or changes nothing of it.                               *)
LEMMA ConsolePartStep ==
  ASSUME [ConsoleNext]_<<vars, restVars, k8sVars>>
  PROVE  /\ part' = part
         /\ [Next]_vars
         /\ part = "orders" => [OrderNext]_orderVars
         /\ part = "rules" => [PermissionNext]_rules
         /\ part = "jenkins" => JenkinsNext \/ UNCHANGED ciVars
         /\ part \in Files => MonitorNext \/ UNCHANGED monitorVars
         /\ part = "roles" => RoleNext \/ UNCHANGED roleVars
         /\ part = "nodes" => NodeNext \/ UNCHANGED <<clusterVars, edits, nodeVars>>
         /\ part = "work" => WorkNext \/ UNCHANGED <<clusterVars, edits, workVars>>
         /\ part = "releases" => ReleaseNext \/ UNCHANGED <<clusterVars, edits, relVars>>
         /\ part = "yaml" => YamlNext \/ UNCHANGED <<clusterVars, edits, yamlVars>>
<1>1. CASE UNCHANGED <<vars, restVars, k8sVars>>
  BY <1>1 DEF restVars, k8sVars, kubeVars
<1>2. CASE part = "user" /\ Next /\ UNCHANGED <<restVars, k8sVars>>
  BY <1>2 DEF restVars, Files
<1>3. CASE part = "orders" /\ OrderNext /\ UNCHANGED vars /\ UNCHANGED part
  BY <1>3 DEF Files
<1>4. CASE part = "rules" /\ PermissionNext /\ UNCHANGED vars /\ UNCHANGED part
  BY <1>4 DEF Files
<1>5. CASE part = "jenkins" /\ JenkinsNext /\ UNCHANGED vars /\ UNCHANGED part
  BY <1>5 DEF Files
<1>6. CASE part \in Files /\ MonitorNext /\ UNCHANGED vars /\ UNCHANGED part
  BY <1>6 DEF Files
<1>7. CASE part = "roles" /\ RoleNext /\ UNCHANGED vars /\ UNCHANGED part
  BY <1>7 DEF Files
<1>8. CASE part = "nodes" /\ NodeNext /\ UNCHANGED vars /\ UNCHANGED restVars
  BY <1>8 DEF Files, restVars
<1>9. CASE part = "work" /\ WorkNext /\ UNCHANGED vars /\ UNCHANGED restVars
  BY <1>9 DEF Files, restVars
<1>10. CASE part = "releases" /\ ReleaseNext /\ UNCHANGED vars /\ UNCHANGED restVars
  BY <1>10 DEF Files, restVars
<1>11. CASE part = "yaml" /\ YamlNext /\ UNCHANGED vars /\ UNCHANGED restVars
  BY <1>11 DEF Files, restVars
<1>. QED
  BY <1>1, <1>2, <1>3, <1>4, <1>5, <1>6, <1>7, <1>8, <1>9, <1>10, <1>11 DEF ConsoleNext

(* The invariants of the parts; the last one is needed for the types only.  *)
PartsInv ==
  /\ Inv
  /\ part = "orders" => OrderInv
  /\ part = "rules" => PermissionTypeOK
  /\ part = "jenkins" => JenkinsInv
  /\ part \in Files => MonitorInv /\ \A f \in Files : PassInv(f)
  /\ part = "roles" => RoleInv
  /\ part \in {"nodes", "work", "releases", "yaml"} => ClusterTypeOK
  /\ part = "nodes" => NodeInv /\ StaysPlaced
  /\ part = "work" => WorkInv
  /\ part = "releases" => ReleaseInv
  /\ part = "yaml" => YamlInv

(* Every part begins as it should.                                          *)
LEMMA PartsStart ==
  ASSUME ConsoleInit
  PROVE  PartsInv
<1>1. Inv
  BY SessionStart DEF ConsoleInit
<1>2. part = "orders" => OrderInv
  BY OrderStart DEF ConsoleInit
<1>3. part = "rules" => PermissionTypeOK
  BY DEF ConsoleInit, PermissionInit, PermissionTypeOK
<1>4. part = "jenkins" => JenkinsInv
  BY JenkinsStart DEF ConsoleInit
<1>5. part \in Files => MonitorInv /\ \A f \in Files : PassInv(f)
  BY MonitorStart, PassStart DEF ConsoleInit
<1>6. part = "roles" => RoleInv
  BY RoleStart DEF ConsoleInit
<1>7. part \in {"nodes", "work", "releases", "yaml"} => ClusterInit
  BY DEF ConsoleInit
<1>8. part = "nodes" => NodeInv /\ StaysPlaced
  BY <1>7, NodeStart, StaysPlacedFirst DEF ConsoleInit
<1>9. part = "work" => WorkInv
  BY <1>7, WorkStart DEF ConsoleInit
<1>10. part = "releases" => ReleaseInv
  BY ReleaseStart DEF ConsoleInit
<1>11. part = "yaml" => YamlInv
  BY YamlStart DEF ConsoleInit
<1>. QED
  BY <1>1, <1>2, <1>3, <1>4, <1>5, <1>6, <1>7, <1>8, <1>9, <1>10, <1>11, ClusterStart
  DEF PartsInv

(* What the clusters do while their objects are edited.                     *)
LEMMA PartsMoveClusters ==
  ASSUME [ConsoleNext]_<<vars, restVars, k8sVars>>,
         part \in {"nodes", "work", "releases", "yaml"}
  PROVE  ClusterMoves
<1>1. UNCHANGED <<clusterVars, edits>> => ClusterMoves
  BY DEF ClusterMoves
<1>. QED
  BY <1>1, ConsolePartStep, NodesMoveClusters, WorkMovesClusters, ReleasesMoveClusters,
     YamlMovesClusters

(* Every step leaves every part as it should be.                            *)
LEMMA PartsStep ==
  ASSUME PartsInv, [ConsoleNext]_<<vars, restVars, k8sVars>>
  PROVE  PartsInv'
<1>1. Inv' /\ part' = part
  BY ConsolePartStep, SessionStep DEF PartsInv
<1>2. part = "orders" => OrderInv'
  BY ConsolePartStep, OrderStep DEF PartsInv
<1>3. part = "rules" => PermissionTypeOK'
  BY ConsolePartStep, PermissionStep DEF PartsInv
<1>4. part = "jenkins" => JenkinsInv'
  BY ConsolePartStep, JenkinsSteps DEF PartsInv, CiStep
<1>5. part \in Files => MonitorInv' /\ \A f \in Files : PassInv(f)'
  BY ConsolePartStep, MonitorGoesOn, MonitorStutters, PassGoesOn DEF PartsInv
<1>6. part = "roles" => RoleInv'
  BY ConsolePartStep, RoleGoesOn, RoleStutters DEF PartsInv
<1>7. part \in {"nodes", "work", "releases", "yaml"} => ClusterTypeOK'
  BY PartsMoveClusters, ClusterKept DEF PartsInv
<1>8. part = "nodes" => NodeInv' /\ StaysPlaced'
  <2>1. UNCHANGED nodeVars /\ StaysPlaced => StaysPlaced'
    BY DEF nodeVars, StaysPlaced
  <2>. QED
    BY <2>1, ConsolePartStep, NodeStep, NodeStays, StaysPlacedStep DEF PartsInv
<1>9. part = "work" => WorkInv'
  BY ConsolePartStep, WorkStep, WorkStays DEF PartsInv
<1>10. part = "releases" => ReleaseInv'
  BY ConsolePartStep, ReleaseGoesOn, ReleaseStutters DEF PartsInv
<1>11. part = "yaml" => YamlInv'
  BY ConsolePartStep, YamlNextKeeps, YamlStutters DEF PartsInv
<1>. QED
  BY <1>1, <1>2, <1>3, <1>4, <1>5, <1>6, <1>7, <1>8, <1>9, <1>10, <1>11 DEF PartsInv

(* What every part of the console keeps, whatever the requests, faults and  *)
(* restarts and however many there are: the inductive invariant of all.     *)
THEOREM ConsoleParts == ConsoleSpec => []PartsInv
BY PartsStart, PartsStep, PTL DEF ConsoleSpec

(* The rows, the objects of the clusters, the policies and the requests in  *)
(* progress have their types in every part of the console.                  *)
THEOREM ConsoleTyped == ConsoleSpec => []PartsTypeOK
<1>1. PartsInv => PartsTypeOK
  BY SessionSafety, OrdersAreTyped, JenkinsTyped, MonitorTyped, RoleTyped, NodesTyped,
     WorkTyped, ReleaseTyped, YamlTyped DEF PartsInv, PartsTypeOK
<1>. QED
  BY <1>1, ConsoleParts, PTL

(* The console lets in the tokens of one login of a user at a time          *)
(* (request_jwt.go), also while other requests renew them.                  *)
THEOREM OneLoginAlways == ConsoleSpec => []OneLoginAccepted
BY ConsoleParts, SessionSafety, PTL DEF PartsInv

(* A token that a login, a kick-out or the end of the grace period has shut *)
(* out of the console stays out while the map has an entry of the user.     *)
THEOREM BarredStayOutAlways == ConsoleSpec => []BarredTokensStayOut
BY ConsoleParts, SessionSafety, PTL DEF PartsInv

(* A job that a user may build is in the list that he is shown, whatever    *)
(* the roles, projects and environments and however many rules they have.   *)
THEOREM BuildableJobsVisibleAlways == ConsoleSpec => []BuildableJobsVisible
<1>1. PartsInv => BuildableJobsVisible
  BY PermissionsListed DEF PartsInv, BuildableJobsVisible
<1>. QED
  BY <1>1, ConsoleParts, PTL

(* An edit of a node or a workload changes what its request asked for and   *)
(* nothing that another request wrote meanwhile, however many requests,     *)
(* nodes and objects there are.                                             *)
THEOREM EditsStayTheirOwnAlways == ConsoleSpec => EditsStayTheirOwn
<1>. DEFINE Own == /\ part = "nodes" => NodeEditsStayTheirOwnStep
                   /\ part = "work" => WorkEditsStayTheirOwnStep
<1>1. UNCHANGED nodeVars => NodeEditsStayTheirOwnStep
  BY DEF nodeVars, NodeEditsStayTheirOwnStep
<1>2. UNCHANGED workVars => WorkEditsStayTheirOwnStep
  BY DEF workVars, WorkEditsStayTheirOwnStep
<1>3. PartsInv /\ [ConsoleNext]_<<vars, restVars, k8sVars>> => Own
  BY <1>1, <1>2, ConsolePartStep, NodeEdits, WorkEdits DEF PartsInv
<1>4. PartsInv /\ [ConsoleNext]_<<vars, restVars, k8sVars>> => [Own]_k8sVars
  BY <1>3
<1>. QED
  BY <1>4, ConsoleParts, PTL DEF ConsoleSpec, EditsStayTheirOwn

(* A drain that ends with no call failed leaves none on the node but the    *)
(* pods that are to stay, as long as nobody else has changed the node.      *)
THEOREM DrainsEmptyAlways == ConsoleSpec => DrainsEmpty
<1>1. PartsInv => [part = "nodes" => DrainEmptiesStep]_nodeVars
  BY NodeDrained DEF PartsInv
<1>. QED
  BY <1>1, ConsoleParts, PTL DEF ConsoleSpec, DrainsEmpty

(* A synchronisation that no fault or other request came between leaves the *)
(* rows of its instance as the jobs are in Jenkins, however many instances, *)
(* jobs, builds and requests there are.                                     *)
THEOREM RowsMatchJenkinsAlways == ConsoleSpec => RowsMatchJenkins
<1>1. PartsInv /\ [ConsoleNext]_<<vars, restVars, k8sVars>>
        => [part = "jenkins" => JobsConvergeStep]_ciVars
  BY ConsolePartStep, JobsConverged DEF PartsInv
<1>. QED
  BY <1>1, ConsoleParts, PTL DEF ConsoleSpec, RowsMatchJenkins

(* A deletion that reached the cluster leaves no object of the instance     *)
(* where it looked, and a YAML task says "applied" only when all objects of *)
(* its template are as it says and what the task did is logged; a row or a  *)
(* log entry that could not be written says nothing.  For any number of     *)
(* clusters and requests.                                                   *)
THEOREM RowsTellTheClusterAlways == ConsoleSpec => RowsTellTheCluster
<1>. DEFINE Tell == /\ part = "releases" => DeleteCleansStep
                    /\ part = "yaml" => YamlTellsStep
<1>1. PartsInv /\ [ConsoleNext]_<<vars, restVars, k8sVars>> => Tell
  BY ConsolePartStep, DeletionCleans, YamlTells DEF PartsInv
<1>2. PartsInv /\ [ConsoleNext]_<<vars, restVars, k8sVars>> => [Tell]_<<relVars, yamlVars>>
  BY <1>1
<1>. QED
  BY <1>2, ConsoleParts, PTL DEF ConsoleSpec, RowsTellTheCluster

(* A change of a role or an API that no other came between, and in which    *)
(* Casbin took the policies, leaves what Casbin lets a role do and what the *)
(* pages offer to it the same where they were before, for any roles, APIs,  *)
(* paths and requests.                                                      *)
THEOREM RolesInOrderAlways == ConsoleSpec => RolesInOrder
<1>1. PartsInv /\ [ConsoleNext]_<<vars, restVars, k8sVars>>
        => [part = "roles" => RolesInOrderStep]_roleVars
  BY ConsolePartStep, RolesLeftInOrder DEF PartsInv
<1>. QED
  BY <1>1, ConsoleParts, PTL DEF ConsoleSpec, RolesInOrder

(* A pass over the tables of the monitoring that no edit came between and   *)
(* in which no query failed serves what the tables say: each target and     *)
(* each rule is one instance's, the jobs and send groups are the enabled    *)
(* ones of the pool, and each secret is in its place; for any pools, rows   *)
(* and requests.                                                            *)
THEOREM ServesAsConfiguredAlways == ConsoleSpec => ServesAsConfigured
<1>1. PartsInv /\ [ConsoleNext]_<<vars, restVars, k8sVars>>
        => [(part \in Files) => ServesAsConfiguredStep]_monitorVars
  BY ConsolePartStep, PassServes DEF PartsInv
<1>. QED
  BY <1>1, ConsoleParts, PTL DEF ConsoleSpec, ServesAsConfigured

(* The nodes of an order are answered in the order of its flow, but for     *)
(* those of executors: however many approvals, comments, forms, goroutines, *)
(* failed writes and restarts overlap, and for any flows.                   *)
THEOREM OrderNodesInOrderAlways == ConsoleSpec => []OrderNodesInOrder
<1>1. PartsInv => OrderNodesInOrder
  BY OrderSafety DEF PartsInv, OrderNodesInOrder
<1>. QED
  BY <1>1, ConsoleParts, PTL

(* A pending order that no executor has worked on names the first who has   *)
(* to answer, and the node before was passed, for any flows and requests.   *)
THEOREM OrderNamesFirstOpenAlways == ConsoleSpec => []OrderNamesFirstOpen
<1>1. PartsInv => OrderNamesFirstOpen
  BY OrderSafety DEF PartsInv, OrderNamesFirstOpen
<1>. QED
  BY <1>1, ConsoleParts, PTL

(* A finished order that no executor has worked on waits for nobody before  *)
(* its stop node, for any flows and requests.                               *)
THEOREM OrderFinishedProcessedAlways == ConsoleSpec => []OrderFinishedProcessed
<1>1. PartsInv => OrderFinishedProcessed
  BY OrderSafety DEF PartsInv, OrderFinishedProcessed
<1>. QED
  BY <1>1, ConsoleParts, PTL

(* What the cron job takes up the first time is at an action node of its    *)
(* account, and the node before it was passed, for any flows and requests.  *)
THEOREM OrderExecutedApprovedAlways == ConsoleSpec => []OrderExecutedApproved
<1>1. PartsInv => OrderExecutedApproved
  BY OrderSafety DEF PartsInv, OrderExecutedApproved
<1>. QED
  BY <1>1, ConsoleParts, PTL

=============================================================================
