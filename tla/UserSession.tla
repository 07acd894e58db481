------------------------------ MODULE UserSession ------------------------------
(***************************************************************************)
(* Login sessions and tokens (models/request_jwt.go), the middleware that  *)
(* checks and renews them (web/middleware/jwt.go) and the handlers that    *)
(* end them (web/view_server/api_system_user.go), for one user: the two    *)
(* sync.Maps are keyed by user, and users do not meet in them.             *)
(*                                                                         *)
(* Each access to a map is atomic and is a step of its own; a handler does *)
(* several of them, and handlers interleave.  Tokens are the numbers from  *)
(* 1 in the order they are signed.  They live for the same time, so they   *)
(* fall due and expire in that order as well.                              *)
(***************************************************************************)
EXTENDS Naturals

CONSTANTS
  Tokens,     (* the JWTs that can be signed                                *)
  Handlers,   (* the requests that may be in progress at once               *)
  Faults      (* "restart": the server process restarts                     *)

ASSUME TokensAssumption ==
  /\ Tokens \subseteq Nat \ {0}
  /\ Faults \subseteq {"restart"}

VARIABLES
  token,      (* the signed tokens                                          *)
  active,     (* the user's entry in UserActiveTokens                       *)
  session,    (* the Token of his entry in OnlineUserSessions, 0 for none   *)
  handler,    (* the local variables of the requests in progress            *)
  barred      (* for the properties only: the tokens that a login, a        *)
              (* kick-out or the end of the grace period has shut out       *)

vars == <<token, active, session, handler, barred>>

-----------------------------------------------------------------------------
(* age: "due" is ExpiresAt within BufferDuration.  login is the first token *)
(* of the login a token was renewed from.                                   *)
TokenRecord == [age   : {"unsigned", "fresh", "due", "expired"},
                login : Tokens \cup {0}]

(* UserTokenState.  grace: PreviousTokenExpiresAt is to come; cooling:      *)
(* LastRenewTime is less than 30 seconds ago.                               *)
TokenState == [present : BOOLEAN,
               latest  : Tokens \cup {0},
               prev    : Tokens \cup {0},
               grace   : BOOLEAN,
               kicked  : BOOLEAN,
               cooling : BOOLEAN]

NoState == [present |-> FALSE, latest |-> 0, prev |-> 0, grace |-> FALSE,
            kicked |-> FALSE, cooling |-> FALSE]

(* A mutant of Active: a login is followed by a grace period, too.          *)
ActiveAfterGrace(t) == [NoState EXCEPT !.present = TRUE, !.latest = t,
                                       !.prev = active.latest, !.grace = TRUE]

(* What SetUserActiveToken stores, and CheckUserTokenStatus when it heals.  *)
Active(t) == [NoState EXCEPT !.present = TRUE, !.latest = t]

(* What RenewUserToken stores.                                              *)
Renewed(new, old) ==
  [present |-> TRUE, latest |-> new, prev |-> old, grace |-> TRUE,
   kicked |-> FALSE, cooling |-> TRUE]

(* A mutant of Kicked: the entry is deleted.                                *)
KickedCleared == NoState

(* What KickoutOnlineUser stores.                                           *)
Kicked == [NoState EXCEPT !.present = TRUE, !.kicked = TRUE]

(* tok: the token of the request or of the login.  new: the token that the  *)
(* new-token header carries, or that is about to be stored.                 *)
HandlerRecord ==
  [pc  : {"idle", "check", "heal", "renew", "renewStore", "ensure", "refresh",
          "create", "setActive", "login", "loginActive", "purge",
          "clear", "kick"},
   tok : Tokens \cup {0},
   new : Tokens \cup {0}]

Idle == [pc |-> "idle", tok |-> 0, new |-> 0]

Signed(t)  == token[t].age # "unsigned"
Valid(t)   == token[t].age \in {"fresh", "due"}

(* GenJWTToken signs t next.                                                *)
SignsNext(t) == ~Signed(t) /\ \A u \in Tokens : u < t => Signed(u)

Goto(r, pc) == handler' = [handler EXCEPT ![r].pc = pc]
Done(r)     == handler' = [handler EXCEPT ![r] = Idle]

(* The tokens of handlers that may still store them: they are past their    *)
(* check, or belong to a login.                                             *)
InFlight ==
  {handler[r].tok : r \in {s \in Handlers : handler[s].pc \notin {"idle", "check"}}}
  \cup {handler[r].new : r \in Handlers}

-----------------------------------------------------------------------------
(* UserLogin up to GenJWTToken in TokenNext, where the other ways to log in *)
(* end as well.                                                             *)

UserLogin(r, t) ==
  /\ handler[r].pc = "idle"
  /\ SignsNext(t)
  /\ token' = [token EXCEPT ![t] = [age |-> "fresh", login |-> t]]
  /\ handler' = [handler EXCEPT ![r] = [Idle EXCEPT !.pc = "login", !.tok = t]]
  /\ UNCHANGED <<active, session, barred>>

RegisterOnlineSession(r) ==
  /\ handler[r].pc = "login"
  /\ session' = handler[r].tok
  /\ Goto(r, "loginActive")
  /\ UNCHANGED <<token, active, barred>>

(* The one login per user: older tokens are shut out.                       *)
SetUserActiveToken(r) ==
  /\ handler[r].pc = "loginActive"
  /\ active' = Active(handler[r].tok)
  /\ barred' = barred \cup ({t \in Tokens : Signed(t)} \ InFlight)
  /\ Done(r)
  /\ UNCHANGED <<token, session>>

-----------------------------------------------------------------------------
(* JWTAuthMiddleWare.                                                       *)

(* ParseToken accepts the token.                                            *)
Request(r, t) ==
  /\ handler[r].pc = "idle"
  /\ Valid(t)
  /\ handler' = [handler EXCEPT ![r] = [Idle EXCEPT !.pc = "check", !.tok = t]]
  /\ UNCHANGED <<token, active, session, barred>>

(* CheckUserTokenStatus of a token, with an entry in the map.               *)
Accepts(t) ==
  /\ ~active.kicked
  /\ active.latest = t \/ (active.prev = t /\ active.grace)

(* The token is within BufferDuration of its end, or past it by now.        *)
AfterCheck(t) == IF token[t].age = "fresh" THEN "ensure" ELSE "renew"

(* Without an entry the token is to become the latest one; a token that is  *)
(* not accepted ends the request.  The latest token goes into the header    *)
(* when the request came with the previous one.                             *)
CheckUserTokenStatus(r) ==
  LET t == handler[r].tok
  IN  /\ handler[r].pc = "check"
      /\ \/ ~active.present /\ Goto(r, "heal")
         \/ active.present /\ ~Accepts(t) /\ Done(r)
         \/ /\ active.present
            /\ Accepts(t)
            /\ handler' = [handler EXCEPT ![r].pc = AfterCheck(t),
                 ![r].new = IF active.latest # t THEN active.latest ELSE 0]
      /\ UNCHANGED <<token, active, session, barred>>

(* The Store of the self-healing.                                           *)
Heal(r) ==
  /\ handler[r].pc = "heal"
  /\ active' = Active(handler[r].tok)
  /\ Goto(r, AfterCheck(handler[r].tok))
  /\ UNCHANGED <<token, session, barred>>

(* RenewUserToken up to its Store: refused after a kick-out, the latest     *)
(* token once more within the cooldown, else a new token of the same login. *)
RenewUserToken(r) ==
  LET t == handler[r].tok
      reuse == active.present /\ active.cooling /\ active.latest # 0
  IN  /\ handler[r].pc = "renew"
      /\ \/ active.kicked /\ Done(r) /\ UNCHANGED token
         \/ /\ ~active.kicked
            /\ reuse
            /\ handler' = [handler EXCEPT ![r].pc = "ensure",
                                          ![r].new = active.latest]
            /\ UNCHANGED token
         \/ /\ ~active.kicked
            /\ ~reuse
            /\ \E n \in Tokens :
                 /\ SignsNext(n)
                 /\ token' = [token EXCEPT ![n] = [age   |-> "fresh",
                                                   login |-> token[t].login]]
                 /\ handler' = [handler EXCEPT ![r].pc = "renewStore",
                                               ![r].new = n]
      /\ UNCHANGED <<active, session, barred>>

RenewStore(r) ==
  /\ handler[r].pc = "renewStore"
  /\ active' = Renewed(handler[r].new, handler[r].tok)
  /\ Goto(r, "ensure")
  /\ UNCHANGED <<token, session, barred>>

(* EnsureOnlineSession: the session is refreshed if there is one.           *)
EnsureOnlineSession(r) ==
  /\ handler[r].pc = "ensure"
  /\ Goto(r, IF session # 0 THEN "refresh" ELSE "create")
  /\ UNCHANGED <<token, active, session, barred>>

(* The Store of the session that was read, though it may be gone by now.    *)
RefreshSession(r) ==
  /\ handler[r].pc = "refresh"
  /\ session' = handler[r].tok
  /\ Done(r)
  /\ UNCHANGED <<token, active, barred>>

CreateSession(r) ==
  /\ handler[r].pc = "create"
  /\ session' = handler[r].tok
  /\ Goto(r, "setActive")
  /\ UNCHANGED <<token, active, barred>>

(* SetUserActiveToken with the token of the request, whatever the entry is. *)
HealActive(r) ==
  /\ handler[r].pc = "setActive"
  /\ active' = Active(handler[r].tok)
  /\ Done(r)
  /\ UNCHANGED <<token, session, barred>>

-----------------------------------------------------------------------------
(* UserLogout, which any valid token may ask for (the route is not behind   *)
(* the middleware): RemoveOnlineSession.                                    *)
UserLogout(r, t) ==
  /\ handler[r].pc = "idle"
  /\ Valid(t)
  /\ session' = 0
  /\ handler' = [handler EXCEPT ![r] = [Idle EXCEPT !.pc = "clear"]]
  /\ UNCHANGED <<token, active, barred>>

(* The user's entry is deleted; nobody is shut out any more.                *)
ClearUserActiveToken(r) ==
  /\ handler[r].pc = "clear"
  /\ active' = NoState
  /\ barred' = {}
  /\ Done(r)
  /\ UNCHANGED <<token, session>>

(* GetOnlineSessionList: a session is dropped if its token has expired.     *)
GetOnlineSessionList(r) ==
  /\ handler[r].pc = "idle"
  /\ session # 0
  /\ token[session].age = "expired"
  /\ handler' = [handler EXCEPT ![r] = [Idle EXCEPT !.pc = "purge"]]
  /\ UNCHANGED <<token, active, session, barred>>

DeleteSession(r) ==
  /\ handler[r].pc = "purge"
  /\ session' = 0
  /\ Goto(r, "clear")
  /\ UNCHANGED <<token, active, barred>>

(* kickoutUser and KickoutOnlineUser, asked for by another user.            *)
KickoutOnlineUser(r) ==
  /\ handler[r].pc = "idle"
  /\ session' = 0
  /\ handler' = [handler EXCEPT ![r] = [Idle EXCEPT !.pc = "kick"]]
  /\ UNCHANGED <<token, active, barred>>

MarkKicked(r) ==
  /\ handler[r].pc = "kick"
  /\ active' = Kicked
  /\ barred' = barred \cup ({t \in Tokens : Signed(t)} \ InFlight)
  /\ Done(r)
  /\ UNCHANGED <<token, session>>

-----------------------------------------------------------------------------
(* Time: a token comes within BufferDuration of its end, and ends; the 30   *)
(* seconds of the cooldown and the 60 of the grace period pass, after which *)
(* the previous token is shut out.                                          *)
FallsDue(t) ==
  /\ token[t].age = "fresh"
  /\ \A u \in Tokens : u < t => token[u].age # "fresh"
  /\ token' = [token EXCEPT ![t].age = "due"]
  /\ UNCHANGED <<active, session, handler, barred>>

Expires(t) ==
  /\ token[t].age = "due"
  /\ \A u \in Tokens : u < t => token[u].age = "expired"
  /\ token' = [token EXCEPT ![t].age = "expired"]
  /\ UNCHANGED <<active, session, handler, barred>>

CooldownEnds ==
  /\ active.cooling
  /\ active' = [active EXCEPT !.cooling = FALSE]
  /\ UNCHANGED <<token, session, handler, barred>>

GraceEnds ==
  /\ active.grace
  /\ ~active.cooling
  /\ active' = [active EXCEPT !.grace = FALSE]
  /\ barred' = barred \cup ({active.prev} \ InFlight)
  /\ UNCHANGED <<token, session, handler>>

(* Both maps are in the memory of the server process.                       *)
RestartServer ==
  /\ "restart" \in Faults
  /\ active' = NoState
  /\ session' = 0
  /\ handler' = [r \in Handlers |-> Idle]
  /\ barred' = {}
  /\ UNCHANGED token

-----------------------------------------------------------------------------
Init ==
  /\ token = [t \in Tokens |-> [age |-> "unsigned", login |-> 0]]
  /\ active = NoState
  /\ session = 0
  /\ handler = [r \in Handlers |-> Idle]
  /\ barred = {}

Arrival(r) ==
  \/ \E t \in Tokens : UserLogin(r, t) \/ Request(r, t) \/ UserLogout(r, t)
  \/ GetOnlineSessionList(r)
  \/ KickoutOnlineUser(r)

Step(r) ==
  \/ RegisterOnlineSession(r)
  \/ SetUserActiveToken(r)
  \/ CheckUserTokenStatus(r)
  \/ Heal(r)
  \/ RenewUserToken(r)
  \/ RenewStore(r)
  \/ EnsureOnlineSession(r)
  \/ RefreshSession(r)
  \/ CreateSession(r)
  \/ HealActive(r)
  \/ ClearUserActiveToken(r)
  \/ DeleteSession(r)
  \/ MarkKicked(r)

Time ==
  \/ \E t \in Tokens : FallsDue(t) \/ Expires(t)
  \/ CooldownEnds
  \/ GraceEnds

Next ==
  \/ \E r \in Handlers : Arrival(r) \/ Step(r)
  \/ Time
  \/ RestartServer

Spec == Init /\ [][Next]_vars

-----------------------------------------------------------------------------
TypeOK ==
  /\ token \in [Tokens -> TokenRecord]
  /\ active \in TokenState
  /\ session \in Tokens \cup {0}
  /\ handler \in [Handlers -> HandlerRecord]
  /\ barred \subseteq Tokens
  /\ session # 0 => Signed(session)
  /\ active.latest # 0 => Signed(active.latest)
  /\ active.present => active.kicked \/ active.latest # 0

(* One login per user: the tokens that the server accepts at one time,      *)
(* latest and previous, belong to one login, although a renewal stores a    *)
(* state that it prepared before another login came.                        *)
OneLoginAccepted ==
  \A t, u \in Tokens :
    active.present /\ Accepts(t) /\ Accepts(u) => token[t].login = token[u].login

(* A token shut out by a login, by a kick-out or by the end of its grace    *)
(* period is not accepted again while the server remembers the user,        *)
(* whatever the other requests store; only requests that had passed their   *)
(* check by then may bring their own tokens back.                           *)
BarredTokensStayOut ==
  active.present => \A t \in barred : ~Accepts(t)

(* middleware/jwt.go:91: the client replaces its token by the one in the    *)
(* new-token header.  The header carries a token that is good when the      *)
(* request is let through, if nothing else happened in the meantime.        *)
RenewedTokenWorks ==
  [][\A r \in Handlers, t \in Tokens :
       /\ handler[r].pc \in {"refresh", "setActive"}
       /\ handler'[r].pc = "idle"
       /\ handler[r].new = t
       => Accepts(t)' \/ ~active'.present]_vars

=============================================================================
