--------------------------- MODULE MCUserDirectory ---------------------------
(* UserDirectory with one person, whom only his name tells, one whom        *)
(* Keycloak and DingTalk know by more, and two of one name.                 *)
EXTENDS UserDirectory

MCLoginRequests == {1, 2}

MCNameOf(p) == IF p = "dan" THEN "cay" ELSE p
MCKeycloakHas(p) == IF p = "bob" THEN {"mobile", "email"} ELSE {}
MCDingTalkHas(p) == IF p = "bob" THEN {"mobile"} ELSE {}
MCGroupRoles(p) == IF p = "bob" THEN {"ops"} ELSE {}

(* Bounds: there are either the first two or the namesakes, and after two   *)
(* requests one person only; requests of two kinds are in progress in this  *)
(* order, as either may be the first.                                       *)
Unseen(p) ==
  /\ keycloak[p] = "absent" /\ AccountsOf(p, accounts) = {}
  /\ \A q \in LoginRequests : loginReq[q].who # p

Place(q) == CHOOSE n \in 1..5 : <<"none", "sync", "ding", "oidc", "info">>[n] = loginReq[q].op

DirectoryBound ==
  /\ (\A q \in LoginRequests : loginReq[q].op # "none") => Place(1) <= Place(2)
  /\ \/ Unseen("ann") /\ Unseen("bob")
     \/ Unseen("cay") /\ Unseen("dan")
  /\ peopleEdits > 2 =>
       \E p \in People : \A o \in People \ {p} : Unseen(o)

=============================================================================
