--------------------------- MODULE MCUserSession ---------------------------
(* UserSession with two requests at a time, or one, and three tokens: two   *)
(* logins, one of them renewed.                                             *)
EXTENDS UserSession, TLC

CONSTANTS r1, r2

MCTokens   == 1..3
MCHandlers == {r1, r2}
MCOne      == {r1}

(* Requests are interchangeable.                                            *)
HandlerSymmetry == Permutations(MCHandlers)

=============================================================================
