---------------------------- MODULE MCRolePolicies ----------------------------
(* RolePolicies with roles super and user, and one to be created.           *)
EXTENDS RolePolicies

MCRoleRows == {1, 2, 3}
MCApiRows == {1, 2, 3}
MCSeedRoles == <<"super", "user">>
MCSeedApis(r) == IF r = 1 THEN {1, 2} ELSE {2}
MCSeedPath == <<"new", "old">>

(* Bound: with the last request no other is in progress.                    *)
RoleBound ==
  roleEdits = MaxRoleEdits =>
    Cardinality({q \in RoleRequests : roleReq[q].pc # "idle"}) <= 1

=============================================================================
