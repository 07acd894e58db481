---------------------------- MODULE JobPermission ----------------------------
(***************************************************************************)
(* Which jobs of the baseline a user sees and which he may build: the rules *)
(* of his roles (api_jenkins_job_permission.go) are evaluated twice, as a   *)
(* query of the table and in Go (models/tbl_jenkins_job_permission.go).     *)
(*                                                                         *)
(* A row without a project or an environment is judged by its name: project *)
(* and environment are looked for at the places where names have them.  The *)
(* query does so with LIKE, for which "_" is any character.                 *)
(***************************************************************************)
EXTENDS Naturals

CONSTANTS
  Roles,     (* the roles, without the super role                           *)
  Projects,  (* names of projects                                           *)
  Envs,      (* names of environments                                       *)
  MaxRules   (* bound on the rules of a role                                *)

ASSUME JobPermissionAssumption ==
  MaxRules \in Nat /\ {"", "*"} \cap (Projects \cup Envs) = {}

VARIABLE
  rules      (* the table jenkins_job_permission: the rules of each role    *)

Rules == [project : Projects \cup {"*"}, envs : (SUBSET (Envs \cup {"*"})) \ {{}},
          build : 1..2]

RuleSets == UNION {{{f[i] : i \in 1..n} : f \in [1..n -> Rules]} : n \in 0..MaxRules}

(* A row: what project_name and deploy_env say, what project and which      *)
(* environments the name begins with or holds, and which project LIKE sees. *)
BaselineRows == [project : Projects \cup {""}, env : Envs \cup {""},
                 prefix : Projects \cup {""}, like : Projects \cup {""},
                 inName : SUBSET Envs]

BaselineJobs == {j \in BaselineRows : j.prefix # "" => j.like = j.prefix}

PermissionInit == rules = [r \in Roles |-> {}]

(* The rules of the role are replaced in one transaction.                   *)
saveRoleJobPermissions(r, S) == rules' = [rules EXCEPT ![r] = S]

PermissionNext == \E r \in Roles, S \in RuleSets : saveRoleJobPermissions(r, S)

PermissionSpec == PermissionInit /\ [][PermissionNext]_rules

-----------------------------------------------------------------------------
GetPermissionsByRoleIDs(R) == UNION {rules[r] : r \in R}

(* The rules are evaluated one by one.                                      *)
CheckJobOperationPermission(R, j, requireBuild) ==
  \E p \in GetPermissionsByRoleIDs(R) :
    /\ requireBuild => p.build = 1
    /\ \/ p.project = "*"
       \/ p.project = IF j.project # "" THEN j.project ELSE j.prefix
    /\ \E e \in p.envs : e = "*" \/ (IF j.env # "" THEN e = j.env ELSE e \in j.inName)

(* A mutant of EnvsOf: an environment is allowed where all rules of the     *)
(* project allow it.                                                        *)
EnvsOfEvery(R, project) ==
  {e \in Envs \cup {"*"} : \A p \in GetPermissionsByRoleIDs(R) :
                             p.project = project => e \in p.envs}

(* The rules are gathered by project first.                                 *)
EnvsOf(R, project) ==
  UNION {p.envs : p \in {x \in GetPermissionsByRoleIDs(R) : x.project = project}}

FilterJobsByPermission(R, j) ==
  \/ "*" \in EnvsOf(R, "*")
  \/ \E project \in {p.project : p \in GetPermissionsByRoleIDs(R)} :
       /\ \/ project = "*"
          \/ project = IF j.project # "" THEN j.project ELSE j.like
       /\ \/ "*" \in EnvsOf(R, project)
          \/ IF j.env # "" THEN j.env \in EnvsOf(R, project)
                           ELSE j.inName \cap EnvsOf(R, project) # {}

-----------------------------------------------------------------------------
PermissionTypeOK == rules \in [Roles -> SUBSET Rules]

(* Who may build a job finds it in his list, whatever roles he has and      *)
(* whatever the rules say between them.                                     *)
BuildableIsVisible ==
  \A R \in SUBSET Roles : \A j \in BaselineJobs :
    CheckJobOperationPermission(R, j, TRUE) => FilterJobsByPermission(R, j)

=============================================================================
