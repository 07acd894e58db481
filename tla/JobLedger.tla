------------------------------ MODULE JobLedger ------------------------------
(***************************************************************************)
(* What the server promises of a job, whoever reads or writes its tables:  *)
(* the two tables seen as a ledger in which every step is one write.       *)
(* JobServer implements it although its handlers and its scheduler write   *)
(* rows they read some steps earlier.                                      *)
(***************************************************************************)
EXTENDS Naturals

CONSTANTS
  Jobs,       (* ids of jobs                                                *)
  Hosts,      (* the machines                                               *)
  Targets     (* the machines a job is for                                  *)

VARIABLES
  status,     (* the status of each job                                     *)
  asked,      (* the jobs an operator has asked to kill                     *)
  row         (* what is known of (job, machine), "none" before dispatch    *)

vars == <<status, asked, row>>

Alive(j) == status[j] \notin {"absent", "deleted"}

AllReported(j) ==
  /\ Targets[j] # {}
  /\ \A h \in Targets[j] : row[j][h] \notin {"none", "running"}

Create(j) ==
  /\ status[j] = "absent"
  /\ status' = [status EXCEPT ![j] = "pending"]
  /\ UNCHANGED <<asked, row>>

(* An operator, or the strategy of the job on an error, redirects it.       *)
Redirect(j, s) ==
  /\ Alive(j)
  /\ status' = [status EXCEPT ![j] = s]
  /\ UNCHANGED <<asked, row>>

AskKill(j) ==
  /\ Alive(j)
  /\ status' = [status EXCEPT ![j] = "killing"]
  /\ asked' = asked \cup {j}
  /\ UNCHANGED row

(* Only a job somebody asked to kill is given up.                           *)
GiveUp(j) ==
  /\ Alive(j)
  /\ j \in asked
  /\ status' = [status EXCEPT ![j] = "killed"]
  /\ UNCHANGED <<asked, row>>

Delete(j) ==
  /\ Alive(j)
  /\ status' = [status EXCEPT ![j] = "deleted"]
  /\ asked' = asked \ {j}
  /\ UNCHANGED row

(* A machine is handed jobs it is a target of, each at most once.           *)
Dispatch(h, J) ==
  /\ \A j \in J : h \in Targets[j] /\ row[j][h] = "none"
  /\ row' = [j \in Jobs |-> IF j \in J THEN [row[j] EXCEPT ![h] = "running"]
                                       ELSE row[j]]
  /\ UNCHANGED <<status, asked>>

(* A result is recorded for a machine the job was handed to.                *)
Record(j, h, r) ==
  /\ row[j][h] # "none"
  /\ row' = [row EXCEPT ![j][h] = r]
  /\ UNCHANGED <<status, asked>>

(* A job succeeds or fails only when all of its machines have reported.     *)
Conclude(j, s) ==
  /\ Alive(j)
  /\ AllReported(j)
  /\ status' = [status EXCEPT ![j] = s]
  /\ UNCHANGED <<asked, row>>

Init ==
  /\ status = [j \in Jobs |-> "absent"]
  /\ asked = {}
  /\ row = [j \in Jobs |-> [h \in Hosts |-> "none"]]

Next ==
  \/ \E j \in Jobs :
       \/ Create(j)
       \/ \E s \in {"running", "paused", "finished"} : Redirect(j, s)
       \/ AskKill(j)
       \/ GiveUp(j)
       \/ Delete(j)
       \/ \E h \in Hosts, r \in {"killed", "success", "failed"} : Record(j, h, r)
       \/ \E s \in {"success", "failed"} : Conclude(j, s)
  \/ \E h \in Hosts, J \in SUBSET Jobs : Dispatch(h, J)

Spec == Init /\ [][Next]_vars

=============================================================================
