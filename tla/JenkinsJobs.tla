----------------------------- MODULE JenkinsJobs -----------------------------
(***************************************************************************)
(* The jobs of a Jenkins server and the table the console keeps of them:    *)
(* api_jenkins_job.go, api_jenkins_instance.go, cache/jenkins_instance.go   *)
(* and models/tbl_jenkins_job.go.  The robot of the work orders creates its *)
(* jobs by the same code (api_workorder_auto_pipeline.go).                  *)
(*                                                                         *)
(* A job is known by its folder and its name.  Jenkins has its builds, the  *)
(* table the number and status of one of them, and a lock against deletion. *)
(* Every handler calls Jenkins and the database in turn; a request keeps    *)
(* what it has read.                                                        *)
(***************************************************************************)
EXTENDS Naturals, FiniteSets, Sequences

CONSTANTS
  CiJobs,       (* jobs: a folder and a name                                *)
  NameOf(_),    (* the name alone                                           *)
  CiResults,    (* the results that builds have                             *)
  MaxBuilds,    (* bound on the builds of a job                             *)
  MaxCiRows,    (* bound on the ids the table hands out                     *)
  CiRequests,   (* the requests that come in                                *)
  MaxCiCalls,   (* bound on these, and on the changes users make in Jenkins *)
  CiFaults      (* "folder": the listing of a folder fails                  *)

ASSUME JenkinsAssumption ==
  /\ "none" \notin CiJobs
  /\ CiResults \subseteq {"SUCCESS", "FAILURE", "ABORTED", "UNSTABLE"}
  /\ {MaxBuilds, MaxCiRows, MaxCiCalls} \subseteq Nat
  /\ CiFaults \subseteq {"folder"}

VARIABLES
  ciThere,     (* the jobs in Jenkins                                       *)
  ciBuilds,    (* their builds: results, or "running"                       *)
  ciQueue,     (* how many builds of each are queued                        *)
  ciRow,       (* the table jenkins_job, by id                              *)
  ciNext,      (* the next id                                               *)
  ciInstance,  (* whether the row of the instance is there                  *)
  ciClient,    (* whether the cache has a client for it                     *)
  ciCalls,     (* how many of them there were                               *)
  ciReq        (* the local variables of the handlers                       *)

ciRemote == <<ciThere, ciBuilds, ciQueue>>
ciTable  == <<ciRow, ciNext>>
ciCache  == <<ciInstance, ciClient>>
ciVars   == <<ciRemote, ciTable, ciCache, ciCalls, ciReq>>

Terminal == {"SUCCESS", "FAILURE", "ABORTED"}
Statuses == Terminal \cup {"UNSTABLE", "NOT_BUILT", "BUILDING"}

NoCiRow == [job |-> "none", lock |-> 2, status |-> "NOT_BUILT", count |-> 0]

(* lock and status are 0 and "none" where a request does not give them; own *)
(* is read by the properties alone, and so is alone.                        *)
NoCiRequest == [op |-> "none", pc |-> "idle", job |-> "none", other |-> "none",
                id |-> 0, lock |-> 0, status |-> "none", count |-> 0,
                todo |-> {}, keys |-> {}, rows |-> {}, own |-> 0, alone |-> FALSE]

JenkinsInit ==
  /\ ciThere = {}
  /\ ciBuilds = [j \in CiJobs |-> <<>>]
  /\ ciQueue = [j \in CiJobs |-> 0]
  /\ ciRow = [i \in 1..MaxCiRows |-> NoCiRow]
  /\ ciNext = 1
  /\ ciInstance = TRUE
  /\ ciClient = TRUE
  /\ ciCalls = 0
  /\ ciReq = [r \in CiRequests |-> NoCiRequest]

-----------------------------------------------------------------------------
(* No pass of the synchronisation is alone with the step any more.          *)
Disturbed == [r \in CiRequests |-> [ciReq[r] EXCEPT !.alone = FALSE]]

CiGoes(r, q) == ciReq' = [Disturbed EXCEPT ![r] = q]

CiEnds(r) == CiGoes(r, NoCiRequest)

CiIdle(r) == ciReq[r].pc = "idle"

CiCall == ciCalls < MaxCiCalls /\ ciCalls' = ciCalls + 1

CiComes(r) == CiIdle(r) /\ CiCall

CiBegins(op, pc, j) == [NoCiRequest EXCEPT !.op = op, !.pc = pc, !.job = j]

RowsOf(j)  == {i \in 1..MaxCiRows : ciRow[i].job = j}
RowIds     == {i \in 1..MaxCiRows : ciRow[i].job # "none"}
Named(n)   == {i \in RowIds : NameOf(ciRow[i].job) = n}
FirstId(S) == IF S = {} THEN 0 ELSE CHOOSE i \in S : \A k \in S : i <= k

Building(j) == ciBuilds[j] # <<>> /\ ciBuilds[j][Len(ciBuilds[j])] = "running"

(* What the last build of a job says of its status.                         *)
LastStatus(j) == IF ciBuilds[j] = <<>> THEN "NOT_BUILT"
                 ELSE IF Building(j) THEN "BUILDING"
                 ELSE ciBuilds[j][Len(ciBuilds[j])]

BuildStatus(j, n) == IF ciBuilds[j][n] = "running" THEN "BUILDING" ELSE ciBuilds[j][n]

(* getJenkinsJobHelper: the job, or without it one of its name in another   *)
(* folder.                                                                  *)
getJenkinsJobHelper(j) ==
  IF j \in ciThere THEN {j} ELSE {k \in ciThere : NameOf(k) = NameOf(j)}

CreateRemote(j) ==
  /\ ciThere' = ciThere \cup {j}
  /\ UNCHANGED <<ciBuilds, ciQueue>>

(* The builds of a job go with it.                                          *)
DeleteRemote(j) ==
  /\ ciThere' = ciThere \ {j}
  /\ ciBuilds' = [ciBuilds EXCEPT ![j] = <<>>]
  /\ ciQueue' = [ciQueue EXCEPT ![j] = 0]

-----------------------------------------------------------------------------
(* What Jenkins and its own users do.                                       *)
RemoteCreates(j) ==
  /\ CiCall
  /\ j \notin ciThere
  /\ CreateRemote(j)
  /\ ciReq' = Disturbed
  /\ UNCHANGED <<ciTable, ciCache>>

RemoteDeletes(j) ==
  /\ CiCall
  /\ j \in ciThere
  /\ DeleteRemote(j)
  /\ ciReq' = Disturbed
  /\ UNCHANGED <<ciTable, ciCache>>

BuildStarts(j) ==
  /\ j \in ciThere
  /\ ciQueue[j] > 0
  /\ ciQueue' = [ciQueue EXCEPT ![j] = @ - 1]
  /\ ciBuilds' = [ciBuilds EXCEPT ![j] = Append(@, "running")]
  /\ ciReq' = Disturbed
  /\ UNCHANGED <<ciThere, ciTable, ciCache, ciCalls>>

BuildEnds(j, n, result) ==
  /\ j \in ciThere
  /\ ciBuilds[j][n] = "running"
  /\ ciBuilds' = [ciBuilds EXCEPT ![j][n] = result]
  /\ ciReq' = Disturbed
  /\ UNCHANGED <<ciThere, ciQueue, ciTable, ciCache, ciCalls>>

-----------------------------------------------------------------------------
(* SaveOrUpdateJenkinsJob looks for the row by instance, folder and name,   *)
(* then by the id it is given.  A status that says "in building" gives way  *)
(* to SUCCESS, FAILURE and ABORTED only.                                    *)
Protected(old, status) ==
  IF old = "BUILDING" /\ status \notin Terminal THEN "BUILDING" ELSE status

FindRow(r) ==
  LET q == ciReq[r]
      byKey == FirstId(RowsOf(q.job))
      i == IF byKey # 0 THEN byKey ELSE IF q.id \in RowIds THEN q.id ELSE 0
  IN /\ q.pc = "find"
     /\ CiGoes(r, IF i = 0 THEN [q EXCEPT !.pc = "write", !.id = 0]
                  ELSE [q EXCEPT !.pc = "write", !.id = i,
                          !.status = Protected(ciRow[i].status, q.status),
                          !.count = IF q.count = 0 THEN ciRow[i].count ELSE q.count])
     /\ UNCHANGED <<ciRemote, ciTable, ciCache, ciCalls>>

(* The row as the request has it; what is empty is not written.             *)
Rewritten(row, q) ==
  [job |-> q.job, lock |-> q.lock,
   status |-> IF q.status = "none" THEN row.status ELSE q.status,
   count |-> IF q.count = 0 THEN row.count ELSE q.count]

AfterWrite(q) ==
  IF q.op # "sync" THEN NoCiRequest
  ELSE [q EXCEPT !.pc = "read", !.job = "none", !.todo = @ \ {q.job},
                 !.id = 0, !.lock = 0, !.status = "none", !.count = 0]

(* An update of a row that is gone is no error; a second row of one folder  *)
(* and name is, which only its own handler hears of.                        *)
WriteRow(r) ==
  LET q == ciReq[r]
  IN /\ q.pc = "write"
     /\ q.id = 0 /\ RowsOf(q.job) = {} => ciNext <= MaxCiRows
     /\ IF q.id # 0
          THEN /\ ciRow' = IF q.id \in RowIds /\ RowsOf(q.job) \subseteq {q.id}
                             THEN [ciRow EXCEPT ![q.id] = Rewritten(@, q)] ELSE ciRow
               /\ UNCHANGED ciNext
          ELSE IF RowsOf(q.job) = {}
          THEN /\ ciRow' = [ciRow EXCEPT ![ciNext] = Rewritten(NoCiRow, q)]
               /\ ciNext' = ciNext + 1
          ELSE UNCHANGED ciTable
     /\ CiGoes(r, AfterWrite(q))
     /\ UNCHANGED <<ciRemote, ciCache, ciCalls>>

-----------------------------------------------------------------------------
(* SyncJenkinsJobsToDB lists the jobs of Jenkins, folder by folder: what a  *)
(* folder that fails has is not among them.                                 *)
SyncJenkinsJobsToDB(r) ==
  /\ CiComes(r)
  /\ ciClient
  /\ \E K \in SUBSET ciThere :
       /\ K # ciThere => "folder" \in CiFaults
       /\ CiGoes(r, [CiBegins("sync", "read", "none") EXCEPT !.todo = K, !.keys = K,
                       !.alone = K = ciThere /\ \A s \in CiRequests : CiIdle(s)])
  /\ UNCHANGED <<ciRemote, ciTable, ciCache>>

(* For each it asks for the last build, and takes over what the table has;  *)
(* of a job deleted since, it has what the listing said.                    *)
SyncRead(r) ==
  LET q == ciReq[r]
  IN /\ q.op = "sync" /\ q.pc = "read"
     /\ \E j \in q.todo :
          LET i == FirstId(RowsOf(j))
          IN \E s \in IF j \in ciThere THEN {LastStatus(j)} ELSE Statuses,
               n \in IF j \in ciThere THEN {Len(ciBuilds[j])} ELSE 0..MaxBuilds :
               CiGoes(r, [q EXCEPT !.pc = "find", !.job = j, !.status = s, !.count = n,
                            !.lock = IF i # 0 THEN ciRow[i].lock ELSE 2])
     /\ UNCHANGED <<ciRemote, ciTable, ciCache, ciCalls>>

(* A mutant of SyncSweep: an empty listing is taken for a failed one.       *)
SyncSweepUnlessEmpty(r) ==
  LET q == ciReq[r]
  IN /\ q.op = "sync" /\ q.pc = "read" /\ q.todo = {}
     /\ CiGoes(r, [q EXCEPT !.pc = "sweep",
          !.rows = {i \in RowIds : q.keys # {} /\ ciRow[i].job \notin q.keys}])
     /\ UNCHANGED <<ciRemote, ciTable, ciCache, ciCalls>>

(* Then it lists the rows, and deletes those of jobs it did not see.        *)
SyncSweep(r) ==
  LET q == ciReq[r]
  IN /\ q.op = "sync" /\ q.pc = "read" /\ q.todo = {}
     /\ CiGoes(r, [q EXCEPT !.pc = "sweep",
                     !.rows = {i \in RowIds : ciRow[i].job \notin q.keys}])
     /\ UNCHANGED <<ciRemote, ciTable, ciCache, ciCalls>>

SweepRow(r) ==
  LET q == ciReq[r]
  IN /\ q.pc = "sweep"
     /\ \/ /\ q.rows = {}
           /\ CiEnds(r)
           /\ UNCHANGED ciRow
        \/ \E i \in q.rows : /\ ciRow' = [ciRow EXCEPT ![i] = NoCiRow]
                             /\ CiGoes(r, [q EXCEPT !.rows = @ \ {i}])
     /\ UNCHANGED <<ciRemote, ciNext, ciCache, ciCalls>>

(* The list itself asks Jenkins about the rows that say BUILDING.           *)
getJenkinsJobList(r) ==
  /\ CiComes(r)
  /\ ciClient
  /\ \E i \in RowIds :
       /\ ciRow[i].status = "BUILDING"
       /\ CiGoes(r, [CiBegins("list", "look", ciRow[i].job) EXCEPT !.id = i])
  /\ UNCHANGED <<ciRemote, ciTable, ciCache>>

ListLook(r) ==
  LET q == ciReq[r]
  IN /\ q.op = "list" /\ q.pc = "look"
     /\ \/ \E k \in getJenkinsJobHelper(q.job) :
             /\ ciBuilds[k] # <<>> /\ ~Building(k)
             /\ CiGoes(r, [q EXCEPT !.pc = "fix", !.status = LastStatus(k),
                                    !.count = Len(ciBuilds[k])])
        \/ CiEnds(r)
     /\ UNCHANGED <<ciRemote, ciTable, ciCache, ciCalls>>

ListFix(r) ==
  LET q == ciReq[r]
  IN /\ q.pc = "fix"
     /\ ciRow' = IF q.id \in RowIds
                   THEN [ciRow EXCEPT ![q.id].status = q.status, ![q.id].count = q.count]
                   ELSE ciRow
     /\ CiEnds(r)
     /\ UNCHANGED <<ciRemote, ciNext, ciCache, ciCalls>>

-----------------------------------------------------------------------------
(* The syntax check needs the row of the instance.  Jenkins refuses a job   *)
(* it has.                                                                  *)
createJenkinsJob(r, j, lock) ==
  /\ CiComes(r)
  /\ ciClient /\ ciInstance
  /\ j \notin ciThere
  /\ CreateRemote(j)
  /\ CiGoes(r, [CiBegins("create", "find", j) EXCEPT
                  !.lock = IF lock = 1 THEN 1 ELSE 2, !.status = "NOT_BUILT"])
  /\ UNCHANGED <<ciTable, ciCache>>

(* A new script goes to the job that is found, or makes one; without a      *)
(* script Jenkins is not asked.                                             *)
updateJenkinsJob(r, j, i, lock) ==
  /\ CiComes(r)
  /\ ciClient
  /\ \/ UNCHANGED ciRemote
     \/ /\ ciInstance
        /\ getJenkinsJobHelper(j) = {}
        /\ CreateRemote(j)
  /\ CiGoes(r, [CiBegins("update", "edit", j) EXCEPT !.id = i, !.lock = lock])
  /\ UNCHANGED <<ciTable, ciCache>>

(* The row is read by the id that is given, or by folder and name, and is   *)
(* saved with the new folder and name.                                      *)
EditRow(r) ==
  LET q == ciReq[r]
      i == IF q.id \in RowIds THEN q.id ELSE FirstId(RowsOf(q.job))
      row == IF i = 0 THEN NoCiRow ELSE ciRow[i]
  IN /\ q.pc = "edit"
     /\ CiGoes(r, [q EXCEPT !.pc = "find", !.id = i,
                     !.lock = IF q.lock = 0 THEN row.lock ELSE q.lock,
                     !.status = IF i = 0 THEN "none" ELSE row.status,
                     !.count = row.count])
     /\ UNCHANGED <<ciRemote, ciTable, ciCache, ciCalls>>

(* The lock of every job of the name is set, in whatever folder.            *)
toggleJenkinsJobDeleteLock(n, lock) ==
  /\ CiCall
  /\ ciRow' = [i \in 1..MaxCiRows |->
                 IF i \in Named(n) THEN [ciRow[i] EXCEPT !.lock = lock] ELSE ciRow[i]]
  /\ ciRow' # ciRow
  /\ ciReq' = Disturbed
  /\ UNCHANGED <<ciRemote, ciNext, ciCache>>

(* The first row of the name decides.                                       *)
deleteJenkinsJob(r, j) ==
  LET i == FirstId(Named(NameOf(j)))
      own == FirstId(RowsOf(j))
  IN /\ CiComes(r)
     /\ ciClient
     /\ i # 0 => ciRow[i].lock = 1
     /\ CiGoes(r, [CiBegins("delete", "remove", j) EXCEPT
                     !.own = IF own = 0 THEN 0 ELSE ciRow[own].lock])
     /\ UNCHANGED <<ciRemote, ciTable, ciCache>>

deleteJenkinsJobHelper(r) ==
  LET q == ciReq[r]
  IN /\ q.pc = "remove"
     /\ \/ CiEnds(r) /\ UNCHANGED ciRemote
        \/ /\ IF getJenkinsJobHelper(q.job) = {} THEN UNCHANGED ciRemote
              ELSE \E k \in getJenkinsJobHelper(q.job) : DeleteRemote(k)
           /\ CiGoes(r, [q EXCEPT !.pc = "rows"])
     /\ UNCHANGED <<ciTable, ciCache, ciCalls>>

(* Every row of the name goes.                                              *)
DeleteRows(r) ==
  LET q == ciReq[r]
      gone == IF q.op = "instance" THEN RowIds ELSE Named(NameOf(q.job))
  IN /\ q.pc = "rows"
     /\ ciRow' = [i \in 1..MaxCiRows |-> IF i \in gone THEN NoCiRow ELSE ciRow[i]]
     /\ CiEnds(r)
     /\ UNCHANGED <<ciRemote, ciNext, ciCache, ciCalls>>

-----------------------------------------------------------------------------
(* Jenkins is asked whether the job is queued or its last build runs.       *)
triggerJenkinsBuild(r, j) ==
  /\ CiComes(r)
  /\ ciClient /\ ciInstance
  /\ \E k \in getJenkinsJobHelper(j) :
       /\ ciQueue[k] = 0 /\ ~Building(k)
       /\ CiGoes(r, [CiBegins("trigger", "schedule", j) EXCEPT !.other = k])
  /\ UNCHANGED <<ciRemote, ciTable, ciCache>>

(* The job is scheduled by its full name, and if that fails the one found   *)
(* before.  Jenkins merges it with a queued build of the same parameters.   *)
triggerJenkinsBuildWithCause(r) ==
  LET q == ciReq[r]
      k == IF q.job \in ciThere THEN q.job ELSE q.other
  IN /\ q.pc = "schedule"
     /\ \/ k \notin ciThere /\ CiEnds(r) /\ UNCHANGED ciQueue
        \/ /\ k \in ciThere
           /\ Len(ciBuilds[k]) + ciQueue[k] < MaxBuilds
           /\ ciQueue' = [ciQueue EXCEPT ![k] = @ + 1]
           /\ CiGoes(r, [q EXCEPT !.pc = "mark", !.other = k,
                                  !.count = Len(ciBuilds[k]) + ciQueue[k] + 1])
        \/ /\ k \in ciThere
           /\ ciQueue[k] > 0
           /\ CiGoes(r, [q EXCEPT !.pc = "mark", !.other = k,
                                  !.count = Len(ciBuilds[k]) + ciQueue[k]])
           /\ UNCHANGED ciQueue
     /\ UNCHANGED <<ciThere, ciBuilds, ciTable, ciCache, ciCalls>>

SetRows(S, status, n) ==
  ciRow' = [i \in 1..MaxCiRows |->
              IF i \in S THEN [ciRow[i] EXCEPT !.status = status,
                                               !.count = IF n = 0 THEN @ ELSE n]
                         ELSE ciRow[i]]

(* The row is told the number of the build if it has started by then.       *)
MarkBuilding(r) ==
  LET q == ciReq[r]
  IN /\ q.pc = "mark"
     /\ \E n \in IF Len(ciBuilds[q.other]) >= q.count THEN {0, q.count} ELSE {0} :
          SetRows(RowsOf(q.job), "BUILDING", n)
     /\ CiEnds(r)
     /\ UNCHANGED <<ciRemote, ciNext, ciCache, ciCalls>>

(* A build that has ended is stopped without an error.                      *)
stopJenkinsBuild(r, j) ==
  /\ CiComes(r)
  /\ ciClient
  /\ \E k \in getJenkinsJobHelper(j) : \E n \in DOMAIN ciBuilds[k] :
       /\ ciBuilds' = IF ciBuilds[k][n] = "running"
                        THEN [ciBuilds EXCEPT ![k][n] = "ABORTED"] ELSE ciBuilds
       /\ CiGoes(r, [CiBegins("stop", "set", j) EXCEPT !.status = "ABORTED"])
  /\ UNCHANGED <<ciThere, ciQueue, ciTable, ciCache>>

(* Who reads the log of a build, be it the last one or not.                 *)
getJenkinsBuildLogs(r, j) ==
  /\ CiComes(r)
  /\ ciClient
  /\ \E k \in getJenkinsJobHelper(j) : \E n \in DOMAIN ciBuilds[k] :
       CiGoes(r, [CiBegins("logs", "set", j) EXCEPT
                    !.status = BuildStatus(k, n), !.count = n])
  /\ UNCHANGED <<ciRemote, ciTable, ciCache>>

(* Both write to every row of the name.                                     *)
SetNamed(r) ==
  LET q == ciReq[r]
  IN /\ q.pc = "set"
     /\ SetRows(Named(NameOf(q.job)), q.status, q.count)
     /\ CiEnds(r)
     /\ UNCHANGED <<ciRemote, ciNext, ciCache, ciCalls>>

-----------------------------------------------------------------------------
(* The rows of its jobs go after the row of the instance.                   *)
deleteJenkinsInstance(r) ==
  /\ CiComes(r)
  /\ ciInstance
  /\ ciInstance' = FALSE
  /\ CiGoes(r, CiBegins("instance", "rows", "none"))
  /\ UNCHANGED <<ciRemote, ciTable, ciClient>>

(* A client for every row that answers.  Without any row nothing is         *)
(* replaced: the client of the last instance deleted stays.                 *)
ReNewJenkinsClientsMap ==
  /\ ciClient' \in IF ciInstance THEN BOOLEAN ELSE {FALSE, ciClient}
  /\ UNCHANGED <<ciRemote, ciTable, ciInstance, ciReq, ciCalls>>

JenkinsNext ==
  \/ \E j \in CiJobs :
       \/ RemoteCreates(j) \/ RemoteDeletes(j) \/ BuildStarts(j)
       \/ \E n \in DOMAIN ciBuilds[j], result \in CiResults : BuildEnds(j, n, result)
       \/ \E lock \in 1..2 : toggleJenkinsJobDeleteLock(NameOf(j), lock)
       \/ \E r \in CiRequests :
            \/ \E lock \in 0..2 :
                 \/ createJenkinsJob(r, j, lock)
                 \/ \E i \in 0..MaxCiRows : updateJenkinsJob(r, j, i, lock)
            \/ deleteJenkinsJob(r, j)
            \/ triggerJenkinsBuild(r, j)
            \/ stopJenkinsBuild(r, j)
            \/ getJenkinsBuildLogs(r, j)
  \/ \E r \in CiRequests :
       \/ FindRow(r) \/ WriteRow(r) \/ EditRow(r)
       \/ SyncJenkinsJobsToDB(r) \/ SyncRead(r) \/ SyncSweep(r) \/ SweepRow(r)
       \/ getJenkinsJobList(r) \/ ListLook(r) \/ ListFix(r)
       \/ deleteJenkinsJobHelper(r) \/ DeleteRows(r)
       \/ triggerJenkinsBuildWithCause(r) \/ MarkBuilding(r) \/ SetNamed(r)
       \/ deleteJenkinsInstance(r)
  \/ ReNewJenkinsClientsMap

JenkinsSpec == JenkinsInit /\ [][JenkinsNext]_ciVars

-----------------------------------------------------------------------------
JenkinsTypeOK ==
  /\ ciThere \subseteq CiJobs
  /\ \A j \in CiJobs :
       /\ ciQueue[j] + Len(ciBuilds[j]) \in 0..MaxBuilds
       /\ \A n \in DOMAIN ciBuilds[j] :
            ciBuilds[j][n] \in CiResults \cup {"ABORTED", "running"}
  /\ ciNext \in 1..MaxCiRows + 1
  /\ ciCalls \in 0..MaxCiCalls
  /\ \A i \in 1..MaxCiRows :
       /\ ciRow[i].job \in CiJobs \cup {"none"}
       /\ ciRow[i].lock \in 1..2
       /\ ciRow[i].status \in Statuses
       /\ ciRow[i].count \in 0..MaxBuilds
       /\ i >= ciNext => ciRow[i] = NoCiRow
       /\ \A k \in 1..MaxCiRows :
            ciRow[k].job = ciRow[i].job => k = i \/ ciRow[i].job = "none"
  /\ \A r \in CiRequests : ciReq[r].pc = "write" =>
       ciReq[r].job \in CiJobs /\ ciReq[r].lock \in 1..2

(* The table shows a job as Jenkins does, but for a row that says BUILDING  *)
(* where Jenkins has no result it gives way to.                             *)
Shown(j, i) ==
  \/ ciRow[i].status = LastStatus(j)
  \/ ciRow[i].status = "BUILDING" /\ LastStatus(j) \notin Terminal

(* A pass of the synchronisation that was alone, with all folders listed,   *)
(* leaves a row for each job of Jenkins and no other, each with the status  *)
(* and the number of the last build, whatever the requests before left      *)
(* behind.                                                                  *)
JobsConvergeStep ==
  \A r \in CiRequests :
    ciReq[r].op = "sync" /\ ciReq[r].alone /\ ciReq'[r].pc = "idle" =>
      /\ {ciRow[i].job : i \in RowIds} = ciThere
      /\ \A i \in RowIds :
           /\ Shown(ciRow[i].job, i)
           /\ \/ ciRow[i].count = Len(ciBuilds[ciRow[i].job])
              \/ ciBuilds[ciRow[i].job] = <<>>

JobsConverge == [][JobsConvergeStep]_ciVars

(* "严格联动锁定拦截审核": a job whose own row is locked is not removed from *)
(* Jenkins by the handler that looks at the lock.                           *)
LockHolds ==
  [][\A r \in CiRequests :
       LET q == ciReq[r]
       IN q.pc = "remove" /\ q.job \in ciThere /\ q.job \notin ciThere' => q.own # 2]_ciVars

=============================================================================
