------------------------------- MODULE K8sYaml -------------------------------
(***************************************************************************)
(* Templates of Kubernetes documents and the tasks that apply them:         *)
(* api_k8s_yaml_template.go and api_k8s_yaml_task.go.  An application       *)
(* writes three places one after the other, the cluster, document by        *)
(* document, the log and the row of the task.                               *)
(*                                                                         *)
(* A document names an object; what the object is set to are the variables  *)
(* of the task, for which the template has places.  Only tasks change       *)
(* objects here.                                                            *)
(***************************************************************************)
EXTENDS KubeCluster

CONSTANTS
  Target,         (* the cluster that the tasks name                        *)
  YamlTemplates,  (* the ids of templates                                   *)
  YamlTasks,      (* the ids of tasks                                       *)
  YamlObjects,    (* what documents may name                                *)
  YamlVariables,  (* what the variables of a task may be                    *)
  YamlRequests,   (* the requests that may be in progress at once           *)
  MaxYamlEdits    (* bound: the requests                                    *)

ASSUME K8sYamlAssumption ==
  /\ Target \in Clusters /\ "none" \notin YamlVariables \cup YamlTemplates
  /\ MaxYamlEdits \in Nat

VARIABLES
  yamlTemplate,  (* id -> its state and documents                           *)
  yamlTask,      (* id -> its state, template, variables and status         *)
  yamlLog,       (* id -> the last entry of the log of a task               *)
  yamlObject,    (* what each object in the cluster is set to               *)
  yamlReq,       (* the requests in progress                                *)
  yamlEdits      (* bound: the requests so far                              *)

yamlRows == <<yamlTemplate, yamlTask, yamlLog, yamlObject>>

yamlVars == <<yamlRows, yamlReq, yamlEdits>>

NoTemplate == [state |-> "unborn", docs |-> <<>>]

NoYamlTask == [state |-> "unborn", template |-> "none", variables |-> "none", status |-> "none"]

NoYamlLog == [variables |-> "none", status |-> "none"]

(* ok: no document has failed; logged: the log has the outcome; calm:       *)
(* nothing has come between.                                                *)
NoYamlReq == [op |-> "none", pc |-> "idle", id |-> "none", row |-> NoYamlTask,
              docs |-> <<>>, ok |-> TRUE, logged |-> FALSE, calm |-> FALSE]

Templates == {k \in YamlTemplates : yamlTemplate[k].state = "there"}

YamlTasksThere == {t \in YamlTasks : yamlTask[t].state = "there"}

GetK8sYamlTaskByTemplateId(k) == {t \in YamlTasksThere : yamlTask[t].template = k}

-----------------------------------------------------------------------------
YamlRequest == yamlEdits < MaxYamlEdits /\ yamlEdits' = yamlEdits + 1

(* A request of several steps begins with a reading.                        *)
YamlBegins(q, op, pc, id, row) ==
  /\ yamlReq[q].pc = "idle"
  /\ YamlRequest
  /\ yamlReq' = [yamlReq EXCEPT ![q] =
       [NoYamlReq EXCEPT !.op = op, !.pc = pc, !.id = id, !.row = row, !.calm = TRUE]]
  /\ UNCHANGED yamlRows

(* It goes on; what it writes comes between the steps of the others.        *)
YamlGoes(q, req) ==
  /\ yamlReq' = [r \in YamlRequests |->
       IF r = q THEN req
       ELSE [yamlReq[r] EXCEPT !.calm = @ /\ UNCHANGED yamlRows]]
  /\ UNCHANGED yamlEdits

(* A request of one step.                                                   *)
YamlEdit ==
  /\ YamlRequest
  /\ yamlReq' = [r \in YamlRequests |-> [yamlReq[r] EXCEPT !.calm = FALSE]]
  /\ UNCHANGED <<yamlLog, yamlObject>>

createK8sYamlTemplate(k, docs) ==
  /\ yamlTemplate[k].state = "unborn"
  /\ YamlEdit
  /\ yamlTemplate' = [yamlTemplate EXCEPT ![k] = [state |-> "there", docs |-> docs]]
  /\ UNCHANGED yamlTask

updateK8sYamlTemplate(k, docs) ==
  /\ k \in Templates
  /\ YamlEdit
  /\ yamlTemplate' = [yamlTemplate EXCEPT ![k].docs = docs]
  /\ UNCHANGED yamlTask

(* Refused while a task has the template.                                   *)
deleteK8sYamlTemplate(q, k) ==
  /\ k \in Templates
  /\ GetK8sYamlTaskByTemplateId(k) = {}
  /\ YamlBegins(q, "delete", "delete", k, NoYamlTask)

DeleteYamlTemplate(q) ==
  /\ yamlReq[q].pc = "delete"
  /\ \/ yamlTemplate' = [yamlTemplate EXCEPT ![yamlReq[q].id] = [NoTemplate EXCEPT !.state = "gone"]]
     \/ UNCHANGED yamlTemplate
  /\ UNCHANGED <<yamlTask, yamlLog, yamlObject>>
  /\ YamlGoes(q, NoYamlReq)

(* Whether there is such a template is not asked; the form had it.          *)
createK8sYamlTask(t, k, v) ==
  /\ yamlTask[t].state = "unborn" /\ yamlTemplate[k].state # "unborn"
  /\ YamlEdit
  /\ yamlTask' = [yamlTask EXCEPT ![t] =
       [state |-> "there", template |-> k, variables |-> v, status |-> "pending"]]
  /\ UNCHANGED yamlTemplate

(* The status is what the request says, and stays if that is nothing.       *)
updateK8sYamlTask(t, k, v, s) ==
  /\ t \in YamlTasksThere /\ yamlTemplate[k].state # "unborn"
  /\ YamlEdit
  /\ yamlTask' = [yamlTask EXCEPT ![t].template = k, ![t].variables = v,
                                 ![t].status = IF s = "none" THEN @ ELSE s]
  /\ UNCHANGED yamlTemplate

deleteK8sYamlTask(t) ==
  /\ t \in YamlTasksThere
  /\ YamlEdit
  /\ yamlTask' = [yamlTask EXCEPT ![t] = [NoYamlTask EXCEPT !.state = "gone"]]
  /\ UNCHANGED yamlTemplate

-----------------------------------------------------------------------------
(* An application reads the task, then its template and the client, without *)
(* which, or if the reading fails, it leaves the task as it is.             *)
applyK8sYamlTaskOne(q, t) ==
  /\ t \in YamlTasksThere
  /\ YamlBegins(q, "apply", "template", t, yamlTask[t])

ReadYamlTemplate(q) ==
  LET k == yamlReq[q].row.template
  IN  /\ yamlReq[q].pc = "template"
      /\ UNCHANGED yamlRows
      /\ \/ /\ k \in Templates /\ GetClusterClientSetById(Target)
            /\ YamlGoes(q, [yamlReq[q] EXCEPT !.pc = "apply", !.docs = yamlTemplate[k].docs])
         \/ YamlGoes(q, NoYamlReq)

Set(q) == [yamlObject EXCEPT ![Head(yamlReq[q].docs)] = yamlReq[q].row.variables]

(* A mutant of ApplyDocument: a document that fails is passed over.         *)
ApplyDocumentAnyway(q) ==
  /\ yamlReq[q].pc = "apply" /\ yamlReq[q].docs # <<>>
  /\ UNCHANGED <<yamlTemplate, yamlTask, yamlLog>>
  /\ \/ UNCHANGED yamlObject
     \/ Target \in up /\ yamlObject' = Set(q)
  /\ YamlGoes(q, [yamlReq[q] EXCEPT !.docs = Tail(@)])

(* DynamicObjApply: one document after the other until one fails, which may *)
(* be only the answer; the patch, or the creation or update in its place,   *)
(* does not ask what the object was.                                        *)
ApplyDocument(q) ==
  /\ yamlReq[q].pc = "apply" /\ yamlReq[q].docs # <<>>
  /\ UNCHANGED <<yamlTemplate, yamlTask, yamlLog>>
  /\ \/ /\ Target \in up
        /\ yamlObject' = Set(q)
        /\ YamlGoes(q, [yamlReq[q] EXCEPT !.docs = Tail(@)])
     \/ /\ \/ UNCHANGED yamlObject
           \/ Target \in up /\ yamlObject' = Set(q)
        /\ YamlGoes(q, [yamlReq[q] EXCEPT !.ok = FALSE, !.pc = "log"])

Outcome(q) == IF yamlReq[q].ok THEN "applied" ELSE "failed"

(* The error of the log is dropped: without an entry the row is written all *)
(* the same.                                                                *)
LogApplication(q) ==
  /\ \/ yamlReq[q].pc = "apply" /\ yamlReq[q].docs = <<>>
     \/ yamlReq[q].pc = "log"
  /\ UNCHANGED <<yamlTemplate, yamlTask, yamlObject>>
  /\ \/ /\ yamlLog' = [yamlLog EXCEPT ![yamlReq[q].id] =
             [variables |-> yamlReq[q].row.variables, status |-> Outcome(q)]]
        /\ YamlGoes(q, [yamlReq[q] EXCEPT !.pc = "status", !.logged = TRUE])
     \/ /\ UNCHANGED yamlLog
        /\ YamlGoes(q, [yamlReq[q] EXCEPT !.pc = "status"])

(* UpdateOne: the row as it was read, and its status.  If that fails, the   *)
(* row goes on to say what it said before.                                  *)
WriteYamlStatus(q) ==
  LET t == yamlReq[q].id
  IN  /\ yamlReq[q].pc = "status"
      /\ \/ /\ t \in YamlTasksThere
            /\ yamlTask' = [yamlTask EXCEPT ![t] = [yamlReq[q].row EXCEPT !.status = Outcome(q)]]
         \/ UNCHANGED yamlTask
      /\ UNCHANGED <<yamlTemplate, yamlLog, yamlObject>>
      /\ YamlGoes(q, NoYamlReq)

-----------------------------------------------------------------------------
YamlInit ==
  /\ yamlTemplate = [k \in YamlTemplates |-> NoTemplate]
  /\ yamlTask = [t \in YamlTasks |-> NoYamlTask]
  /\ yamlLog = [t \in YamlTasks |-> NoYamlLog]
  /\ yamlObject = [o \in YamlObjects |-> "none"]
  /\ yamlReq = [q \in YamlRequests |-> NoYamlReq]
  /\ yamlEdits = 0

YamlHandlers ==
  \/ \E k \in YamlTemplates, docs \in Lists(YamlObjects) :
       createK8sYamlTemplate(k, docs) \/ updateK8sYamlTemplate(k, docs)
  \/ \E t \in YamlTasks, k \in YamlTemplates, v \in YamlVariables :
       \/ createK8sYamlTask(t, k, v)
       \/ \E s \in {"none", "pending", "applied", "failed"} : updateK8sYamlTask(t, k, v, s)
  \/ \E t \in YamlTasks : deleteK8sYamlTask(t)
  \/ \E q \in YamlRequests :
       \/ \E k \in YamlTemplates : deleteK8sYamlTemplate(q, k)
       \/ \E t \in YamlTasks : applyK8sYamlTaskOne(q, t)
       \/ DeleteYamlTemplate(q) \/ ReadYamlTemplate(q)
       \/ ApplyDocument(q) \/ LogApplication(q) \/ WriteYamlStatus(q)

YamlNext ==
  \/ ClusterNext /\ UNCHANGED yamlVars
  \/ YamlHandlers /\ UNCHANGED <<clusterVars, edits>>

YamlSpec == ClusterInit /\ YamlInit /\ [][YamlNext]_<<clusterVars, edits, yamlVars>>

-----------------------------------------------------------------------------
YamlTypeOK ==
  /\ \A t \in YamlTasks :
       /\ yamlTask[t].state = "there" =>
            /\ yamlTask[t].status \in {"pending", "applied", "failed"}
            /\ yamlTemplate[yamlTask[t].template].state # "unborn"
       /\ yamlLog[t].status \in {"none", "applied", "failed"}
  /\ \A o \in YamlObjects : yamlObject[o] \in YamlVariables \cup {"none"}
  /\ yamlEdits \in 0..MaxYamlEdits

(* When the row says what became of an application that nothing came        *)
(* between, whether now or already before, its log, if it could be written, *)
(* says the same; and "applied" means that every object of the template is  *)
(* as the row says, through whichever documents failed before.  A deletion  *)
(* of a template that nothing came between leaves no task without it.       *)
YamlTellsStep ==
  \A q \in YamlRequests :
    LET x   == yamlReq[q]
        row == yamlTask'[x.id]
    IN  x.calm /\ yamlReq'[q].pc = "idle" =>
          /\ x.pc = "status" /\ row.status = Outcome(q) =>
               /\ x.logged =>
                    yamlLog[x.id] = [variables |-> row.variables, status |-> row.status]
               /\ row.status = "applied" =>
                    \A i \in DOMAIN yamlTemplate[row.template].docs :
                      yamlObject[yamlTemplate[row.template].docs[i]] = row.variables
          /\ x.pc = "delete" =>
               \A t \in YamlTasks : ~(yamlTask'[t].state = "there" /\ yamlTask'[t].template = x.id)

=============================================================================
