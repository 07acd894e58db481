----------------------------- MODULE AlertWebhook -----------------------------
(***************************************************************************)
(* The alert webhook (src/alert_webhook, src/web/view_alertwebhook) and the *)
(* handlers of the web server that work on the same event                   *)
(* (web/view_server/api_monitor_alertm_event.go): the start-up of the       *)
(* webhook's caches, the goroutine of each alert it receives, and the       *)
(* requests that claim, silence and unsilence the event.                    *)
(*                                                                         *)
(* Events do not meet, so the module is about the alerts of one fingerprint *)
(* and of a send group that is in the database.  The alertmanager is        *)
(* external.  Each handler reads the event, calls the alertmanager and      *)
(* writes the event in separate steps.  event_times and unsilenced_at,      *)
(* which only show in messages, are left out; an escalation may be due at   *)
(* any time.                                                                *)
(***************************************************************************)
EXTENDS Integers, FiniteSets

CONSTANTS
  Caches,       (* the goroutines of RenewMapManager                        *)
  Goroutines,   (* bound: the alerts that may be handled at once            *)
  Requests,     (* the requests that may be in progress at once             *)
  Users,        (* those who claim events                                   *)
  Silences,     (* the ids the alertmanager may give                        *)
  MaxIncidents, (* bound: how often the alert begins to fire                *)
  MaxRestarts,  (* bound: how often the webhook is restarted                *)
  Faults        (* "db": queries fail or find nothing; "api": calls of the  *)
                (* alertmanager fail; "quiet": send_resolved is off         *)

Nobody == 0
NoSilence == 0

ASSUME AlertAssumption ==
  /\ {"sendGroup", "onDutyGroup"} \subseteq Caches
  /\ Nobody \notin Users
  /\ NoSilence \notin Silences
  /\ {MaxIncidents, MaxRestarts} \subseteq Nat
  /\ Faults \subseteq {"db", "api", "quiet"}

VARIABLES
  closed,      (* cacheHasSynced is closed                                  *)
  finished,    (* StartFinishRenew                                          *)
  cached,      (* the caches that have been filled                          *)
  renew,       (* where the goroutine of each cache is                      *)
  serving,     (* gin is up                                                 *)
  alert,       (* the goroutines of DealWithOneAlertReceive                 *)
  event,       (* the row of monitor_alert_manager_events                   *)
  request,     (* the requests in progress                                  *)
  am,          (* the alertmanager: incidents, whether it fires, silences   *)
  restarts     (* the restarts of the webhook so far                        *)

cacheVars == <<closed, finished, cached, renew, serving, restarts>>
vars == <<cacheVars, alert, event, request, am>>

-----------------------------------------------------------------------------
Statuses == {"firing", "resolved", "renling", "upgraded", "silenced"}

NoEvent == [status |-> "none", claim |-> Nobody, sid |-> NoSilence]

IdleAlert   == [pc |-> "idle", status |-> "firing", e |-> NoEvent]
IdleRequest == [pc |-> "idle", kind |-> "claim", who |-> Nobody,
                sid |-> NoSilence, e |-> NoEvent]

(* Updates(struct) in UpdateOne: empty columns are not written.             *)
UpdateOne(e) ==
  event' = [status |-> e.status,
            claim  |-> IF e.claim = Nobody THEN event.claim ELSE e.claim,
            sid    |-> IF e.sid = NoSilence THEN event.sid ELSE e.sid]

-----------------------------------------------------------------------------
(* The process dies, of a panic, and is started again.                      *)
RestartWebhook ==
  /\ restarts < MaxRestarts
  /\ restarts' = restarts + 1
  /\ closed' = FALSE
  /\ finished' = FALSE
  /\ cached' = {}
  /\ renew' = [c \in Caches |-> "load"]
  /\ serving' = FALSE
  /\ alert' = [g \in Goroutines |-> IdleAlert]

(* RenewMapSendGroup, RenewMapOnDutyGroup, ...: the cache is replaced, but  *)
(* not if the query fails or finds nothing.                                 *)
RenewMap(c, ok) ==
  /\ renew[c] = "load"
  /\ ok \/ "db" \in Faults
  /\ cached' = IF ok THEN cached \cup {c} ELSE cached
  /\ renew' = [renew EXCEPT ![c] = IF finished THEN "load" ELSE "check"]
  /\ UNCHANGED <<closed, finished, serving, restarts, alert, event, request, am>>

(* Without a lock that all of them hold; not twice once MaxRestarts is used *)
(* up.                                                                      *)
CheckFinished(c) ==
  /\ renew[c] = "check"
  /\ restarts = MaxRestarts =>
       finished \/ \A d \in Caches : renew[d] \in {"load", "check"}
  /\ renew' = [renew EXCEPT ![c] = IF finished THEN "load" ELSE "close"]
  /\ UNCHANGED <<closed, finished, cached, serving, restarts, alert, event, request, am>>

CloseHasSynced(c) ==
  /\ renew[c] = "close"
  /\ IF closed
     THEN RestartWebhook
     ELSE /\ closed' = TRUE
          /\ renew' = [renew EXCEPT ![c] = "set"]
          /\ UNCHANGED <<finished, cached, serving, restarts, alert>>
  /\ UNCHANGED <<event, request, am>>

SetFinished(c) ==
  /\ renew[c] = "set"
  /\ finished' = TRUE
  /\ renew' = [renew EXCEPT ![c] = "load"]
  /\ UNCHANGED <<closed, cached, serving, restarts, alert, event, request, am>>

(* A mutant of AlertWebhookStartGin: it waits for every cache to be filled, *)
(* and a channel that is never closed.                                      *)
StartGinWhenFilled ==
  /\ cached = Caches
  /\ ~closed
  /\ serving' = TRUE
  /\ UNCHANGED <<closed, finished, cached, renew, restarts, alert, event, request, am>>

AlertWebhookStartGin ==
  /\ closed
  /\ ~serving
  /\ serving' = TRUE
  /\ UNCHANGED <<closed, finished, cached, renew, restarts, alert, event, request, am>>

-----------------------------------------------------------------------------
(* What the alertmanager may have to say of the alert now.                  *)
Notices ==
  IF am.active # {} \/ am.incidents = 0 THEN {}
  ELSE IF am.firing THEN {"firing"}
  ELSE IF "quiet" \in Faults THEN {} ELSE {"resolved"}

(* AlertReceive and the consumer: the call succeeds, and the alert is       *)
(* dropped if its send group is not in the cache.                           *)
AlertReceive(g) ==
  \E s \in Notices :
    /\ serving
    /\ alert[g].pc = "idle"
    /\ alert' = IF "sendGroup" \in cached
                THEN [alert EXCEPT ![g] = [pc |-> "read", status |-> s, e |-> NoEvent]]
                ELSE alert
    /\ UNCHANGED <<cacheVars, event, request, am>>

(* A mutant of Combined: the claim and the silence are not taken over.      *)
CombinedStatus(s, old) ==
  [NoEvent EXCEPT !.status =
     IF s # "resolved" /\ old.status \in {"renling", "silenced"} THEN old.status ELSE s]

(* A mutant of Combined: every alert that fires starts afresh.              *)
CombinedAfresh(s, old) ==
  IF s = "resolved" THEN [old EXCEPT !.status = s] ELSE [NoEvent EXCEPT !.status = s]

(* UpdateOrCreateOne: what it makes of the old row and the alert's status.  *)
Combined(s, old) ==
  CASE s = "resolved" -> [old EXCEPT !.status = s]
    [] s # "resolved" /\ old.status \in {"renling", "silenced"} -> old
    [] OTHER -> [NoEvent EXCEPT !.status = s]

UpdateOrCreateRead(g) ==
  /\ alert[g].pc = "read"
  /\ alert' = [alert EXCEPT ![g].pc = IF event = NoEvent THEN "create" ELSE "update",
                            ![g].e  = Combined(alert[g].status, event)]
  /\ UNCHANGED <<cacheVars, event, request, am>>

(* The fingerprint is unique: of two insertions one fails, and its event    *)
(* has no id, so that nothing it saves later finds a row.                   *)
CreateOne(g) ==
  /\ alert[g].pc = "create"
  /\ IF event = NoEvent
     THEN /\ event' = alert[g].e
          /\ alert' = [alert EXCEPT ![g].pc = "notify"]
     ELSE /\ alert' = [alert EXCEPT ![g].pc = "notify", ![g].e = NoEvent]
          /\ UNCHANGED event
  /\ UNCHANGED <<cacheVars, request, am>>

(* Updates(map): every column is written.                                   *)
UpdateColumns(g) ==
  /\ alert[g].pc = "update"
  /\ event' = alert[g].e
  /\ alert' = [alert EXCEPT ![g].pc = "notify"]
  /\ UNCHANGED <<cacheVars, request, am>>

(* The database fails: the error is logged, and the alert is notified.      *)
SaveFails(g) ==
  /\ "db" \in Faults
  /\ alert[g].pc \in {"read", "create", "update"}
  /\ alert' = [alert EXCEPT ![g].pc = "notify",
                            ![g].e = IF alert[g].pc = "update" THEN @ ELSE NoEvent]
  /\ UNCHANGED <<cacheVars, event, request, am>>

(* GenerateFeiShuCardMsgOneAlert escalates what fires unclaimed and         *)
(* unsilenced.                                                              *)
MayUpgrade(a) == a.status = "firing" /\ a.e.status \notin {"renling", "silenced"}

(* Without an on-duty group in the cache the escalation is a nil            *)
(* dereference.                                                             *)
GenerateMsg(g, late) ==
  /\ alert[g].pc = "notify"
  /\ IF late /\ MayUpgrade(alert[g])
     THEN IF "onDutyGroup" \in cached
          THEN /\ IF alert[g].e = NoEvent THEN UNCHANGED event
                  ELSE UpdateOne([alert[g].e EXCEPT !.status = "upgraded"])
               /\ alert' = [alert EXCEPT ![g] = IdleAlert]
               /\ UNCHANGED cacheVars
          ELSE RestartWebhook /\ UNCHANGED event
     ELSE /\ alert' = [alert EXCEPT ![g] = IdleAlert]
          /\ UNCHANGED <<cacheVars, event>>
  /\ UNCHANGED <<request, am>>

-----------------------------------------------------------------------------
Done(r) == request' = [request EXCEPT ![r] = IdleRequest]

(* A handler reads the event, and returns at once if there is none.         *)
Begin(r, kind, who) ==
  /\ request[r].pc = "idle"
  /\ event # NoEvent
  /\ request' = [request EXCEPT ![r] =
       [pc |-> IF kind = "claim" THEN "save" ELSE "call", kind |-> kind,
        who |-> who, sid |-> NoSilence, e |-> event]]
  /\ UNCHANGED <<cacheVars, alert, event, am>>

alertManagerEventReLing(r, u) == Begin(r, "claim", u)

(* doSilence, of the web server, and AlertSilence, behind the buttons of    *)
(* the messages.                                                            *)
doSilence(r)    == Begin(r, "silence", Nobody)
AlertSilence(r) == Begin(r, "card", Nobody)

(* doUnSilence returns at once if the event has no silence.                 *)
doUnSilence(r) == event.sid # NoSilence /\ Begin(r, "unsilence", Nobody)

(* AlertUnSilence asks the alertmanager for nothing if it has none.         *)
AlertUnSilence(r) == event.sid # NoSilence /\ Begin(r, "uncard", Nobody)

(* POST api/v2/silences; the id may be lost on the way back.                *)
PostSilence(r, id, ok) ==
  /\ request[r].pc = "call"
  /\ request[r].kind \in {"silence", "card"}
  /\ id \in Silences \ am.given
  /\ ok \/ "api" \in Faults
  /\ am' = [am EXCEPT !.given = @ \cup {id}, !.active = @ \cup {id}]
  /\ IF ok THEN request' = [request EXCEPT ![r].pc = "save", ![r].sid = id]
           ELSE Done(r)
  /\ UNCHANGED <<cacheVars, alert, event>>

(* DELETE api/v2/silence/{id}; AlertUnSilence leaves the event as it is.    *)
DeleteSilence(r) ==
  /\ request[r].pc = "call"
  /\ request[r].kind \in {"unsilence", "uncard"}
  /\ am' = [am EXCEPT !.active = @ \ {request[r].e.sid}]
  /\ IF request[r].kind = "unsilence"
     THEN request' = [request EXCEPT ![r].pc = "save"]
     ELSE Done(r)
  /\ UNCHANGED <<cacheVars, alert, event>>

(* The call fails, and the handler returns.                                 *)
CallFails(r) ==
  /\ "api" \in Faults
  /\ request[r].pc = "call"
  /\ Done(r)
  /\ UNCHANGED <<cacheVars, alert, event, am>>

SaveClaim(r) ==
  /\ request[r].pc = "save"
  /\ request[r].kind = "claim"
  /\ UpdateOne([request[r].e EXCEPT !.status = "renling", !.claim = request[r].who])
  /\ Done(r)
  /\ UNCHANGED <<cacheVars, alert, am>>

(* The button records the id only.                                          *)
SaveSilence(r) ==
  /\ request[r].pc = "save"
  /\ request[r].kind \in {"silence", "card"}
  /\ UpdateOne([request[r].e EXCEPT
       !.sid = request[r].sid,
       !.status = IF request[r].kind = "silence" THEN "silenced" ELSE @])
  /\ Done(r)
  /\ UNCHANGED <<cacheVars, alert, am>>

(* The claim stays in the row, but the next alert will not take it over.    *)
SaveUnSilence(r) ==
  /\ request[r].pc = "save"
  /\ request[r].kind = "unsilence"
  /\ event' = [event EXCEPT !.status = "firing", !.sid = NoSilence]
  /\ Done(r)
  /\ UNCHANGED <<cacheVars, alert, am>>

-----------------------------------------------------------------------------
AlertFires ==
  /\ ~am.firing
  /\ am.incidents < MaxIncidents
  /\ am' = [am EXCEPT !.firing = TRUE, !.incidents = @ + 1]
  /\ UNCHANGED <<cacheVars, alert, event, request>>

AlertEnds ==
  /\ am.firing
  /\ am' = [am EXCEPT !.firing = FALSE]
  /\ UNCHANGED <<cacheVars, alert, event, request>>

SilenceExpires(id) ==
  /\ id \in am.active
  /\ am' = [am EXCEPT !.active = @ \ {id}]
  /\ UNCHANGED <<cacheVars, alert, event, request>>

-----------------------------------------------------------------------------
Init ==
  /\ closed = FALSE
  /\ finished = FALSE
  /\ cached = {}
  /\ renew = [c \in Caches |-> "load"]
  /\ serving = FALSE
  /\ restarts = 0
  /\ alert = [g \in Goroutines |-> IdleAlert]
  /\ event = NoEvent
  /\ request = [r \in Requests |-> IdleRequest]
  /\ am = [firing |-> FALSE, incidents |-> 0, given |-> {}, active |-> {}]

RenewStep(c) ==
  \/ \E ok \in BOOLEAN : RenewMap(c, ok)
  \/ CheckFinished(c) \/ CloseHasSynced(c) \/ SetFinished(c)

AlertStep(g) ==
  \/ UpdateOrCreateRead(g) \/ CreateOne(g) \/ UpdateColumns(g) \/ SaveFails(g)
  \/ \E late \in BOOLEAN : GenerateMsg(g, late)

Next ==
  \/ \E c \in Caches : RenewStep(c)
  \/ AlertWebhookStartGin
  \/ \E g \in Goroutines : AlertReceive(g) \/ AlertStep(g)
  \/ \E r \in Requests :
       \/ \E u \in Users : alertManagerEventReLing(r, u)
       \/ doSilence(r) \/ AlertSilence(r) \/ doUnSilence(r) \/ AlertUnSilence(r)
       \/ \E id \in Silences, ok \in BOOLEAN : PostSilence(r, id, ok)
       \/ DeleteSilence(r) \/ CallFails(r)
       \/ SaveClaim(r) \/ SaveSilence(r) \/ SaveUnSilence(r)
  \/ AlertFires \/ AlertEnds
  \/ \E id \in Silences : SilenceExpires(id)

(* The goroutines go on, queries succeed now and then, and the alertmanager *)
(* repeats its notices until they arrive; nothing is assumed of people.     *)
Fairness ==
  /\ \A c \in Caches :
       /\ SF_vars(RenewMap(c, TRUE))
       /\ WF_vars(CheckFinished(c) \/ CloseHasSynced(c) \/ SetFinished(c))
  /\ WF_vars(AlertWebhookStartGin)
  /\ \A g \in Goroutines :
       /\ SF_vars(AlertReceive(g)) /\ SF_vars(UpdateOrCreateRead(g)) /\ SF_vars(CreateOne(g))
       /\ WF_vars(AlertStep(g))
  /\ \A id \in Silences : WF_vars(SilenceExpires(id))

Spec == Init /\ [][Next]_vars /\ Fairness

-----------------------------------------------------------------------------
Events == [status : Statuses \cup {"none"}, claim : Users \cup {Nobody},
           sid : Silences \cup {NoSilence}]

TypeOK ==
  /\ {closed, finished, serving} \subseteq BOOLEAN
  /\ cached \subseteq Caches
  /\ renew \in [Caches -> {"load", "check", "close", "set"}]
  /\ restarts \in 0 .. MaxRestarts
  /\ alert \in [Goroutines -> [pc : {"idle", "read", "create", "update", "notify"},
                               status : {"firing", "resolved"}, e : Events]]
  /\ \A g \in Goroutines : alert[g].pc \in {"create", "update"} => alert[g].e.status \in Statuses
  /\ event \in Events
  /\ request \in [Requests -> [pc : {"idle", "call", "save"},
                               kind : {"claim", "silence", "card", "unsilence", "uncard"},
                               who : Users \cup {Nobody},
                               sid : Silences \cup {NoSilence}, e : Events]]
  /\ am \in [firing : BOOLEAN, incidents : 0 .. MaxIncidents,
             given : SUBSET Silences, active : SUBSET Silences]

(* However the writers overlap, with whole rows and with single columns,    *)
(* a claimed event names who claimed it, and a silenced one has the id that *)
(* doUnSilence needs to lift the silence.                                   *)
StatusBacked ==
  /\ event.status = "renling" => event.claim # Nobody
  /\ event.status = "silenced" => event.sid # NoSilence

(* What a handler knows of the event is still so.                           *)
UpToDate ==
  /\ \A g \in Goroutines :
       /\ alert[g].pc = "update" => alert[g].e = Combined(alert[g].status, event)
       /\ alert[g].pc = "notify" => alert[g].e = event
  /\ \A r \in Requests : request[r].pc # "idle" => request[r].e = event

(* As long as no handler works with a row that another one has changed, an  *)
(* event that was claimed or silenced is not escalated or reset by alerts   *)
(* that fire: only unsilencing it, or the end of the incident, takes it     *)
(* back.                                                                    *)
ClaimStands ==
  [][ /\ UpToDate
      /\ event.status \in {"renling", "silenced"}
      /\ \A r \in Requests : request[r].kind # "unsilence"
      => event'.status \in {"renling", "silenced", "resolved"} ]_event

(* An alert that goes on firing is stored in the end, although the web      *)
(* server may come up before the send groups are cached and drops alerts    *)
(* until then, and although the webhook panics.                             *)
FiringIsStored == [](am.firing /\ event = NoEvent => <>(event # NoEvent \/ ~am.firing))

=============================================================================
