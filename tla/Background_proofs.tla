-------------------------- MODULE Background_proofs ---------------------------
(***************************************************************************)
(* Proofs about what is driven from outside the console: the rota that the  *)
(* cron job fills in, the synchronisation with the clouds, the alert        *)
(* webhook, and the accounts that logins and the synchronisation with       *)
(* Keycloak make, of which the lemmas are in UserDirectory_proofs; for      *)
(* whatever members, turns, assets, clouds, alerts, people and requests.    *)
(* Each part has an inductive invariant of its own: Inv (the webhook),      *)
(* DutyInv, CloudInv with QuietInv, and DirectoryInv.                       *)
(***************************************************************************)
EXTENDS MCBackground, UserDirectory_proofs, TLAPS, FiniteSetTheorems,
        SequenceTheorems, WellFoundedInduction

-----------------------------------------------------------------------------
(* The alert webhook, for any caches, alerts, requests, users and silences, *)
(* and whatever faults.  A handler writes what it read of the event several *)
(* steps before; Inv says what is true of the rows that are in its hands.   *)

(* A claimed row names who claimed it, a silenced one its silence.          *)
Backed(e) ==
  /\ e.status = "renling" => e.claim # Nobody
  /\ e.status = "silenced" => e.sid # NoSilence

(* Every row that a handler has read or is going to write is backed, and    *)
(* a request that is about to claim or to silence has by whom or by what.   *)
HandsInv ==
  /\ \A g \in Goroutines : Backed(alert[g].e)
  /\ \A r \in Requests :
       /\ Backed(request[r].e)
       /\ request[r].pc # "idle" /\ request[r].kind = "claim" => request[r].who # Nobody
       /\ request[r].pc = "save" /\ request[r].kind \in {"silence", "card"}
            => request[r].sid # NoSilence

Inv == TypeOK /\ HandsInv /\ StatusBacked

-----------------------------------------------------------------------------
(* A request begins with a copy of the event, its kind and its user.        *)
Begins(r) ==
  \E kind \in {"claim", "silence", "card", "unsilence", "uncard"}, who \in Users \cup {Nobody} :
    (kind = "claim" => who \in Users) /\ Begin(r, kind, who)

RequestStep(r) ==
  \/ \E id \in Silences, ok \in BOOLEAN : PostSilence(r, id, ok)
  \/ DeleteSilence(r) \/ CallFails(r)
  \/ SaveClaim(r) \/ SaveSilence(r) \/ SaveUnSilence(r)

LEMMA RequestsBegin ==
  ASSUME NEW r \in Requests,
         \/ \E u \in Users : alertManagerEventReLing(r, u)
         \/ doSilence(r) \/ AlertSilence(r) \/ doUnSilence(r) \/ AlertUnSilence(r)
  PROVE  Begins(r)
<1>1. ASSUME NEW u \in Users, alertManagerEventReLing(r, u) PROVE Begins(r)
  BY <1>1 DEF Begins, alertManagerEventReLing
<1>2. CASE doSilence(r)
  BY <1>2 DEF Begins, doSilence
<1>3. CASE AlertSilence(r)
  BY <1>3 DEF Begins, AlertSilence
<1>4. CASE doUnSilence(r)
  BY <1>4 DEF Begins, doUnSilence
<1>5. CASE AlertUnSilence(r)
  BY <1>5 DEF Begins, AlertUnSilence
<1>. QED
  BY <1>1, <1>2, <1>3, <1>4, <1>5

(* The steps of the webhook's caches, of the alerts, of the requests and of *)
(* the alertmanager.                                                        *)
LEMMA NextCases ==
  ASSUME Next
  PROVE  \/ \E c \in Caches : RenewStep(c)
         \/ AlertWebhookStartGin
         \/ \E g \in Goroutines : AlertReceive(g) \/ AlertStep(g)
         \/ \E r \in Requests : Begins(r) \/ RequestStep(r)
         \/ AlertFires \/ AlertEnds
         \/ \E id \in Silences : SilenceExpires(id)
  BY RequestsBegin DEF Next, RequestStep

-----------------------------------------------------------------------------
(* What UpdateOrCreateOne makes of a row.                                   *)
LEMMA CombinedIsBacked ==
  ASSUME NEW s \in {"firing", "resolved"}, NEW old \in Events, Backed(old)
  PROVE  /\ Combined(s, old) \in Events
         /\ Combined(s, old).status \in Statuses
         /\ Backed(Combined(s, old))
BY DEF Combined, Events, Backed, NoEvent, Statuses, Nobody, NoSilence

LEMMA NoEventBacked == NoEvent \in Events /\ Backed(NoEvent)
BY DEF NoEvent, Events, Backed

(* A whole row that is written over another, its empty columns left out.    *)
LEMMA UpdateOneBacks ==
  ASSUME NEW e \in Events, event \in Events,
         e.status = "renling" => e.claim # Nobody,
         e.status = "silenced" => e.sid # NoSilence,
         UpdateOne(e)
  PROVE  event' \in Events /\ Backed(event')
BY DEF UpdateOne, Events, Backed, Statuses

(* A restart leaves no alert in progress.                                   *)
LEMMA RestartKeeps ==
  ASSUME Inv, RestartWebhook, UNCHANGED <<event, request, am>>
  PROVE  Inv'
<1>1. restarts' \in 0 .. MaxRestarts
  BY AlertAssumption DEF Inv, TypeOK, RestartWebhook
<1>2. /\ \A g \in Goroutines : alert'[g] = IdleAlert /\ Backed(alert'[g].e)
      /\ alert' \in [Goroutines -> [pc : {"idle", "read", "create", "update", "notify"},
                                    status : {"firing", "resolved"}, e : Events]]
  BY NoEventBacked DEF RestartWebhook, IdleAlert
<1>. QED
  BY <1>1, <1>2 DEF Inv, TypeOK, HandsInv, StatusBacked, RestartWebhook, IdleAlert

LEMMA CachesKeep ==
  ASSUME Inv, (\E c \in Caches : RenewStep(c)) \/ AlertWebhookStartGin
  PROVE  Inv'
<1>1. ASSUME NEW c \in Caches, CloseHasSynced(c), closed PROVE Inv'
  BY <1>1, RestartKeeps DEF CloseHasSynced
<1>2. ASSUME NEW c \in Caches, CloseHasSynced(c), ~closed PROVE Inv'
  BY <1>2 DEF CloseHasSynced, Inv, TypeOK, HandsInv, StatusBacked
<1>3. ASSUME NEW c \in Caches, NEW ok \in BOOLEAN, RenewMap(c, ok) PROVE Inv'
  BY <1>3 DEF RenewMap, Inv, TypeOK, HandsInv, StatusBacked
<1>4. ASSUME NEW c \in Caches, CheckFinished(c) PROVE Inv'
  BY <1>4 DEF CheckFinished, Inv, TypeOK, HandsInv, StatusBacked
<1>5. ASSUME NEW c \in Caches, SetFinished(c) PROVE Inv'
  BY <1>5 DEF SetFinished, Inv, TypeOK, HandsInv, StatusBacked
<1>6. CASE AlertWebhookStartGin
  BY <1>6 DEF AlertWebhookStartGin, Inv, TypeOK, HandsInv, StatusBacked
<1>. QED
  BY <1>1, <1>2, <1>3, <1>4, <1>5, <1>6 DEF RenewStep

(* An alert moves on with a row that is backed, and may write the event.    *)
AlertRecord == [pc : {"idle", "read", "create", "update", "notify"},
                status : {"firing", "resolved"}, e : Events]

LEMMA AlertMoves ==
  ASSUME Inv, NEW g \in Goroutines, NEW a \in AlertRecord, Backed(a.e),
         a.pc \in {"create", "update"} => a.e.status \in Statuses,
         alert' = [alert EXCEPT ![g] = a],
         event' \in Events, Backed(event'),
         UNCHANGED <<cacheVars, request, am>>
  PROVE  Inv'
<1>1. /\ alert' \in [Goroutines -> AlertRecord]
      /\ \A h \in Goroutines : alert'[h] = IF h = g THEN a ELSE alert[h]
  BY DEF Inv, TypeOK, AlertRecord
<1>2. TypeOK'
  BY <1>1 DEF Inv, TypeOK, AlertRecord, cacheVars
<1>3. HandsInv'
  BY <1>1 DEF Inv, HandsInv
<1>4. StatusBacked'
  BY DEF Backed, StatusBacked
<1>. QED
  BY <1>2, <1>3, <1>4 DEF Inv

LEMMA AlertsKeep ==
  ASSUME Inv, NEW g \in Goroutines, AlertReceive(g) \/ AlertStep(g)
  PROVE  Inv'
<1>. DEFINE To(pc, e) == [alert[g] EXCEPT !.pc = pc, !.e = e]
<1>1. /\ alert \in [Goroutines -> AlertRecord] /\ alert[g] \in AlertRecord
      /\ alert[g].e \in Events /\ Backed(alert[g].e)
      /\ alert[g].pc \in {"create", "update"} => alert[g].e.status \in Statuses
      /\ event \in Events /\ Backed(event)
  BY DEF Inv, TypeOK, HandsInv, StatusBacked, Backed, AlertRecord
<1>2. IdleAlert \in AlertRecord /\ Backed(IdleAlert.e)
  BY NoEventBacked DEF IdleAlert, AlertRecord
<1>3. CASE AlertReceive(g)
  <2>1. PICK s \in Notices : alert' = IF "sendGroup" \in cached
          THEN [alert EXCEPT ![g] = [pc |-> "read", status |-> s, e |-> NoEvent]] ELSE alert
    BY <1>3 DEF AlertReceive
  <2>2. [pc |-> "read", status |-> s, e |-> NoEvent] \in AlertRecord
    BY NoEventBacked DEF Notices, AlertRecord
  <2>3. CASE "sendGroup" \in cached
    BY <1>1, <1>3, <2>1, <2>2, <2>3, NoEventBacked, AlertMoves DEF AlertReceive
  <2>4. CASE "sendGroup" \notin cached
    BY <1>1, <1>3, <2>1, <2>4 DEF AlertReceive, Inv, TypeOK, HandsInv, StatusBacked, cacheVars
  <2>. QED
    BY <2>3, <2>4
<1>4. CASE UpdateOrCreateRead(g)
  <2>. DEFINE e == Combined(alert[g].status, event)
             a == To(IF event = NoEvent THEN "create" ELSE "update", e)
  <2>1. e \in Events /\ e.status \in Statuses /\ Backed(e)
    BY <1>1, CombinedIsBacked DEF AlertRecord
  <2>2. a \in AlertRecord /\ a.e = e
    BY <1>1, <2>1 DEF AlertRecord
  <2>3. alert' = [alert EXCEPT ![g] = a]
    BY <1>1, <1>4 DEF UpdateOrCreateRead
  <2>4. event' = event /\ UNCHANGED <<cacheVars, request, am>>
    BY <1>4 DEF UpdateOrCreateRead
  <2>. HIDE DEF e, a
  <2>. QED
    BY <1>1, <2>1, <2>2, <2>3, <2>4, AlertMoves
<1>5. CASE CreateOne(g)
  <2>1. CASE event = NoEvent
    <3>1. To("notify", alert[g].e) \in AlertRecord
      BY <1>1 DEF AlertRecord
    <3>2. alert' = [alert EXCEPT ![g] = To("notify", alert[g].e)]
      BY <1>1, <1>5, <2>1 DEF CreateOne, AlertRecord
    <3>. QED
      BY <1>1, <1>5, <2>1, <3>1, <3>2, AlertMoves DEF CreateOne, AlertRecord
  <2>2. CASE event # NoEvent
    <3>1. To("notify", NoEvent) \in AlertRecord
      BY <1>1, NoEventBacked DEF AlertRecord
    <3>2. alert' = [alert EXCEPT ![g] = To("notify", NoEvent)]
      BY <1>1, <1>5, <2>2 DEF CreateOne
    <3>. QED
      BY <1>1, <1>5, <2>2, <3>1, <3>2, NoEventBacked, AlertMoves DEF CreateOne, AlertRecord
  <2>. QED
    BY <2>1, <2>2
<1>6. CASE UpdateColumns(g)
  <2>1. To("notify", alert[g].e) \in AlertRecord
    BY <1>1 DEF AlertRecord
  <2>2. alert' = [alert EXCEPT ![g] = To("notify", alert[g].e)]
    BY <1>1, <1>6 DEF UpdateColumns, AlertRecord
  <2>. QED
    BY <1>1, <1>6, <2>1, <2>2, AlertMoves DEF UpdateColumns, AlertRecord
<1>7. CASE SaveFails(g)
  <2>. DEFINE e == IF alert[g].pc = "update" THEN alert[g].e ELSE NoEvent
             a == To("notify", e)
  <2>1. a \in AlertRecord /\ a.pc = "notify" /\ Backed(a.e)
    BY <1>1, NoEventBacked DEF AlertRecord
  <2>2. alert' = [alert EXCEPT ![g] = a] /\ event' = event
        /\ UNCHANGED <<cacheVars, request, am>>
    BY <1>1, <1>7 DEF SaveFails
  <2>. HIDE DEF a
  <2>. QED
    BY <1>1, <2>1, <2>2, AlertMoves
<1>8. ASSUME NEW late \in BOOLEAN, GenerateMsg(g, late) PROVE Inv'
  <2>1. CASE late /\ MayUpgrade(alert[g]) /\ "onDutyGroup" \notin cached
    BY <1>8, <2>1, RestartKeeps DEF GenerateMsg
  <2>2. CASE late /\ MayUpgrade(alert[g]) /\ "onDutyGroup" \in cached /\ alert[g].e # NoEvent
    <3>. DEFINE e == [alert[g].e EXCEPT !.status = "upgraded"]
    <3>1. e \in Events /\ e.status = "upgraded"
      BY <1>1 DEF Events, Statuses
    <3>2. event' \in Events /\ Backed(event')
      BY <1>1, <1>8, <2>2, <3>1, UpdateOneBacks DEF GenerateMsg, Statuses
    <3>. QED
      BY <1>2, <1>8, <2>2, <3>2, AlertMoves DEF GenerateMsg, IdleAlert
  <2>3. CASE \/ ~(late /\ MayUpgrade(alert[g]))
             \/ "onDutyGroup" \in cached /\ alert[g].e = NoEvent
    <3>1. alert' = [alert EXCEPT ![g] = IdleAlert] /\ event' = event
          /\ UNCHANGED <<cacheVars, request, am>>
      BY <1>8, <2>3 DEF GenerateMsg
    <3>2. IdleAlert.pc = "idle"
      BY DEF IdleAlert
    <3>. QED
      BY <1>1, <1>2, <3>1, <3>2, AlertMoves
  <2>. QED
    BY <2>1, <2>2, <2>3
<1>. QED
  BY <1>3, <1>4, <1>5, <1>6, <1>7, <1>8 DEF AlertStep

-----------------------------------------------------------------------------
(* A request moves on.                                                      *)
RequestRecord == [pc : {"idle", "call", "save"},
                  kind : {"claim", "silence", "card", "unsilence", "uncard"},
                  who : Users \cup {Nobody}, sid : Silences \cup {NoSilence}, e : Events]

InHand(x) ==
  /\ Backed(x.e)
  /\ x.pc # "idle" /\ x.kind = "claim" => x.who # Nobody
  /\ x.pc = "save" /\ x.kind \in {"silence", "card"} => x.sid # NoSilence

LEMMA RequestMoves ==
  ASSUME Inv, NEW r \in Requests, NEW x \in RequestRecord, InHand(x),
         request' = [request EXCEPT ![r] = x],
         event' \in Events, Backed(event'),
         am' \in [firing : BOOLEAN, incidents : 0 .. MaxIncidents,
                  given : SUBSET Silences, active : SUBSET Silences],
         UNCHANGED <<cacheVars, alert>>
  PROVE  Inv'
<1>1. /\ request' \in [Requests -> RequestRecord]
      /\ \A q \in Requests : request'[q] = IF q = r THEN x ELSE request[q]
  BY DEF Inv, TypeOK, RequestRecord
<1>2. TypeOK'
  BY <1>1 DEF Inv, TypeOK, RequestRecord, cacheVars
<1>3. HandsInv'
  BY <1>1 DEF Inv, HandsInv, InHand
<1>4. StatusBacked'
  BY DEF Backed, StatusBacked
<1>. QED
  BY <1>2, <1>3, <1>4 DEF Inv

LEMMA RequestsKeep ==
  ASSUME Inv, NEW r \in Requests, Begins(r) \/ RequestStep(r)
  PROVE  Inv'
<1>. DEFINE AM == [firing : BOOLEAN, incidents : 0 .. MaxIncidents,
                   given : SUBSET Silences, active : SUBSET Silences]
            q == request[r]
<1>1. /\ request \in [Requests -> RequestRecord] /\ q \in RequestRecord
      /\ q.e \in Events /\ Backed(q.e)
      /\ q.pc # "idle" /\ q.kind = "claim" => q.who # Nobody
      /\ q.pc = "save" /\ q.kind \in {"silence", "card"} => q.sid # NoSilence
      /\ event \in Events /\ Backed(event) /\ am \in AM
  BY DEF Inv, TypeOK, HandsInv, StatusBacked, Backed, RequestRecord
<1>2. IdleRequest \in RequestRecord /\ InHand(IdleRequest)
  BY NoEventBacked DEF IdleRequest, RequestRecord, InHand
<1>3. CASE Begins(r)
  <2>1. PICK kind \in {"claim", "silence", "card", "unsilence", "uncard"},
             who \in Users \cup {Nobody} : (kind = "claim" => who \in Users) /\ Begin(r, kind, who)
    BY <1>3 DEF Begins
  <2>. DEFINE x == [pc |-> IF kind = "claim" THEN "save" ELSE "call", kind |-> kind,
                    who |-> who, sid |-> NoSilence, e |-> event]
  <2>2. x \in RequestRecord /\ InHand(x)
    BY <1>1, <2>1, AlertAssumption DEF RequestRecord, InHand
  <2>3. request' = [request EXCEPT ![r] = x] /\ UNCHANGED <<cacheVars, alert, event, am>>
    BY <2>1 DEF Begin
  <2>. HIDE DEF x
  <2>. QED
    BY <1>1, <2>2, <2>3, RequestMoves
<1>4. ASSUME NEW id \in Silences, NEW ok \in BOOLEAN, PostSilence(r, id, ok) PROVE Inv'
  <2>. DEFINE x == [q EXCEPT !.pc = "save", !.sid = id]
  <2>1. x \in RequestRecord /\ InHand(x)
    BY <1>1, <1>4, AlertAssumption DEF PostSilence, RequestRecord, InHand
  <2>2. am' \in AM /\ event' = event /\ UNCHANGED <<cacheVars, alert>>
    BY <1>1, <1>4 DEF PostSilence
  <2>3. CASE ok
    <3>1. request' = [request EXCEPT ![r] = x]
      BY <1>1, <1>4, <2>3 DEF PostSilence
    <3>. HIDE DEF x
    <3>. QED
      BY <1>1, <2>1, <2>2, <3>1, RequestMoves
  <2>4. CASE ~ok
    BY <1>1, <1>2, <1>4, <2>2, <2>4, RequestMoves DEF PostSilence, Done
  <2>. QED
    BY <2>3, <2>4
<1>5. CASE DeleteSilence(r)
  <2>. DEFINE x == [q EXCEPT !.pc = "save"]
  <2>1. q.kind = "unsilence" => x \in RequestRecord /\ InHand(x)
    BY <1>1 DEF RequestRecord, InHand
  <2>2. am' \in AM /\ event' = event /\ UNCHANGED <<cacheVars, alert>>
    BY <1>1, <1>5 DEF DeleteSilence
  <2>3. CASE q.kind = "unsilence"
    <3>1. request' = [request EXCEPT ![r] = x]
      BY <1>1, <1>5, <2>3 DEF DeleteSilence
    <3>. HIDE DEF x
    <3>. QED
      BY <1>1, <2>1, <2>2, <2>3, <3>1, RequestMoves
  <2>4. CASE q.kind # "unsilence"
    BY <1>1, <1>2, <1>5, <2>2, <2>4, RequestMoves DEF DeleteSilence, Done
  <2>. QED
    BY <2>3, <2>4
<1>6. CASE CallFails(r)
  BY <1>1, <1>2, <1>6, RequestMoves DEF CallFails, Done
<1>7. CASE SaveClaim(r)
  <2>. DEFINE e == [q.e EXCEPT !.status = "renling", !.claim = q.who]
  <2>1. e \in Events /\ e.status = "renling" /\ e.claim # Nobody
    BY <1>1, <1>7 DEF SaveClaim, Events, Statuses, RequestRecord
  <2>2. UpdateOne(e) /\ request' = [request EXCEPT ![r] = IdleRequest]
        /\ UNCHANGED <<cacheVars, alert, am>>
    BY <1>7 DEF SaveClaim, Done
  <2>. HIDE DEF e
  <2>3. event' \in Events /\ Backed(event')
    BY <1>1, <2>1, <2>2, UpdateOneBacks DEF Statuses
  <2>. QED
    BY <1>1, <1>2, <2>2, <2>3, RequestMoves
<1>8. CASE SaveSilence(r)
  <2>. DEFINE e == [q.e EXCEPT !.sid = q.sid,
                               !.status = IF q.kind = "silence" THEN "silenced" ELSE @]
  <2>1. /\ e \in Events
        /\ e.status = "renling" => e.claim # Nobody
        /\ e.sid # NoSilence
    BY <1>1, <1>8 DEF SaveSilence, Events, Statuses, RequestRecord, Backed
  <2>2. UpdateOne(e) /\ request' = [request EXCEPT ![r] = IdleRequest]
        /\ UNCHANGED <<cacheVars, alert, am>>
    BY <1>8 DEF SaveSilence, Done
  <2>. HIDE DEF e
  <2>3. event' \in Events /\ Backed(event')
    BY <1>1, <2>1, <2>2, UpdateOneBacks
  <2>. QED
    BY <1>1, <1>2, <2>2, <2>3, RequestMoves
<1>9. CASE SaveUnSilence(r)
  <2>1. event' \in Events /\ Backed(event')
    BY <1>1, <1>9 DEF SaveUnSilence, Events, Statuses, Backed, NoSilence, Nobody
  <2>. QED
    BY <1>1, <1>2, <1>9, <2>1, RequestMoves DEF SaveUnSilence, Done
<1>. QED
  BY <1>3, <1>4, <1>5, <1>6, <1>7, <1>8, <1>9 DEF RequestStep

-----------------------------------------------------------------------------
LEMMA WorldKeeps ==
  ASSUME Inv, AlertFires \/ AlertEnds \/ \E id \in Silences : SilenceExpires(id)
  PROVE  Inv'
<1>. DEFINE AM == [firing : BOOLEAN, incidents : 0 .. MaxIncidents,
                   given : SUBSET Silences, active : SUBSET Silences]
<1>1. am \in AM /\ MaxIncidents \in Nat
  BY AlertAssumption DEF Inv, TypeOK
<1>2. ASSUME AlertFires PROVE am' \in AM
  <2>1. am.incidents + 1 \in 0 .. MaxIncidents
    BY <1>1, <1>2 DEF AlertFires
  <2>2. [am EXCEPT !.firing = TRUE, !.incidents = am.incidents + 1] \in AM
    BY <1>1, <2>1
  <2>. QED
    BY <1>2, <2>2 DEF AlertFires
<1>3. AlertEnds => am' \in AM
  BY <1>1 DEF AlertEnds
<1>4. ASSUME NEW id \in Silences, SilenceExpires(id) PROVE am' \in AM
  BY <1>1, <1>4 DEF SilenceExpires
<1>5. am' \in AM
  BY <1>2, <1>3, <1>4
<1>6. UNCHANGED <<cacheVars, alert, event, request>>
  BY DEF AlertFires, AlertEnds, SilenceExpires
<1>. QED
  BY <1>5, <1>6 DEF Inv, TypeOK, HandsInv, StatusBacked, cacheVars

LEMMA InitInv == Init => Inv
<1>. SUFFICES ASSUME Init PROVE Inv
  OBVIOUS
<1>1. am \in [firing : BOOLEAN, incidents : 0 .. MaxIncidents,
              given : SUBSET Silences, active : SUBSET Silences]
      /\ restarts \in 0 .. MaxRestarts
  BY AlertAssumption DEF Init
<1>2. TypeOK
  BY <1>1, NoEventBacked DEF Init, TypeOK, IdleAlert, IdleRequest
<1>3. HandsInv
  BY NoEventBacked DEF Init, HandsInv, IdleAlert, IdleRequest
<1>4. StatusBacked
  BY DEF Init, StatusBacked, NoEvent
<1>. QED
  BY <1>2, <1>3, <1>4 DEF Inv

LEMMA NextKeepsInv == Inv /\ [Next]_vars => Inv'
<1>. SUFFICES ASSUME Inv, [Next]_vars PROVE Inv'
  OBVIOUS
<1>1. CASE Next
  BY <1>1, NextCases, CachesKeep, AlertsKeep, RequestsKeep, WorldKeeps
<1>2. CASE UNCHANGED vars
  BY <1>2 DEF vars, cacheVars, Inv, TypeOK, HandsInv, StatusBacked
<1>. QED
  BY <1>1, <1>2

(* The types, what each request holds in its hands while it works with a     *)
(* row it has read, and what stands behind a claimed or silenced event.      *)
THEOREM Invariance == Spec => []Inv
BY InitInv, NextKeepsInv, PTL DEF Spec

(* The types of AlertWebhook.                                               *)
THEOREM TypeCorrect == Spec => []TypeOK
BY Invariance, PTL DEF Inv

(* However the alerts, the handlers of the web server and the buttons of    *)
(* the messages overlap with the rows that each has read, a claimed event   *)
(* names who claimed it, and a silenced one the silence that doUnSilence is *)
(* to lift.                                                                 *)
THEOREM BackedAlways == Spec => []StatusBacked
BY Invariance, PTL DEF Inv

-----------------------------------------------------------------------------
(* The step that ClaimStands is about.                                      *)
ClaimStandsStep ==
  /\ UpToDate
  /\ event.status \in {"renling", "silenced"}
  /\ \A r \in Requests : request[r].kind # "unsilence"
  => event'.status \in {"renling", "silenced", "resolved"}

LEMMA AlertsLetItStand ==
  ASSUME Inv, NEW g \in Goroutines, AlertReceive(g) \/ AlertStep(g), UpToDate,
         event.status \in {"renling", "silenced"}
  PROVE  event'.status \in {"renling", "silenced", "resolved"}
<1>1. CASE CreateOne(g)
  BY <1>1 DEF CreateOne, NoEvent
<1>2. CASE UpdateColumns(g)
  <2>1. event' = Combined(alert[g].status, event) /\ event \in Events
    BY <1>2 DEF UpdateColumns, UpToDate, Inv, TypeOK
  <2>. QED
    BY <2>1 DEF Combined, Events
<1>3. ASSUME NEW late \in BOOLEAN, GenerateMsg(g, late), event' # event PROVE FALSE
  <2>1. alert[g].e = event
    BY <1>3 DEF GenerateMsg, UpToDate
  <2>. QED
    BY <1>3, <2>1 DEF GenerateMsg, MayUpgrade
<1>4. CASE AlertReceive(g) \/ UpdateOrCreateRead(g) \/ SaveFails(g)
  BY <1>4 DEF AlertReceive, UpdateOrCreateRead, SaveFails
<1>. QED
  BY <1>1, <1>2, <1>3, <1>4 DEF AlertStep

LEMMA RequestsLetItStand ==
  ASSUME Inv, NEW r \in Requests, Begins(r) \/ RequestStep(r), UpToDate,
         event.status \in {"renling", "silenced"}, request[r].kind # "unsilence"
  PROVE  event'.status \in {"renling", "silenced", "resolved"}
<1>1. CASE SaveClaim(r)
  BY <1>1 DEF SaveClaim, UpdateOne
<1>2. CASE SaveSilence(r)
  <2>1. request[r].e = event
    BY <1>2 DEF SaveSilence, UpToDate
  <2>2. event'.status = [request[r].e EXCEPT
          !.sid = request[r].sid,
          !.status = IF request[r].kind = "silence" THEN "silenced" ELSE @].status
    BY <1>2 DEF SaveSilence, UpdateOne
  <2>3. event \in Events
    BY DEF Inv, TypeOK
  <2>. QED
    BY <2>1, <2>2, <2>3 DEF Events
<1>3. CASE SaveUnSilence(r)
  BY <1>3 DEF SaveUnSilence
<1>4. CASE Begins(r)
  BY <1>4 DEF Begins, Begin
<1>5. CASE \/ \E id \in Silences, ok \in BOOLEAN : PostSilence(r, id, ok)
           \/ DeleteSilence(r) \/ CallFails(r)
  BY <1>5 DEF PostSilence, DeleteSilence, CallFails
<1>. QED
  BY <1>1, <1>2, <1>3, <1>4, <1>5 DEF RequestStep

LEMMA OthersLetItStand ==
  ASSUME \/ \E c \in Caches : RenewStep(c)
         \/ AlertWebhookStartGin \/ AlertFires \/ AlertEnds
         \/ \E id \in Silences : SilenceExpires(id)
  PROVE  event' = event
BY DEF RenewStep, RenewMap, CheckFinished, CloseHasSynced, SetFinished, AlertWebhookStartGin,
       AlertFires, AlertEnds, SilenceExpires

(* While no handler works with a row that another one has changed, neither  *)
(* the alerts that go on firing nor an escalation take back that an event   *)
(* was claimed or silenced.                                                 *)
THEOREM ClaimsStand == Spec => ClaimStands
<1>1. Inv /\ [Next]_vars => [ClaimStandsStep]_event
  <2>. SUFFICES ASSUME Inv, [Next]_vars, event' # event, UpToDate,
                       event.status \in {"renling", "silenced"},
                       \A r \in Requests : request[r].kind # "unsilence"
                PROVE  event'.status \in {"renling", "silenced", "resolved"}
    BY DEF ClaimStandsStep
  <2>1. Next
    BY DEF vars
  <2>2. ASSUME NEW g \in Goroutines, AlertReceive(g) \/ AlertStep(g)
        PROVE  event'.status \in {"renling", "silenced", "resolved"}
    BY <2>2, AlertsLetItStand
  <2>3. ASSUME NEW r \in Requests, Begins(r) \/ RequestStep(r)
        PROVE  event'.status \in {"renling", "silenced", "resolved"}
    BY <2>3, RequestsLetItStand
  <2>4. CASE \/ \E c \in Caches : RenewStep(c)
             \/ AlertWebhookStartGin \/ AlertFires \/ AlertEnds
             \/ \E id \in Silences : SilenceExpires(id)
    BY <2>4, OthersLetItStand
  <2>. QED
    BY <2>1, <2>2, <2>3, <2>4, NextCases
<1>. QED
  BY <1>1, Invariance, PTL DEF Spec, ClaimStands, ClaimStandsStep

-----------------------------------------------------------------------------
(* The on-duty rota.                                                        *)
(*                                                                          *)
(* RotaKept compares a day with the calendar, which knows no history, and   *)
(* the cron job looks at the history only.  So DutyInv says that as long as *)
(* every day since the group was created is fair - recorded, and by whose   *)
(* turn it was - the turn that the history names is the calendar's; that    *)
(* the cron job goes on with it is a matter of division with remainder.     *)
(* PlanComesTrue compares two computations, the cron job's and that of the  *)
(* plan, both of which count back from the last day.                        *)

LEMMA DivIs ==
  ASSUME NEW a \in Nat, NEW s \in Nat \ {0}
  PROVE  /\ a \div s \in Nat
         /\ s * (a \div s) <= a
         /\ a < s * (a \div s) + s
OBVIOUS

LEMMA ModIs ==
  ASSUME NEW a \in Nat, NEW n \in Nat \ {0}
  PROVE  /\ a % n \in 0 .. n - 1
         /\ a = n * (a \div n) + (a % n)
OBVIOUS

LEMMA TimesGrows ==
  ASSUME NEW s \in Nat \ {0}, NEW p \in Nat, NEW q \in Nat, p < q
  PROVE  s * p + s <= s * q
OBVIOUS

LEMMA DivUnique ==
  ASSUME NEW a \in Nat, NEW s \in Nat \ {0}, NEW q \in Nat, s * q <= a, a < s * q + s
  PROVE  a \div s = q
<1>. DEFINE p == a \div s
<1>1. p \in Nat /\ s * p <= a /\ a < s * p + s
  BY DivIs
<1>. HIDE DEF p
<1>2. s * p \in Nat /\ s * q \in Nat
  BY <1>1
<1>3. ~(p < q)
  <2>. SUFFICES ASSUME p < q PROVE FALSE
    OBVIOUS
  <2>1. s * p + s <= s * q
    BY <1>1, TimesGrows
  <2>. QED
    BY <1>1, <1>2, <2>1
<1>4. ~(q < p)
  <2>. SUFFICES ASSUME q < p PROVE FALSE
    OBVIOUS
  <2>1. s * q + s <= s * p
    BY <1>1, TimesGrows
  <2>. QED
    BY <1>1, <1>2, <2>1
<1>. QED
  BY <1>1, <1>3, <1>4 DEF p

LEMMA ModUnique ==
  ASSUME NEW a \in Nat, NEW n \in Nat \ {0}, NEW q \in Nat, NEW r \in 0 .. n - 1,
         a = n * q + r
  PROVE  a % n = r
<1>. DEFINE p == a \div n
<1>1. n * q \in Nat /\ r \in Nat /\ r < n
  OBVIOUS
<1>2. p = q
  BY <1>1, DivUnique
<1>3. a = n * p + (a % n) /\ a % n \in Int
  BY ModIs
<1>. QED
  BY <1>1, <1>2, <1>3

LEMMA ModNext ==
  ASSUME NEW q \in Nat, NEW n \in Nat \ {0}
  PROVE  /\ ((q % n) + 1) % n = (q + 1) % n
         /\ n # 1 => (q + 1) % n # q % n
<1>. DEFINE r == q % n
            p == q \div n
<1>1. r \in Nat /\ r < n /\ p \in Nat /\ q = n * p + r /\ n * p \in Nat
  BY ModIs, DivIs
<1>. HIDE DEF r, p
<1>2. CASE r + 1 < n
  <2>1. (q + 1) % n = r + 1
    BY <1>1, <1>2, ModUnique
  <2>2. r + 1 = n * 0 + (r + 1)
    BY <1>1
  <2>3. (r + 1) % n = r + 1
    BY <1>1, <1>2, <2>2, ModUnique
  <2>. QED
    BY <1>1, <2>1, <2>3 DEF r
<1>3. CASE r + 1 = n
  <2>1. q + 1 = n * (p + 1) + 0
    BY <1>1, <1>3
  <2>2. (q + 1) % n = 0
    BY <1>1, <2>1, ModUnique
  <2>3. r + 1 = n * 1 + 0
    BY <1>1, <1>3
  <2>4. (r + 1) % n = 0
    BY <1>1, <2>3, ModUnique
  <2>. QED
    BY <1>1, <1>3, <2>2, <2>4 DEF r
<1>. QED
  BY <1>1, <1>2, <1>3

-----------------------------------------------------------------------------
(* A group that somebody serves for, in an order without repetition.        *)
RotaOf(g) ==
  /\ g.members \in Seq(Members) /\ g.members # <<>>
  /\ \A i, k \in DOMAIN g.members : g.members[i] = g.members[k] => i = k
  /\ g.shift \in Nat \ {0}

LEMMA RotaLength ==
  ASSUME NEW g, RotaOf(g)
  PROVE  Len(g.members) \in Nat \ {0} /\ DOMAIN g.members = 1 .. Len(g.members)
<1>1. PICK m : m = g.members
  OBVIOUS
<1>2. m \in Seq(Members) /\ m # <<>>
  BY <1>1 DEF RotaOf
<1>3. Len(m) \in Nat /\ DOMAIN m = 1 .. Len(m)
  BY <1>2, LenProperties
<1>4. Len(m) # 0
  BY <1>2, EmptySeq
<1>. QED
  BY <1>1, <1>3, <1>4

LEMMA IndexIs ==
  ASSUME NEW g, RotaOf(g), NEW i \in DOMAIN g.members
  PROVE  IndexOf(g, g.members[i]) = i
<1>1. PICK m : m = g.members
  OBVIOUS
<1>2. DOMAIN m \subseteq Nat /\ \A x, y \in DOMAIN m : m[x] = m[y] => x = y
  <2>1. \A x, y \in DOMAIN m : m[x] = m[y] => x = y
    BY <1>1 DEF RotaOf
  <2>2. DOMAIN m = 1 .. Len(m) /\ Len(m) \in Nat
    BY <1>1, RotaLength
  <2>. QED
    BY <2>1, <2>2
<1>. DEFINE P(x) == m[x] = m[i] /\ \A k \in DOMAIN m : m[k] = m[i] => x <= k
<1>3. P(i)
  BY <1>1, <1>2
<1>4. \A x \in DOMAIN m : P(x) => x = i
  BY <1>1, <1>2
<1>5. (CHOOSE x \in DOMAIN m : P(x)) = i
  BY <1>1, <1>3, <1>4
<1>6. \E x \in DOMAIN m : m[x] = m[i]
  BY <1>1
<1>. QED
  BY <1>1, <1>5, <1>6 DEF IndexOf

LEMMA SuccessorIs ==
  ASSUME NEW g, RotaOf(g), NEW i \in DOMAIN g.members, NEW k
  PROVE  Successor(g, g.members[i], k) = g.members[((i - 1 + k) % Len(g.members)) + 1]
BY IndexIs DEF Successor

(* One place further on.                                                    *)
LEMMA SuccessorNext ==
  ASSUME NEW g, RotaOf(g), NEW i \in DOMAIN g.members, NEW u, u = g.members[i],
         NEW k \in Nat
  PROVE  /\ Successor(g, u, 0) = u
         /\ Successor(g, u, k) \in Members
         /\ Successor(g, Successor(g, u, k), 1) = Successor(g, u, k + 1)
         /\ Len(g.members) # 1 => Successor(g, u, k + 1) # Successor(g, u, k)
         /\ Len(g.members) = 1 => Successor(g, u, k) = u
<1>1. PICK m : m = g.members
  OBVIOUS
<1>2. PICK n \in Nat \ {0} : n = Len(m) /\ DOMAIN m = 1 .. n
  BY <1>1, RotaLength
<1>3. i \in 1 .. n /\ u = m[i]
  BY <1>1, <1>2
<1>4. PICK a \in Nat : a = i - 1 + k
  BY <1>3
<1>5. PICK r \in 0 .. n - 1 : r = a % n /\ Successor(g, u, k) = m[r + 1]
  <2>1. Successor(g, u, k) = m[((i - 1 + k) % n) + 1]
    BY <1>1, <1>2, SuccessorIs
  <2>2. a % n \in 0 .. n - 1
    BY <1>2, ModIs
  <2>. QED
    BY <1>4, <2>1, <2>2
<1>6. PICK t \in 0 .. n - 1 : t = (a + 1) % n /\ Successor(g, u, k + 1) = m[t + 1]
  <2>1. Successor(g, u, k + 1) = m[((i - 1 + (k + 1)) % n) + 1]
    BY <1>1, <1>2, SuccessorIs
  <2>2. i - 1 + (k + 1) = a + 1
    BY <1>3, <1>4
  <2>3. (a + 1) % n \in 0 .. n - 1
    <3>1. PICK b \in Nat : b = a + 1
      OBVIOUS
    <3>. QED
      BY <1>2, <3>1, ModIs
  <2>. QED
    BY <2>1, <2>2, <2>3
<1>7. r + 1 \in DOMAIN m /\ t + 1 \in DOMAIN m
  BY <1>2, <1>5, <1>6
<1>8. (r + 1) % n = t /\ (n # 1 => t # r)
  BY <1>5, <1>6, ModNext
<1>9. Successor(g, m[r + 1], 1) = m[t + 1]
  <2>1. Successor(g, m[r + 1], 1) = m[(((r + 1) - 1 + 1) % n) + 1]
    BY <1>1, <1>2, <1>7, SuccessorIs
  <2>2. (r + 1) - 1 + 1 = r + 1
    BY <1>5
  <2>. QED
    BY <1>8, <2>1, <2>2
<1>10. Successor(g, u, 0) = u
  <2>1. PICK b \in 0 .. n - 1 : b = i - 1
    BY <1>3
  <2>2. b \in Nat /\ b = n * 0 + b
    BY <2>1
  <2>3. b % n = b
    BY <2>1, <2>2, ModUnique
  <2>4. i - 1 + 0 = b /\ b + 1 = i
    BY <1>3, <2>1
  <2>5. Successor(g, u, 0) = m[((i - 1 + 0) % n) + 1]
    BY <1>1, <1>2, SuccessorIs
  <2>. QED
    BY <1>3, <2>3, <2>4, <2>5
<1>11. m[r + 1] \in Members
  <2>1. m \in Seq(Members)
    BY <1>1 DEF RotaOf
  <2>. QED
    BY <1>2, <1>7, <2>1, ElementOfSeq
<1>12. n # 1 => m[t + 1] # m[r + 1]
  <2>1. \A x, y \in DOMAIN m : m[x] = m[y] => x = y
    BY <1>1 DEF RotaOf
  <2>2. n # 1 => t + 1 # r + 1
    BY <1>5, <1>6, <1>8
  <2>. QED
    BY <1>7, <2>1, <2>2
<1>13. n = 1 => m[r + 1] = u
  <2>1. n = 1 => r + 1 = i
    BY <1>3, <1>5
  <2>. QED
    BY <1>3, <2>1
<1>. QED
  BY <1>1, <1>2, <1>5, <1>6, <1>9, <1>10, <1>11, <1>12, <1>13

(* The turn goes on when it has lasted for ShiftDays days.                  *)
LEMMA NeedChangeIs ==
  ASSUME NEW g, NEW s \in Nat \ {0}, s = g.shift, NEW h, NEW d \in Int
  PROVE  needChange(g, h, d) <=>
           \A e \in d - s .. d - 1 : On(h, e) /\ Turn(h, e) = Turn(h, d - 1)
<1>. DEFINE W == d - s .. d - 1
            S == {e \in W : On(h, e) /\ Turn(h, e) = Turn(h, d - 1)}
<1>1. IsFiniteSet(W) /\ Cardinality(W) = s
  <2>1. PICK x \in Int : x = d - s
    OBVIOUS
  <2>2. PICK y \in Int : y = d - 1
    OBVIOUS
  <2>3. IsFiniteSet(x .. y) /\ Cardinality(x .. y) = IF x > y THEN 0 ELSE y - x + 1
    BY FS_Interval
  <2>. QED
    BY <2>1, <2>2, <2>3
<1>2. S \in SUBSET W
  OBVIOUS
<1>3. /\ IsFiniteSet(S)
      /\ Cardinality(S) <= Cardinality(W)
      /\ Cardinality(W) = Cardinality(S) => S = W
  BY <1>1, <1>2, FS_Subset
<1>4. Cardinality(S) \in Nat
  BY <1>3, FS_CardinalityType
<1>5. needChange(g, h, d) <=> Cardinality(S) >= s
  BY DEF needChange
<1>. HIDE DEF S, W
<1>6. (Cardinality(S) >= s) <=> S = W
  BY <1>1, <1>3, <1>4
<1>. QED
  BY <1>5, <1>6 DEF S, W

(* From day z to the day before d the turns lasted ShiftDays days each; the *)
(* first was that of u.                                                     *)
InTurns(g, h, u, z, d) ==
  \A e \in z .. d - 1 :
    On(h, e) /\ Turn(h, e) = Successor(g, u, (e - z) \div g.shift)

(* The first turn did not begin before z, or is long over.                  *)
BeginsOn(g, h, u, z, d) ==
  d < z + g.shift => ~(On(h, z - 1) /\ Turn(h, z - 1) = u)

(* The cron job goes on with turns of ShiftDays days.                       *)
LEMMA RotationGoesOn ==
  ASSUME NEW g, RotaOf(g), NEW i \in DOMAIN g.members, NEW u, u = g.members[i],
         NEW h, NEW z \in Int, NEW d \in Int, z < d,
         InTurns(g, h, u, z, d), BeginsOn(g, h, u, z, d)
  PROVE  Rotation(g, h, d) = Successor(g, u, (d - z) \div g.shift)
<1>1. PICK s \in Nat \ {0} : s = g.shift
  BY DEF RotaOf
<1>2. PICK x \in Nat : x = d - 1 - z
  OBVIOUS
<1>3. PICK q \in Nat : q = x \div s /\ s * q <= x /\ x < s * q + s
  BY DivIs
<1>4. PICK p \in Nat : p = s * q
  OBVIOUS
<1>5. On(h, d - 1) /\ Turn(h, d - 1) = Successor(g, u, q)
  <2>1. d - 1 \in z .. d - 1 /\ d - 1 - z = x
    BY <1>2
  <2>. QED
    BY <1>1, <1>3, <2>1 DEF InTurns
<1>6. needChange(g, h, d) <=>
        \A e \in d - s .. d - 1 : On(h, e) /\ Turn(h, e) = Successor(g, u, q)
  BY <1>1, <1>5, NeedChangeIs
<1>7. d - z = x + 1
  BY <1>2
<1>8. Rotation(g, h, d) = IF needChange(g, h, d) THEN Successor(g, u, q + 1)
                                                 ELSE Successor(g, u, q)
  BY <1>5, SuccessorNext DEF Rotation
<1>9. CASE x + 1 = p + s
  <2>1. (d - z) \div s = q + 1
    <3>1. PICK b \in Nat : b = q + 1
      OBVIOUS
    <3>2. PICK y \in Nat : y = d - z
      BY <1>7
    <3>3. s * b = p + s
      BY <1>4, <3>1
    <3>4. y \div s = b
      BY <1>7, <1>9, <3>2, <3>3, DivUnique
    <3>. QED
      BY <3>1, <3>2, <3>4
  <2>2. ASSUME NEW e \in d - s .. d - 1
        PROVE  On(h, e) /\ Turn(h, e) = Successor(g, u, q)
    <3>1. e \in z .. d - 1 /\ e - z \in Nat /\ p <= e - z /\ e - z < p + s
      BY <1>2, <1>9
    <3>2. (e - z) \div s = q
      BY <1>4, <3>1, DivUnique
    <3>. QED
      BY <1>1, <3>1, <3>2 DEF InTurns
  <2>. QED
    BY <1>1, <1>6, <1>8, <2>1, <2>2
<1>10. CASE x + 1 < p + s
  <2>1. (d - z) \div s = q
    <3>1. PICK y \in Nat : y = d - z
      BY <1>7
    <3>2. s * q <= y /\ y < s * q + s
      BY <1>3, <1>4, <1>7, <1>10, <3>1
    <3>. QED
      BY <3>1, <3>2, DivUnique
  <2>2. CASE Len(g.members) = 1
    BY <1>1, <1>8, <2>1, <2>2, SuccessorNext
  <2>3. CASE Len(g.members) # 1
    <3>1. PICK e \in d - s .. d - 1 : e = z + p - 1
      <4>1. d = z + x + 1 /\ p \in Nat /\ p <= x
        BY <1>2, <1>3, <1>4
      <4>. QED
        BY <1>10, <4>1
    <3>2. ~(On(h, e) /\ Turn(h, e) = Successor(g, u, q))
      <4>1. CASE q = 0
        <5>1. e = z - 1 /\ d < z + s
          BY <1>4, <1>7, <1>10, <3>1, <4>1
        <5>2. Successor(g, u, q) = u
          BY <4>1, SuccessorNext
        <5>. QED
          BY <1>1, <5>1, <5>2 DEF BeginsOn
      <4>2. CASE q # 0
        <5>1. q - 1 \in Nat /\ s * (q - 1) = p - s /\ s * (q - 1) \in Nat
          BY <1>4, <4>2
        <5>2. p - 1 \in Nat
          BY <1>4, <5>1
        <5>6. e \in z .. d - 1 /\ e - z = p - 1
          BY <1>2, <1>3, <1>4, <3>1, <5>2
        <5>3. (e - z) \div s = q - 1
          <6>1. PICK y \in Nat : y = p - 1
            BY <5>2
          <6>2. PICK b \in Nat : b = q - 1
            BY <5>1
          <6>3. s * b <= y /\ y < s * b + s
            BY <1>4, <5>1, <6>1, <6>2
          <6>. QED
            BY <5>6, <6>1, <6>2, <6>3, DivUnique
        <5>4. Turn(h, e) = Successor(g, u, q - 1)
          BY <1>1, <5>6, <5>3 DEF InTurns
        <5>5. q - 1 \in Nat /\ (q - 1) + 1 = q
          BY <5>1
        <5>7. Successor(g, u, q - 1) # Successor(g, u, q)
          BY <2>3, <5>5, SuccessorNext
        <5>. QED
          BY <5>4, <5>7
      <4>. QED
        BY <4>1, <4>2
    <3>3. ~needChange(g, h, d)
      BY <1>6, <3>1, <3>2
    <3>. QED
      BY <1>1, <1>8, <2>1, <3>3
  <2>. QED
    BY <2>2, <2>3
<1>. QED
  BY <1>3, <1>4, <1>9, <1>10

(* The calendar is the rota that begins with the first member.              *)
LEMMA CalendarIs ==
  ASSUME NEW g, RotaOf(g), NEW d \in Int, NEW c \in Int, c = g.created, c <= d
  PROVE  /\ 1 \in DOMAIN g.members
         /\ (d - c) \div g.shift \in Nat
         /\ ByCalendar(g, d) = Successor(g, g.members[1], (d - c) \div g.shift)
<1>1. PICK s \in Nat \ {0} : s = g.shift
  BY DEF RotaOf
<1>2. 1 \in DOMAIN g.members
  BY RotaLength
<1>3. PICK x \in Nat : x = d - c
  OBVIOUS
<1>4. PICK k \in Nat : k = x \div s
  BY <1>1, <1>3, DivIs
<1>5. (IF d > c THEN d - c ELSE 0) = x
  BY <1>3
<1>6. ByCalendar(g, d) = g.members[(k % Len(g.members)) + 1]
  BY <1>1, <1>4, <1>5 DEF ByCalendar
<1>7. Successor(g, g.members[1], k) = g.members[((1 - 1 + k) % Len(g.members)) + 1]
  BY <1>2, SuccessorIs
<1>8. 1 - 1 + k = k
  OBVIOUS
<1>. QED
  BY <1>1, <1>2, <1>3, <1>4, <1>6, <1>7, <1>8

(* So the cron job's choice is the calendar's, if everybody had his turn.   *)
LEMMA RotationIsCalendar ==
  ASSUME NEW g, RotaOf(g), NEW h, NEW d \in Int, NEW c \in Int, c = g.created, c < d,
         \A e \in c .. d - 1 : On(h, e) /\ Turn(h, e) = ByCalendar(g, e),
         ~On(h, c - 1)
  PROVE  Rotation(g, h, d) = ByCalendar(g, d)
<1>1. PICK u : u = g.members[1]
  OBVIOUS
<1>2. ASSUME NEW e \in c .. d - 1
      PROVE  On(h, e) /\ Turn(h, e) = Successor(g, u, (e - c) \div g.shift)
  <2>1. e \in Int /\ c <= e
    OBVIOUS
  <2>2. PICK k \in Nat : k = (e - c) \div g.shift
    BY <2>1, CalendarIs
  <2>3. ByCalendar(g, e) = Successor(g, u, k)
    BY <1>1, <2>1, <2>2, CalendarIs
  <2>. QED
    BY <2>2, <2>3
<1>3. 1 \in DOMAIN g.members
  BY CalendarIs
<1>4. Rotation(g, h, d) = Successor(g, u, (d - c) \div g.shift)
  <2>1. PICK i \in DOMAIN g.members : u = g.members[i]
    BY <1>1, <1>3
  <2>2. InTurns(g, h, u, c, d)
    BY <1>2 DEF InTurns
  <2>3. BeginsOn(g, h, u, c, d)
    BY DEF BeginsOn
  <2>. QED
    BY <2>1, <2>2, <2>3, RotationGoesOn
<1>5. PICK k \in Nat : k = (d - c) \div g.shift
  BY CalendarIs
<1>6. ByCalendar(g, d) = Successor(g, u, k)
  BY <1>1, <1>5, CalendarIs
<1>. QED
  BY <1>4, <1>5, <1>6

-----------------------------------------------------------------------------
(* A day's entry that the rota can go on from: RotaKept speaks of the swap  *)
(* of the first day as it is now, which may change after the day.           *)
FairDay(d) ==
  /\ Recorded(d)
  /\ history[d].origin \in {NoUser, ByCalendar(group, d)}
  /\ d = group.created /\ Swapped(d) => history[d].origin # NoUser

(* While the group is not edited nothing is recorded before it is there,    *)
(* and a pass works with the group as it is.                                *)
NotEditedInv ==
  /\ fill.pc # "idle" => fill.g = group
  /\ group.members = <<>> => \A d \in Days : ~Recorded(d)
  /\ group.members # <<>> => group.created \in Days /\ group.created <= day
  /\ \A d \in Days : Recorded(d) => group.created <= d
  /\ \A d \in group.created .. day :
       (Recorded(d) /\ \A e \in group.created .. d : FairDay(e))
         => Turn(history, d) = ByCalendar(group, d)

DutyInv ==
  /\ DutyTypeOK
  /\ day \in Days
  /\ \A d \in Days : Swapped(d) => swap[d].who \in Members /\ swap[d].origin \in Members
  /\ fill.pc # "idle" => fill.g.members # <<>>
  /\ fill.pc = "rotate" => ~Recorded(day)
  /\ ~group.edited => NotEditedInv

(* The groups with members have a rota.                                     *)
LEMMA GroupsAre ==
  ASSUME NEW g \in Groups, g.members # <<>>
  PROVE  RotaOf(g)
<1>1. g.members \in Rotas \cup {<<>>} /\ g.shift \in Shifts \cup {1}
  BY DEF Groups
<1>2. g.members \in Rotas
  BY <1>1
<1>3. PICK m \in Rotas : m = g.members
  BY <1>2
<1>4. m \in Seq(Members) /\ \A i, k \in DOMAIN m : m[i] = m[k] => i = k
  BY <1>3, OnDutyAssumption
<1>5. PICK s \in Shifts \cup {1} : s = g.shift
  BY <1>1
<1>6. s \in Nat \ {0}
  BY OnDutyAssumption
<1>. QED
  BY <1>3, <1>4, <1>5, <1>6 DEF RotaOf

(* A day that the rota names a member for.                                  *)
LEMMA CalendarIsMember ==
  ASSUME NEW g, RotaOf(g), NEW d \in Int, g.created \in Int
  PROVE  ByCalendar(g, d) \in Members
<1>1. PICK s \in Nat \ {0} : s = g.shift
  BY DEF RotaOf
<1>2. PICK c \in Int : c = g.created
  OBVIOUS
<1>3. PICK x \in Nat : x = IF d > c THEN d - c ELSE 0
  OBVIOUS
<1>4. PICK k \in Nat : k = x \div s
  BY DivIs
<1>5. PICK m : m = g.members
  OBVIOUS
<1>6. PICK n \in Nat \ {0} : n = Len(m) /\ DOMAIN m = 1 .. n
  BY <1>5, RotaLength
<1>7. PICK r \in 0 .. n - 1 : r = k % n
  BY ModIs
<1>8. ByCalendar(g, d) = m[r + 1]
  BY <1>1, <1>2, <1>3, <1>4, <1>5, <1>6, <1>7 DEF ByCalendar
<1>9. m \in Seq(Members) /\ r + 1 \in 1 .. n
  BY <1>5, <1>7 DEF RotaOf
<1>. QED
  BY <1>6, <1>8, <1>9, ElementOfSeq

(* Whomever he names next is a member.                                      *)
LEMMA SuccessorIsMember ==
  ASSUME NEW g, RotaOf(g), NEW u
  PROVE  Successor(g, u, 1) \in Members
<1>1. 1 \in DOMAIN g.members
  BY RotaLength
<1>2. PICK i \in DOMAIN g.members : i = IndexOf(g, u)
  <2>1. CASE \E x \in DOMAIN g.members : g.members[x] = u
    <3>1. PICK x \in DOMAIN g.members : g.members[x] = u
      BY <2>1
    <3>. QED
      BY <3>1, IndexIs
  <2>2. CASE ~\E x \in DOMAIN g.members : g.members[x] = u
    BY <1>1, <2>2 DEF IndexOf
  <2>. QED
    BY <2>1, <2>2
<1>3. Successor(g, u, 1) = Successor(g, g.members[i], 1)
  BY <1>2, IndexIs DEF Successor
<1>4. 1 \in Nat
  OBVIOUS
<1>. QED
  BY <1>3, <1>4, SuccessorNext

LEMMA DutyStart ==
  ASSUME DutyInit
  PROVE  DutyInv
<1>1. NoGroup \in Groups /\ NoEntry \in Entries
  BY OnDutyAssumption DEF NoGroup, NoEntry, Groups, Entries
<1>2. 1 \in Days
  BY OnDutyAssumption DEF Days
<1>3. \A d \in Days : ~Recorded(d) /\ ~Swapped(d)
  BY DEF DutyInit, Recorded, Swapped, On
<1>4. fill = [pc |-> "idle", g |-> NoGroup] /\ group = NoGroup /\ day = 1
  BY DEF DutyInit, Idle
<1>5. DutyTypeOK
  BY <1>1, <1>3, <1>4 DEF DutyTypeOK, DutyInit
<1>6. NotEditedInv
  <2>1. group.members = <<>> /\ fill.pc = "idle"
    BY <1>4 DEF NoGroup
  <2>2. \A d \in group.created .. day : ~Recorded(d)
    BY <1>3, <1>4 DEF Recorded, On, DutyInit
  <2>. QED
    BY <1>3, <2>1, <2>2 DEF NotEditedInv
<1>. QED
  BY <1>2, <1>3, <1>4, <1>5, <1>6 DEF DutyInv

(* Whom the cron job records is a user.                                     *)
LEMMA RotationIsUser ==
  ASSUME DutyTypeOK, NEW g \in Groups, g.members # <<>>
  PROVE  Rotation(g, history, day) \in Members \cup {NoUser}
<1>1. RotaOf(g) /\ g.created \in Int /\ day \in Int
  BY GroupsAre DEF Groups, DutyTypeOK, Days
<1>2. \A d \in Days : Recorded(d) => /\ history[d].who \in Members \cup {NoUser}
                                     /\ Turn(history, d) \in Members \cup {NoUser}
  BY DEF DutyTypeOK, Entries, Turn
<1>3. On(history, day - 1) => Turn(history, day - 1) \in Members \cup {NoUser}
  <2>. SUFFICES ASSUME On(history, day - 1)
                PROVE  Turn(history, day - 1) \in Members \cup {NoUser}
    OBVIOUS
  <2>1. day - 1 \in Days /\ Recorded(day - 1)
    BY DEF On, Recorded, DutyTypeOK
  <2>. QED
    BY <1>2, <2>1
<1>4. FillToDayOndutyUser(g, day) \in Members \cup {NoUser}
  <2>1. CASE Swapped(day)
    <3>1. swap[day].who \in Members \cup {NoUser}
      BY <2>1 DEF Swapped, On, DutyTypeOK, Entries
    <3>. QED
      BY <2>1, <3>1 DEF FillToDayOndutyUser
  <2>2. CASE ~Swapped(day) /\ Recorded(day)
    <3>1. history[day].who \in Members \cup {NoUser}
      BY <2>2 DEF Recorded, On, DutyTypeOK, Entries
    <3>. QED
      BY <2>2, <3>1 DEF FillToDayOndutyUser
  <2>3. CASE ~Swapped(day) /\ ~Recorded(day)
    <3>1. ByCalendar(g, day) \in Members
      BY <1>1, CalendarIsMember
    <3>. QED
      BY <2>3, <3>1 DEF FillToDayOndutyUser
  <2>. QED
    BY <2>1, <2>2, <2>3
<1>5. Successor(g, Turn(history, day - 1), 1) \in Members
  BY <1>1, SuccessorIsMember
<1>. QED
  BY <1>3, <1>4, <1>5 DEF Rotation

(* The steps that record a day.                                             *)
LEMMA DayIsRecorded ==
  ASSUME DutyInv, ~Recorded(day), NEW e \in Entries,
         history' = [history EXCEPT ![day] = e],
         UNCHANGED <<day, group, swap>>,
         fill' \in [pc : {"idle", "check", "rotate"}, g : Groups],
         fill'.pc = "idle",
         group.members # <<>>,
         ~group.edited =>
           ((\A x \in group.created .. day : FairDay(x)') =>
              Turn(history', day) = ByCalendar(group, day))
  PROVE  DutyInv'
<1>1. history \in [Days -> Entries] /\ day \in Days /\ Days \subseteq Int
  BY DEF DutyInv, DutyTypeOK, Days
<1>2. /\ history' \in [Days -> Entries]
      /\ history'[day] = e
      /\ \A d \in Int : d # day => history'[d] = history[d]
  BY <1>1
<1>3. \A d \in Int : d # day => (Recorded(d)' <=> Recorded(d))
  BY <1>1, <1>2 DEF Recorded, On
<1>4. DutyTypeOK'
  BY <1>1, <1>2, <1>3 DEF DutyInv, DutyTypeOK
<1>5. ASSUME ~group.edited PROVE NotEditedInv'
  <2>1. NotEditedInv
    BY <1>5 DEF DutyInv
  <2>2. \A d \in Days : Recorded(d)' => group.created <= d
    BY <1>1, <1>3, <2>1 DEF NotEditedInv
  <2>3. group.created \in Days /\ group.created <= day
    BY <2>1 DEF NotEditedInv
  <2>4. ASSUME NEW d \in group.created .. day, Recorded(d)',
               \A x \in group.created .. d : FairDay(x)'
        PROVE  Turn(history', d) = ByCalendar(group, d)
    <3>1. CASE d = day
      BY <1>5, <2>4, <3>1
    <3>2. CASE d # day
      <4>1. \A x \in group.created .. d : x \in Int /\ x # day
        BY <1>1, <2>3, <3>2
      <4>2. \A x \in group.created .. d : history'[x] = history[x]
        BY <1>2, <4>1
      <4>3. d \in Int /\ group' = group /\ swap' = swap
        BY <1>1, <2>3
      <4>4. \A x \in group.created .. d : FairDay(x)
        BY <1>3, <2>4, <4>1, <4>2, <4>3 DEF FairDay, Swapped, ByCalendar
      <4>5. Recorded(d)
        BY <1>3, <2>4, <3>2, <4>3
      <4>6. Turn(history, d) = ByCalendar(group, d)
        BY <2>1, <4>4, <4>5 DEF NotEditedInv
      <4>. QED
        BY <1>2, <3>2, <4>3, <4>6 DEF Turn
    <3>. QED
      BY <3>1, <3>2
  <2>. QED
    BY <2>2, <2>3, <2>4 DEF NotEditedInv, ByCalendar
<1>. QED
  BY <1>4, <1>5 DEF DutyInv, Swapped

LEMMA FillFromSwapStep ==
  ASSUME DutyInv, FillFromSwap
  PROVE  DutyInv'
<1>1. /\ fill.pc = "check" /\ fill.g.members # <<>> /\ fill.g \in Groups
      /\ fill \in [pc : {"idle", "check", "rotate"}, g : Groups]
  BY DEF DutyInv, DutyTypeOK, FillFromSwap
<1>2. Idle \in [pc : {"idle", "check", "rotate"}, g : Groups] /\ Idle.pc = "idle"
  BY OnDutyAssumption DEF Idle, NoGroup, Groups
<1>3. CASE ~Recorded(day) /\ Swapped(day)
  <2>1. PICK e \in Entries : e = swap[day]
    BY <1>3 DEF DutyInv, DutyTypeOK
  <2>2. history' = [history EXCEPT ![day] = e] /\ fill' = Idle
    BY <1>3, <2>1 DEF FillFromSwap, RecordSwap
  <2>3. UNCHANGED <<day, group, swap>>
    BY DEF FillFromSwap
  <2>4. e.origin \in Members /\ e.origin # NoUser
    BY <1>3, <2>1, OnDutyAssumption DEF DutyInv
  <2>5. CASE group.edited
    <3>1. CASE group.members # <<>>
      BY <1>2, <1>3, <2>2, <2>3, <2>5, <3>1, DayIsRecorded
    <3>2. CASE group.members = <<>>
      <4>1. history \in [Days -> Entries] /\ day \in Days
        BY DEF DutyInv, DutyTypeOK
      <4>2. \A d \in Days : Recorded(d)' => d <= day
        BY <2>2, <4>1 DEF DutyInv, DutyTypeOK, Recorded, On, Days
      <4>. QED
        BY <1>2, <2>2, <2>3, <2>5, <4>1, <4>2 DEF DutyInv, DutyTypeOK, Swapped
    <3>. QED
      BY <3>1, <3>2
  <2>6. CASE ~group.edited
    <3>1. group.members # <<>> /\ group.created <= day /\ group.created \in Days
      BY <1>1, <2>6 DEF DutyInv, NotEditedInv
    <3>2. ASSUME \A x \in group.created .. day : FairDay(x)'
          PROVE  Turn(history', day) = ByCalendar(group, day)
      <4>1. day \in group.created .. day
        BY <3>1 DEF DutyInv, Days
      <4>2. history'[day] = e
        BY <2>2 DEF DutyInv, DutyTypeOK
      <4>3. e.origin \in {NoUser, ByCalendar(group, day)}
        BY <2>3, <3>2, <4>1, <4>2 DEF FairDay, ByCalendar
      <4>. QED
        BY <2>4, <4>2, <4>3 DEF Turn
    <3>. QED
      BY <1>2, <1>3, <2>2, <2>3, <3>1, <3>2, DayIsRecorded
  <2>. QED
    BY <2>5, <2>6
<1>4. CASE ~(~Recorded(day) /\ Swapped(day))
  <2>1. UNCHANGED <<day, group, swap, history>>
    BY <1>4 DEF FillFromSwap
  <2>2. \/ fill' = Idle
        \/ ~Recorded(day) /\ fill' = [fill EXCEPT !.pc = "rotate"]
    BY DEF FillFromSwap
  <2>3. /\ fill' \in [pc : {"idle", "check", "rotate"}, g : Groups]
        /\ fill'.pc # "idle" => fill'.g = fill.g
        /\ fill'.pc = "rotate" => ~Recorded(day)
    BY <1>1, <1>2, <2>2
  <2>4. ~group.edited => NotEditedInv'
    BY <1>1, <2>1, <2>3 DEF DutyInv, NotEditedInv, Recorded, Swapped, FairDay, ByCalendar
  <2>. QED
    BY <1>1, <2>1, <2>3, <2>4 DEF DutyInv, DutyTypeOK, Recorded, Swapped
<1>. QED
  BY <1>3, <1>4

LEMMA FillFromRotationStep ==
  ASSUME DutyInv, FillFromRotation
  PROVE  DutyInv'
<1>1. /\ fill.pc = "rotate" /\ fill.g.members # <<>> /\ fill.g \in Groups
      /\ ~Recorded(day) /\ day \in Days
  BY DEF DutyInv, DutyTypeOK, FillFromRotation
<1>2. Idle \in [pc : {"idle", "check", "rotate"}, g : Groups] /\ Idle.pc = "idle"
  BY OnDutyAssumption DEF Idle, NoGroup, Groups
<1>3. PICK v \in Members \cup {NoUser} : v = Rotation(fill.g, history, day)
  BY <1>1, RotationIsUser DEF DutyInv
<1>4. PICK e \in Entries : e = [who |-> v, origin |-> NoUser]
  BY DEF Entries
<1>5. history' = [history EXCEPT ![day] = e] /\ fill' = Idle
  <2>1. [NoEntry EXCEPT !.who = v] = e
    BY <1>4 DEF NoEntry
  <2>. QED
    BY <1>3, <2>1 DEF FillFromRotation
<1>6. UNCHANGED <<day, group, swap>>
  BY DEF FillFromRotation
<1>7. history'[day] = e /\ Turn(history', day) = v
  BY <1>1, <1>4, <1>5 DEF DutyInv, DutyTypeOK, Turn
<1>8. CASE group.edited
  <2>1. history' \in [Days -> Entries]
    BY <1>5 DEF DutyInv, DutyTypeOK
  <2>2. \A d \in Days : Recorded(d)' => d <= day
    BY <1>1, <1>5 DEF DutyInv, DutyTypeOK, Recorded, On, Days
  <2>. QED
    BY <1>2, <1>5, <1>6, <1>8, <2>1, <2>2 DEF DutyInv, DutyTypeOK, Swapped
<1>9. CASE ~group.edited
  <2>1. NotEditedInv /\ fill.g = group
    BY <1>1, <1>9 DEF DutyInv, NotEditedInv
  <2>2. group.members # <<>> /\ RotaOf(group)
    BY <1>1, <2>1, GroupsAre
  <2>3. PICK c \in Days : c = group.created /\ c <= day
    BY <2>1, <2>2 DEF NotEditedInv
  <2>4. ~On(history, c - 1)
    <3>. SUFFICES ASSUME On(history, c - 1) PROVE FALSE
      OBVIOUS
    <3>1. c - 1 \in Days /\ Recorded(c - 1)
      BY DEF On, Recorded, DutyInv, DutyTypeOK
    <3>2. c <= c - 1
      BY <2>1, <2>3, <3>1 DEF NotEditedInv
    <3>. QED
      BY <3>2 DEF Days
  <2>5. ASSUME \A x \in c .. day : FairDay(x)'
        PROVE  v = ByCalendar(group, day)
    <3>1. CASE day = c
      <4>1. PICK x \in c .. day : x = day
        BY <3>1 DEF Days
      <4>2. ~Swapped(day)
        BY <1>4, <1>6, <1>7, <2>3, <2>5, <3>1, <4>1 DEF FairDay, Swapped
      <4>. QED
        BY <1>1, <1>3, <2>1, <2>2, <2>4, <3>1, <4>2 DEF Rotation, FillToDayOndutyUser
    <3>2. CASE day # c
      <4>1. c \in Int /\ day \in Int /\ c < day
        BY <1>1, <2>3, <3>2 DEF Days
      <4>2. \A x \in c .. day - 1 : x \in Int /\ x # day /\ x \in c .. day
        BY <4>1
      <4>3. \A x \in c .. day - 1 : history'[x] = history[x]
        BY <1>5, <4>2 DEF DutyInv, DutyTypeOK
      <4>4. \A x \in c .. day - 1 : FairDay(x)
        BY <1>5, <1>6, <2>5, <4>2, <4>3 DEF FairDay, Recorded, On, Swapped, ByCalendar
      <4>5. ASSUME NEW x \in c .. day - 1
            PROVE  On(history, x) /\ Turn(history, x) = ByCalendar(group, x)
        <5>1. Recorded(x) /\ \A y \in group.created .. x : FairDay(y)
          BY <2>3, <4>1, <4>4 DEF FairDay
        <5>2. x \in group.created .. day
          BY <2>3, <4>2
        <5>. QED
          BY <2>1, <5>1, <5>2 DEF NotEditedInv, Recorded
      <4>. QED
        BY <1>3, <2>1, <2>2, <2>3, <2>4, <4>1, <4>5, RotationIsCalendar
    <3>. QED
      BY <3>1, <3>2
  <2>6. (\A x \in group.created .. day : FairDay(x)') =>
          Turn(history', day) = ByCalendar(group, day)
    BY <1>7, <2>3, <2>5
  <2>. QED
    BY <1>1, <1>2, <1>5, <1>6, <2>2, <2>6, DayIsRecorded
<1>. QED
  BY <1>8, <1>9

LEMMA CreateSwapStep ==
  ASSUME DutyInv, NEW d \in Days, NEW o \in Members, NEW t \in Members,
         createMonitorOndutyChange(d, o, t)
  PROVE  DutyInv'
<1>1. PICK e \in Entries : e = [who |-> t, origin |-> o]
  BY DEF Entries
<1>2. swap \in [Days -> Entries] /\ swap' = [swap EXCEPT ![d] = e]
  BY <1>1 DEF createMonitorOndutyChange, DutyInv, DutyTypeOK
<1>3. /\ swap' \in [Days -> Entries] /\ swap'[d] = e
      /\ \A x \in Int : x # d => swap'[x] = swap[x]
  BY <1>2
<1>4. UNCHANGED <<day, group, history, fill>>
  BY DEF createMonitorOndutyChange
<1>5. e # NoEntry /\ e.who \in Members /\ e.origin \in Members
  BY <1>1, OnDutyAssumption DEF NoEntry
<1>6. \A x \in Days : Swapped(x)' => swap'[x].who \in Members /\ swap'[x].origin \in Members
  BY <1>2, <1>3, <1>5 DEF DutyInv, Swapped, On
<1>7. \A x \in Int : Swapped(x) => Swapped(x)'
  BY <1>2, <1>3, <1>5 DEF Swapped, On
<1>8. ASSUME ~group.edited PROVE NotEditedInv'
  <2>1. NotEditedInv
    BY <1>8 DEF DutyInv
  <2>2. \A x \in Int : FairDay(x)' => FairDay(x)
    BY <1>4, <1>7 DEF FairDay, Recorded, ByCalendar
  <2>3. ASSUME NEW x \in group.created .. day, Recorded(x)',
               \A y \in group.created .. x : FairDay(y)'
        PROVE  Turn(history', x) = ByCalendar(group, x)
    <3>1. \A y \in group.created .. x : y \in Int
      OBVIOUS
    <3>2. \A y \in group.created .. x : FairDay(y)
      BY <2>2, <2>3, <3>1
    <3>3. Recorded(x)
      BY <1>4, <2>3 DEF Recorded
    <3>. QED
      BY <1>4, <2>1, <3>2, <3>3 DEF NotEditedInv
  <2>. QED
    BY <1>4, <2>1, <2>3 DEF NotEditedInv, Recorded, ByCalendar
<1>. QED
  BY <1>3, <1>4, <1>6, <1>8 DEF DutyInv, DutyTypeOK, Recorded

LEMMA GroupStep ==
  ASSUME DutyInv, NEW m \in Rotas, NEW s \in Shifts,
         createMonitorOndutyGroup(m, s) \/ updateMonitorOndutyGroup(m, s)
  PROVE  DutyInv'
<1>1. UNCHANGED <<day, swap, history, fill>>
  BY DEF createMonitorOndutyGroup, updateMonitorOndutyGroup
<1>2. CASE createMonitorOndutyGroup(m, s)
  <2>1. /\ group = NoGroup /\ \A d \in Days : ~Recorded(d)
        /\ group' = [members |-> m, shift |-> s, created |-> day, edited |-> FALSE]
    BY <1>2 DEF createMonitorOndutyGroup
  <2>2. day \in Days /\ day \in 0 .. LastDay /\ day <= day
    BY OnDutyAssumption DEF DutyInv, Days
  <2>3. group' \in Groups /\ group'.created = day
    BY <2>1, <2>2 DEF Groups
  <2>4. fill.pc = "idle"
    <3>1. group.members = <<>> /\ ~group.edited
      BY <2>1 DEF NoGroup
    <3>. QED
      BY <3>1 DEF DutyInv, NotEditedInv
  <2>5. \A d \in Days : ~Recorded(d)'
    BY <1>1, <2>1 DEF Recorded
  <2>6. \A d \in group'.created .. day : Recorded(d)' => d \in Days
    BY <1>1 DEF Recorded, On, DutyInv, DutyTypeOK
  <2>7. NotEditedInv'
    BY <1>1, <2>2, <2>3, <2>4, <2>5, <2>6 DEF NotEditedInv
  <2>. QED
    BY <1>1, <2>2, <2>3, <2>4, <2>5, <2>7 DEF DutyInv, DutyTypeOK, Swapped
<1>3. CASE ~createMonitorOndutyGroup(m, s)
  <2>1. group \in Groups
    BY DEF DutyInv, DutyTypeOK
  <2>2. group' = [group EXCEPT !.members = m, !.shift = s, !.edited = TRUE]
    BY <1>3 DEF updateMonitorOndutyGroup
  <2>3. group' \in Groups /\ group'.edited
    BY <2>1, <2>2, OnDutyAssumption DEF Groups, NoGroup
  <2>. QED
    BY <1>1, <2>3 DEF DutyInv, DutyTypeOK, Recorded, Swapped
<1>. QED
  BY <1>2, <1>3

LEMMA PassBeginsStep ==
  ASSUME DutyInv, FullFillOnDutyHistory
  PROVE  DutyInv'
<1>1. /\ fill' = [pc |-> "check", g |-> group] /\ group.members # <<>>
      /\ UNCHANGED <<day, group, swap, history>>
  BY DEF FullFillOnDutyHistory
<1>2. fill' \in [pc : {"idle", "check", "rotate"}, g : Groups]
  BY <1>1 DEF DutyInv, DutyTypeOK
<1>3. ~group.edited => NotEditedInv'
  BY <1>1 DEF DutyInv, NotEditedInv, Recorded, Swapped, FairDay, ByCalendar
<1>. QED
  BY <1>1, <1>2, <1>3 DEF DutyInv, DutyTypeOK, Recorded, Swapped

LEMMA NextDayStep ==
  ASSUME DutyInv, NextDay
  PROVE  DutyInv'
<1>1. /\ fill.pc = "idle" /\ day < LastDay /\ day' = day + 1
      /\ UNCHANGED <<group, swap, history, fill>>
  BY DEF NextDay
<1>2. day \in Days /\ day' \in Days
  BY <1>1, OnDutyAssumption DEF DutyInv, Days
<1>3. \A d \in Days : Recorded(d)' => d <= day'
  BY <1>1, <1>2 DEF DutyInv, DutyTypeOK, Recorded, Days
<1>4. ASSUME ~group.edited PROVE NotEditedInv'
  <2>1. NotEditedInv
    BY <1>4 DEF DutyInv
  <2>2. \A x : FairDay(x)' => FairDay(x)
    BY <1>1 DEF FairDay, Recorded, Swapped, ByCalendar
  <2>3. ASSUME NEW d \in group.created .. day', Recorded(d)',
               \A x \in group.created .. d : FairDay(x)'
        PROVE  Turn(history', d) = ByCalendar(group, d)
    <3>1. Recorded(d) /\ d \in Days
      BY <1>1, <2>3 DEF Recorded, On, DutyInv, DutyTypeOK
    <3>2. d \in group.created .. day
      BY <1>1, <1>2, <2>3, <3>1 DEF DutyInv, DutyTypeOK, Days
    <3>. QED
      BY <1>1, <2>1, <2>2, <2>3, <3>1, <3>2 DEF NotEditedInv
  <2>4. group.members # <<>> => group.created \in Days /\ group.created <= day'
    BY <1>1, <1>2, <2>1 DEF NotEditedInv, Days
  <2>. QED
    BY <1>1, <2>1, <2>3, <2>4 DEF NotEditedInv, Recorded, ByCalendar
<1>. QED
  BY <1>1, <1>2, <1>3, <1>4 DEF DutyInv, DutyTypeOK, Swapped, Days

LEMMA DutyGoesOn ==
  ASSUME DutyInv, DutyNext
  PROVE  DutyInv'
<1>1. ASSUME NEW m \in Rotas, NEW s \in Shifts,
             createMonitorOndutyGroup(m, s) \/ updateMonitorOndutyGroup(m, s)
      PROVE  DutyInv'
  BY <1>1, GroupStep
<1>2. ASSUME deleteMonitorOndutyGroup PROVE DutyInv'
  <2>1. /\ group' = [NoGroup EXCEPT !.edited = TRUE]
        /\ UNCHANGED <<day, swap, history, fill>>
    BY <1>2 DEF deleteMonitorOndutyGroup
  <2>2. group' = [members |-> <<>>, shift |-> 1, created |-> 0, edited |-> TRUE]
    BY <2>1 DEF NoGroup
  <2>3. group' \in Groups /\ group'.edited
    BY <2>2, OnDutyAssumption DEF Groups
  <2>. QED
    BY <2>1, <2>3 DEF DutyInv, DutyTypeOK, Recorded, Swapped
<1>3. ASSUME NEW d \in Days, NEW o \in Members, NEW t \in Members,
             createMonitorOndutyChange(d, o, t)
      PROVE  DutyInv'
  BY <1>3, CreateSwapStep
<1>. QED
  BY <1>1, <1>2, <1>3, PassBeginsStep, FillFromSwapStep, FillFromRotationStep, NextDayStep
     DEF DutyNext

(* RotaKept follows.                                                        *)
LEMMA RotaIsKeptNow ==
  ASSUME DutyInv
  PROVE  RotaKept
<1>. SUFFICES ASSUME ~group.edited, NEW d \in group.created .. day, Recorded(d),
                     \A e \in group.created .. d : HonestDay(e)
              PROVE  Turn(history, d) = ByCalendar(group, d)
  BY DEF RotaKept
<1>1. ASSUME NEW e \in group.created .. d PROVE FairDay(e)
  <2>1. HonestDay(e)
    OBVIOUS
  <2>2. e \in Days
    BY <2>1 DEF HonestDay, Recorded, On, DutyInv, DutyTypeOK
  <2>. QED
    BY <2>1, <2>2, OnDutyAssumption DEF HonestDay, FairDay, DutyInv
<1>. QED
  BY <1>1 DEF DutyInv, NotEditedInv

-----------------------------------------------------------------------------

LEMMA LeastIs ==
  ASSUME NEW X \in SUBSET Nat, X # {}
  PROVE  \E x \in X : \A y \in X : x <= y
<1>1. PICK x \in X : \A y \in X : <<y, x>> \notin OpToRel(<, Nat)
  BY NatLessThanWellFounded, WFMin, Zenon
<1>2. \A y \in X : ~(y < x)
  BY <1>1 DEF OpToRel
<1>. QED
  BY <1>2

(* The days in a row are counted back from yesterday: the count is that of  *)
(* the first day that is not one of them.                                   *)
LEMMA InARow ==
  ASSUME NEW s \in Nat \ {0}, NEW C \in SUBSET (1 .. s - 1),
         \A c \in C : \A b \in 1 .. c : b \in C
  PROVE  \E x \in 1 .. s : /\ 1 + Cardinality(C) = x
                           /\ C = 1 .. x - 1
<1>. DEFINE X == {c \in Nat : c # 0 /\ c \notin C}
<1>1. s \in X
  OBVIOUS
<1>2. PICK x \in X : \A y \in X : x <= y
  BY <1>1, LeastIs
<1>3. x \in 1 .. s /\ x \notin C
  BY <1>1, <1>2
<1>4. \A c \in 1 .. x - 1 : c \in C
  BY <1>2, <1>3
<1>5. ASSUME NEW c \in C PROVE c \in 1 .. x - 1
  <2>1. c \in 1 .. s - 1
    OBVIOUS
  <2>2. ~(x <= c)
    BY <1>3, <2>1
  <2>. QED
    BY <1>3, <2>1, <2>2
<1>6. C = 1 .. x - 1
  BY <1>4, <1>5
<1>7. PICK y \in Int : y = x - 1
  BY <1>3
<1>8. Cardinality(1 .. y) = IF 1 > y THEN 0 ELSE y - 1 + 1
  BY FS_Interval
<1>9. Cardinality(C) = x - 1
  BY <1>3, <1>6, <1>7, <1>8
<1>. QED
  BY <1>3, <1>6, <1>9

(* The plan can be made: today is recorded, it is u's turn, and u is the    *)
(* i-th member.                                                             *)
PlanStarts(i, u) ==
  /\ DutyInv
  /\ i \in DOMAIN group.members /\ u = group.members[i]
  /\ Recorded(day) /\ Turn(history, day) = u
  /\ Swapped(day) => swap[day].origin = u

(* It is u's x-th day in a row, and no more than his turn is counted.       *)
Serves(u, x) ==
  /\ \A e \in day - x + 1 .. day : Recorded(e) /\ Turn(history, e) = u
  /\ x < group.shift => ~(Recorded(day - x) /\ Turn(history, day - x) = u)

LEMMA GroupServes ==
  ASSUME NEW i, NEW u, PlanStarts(i, u)
  PROVE  RotaOf(group)
<1>1. group \in Groups /\ i \in DOMAIN group.members
  BY DEF PlanStarts, DutyInv, DutyTypeOK
<1>2. group.members # <<>>
  BY <1>1
<1>. QED
  BY <1>1, <1>2, GroupsAre

LEMMA PlanCounts ==
  ASSUME NEW i, NEW u, PlanStarts(i, u)
  PROVE  /\ PlanBase(day) = u
         /\ \E x \in 1 .. group.shift : x = ConsecutiveDays(day) /\ Serves(u, x)
<1>1. PICK s \in Nat \ {0} : s = group.shift
  BY GroupServes DEF RotaOf
<1>2. PlanBase(day) = u
  BY DEF PlanBase, PlanStarts
<1>3. PICK D \in Int : D = day
  BY DEF PlanStarts, DutyInv, DutyTypeOK
<1>. DEFINE His(e) == Recorded(e) /\ Turn(history, e) = u
            C == {c \in 1 .. s - 1 : \A e \in D - c .. D - 1 : His(e)}
<1>4. ConsecutiveDays(day) = 1 + Cardinality(C)
  BY <1>1, <1>2, <1>3 DEF ConsecutiveDays
<1>5. His(D)
  BY <1>3 DEF PlanStarts
<1>. HIDE DEF His
<1>6. C \in SUBSET (1 .. s - 1)
  OBVIOUS
<1>7. \A c \in C : \A b \in 1 .. c : b \in C
  BY <1>1
<1>8. \A c \in 1 .. s - 1 : c \in C <=> \A e \in D - c .. D - 1 : His(e)
  OBVIOUS
<1>. HIDE DEF C
<1>9. PICK x \in 1 .. s : 1 + Cardinality(C) = x /\ C = 1 .. x - 1
  BY <1>1, <1>6, <1>7, InARow
<1>10. \A e \in D - x + 1 .. D : His(e)
  <2>1. CASE x = 1
    BY <1>5, <2>1
  <2>2. CASE x # 1
    <3>1. x - 1 \in 1 .. s - 1 /\ x - 1 \in C
      BY <1>9, <2>2
    <3>2. \A e \in D - (x - 1) .. D - 1 : His(e)
      BY <1>8, <3>1
    <3>. QED
      BY <1>5, <3>2
  <2>. QED
    BY <2>1, <2>2
<1>11. x < s => ~His(D - x)
  <2>. SUFFICES ASSUME x < s, His(D - x) PROVE FALSE
    OBVIOUS
  <2>1. x \in 1 .. s - 1 /\ x \notin C
    BY <1>9
  <2>2. PICK e \in D - x .. D - 1 : ~His(e)
    BY <1>8, <2>1
  <2>3. e # D - x /\ e \in D - x + 1 .. D
    BY <2>2
  <2>. QED
    BY <1>10, <2>2, <2>3
<1>. QED
  BY <1>1, <1>2, <1>3, <1>4, <1>9, <1>10, <1>11 DEF Serves, His

(* The plan is a rota of whole turns that began x - 1 days ago.             *)
LEMMA PlanIs ==
  ASSUME NEW i, NEW u, PlanStarts(i, u), NEW x \in 1 .. group.shift,
         x = ConsecutiveDays(day), NEW k \in Nat \ {0}
  PROVE  /\ (k + x - 1) \div group.shift \in Nat
         /\ FuturePlan(day, k) = Successor(group, u, (k + x - 1) \div group.shift)
<1>1. PICK s \in Nat \ {0} : s = group.shift
  BY GroupServes DEF RotaOf
<1>2. x \in 1 .. s /\ PlanBase(day) = u
  BY <1>1, PlanCounts
<1>3. PICK y \in Nat : y = k + x - 1
  BY <1>2
<1>4. PICK q \in Nat : q = y \div s
  BY DivIs
<1>5. CASE k <= s - x
  <2>1. s * 0 <= y /\ y < s * 0 + s
    BY <1>2, <1>3, <1>5
  <2>2. q = 0
    BY <1>4, <2>1, DivUnique
  <2>. QED
    BY <1>1, <1>2, <1>3, <1>4, <1>5, <2>2 DEF FuturePlan
<1>6. CASE ~(k <= s - x)
  <2>1. PICK b \in Nat : b = k - (s - x) - 1
    BY <1>2, <1>6
  <2>2. PICK t \in Nat : t = b \div s /\ s * t <= b /\ b < s * t + s
    BY DivIs
  <2>3. y = b + s
    BY <1>2, <1>3, <2>1
  <2>4. PICK v \in Nat : v = t + 1
    OBVIOUS
  <2>5. s * v = s * t + s /\ s * t \in Nat
    BY <2>4
  <2>6. s * v <= y /\ y < s * v + s
    BY <2>2, <2>3, <2>5
  <2>7. q = v
    BY <1>4, <2>6, DivUnique
  <2>8. FuturePlan(day, k) = Successor(group, u, 1 + t)
    BY <1>1, <1>2, <1>6, <2>1, <2>2 DEF FuturePlan
  <2>. QED
    BY <1>1, <1>3, <1>4, <2>4, <2>7, <2>8
<1>. QED
  BY <1>5, <1>6

(* The history as it would be k days from now, if the plan were right.      *)
AfterDays(k) ==
  [d \in 1 .. day + k |->
     IF d <= day THEN history[d]
     ELSE [who |-> FuturePlan(day, d - day), origin |-> NoUser]]

(* Then the cron job does what is planned for the next day.                 *)
LEMMA RotationIsPlan ==
  ASSUME NEW i, NEW u, PlanStarts(i, u), NEW k \in Nat \ {0}
  PROVE  Rotation(group, AfterDays(k - 1), day + k) = FuturePlan(day, k)
<1>1. PICK s \in Nat \ {0} : s = group.shift
  BY GroupServes DEF RotaOf
<1>2. PICK x \in 1 .. s : x = ConsecutiveDays(day) /\ Serves(u, x)
  BY <1>1, PlanCounts
<1>3. PICK h : h = AfterDays(k - 1)
  OBVIOUS
<1>4. PICK D \in Nat \ {0} : D = day
  BY DEF PlanStarts, DutyInv, Days
<1>5. PICK z \in Int : z = D - x + 1
  BY <1>2
<1>6. PICK d \in Int : d = D + k
  BY <1>4
<1>7. h = [e \in 1 .. d - 1 |->
             IF e <= D THEN history[e]
             ELSE [who |-> FuturePlan(D, e - D), origin |-> NoUser]]
  <2>1. D + (k - 1) = d - 1
    BY <1>6
  <2>. QED
    BY <1>3, <1>4, <2>1 DEF AfterDays
<1>8. ASSUME NEW e \in Int, e <= D
      PROVE  /\ On(h, e) <=> Recorded(e)
             /\ On(h, e) => Turn(h, e) = Turn(history, e)
  <2>1. DOMAIN history = 1 .. LastDay /\ D <= LastDay
    BY <1>4 DEF PlanStarts, DutyInv, DutyTypeOK, Days
  <2>2. e \in DOMAIN h <=> 1 <= e
    BY <1>6, <1>7, <1>8
  <2>3. e \in DOMAIN history <=> 1 <= e
    BY <1>8, <2>1, OnDutyAssumption
  <2>4. 1 <= e => h[e] = history[e]
    BY <1>6, <1>7, <1>8
  <2>. QED
    BY <2>2, <2>3, <2>4 DEF On, Recorded, Turn
<1>9. ASSUME NEW e \in z .. d - 1
      PROVE  On(h, e) /\ Turn(h, e) = Successor(group, u, (e - z) \div s)
  <2>1. CASE e <= D
    <3>1. e \in day - x + 1 .. day
      BY <1>2, <1>4, <1>5, <2>1
    <3>2. Recorded(e) /\ Turn(history, e) = u
      BY <1>2, <3>1 DEF Serves
    <3>3. PICK y \in Nat : y = e - z
      BY <1>5
    <3>4. s * 0 <= y /\ y < s * 0 + s
      BY <1>2, <1>5, <2>1, <3>3
    <3>5. y \div s = 0
      BY <3>4, DivUnique
    <3>6. Successor(group, u, 0) = u
      BY GroupServes, SuccessorNext DEF PlanStarts
    <3>. QED
      BY <1>8, <2>1, <3>2, <3>3, <3>5, <3>6
  <2>2. CASE ~(e <= D)
    <3>1. PICK j \in Nat \ {0} : j = e - D
      BY <2>2
    <3>2. j + x - 1 = e - z
      BY <1>2, <1>5, <3>1
    <3>3. PICK q \in Nat : q = (e - z) \div s
      BY <1>1, <1>2, <3>2, PlanIs
    <3>4. FuturePlan(D, j) = Successor(group, u, q)
      BY <1>1, <1>2, <1>4, <3>2, <3>3, PlanIs
    <3>5. h[e] = [who |-> FuturePlan(D, j), origin |-> NoUser] /\ e \in DOMAIN h
      BY <1>4, <1>7, <2>2, <3>1
    <3>6. Successor(group, u, q) \in Members /\ Successor(group, u, q) # NoUser
      BY GroupServes, SuccessorNext, OnDutyAssumption DEF PlanStarts
    <3>. QED
      BY <3>3, <3>4, <3>5, <3>6 DEF On, Turn, NoEntry
  <2>. QED
    BY <2>1, <2>2
<1>10. d < z + s => ~(On(h, z - 1) /\ Turn(h, z - 1) = u)
  <2>. SUFFICES ASSUME d < z + s, On(h, z - 1), Turn(h, z - 1) = u PROVE FALSE
    OBVIOUS
  <2>1. x < s /\ z - 1 = D - x /\ z - 1 <= D /\ z - 1 \in Int
    BY <1>2, <1>5, <1>6
  <2>2. ~(Recorded(D - x) /\ Turn(history, D - x) = u)
    BY <1>1, <1>2, <1>4, <2>1 DEF Serves
  <2>3. Recorded(z - 1) /\ Turn(history, z - 1) = u
    BY <1>8, <2>1
  <2>. QED
    BY <2>1, <2>2, <2>3
<1>11. InTurns(group, h, u, z, d) /\ BeginsOn(group, h, u, z, d)
  BY <1>1, <1>9, <1>10 DEF InTurns, BeginsOn
<1>12. z < d
  BY <1>2, <1>5, <1>6
<1>13. Rotation(group, h, d) = Successor(group, u, (d - z) \div s)
  BY <1>1, <1>11, <1>12, GroupServes, RotationGoesOn DEF PlanStarts
<1>14. d - z = k + x - 1
  BY <1>2, <1>5, <1>6
<1>. QED
  BY <1>1, <1>2, <1>3, <1>4, <1>6, <1>13, <1>14, PlanIs

-----------------------------------------------------------------------------
(* The recursion of Forecast.                                               *)
NextForecasts(n, f) ==
  [k \in 0 .. n |->
     IF k = 0 THEN [d \in 1 .. day |-> history[d]]
     ELSE [d \in 1 .. day + k |->
             IF d < day + k THEN f[k - 1][d]
             ELSE [NoEntry EXCEPT !.who = Rotation(group, f[k - 1], d)]]]

LEMMA ForecastIs ==
  ASSUME NEW n \in Nat, NEW F, F = NextForecasts(n, F)
  PROVE  \E f : f = NextForecasts(n, f) /\ Forecast(n) = f[n]
<1>. DEFINE a == CHOOSE f : f = NextForecasts(n, f)
<1>1. Forecast(n) = a[n]
  BY Zenon DEF Forecast, NextForecasts
<1>2. a = NextForecasts(n, a)
  BY Zenon
<1>. QED
  BY <1>1, <1>2, Zenon

(* One more day of the plan is one more pass of the cron job.               *)
LEMMA AfterDaysNext ==
  ASSUME NEW i, NEW u, PlanStarts(i, u), NEW k \in Nat \ {0}
  PROVE  AfterDays(k) =
           [d \in 1 .. day + k |->
              IF d < day + k THEN AfterDays(k - 1)[d]
              ELSE [NoEntry EXCEPT !.who = Rotation(group, AfterDays(k - 1), d)]]
<1>1. PICK D \in Nat \ {0} : D = day
  BY DEF PlanStarts, DutyInv, Days
<1>2. PICK r : r = FuturePlan(day, k)
  OBVIOUS
<1>3. Rotation(group, AfterDays(k - 1), D + k) = r
  BY <1>1, <1>2, RotationIsPlan
<1>4. [NoEntry EXCEPT !.who = r] = [who |-> r, origin |-> NoUser]
  BY DEF NoEntry
<1>5. ASSUME NEW d \in 1 .. D + k
      PROVE  AfterDays(k)[d] =
               IF d < D + k THEN AfterDays(k - 1)[d]
               ELSE [NoEntry EXCEPT !.who = Rotation(group, AfterDays(k - 1), d)]
  <2>1. CASE d < D + k
    <3>1. d \in 1 .. D + (k - 1)
      BY <2>1
    <3>. QED
      BY <1>1, <2>1, <3>1 DEF AfterDays
  <2>2. CASE ~(d < D + k)
    <3>1. d = D + k /\ ~(d <= D) /\ d - D = k
      BY <2>2
    <3>2. AfterDays(k)[d] = [who |-> r, origin |-> NoUser]
      BY <1>1, <1>2, <3>1 DEF AfterDays
    <3>. QED
      BY <1>3, <1>4, <2>2, <3>1, <3>2
  <2>. QED
    BY <2>1, <2>2
<1>6. AfterDays(k) = [d \in 1 .. D + k |-> AfterDays(k)[d]]
  BY <1>1 DEF AfterDays
<1>. QED
  BY <1>1, <1>5, <1>6

LEMMA ForecastIsPlan ==
  ASSUME NEW i, NEW u, PlanStarts(i, u), NEW n \in Nat
  PROVE  Forecast(n) = AfterDays(n)
<1>. DEFINE F == [k \in 0 .. n |-> AfterDays(k)]
<1>1. AfterDays(0) = [d \in 1 .. day |-> history[d]]
  <2>1. day \in Nat /\ day + 0 = day
    BY DEF PlanStarts, DutyInv, DutyTypeOK
  <2>. QED
    BY <2>1 DEF AfterDays
<1>2. ASSUME NEW k \in 0 .. n, k # 0
      PROVE  /\ k \in Nat \ {0} /\ k - 1 \in 0 .. n
             /\ AfterDays(k) =
                  [d \in 1 .. day + k |->
                     IF d < day + k THEN AfterDays(k - 1)[d]
                     ELSE [NoEntry EXCEPT !.who = Rotation(group, AfterDays(k - 1), d)]]
  BY <1>2, AfterDaysNext
<1>3. F = NextForecasts(n, F)
  <2>1. ASSUME NEW k \in 0 .. n PROVE F[k] = NextForecasts(n, F)[k]
    <3>1. CASE k = 0
      BY <1>1, <3>1 DEF NextForecasts
    <3>2. CASE k # 0
      <4>1. k - 1 \in 0 .. n /\ F[k - 1] = AfterDays(k - 1)
        BY <1>2, <3>2
      <4>. QED
        BY <1>2, <3>2, <4>1, Zenon DEF NextForecasts
    <3>. QED
      BY <3>1, <3>2
  <2>. QED
    BY <2>1 DEF NextForecasts
<1>4. PICK f : f = NextForecasts(n, f) /\ Forecast(n) = f[n]
  BY <1>3, ForecastIs
<1>5. ASSUME NEW k \in 0 .. n, f[k] # AfterDays(k) PROVE FALSE
  <2>. DEFINE X == {j \in 0 .. n : f[j] # AfterDays(j)}
  <2>1. PICK j \in X : \A y \in X : j <= y
    <3>1. X \in SUBSET Nat /\ X # {}
      BY <1>5
    <3>. QED
      BY <3>1, LeastIs
  <2>2. j # 0
    BY <1>1, <1>4 DEF NextForecasts
  <2>3. j - 1 \in 0 .. n /\ ~(j <= j - 1)
    BY <2>2
  <2>4. f[j - 1] = AfterDays(j - 1)
    BY <2>1, <2>3
  <2>5. f[j] = AfterDays(j)
    BY <1>2, <1>4, <2>2, <2>4 DEF NextForecasts
  <2>. QED
    BY <2>5
<1>. QED
  BY <1>4, <1>5

LEMMA PlanComesTrueNow ==
  ASSUME DutyInv
  PROVE  PlanComesTrue
<1>. SUFFICES ASSUME /\ Recorded(day)
                     /\ \E i \in DOMAIN group.members : group.members[i] = Turn(history, day)
                     /\ Swapped(day) => swap[day].origin = Turn(history, day),
                     NEW k \in 1 .. Horizon
              PROVE  FuturePlan(day, k) = Forecast(Horizon)[day + k].who
  BY DEF PlanComesTrue
<1>1. PICK i, u : PlanStarts(i, u)
  BY DEF PlanStarts
<1>2. Forecast(Horizon) = AfterDays(Horizon)
  BY <1>1, ForecastIsPlan, OnDutyAssumption
<1>3. PICK D \in Nat : D = day
  BY DEF DutyInv, DutyTypeOK
<1>4. D + k \in 1 .. D + Horizon /\ ~(D + k <= D) /\ (D + k) - D = k
  BY OnDutyAssumption
<1>. QED
  BY <1>2, <1>3, <1>4 DEF AfterDays

LEMMA DutyStutters ==
  ASSUME DutyInv, UNCHANGED dutyVars
  PROVE  DutyInv'
BY DEF dutyVars, DutyInv, DutyTypeOK, NotEditedInv, FairDay, Recorded, Swapped, Turn, ByCalendar

-----------------------------------------------------------------------------
(* The synchronisation with the clouds.                                     *)
(*                                                                          *)
(* A pass works with lists that were made steps ago: CloudInv says what is  *)
(* still true of them when they are used, above all that what a pass is     *)
(* going to delete is bound to nothing that is to stay.  QuietInv says what *)
(* more is true of a pass that nothing came between: how far the tables are *)
(* what the clouds are, step by step.                                       *)

(* The records of the tables and of the passes.                             *)
Hashes == [ip : Ips \cup {Blank}, spec : 0 .. 2]

RowRecords == [vendor : {"self", "godaddy", Blank} \cup Accounts, vm : 0 .. 2,
               ip : Ips \cup {Blank}, hash : Hashes]

LaterRecords == [row : RowRecords, link : Assets \cup {Blank}]

OfAssets(S) == UNION {[T -> S] : T \in SUBSET Assets}

PassRecords == [pc : {"none", "read", "fetch", "save"},
                db : OfAssets(Hashes), all : OfAssets(RowRecords),
                add : SUBSET Assets, mod : SUBSET Assets, del : SUBSET Assets,
                short : SUBSET Accounts]

DnsRecords == [pc : {"none", "fetch", "save", "link"},
               db : OfAssets(Hashes), all : OfAssets(RowRecords),
               add : SUBSET Assets, mod : SUBSET Assets, del : SUBSET Assets,
               unlinked : SUBSET Assets]

RequestRecords == [op : {"none", "bind", "unbind", "delete", "ended"},
                   asset : Assets \cup {"none"}, node : TreeNodes \cup {Root},
                   read : SUBSET born]

OfKind(k) == {i \in CloudInstances : KindOfAsset(i) = k}

OfAccount(k, a) == {i \in CloudInstances : KindOfAsset(i) = k /\ VendorOf(i) = a}

(* What an account tells when it answers.                                   *)
Told(k, a) == IF a = "aliyun" THEN FirstPage(Listed(k, a)) ELSE {Listed(k, a)}

-----------------------------------------------------------------------------
(* The tree: a request names nodes that were there.                         *)
TreeInv ==
  /\ TreeTypeOK
  /\ req \in [TreeRequests -> RequestRecords]
  /\ \A r \in TreeRequests : req[r].op \in {"bind", "unbind"} => req[r].node \in born

(* What a row of a cloud's instance says: the hash is of the address.       *)
ShowsInstance(i, x) ==
  /\ x.vendor = VendorOf(i) /\ x.vm = 1
  /\ KindOfAsset(i) # "rds" => x.hash.ip = x.ip

ShowsAsset(u, x) ==
  /\ u \in CloudInstances => ShowsInstance(u, x)
  /\ u \in Records => x.hash.ip = x.ip

RowsInv ==
  /\ row \in [Assets -> RowRecords]
  /\ \A u \in rows \cap Hosts : row[u].vendor = "self" /\ row[u].vm = 2
  /\ \A u \in rows : ShowsAsset(u, row[u])
  /\ \A i \in rows \cap CloudInstances : cloud[i] # "unborn"
  /\ \A u \in Assets \ rows : row[u] = NoRow
  /\ \A o \in Purchases : order[o] = "pending" => o \notin rows

(* Second rows.                                                             *)
LaterInv ==
  /\ later \in [Assets -> LaterRecords]
  /\ \A u \in Assets : Twice(u) =>
       u \in rows /\ KindOfAsset(u) \in {"rds", "dns"} /\ ShowsAsset(u, later[u].row)

LinksInv ==
  /\ link \in [Records -> Assets \cup {Blank}]
  /\ \A n \in Records : link[n] # Blank => n \in rows

WorldInv ==
  /\ cloud \in [CloudInstances -> Ips \cup {"unborn", "gone"}]
  /\ spec \in [CloudInstances -> {1, 2}]
  /\ zone \in [Records -> Ips \cup {Blank}]
  /\ order \in [Purchases -> {"pending", "done"}]
  /\ cloudChanges \in 0 .. MaxCloudChanges /\ faults \in 0 .. MaxFaults
  /\ quiet \in BOOLEAN

(* The rows that a pass may delete: those of a machine with an agent are    *)
(* not among them, and of an account that told of all it has only those of  *)
(* instances that are gone, which no cloud brings back.                     *)
PassInv(k, p) ==
  /\ p \in PassRecords
  /\ p.add \cup p.mod \subseteq DOMAIN p.all
  /\ \A i \in DOMAIN p.all :
       i \in OfKind(k) /\ cloud[i] # "unborn" /\ ShowsInstance(i, p.all[i])
  /\ \A u \in DOMAIN p.db :
       KindOfAsset(u) = k /\ u \notin Hosts /\ (u \in CloudInstances => cloud[u] # "unborn")
  /\ \A u \in p.del :
       /\ KindOfAsset(u) = k /\ u \notin Hosts
       /\ u \in CloudInstances => cloud[u] = "gone" \/ VendorOf(u) \in p.short

DnsInv(p) ==
  /\ p \in DnsRecords
  /\ p.add \cup p.mod \subseteq DOMAIN p.all
  /\ \A n \in DOMAIN p.all : n \in Records /\ p.all[n].hash.ip = p.all[n].ip

CloudInv ==
  /\ TreeInv /\ RowsInv /\ LaterInv /\ WorldInv
  /\ stage \in {"idle", "base", "dns"}
  /\ pass \in [AssetKinds -> PassRecords]
  /\ \A k \in AssetKinds : PassInv(k, pass[k]) /\ (pass[k].pc = "none" <=> stage # "base")
  /\ DnsInv(dns) /\ (dns.pc = "none" <=> stage # "dns")
  /\ dns.unlinked \subseteq rows \cap Records
  /\ dns.pc # "link" => dns.unlinked = {}
  /\ LinksInv

-----------------------------------------------------------------------------
(* What a pass during which nothing happens has still to do.                *)
AsItIs(k, i, x) ==
  /\ x.hash = GenHash(k, cloud[i], spec[i])
  /\ k # "rds" => x.ip = cloud[i]

InstanceAwaits(p, k, i) ==
  /\ i \in DOMAIN p.all => /\ AsItIs(k, i, p.all[i]) /\ i \in rows \cup p.add
                           /\ i \in rows => AsItIs(k, i, row[i]) \/ i \in p.mod
  /\ i \notin DOMAIN p.all /\ i \in rows => i \in p.del
  /\ i \in p.add => i \notin rows
  /\ i \in p.del => i \notin DOMAIN p.all

AllTold(k, S) == \A a \in Accounts : S \cap OfAccount(k, a) \in Told(k, a)

QuietPass(k) ==
  /\ pass[k].pc = "fetch" => pass[k].db = GetUidAndHash(k)
  /\ pass[k].pc = "save" =>
       /\ AllTold(k, DOMAIN pass[k].all)
       /\ \A i \in OfKind(k) : InstanceAwaits(pass[k], k, i)

InstancesThere ==
  \A k \in AssetKinds :
    /\ AllTold(k, rows)
    /\ \A i \in OfKind(k) : i \in rows => AsItIs(k, i, row[i])

RecordAwaits(p, n) ==
  /\ n \in DOMAIN p.all <=> zone[n] # Blank
  /\ n \in DOMAIN p.all => p.all[n].ip = zone[n]
  /\ zone[n] # Blank => n \in rows \cup p.add
  /\ zone[n] # Blank /\ n \in rows => row[n].ip = zone[n] \/ n \in p.add \cup p.mod
  /\ n \in rows /\ zone[n] = Blank => n \in p.del \/ Settled(n)
  /\ n \in p.del => zone[n] = Blank

RecordShown(n) ==
  /\ zone[n] # Blank => n \in rows /\ row[n].ip = zone[n]
  /\ n \in rows /\ zone[n] = Blank => Settled(n)

QuietDns ==
  /\ dns.pc = "fetch" => dns.db = GetUidAndHash("dns")
  /\ dns.pc = "save" => \A n \in Records : RecordAwaits(dns, n)
  /\ dns.pc = "link" => \A n \in Records :
       /\ RecordShown(n)
       /\ n \in rows /\ link[n] = Blank =>
            n \in dns.unlinked \/ associateDnsWithAsset(row[n].ip, AssetKinds) = {Blank}

QuietInv ==
  quiet =>
    /\ \A u \in Assets : ~Twice(u)
    /\ stage = "base" => \A k \in AssetKinds : QuietPass(k)
    /\ stage = "dns" => InstancesThere /\ QuietDns

-----------------------------------------------------------------------------
(* The kinds of assets keep their keys apart.                               *)
LEMMA Apart ==
  /\ \A n \in Records : n \in Assets /\ KindOfAsset(n) = "dns"
  /\ \A n \in Records : n \notin CloudInstances /\ n \notin Hosts /\ n \notin Purchases
  /\ \A i \in CloudInstances : /\ i \in Assets /\ KindOfAsset(i) \in AssetKinds
                               /\ VendorOf(i) \in Accounts
                               /\ i \notin Hosts /\ i \notin Purchases
  /\ \A s \in Hosts : s \in Assets /\ KindOfAsset(s) = "ecs" /\ s \notin Purchases
  /\ \A o \in Purchases : o \in Assets /\ KindOfAsset(o) = "ecs"
  /\ \A u \in Assets : KindOfAsset(u) = "dns" => u \in Records
BY CloudSyncAssumption DEF AssetKinds

LEMMA OfAssetsIs ==
  ASSUME NEW S, NEW T \in SUBSET Assets, NEW f \in [T -> S]
  PROVE  f \in OfAssets(S)
BY DEF OfAssets

LEMMA OfAssetsHas ==
  ASSUME NEW S, NEW f \in OfAssets(S)
  PROVE  DOMAIN f \in SUBSET Assets /\ \A u \in DOMAIN f : f[u] \in S
BY DEF OfAssets

LEMMA NoRowIs ==
  /\ NoRow \in RowRecords /\ NoRow.hash.ip = NoRow.ip
  /\ NoLater \in LaterRecords /\ NoLater.row = NoRow /\ NoLater.link = Blank
BY DEF NoRow, RowRecords, Hashes, Hash, NoLater, LaterRecords

LEMMA EmptyIs ==
  /\ DOMAIN Empty = {}
  /\ Empty \in OfAssets(Hashes) /\ Empty \in OfAssets(RowRecords)
<1>1. DOMAIN Empty = {} /\ {} \in SUBSET Assets
  BY DEF Empty
<1>2. Empty \in [{} -> Hashes] /\ Empty \in [{} -> RowRecords]
  BY DEF Empty
<1>. QED
  BY <1>1, <1>2, OfAssetsIs

LEMMA NoPassIs ==
  ASSUME NEW k \in AssetKinds
  PROVE  PassInv(k, NoPass) /\ NoPass.pc = "none"
BY EmptyIs DEF NoPass, PassInv, PassRecords

LEMMA NoDnsIs ==
  DnsInv(NoDns) /\ NoDns.pc = "none" /\ NoDns.unlinked = {}
BY EmptyIs DEF NoDns, DnsInv, DnsRecords

LEMMA CloudBegins ==
  ASSUME CloudInit
  PROVE  CloudInv /\ QuietInv
<1>1. TreeInv
  <2>1. NoRequest \in RequestRecords /\ NoRequest.op = "none" /\ NoRequest.read = {}
    BY DEF NoRequest, RequestRecords
  <2>2. \A r \in TreeRequests : req[r] = NoRequest
    BY DEF CloudInit, TreeInit
  <2>. QED
    BY <2>1, <2>2 DEF TreeInv, TreeTypeOK, CloudInit, TreeInit
<1>2. RowsInv
  BY NoRowIs DEF RowsInv, CloudInit, TreeInit
<1>5. LaterInv /\ \A u \in Assets : ~Twice(u)
  BY NoRowIs DEF LaterInv, Twice, CloudInit, TreeInit
<1>3. WorldInv
  <2>1. \A i \in CloudInstances : FoundAt(i) \in Ips \cup {"unborn", "gone"}
    BY CloudSyncAssumption
  <2>2. \A n \in Records : FoundAt(n) \in Ips \cup {Blank}
    BY CloudSyncAssumption
  <2>3. 0 \in 0 .. MaxCloudChanges /\ 0 \in 0 .. MaxFaults
    BY CloudSyncAssumption
  <2>4. cloud \in [CloudInstances -> Ips \cup {"unborn", "gone"}]
    BY <2>1 DEF CloudInit
  <2>5. zone \in [Records -> Ips \cup {Blank}]
    BY <2>2 DEF CloudInit
  <2>. QED
    BY <2>3, <2>4, <2>5 DEF WorldInv, CloudInit
<1>4. pass \in [AssetKinds -> PassRecords] /\ \A k \in AssetKinds : pass[k] = NoPass
  BY NoPassIs DEF CloudInit, PassInv
<1>. QED
  BY <1>1, <1>2, <1>3, <1>4, <1>5, NoPassIs, NoDnsIs DEF CloudInv, LinksInv, QuietInv, CloudInit

-----------------------------------------------------------------------------
(* What a step does not touch.                                              *)
LEMMA TreeRests ==
  ASSUME TreeInv, UNCHANGED treeVars
  PROVE  TreeInv'
BY DEF TreeInv, TreeTypeOK, RequestRecords, treeVars

LEMMA TablesRest ==
  ASSUME CloudInv, UNCHANGED <<treeVars, row, later, order, cloud>>
  PROVE  TreeInv' /\ RowsInv' /\ LaterInv'
<1>1. TreeInv'
  BY TreeRests DEF CloudInv
<1>2. RowsInv'
  BY DEF CloudInv, RowsInv, ShowsAsset, ShowsInstance, treeVars
<1>3. LaterInv'
  BY DEF CloudInv, LaterInv, ShowsAsset, ShowsInstance, Twice, treeVars
<1>. QED
  BY <1>1, <1>2, <1>3

LEMMA LaterRests ==
  ASSUME CloudInv, UNCHANGED later, rows \subseteq rows'
  PROVE  LaterInv'
BY DEF CloudInv, LaterInv, ShowsAsset, ShowsInstance, Twice

LEMMA WorldRests ==
  ASSUME CloudInv, UNCHANGED <<order, worldVars>>, faults' \in 0 .. MaxFaults, quiet' \in BOOLEAN
  PROVE  WorldInv'
BY DEF CloudInv, WorldInv, worldVars

LEMMA PassesRest ==
  ASSUME CloudInv, UNCHANGED <<cloud, pass>>
  PROVE  \A k \in AssetKinds : PassInv(k, pass[k])'
BY DEF CloudInv, PassInv, ShowsInstance, OfKind

LEMMA DnsRests ==
  ASSUME CloudInv, UNCHANGED dns
  PROVE  DnsInv(dns)'
BY DEF CloudInv, DnsInv

(* A pass does not mind changes in the clouds.                              *)
LEMMA CloudsGoOn ==
  ASSUME WorldInv, NEW i \in CloudInstances, NEW ip \in Ips \cup {"gone"},
         CloudChanges(i, ip), NEW j \in CloudInstances
  PROVE  /\ cloud[j] # "unborn" => cloud'[j] # "unborn"
         /\ cloud[j] = "gone" => cloud'[j] = "gone"
<1>1. cloud' = [cloud EXCEPT ![i] = ip] /\ cloud \in [CloudInstances -> Ips \cup {"unborn", "gone"}]
  BY DEF CloudChanges, WorldInv
<1>2. cloud[i] # "gone" /\ ip # "unborn"
  BY CloudSyncAssumption DEF CloudChanges, Up
<1>. QED
  BY <1>1, <1>2

LEMMA PassesGoOn ==
  ASSUME NEW k \in AssetKinds, NEW p, PassInv(k, p),
         \A j \in CloudInstances : /\ cloud[j] # "unborn" => cloud'[j] # "unborn"
                                   /\ cloud[j] = "gone" => cloud'[j] = "gone"
  PROVE  PassInv(k, p)'
BY DEF PassInv, OfKind, ShowsInstance, PassRecords, OfAssets, RowRecords, Hashes

LEMMA DnsGoesOn ==
  ASSUME NEW p, DnsInv(p)
  PROVE  DnsInv(p)'
BY DEF DnsInv

(* The bounds count.                                                        *)
LEMMA FaultCounts ==
  ASSUME WorldInv, Fault
  PROVE  faults' \in 0 .. MaxFaults /\ quiet' = FALSE
BY CloudSyncAssumption DEF Fault, WorldInv

LEMMA CloudChangesStep ==
  ASSUME CloudInv, NEW i \in CloudInstances, NEW ip \in Ips \cup {"gone"},
         CloudChanges(i, ip)
  PROVE  CloudInv'
<1>1. WorldInv
  BY DEF CloudInv
<1>2. /\ UNCHANGED <<treeVars, row, later, link, order, spec, zone, syncVars, faults>>
      /\ cloudChanges' \in 0 .. MaxCloudChanges /\ quiet' = FALSE
      /\ cloud' = [cloud EXCEPT ![i] = ip]
  BY <1>1, CloudSyncAssumption DEF CloudChanges, CloudChange, WorldInv
<1>3. \A j \in CloudInstances : /\ cloud[j] # "unborn" => cloud'[j] # "unborn"
                                /\ cloud[j] = "gone" => cloud'[j] = "gone"
  BY <1>1, CloudsGoOn
<1>4. WorldInv'
  BY <1>1, <1>2 DEF WorldInv
<1>5. TreeInv' /\ LaterInv'
  BY <1>2, TreeRests, LaterRests DEF CloudInv, treeVars
<1>8. RowsInv'
  BY <1>2, <1>3 DEF CloudInv, treeVars, RowsInv, ShowsAsset, ShowsInstance
<1>6. \A k \in AssetKinds : PassInv(k, pass[k])'
  <2>. SUFFICES ASSUME NEW k \in AssetKinds PROVE PassInv(k, pass[k])'
    OBVIOUS
  <2>1. PICK p : p = pass[k]
    OBVIOUS
  <2>2. PassInv(k, p)'
    BY <1>3, <2>1, PassesGoOn DEF CloudInv
  <2>. QED
    BY <1>2, <2>1, <2>2 DEF syncVars
<1>7. DnsInv(dns)'
  BY <1>2, DnsRests DEF syncVars
<1>. QED
  BY <1>2, <1>4, <1>5, <1>6, <1>7, <1>8 DEF CloudInv, LinksInv, syncVars, treeVars

LEMMA SpecChangesStep ==
  ASSUME CloudInv, NEW i \in CloudInstances, SpecChanges(i)
  PROVE  CloudInv'
<1>1. WorldInv
  BY DEF CloudInv
<1>2. /\ UNCHANGED <<treeVars, row, later, link, order, cloud, zone, syncVars, faults>>
      /\ cloudChanges' \in 0 .. MaxCloudChanges /\ quiet' = FALSE
      /\ spec' = [spec EXCEPT ![i] = 3 - spec[i]]
  BY <1>1, CloudSyncAssumption DEF SpecChanges, CloudChange, WorldInv
<1>3. spec' \in [CloudInstances -> {1, 2}]
  BY <1>1, <1>2 DEF WorldInv
<1>4. WorldInv'
  BY <1>1, <1>2, <1>3 DEF WorldInv
<1>5. TreeInv' /\ RowsInv' /\ LaterInv'
  BY <1>2, TablesRest
<1>6. (\A k \in AssetKinds : PassInv(k, pass[k])') /\ DnsInv(dns)'
  BY <1>2, PassesRest, DnsRests DEF syncVars
<1>. QED
  BY <1>2, <1>4, <1>5, <1>6 DEF CloudInv, LinksInv, syncVars, treeVars

LEMMA ZoneChangesStep ==
  ASSUME CloudInv, NEW n \in Records, NEW ip \in Ips \cup {Blank}, ZoneChanges(n, ip)
  PROVE  CloudInv'
<1>1. WorldInv
  BY DEF CloudInv
<1>2. /\ UNCHANGED <<treeVars, row, later, link, order, cloud, spec, syncVars, faults>>
      /\ cloudChanges' \in 0 .. MaxCloudChanges /\ quiet' = FALSE
      /\ zone' = [zone EXCEPT ![n] = ip]
  BY <1>1, CloudSyncAssumption DEF ZoneChanges, CloudChange, WorldInv
<1>4. WorldInv'
  BY <1>1, <1>2 DEF WorldInv
<1>5. TreeInv' /\ RowsInv' /\ LaterInv'
  BY <1>2, TablesRest
<1>6. (\A k \in AssetKinds : PassInv(k, pass[k])') /\ DnsInv(dns)'
  BY <1>2, PassesRest, DnsRests DEF syncVars
<1>. QED
  BY <1>2, <1>4, <1>5, <1>6 DEF CloudInv, LinksInv, syncVars, treeVars

LEMMA AgentStep ==
  ASSUME CloudInv, NEW s \in Hosts, AgentInfoReport(s)
  PROVE  CloudInv'
<1>1. /\ rows' = rows \cup {s}
      /\ row' = [row EXCEPT ![s] = SelfRow(s)]
      /\ quiet' = FALSE
      /\ UNCHANGED <<born, nodes, pid, bound, req, later, link, order, worldVars, syncVars,
                     faults>>
  BY DEF AgentInfoReport
<1>2. SelfRow(s) \in RowRecords /\ SelfRow(s).vendor = "self" /\ SelfRow(s).vm = 2
  BY CloudSyncAssumption DEF SelfRow, RowRecords, Hashes, Hash
<1>3. s \in Assets /\ s \notin CloudInstances /\ s \notin Records /\ s \notin Purchases
  BY Apart
<1>4. TreeInv'
  BY <1>1, <1>3 DEF CloudInv, TreeInv, TreeTypeOK, RequestRecords
<1>5. RowsInv'
  BY <1>1, <1>2, <1>3 DEF CloudInv, RowsInv, ShowsAsset, ShowsInstance, worldVars
<1>6. LaterInv' /\ WorldInv'
  BY <1>1, LaterRests, WorldRests DEF CloudInv, WorldInv
<1>7. (\A k \in AssetKinds : PassInv(k, pass[k])') /\ DnsInv(dns)'
  BY <1>1, PassesRest, DnsRests DEF syncVars, worldVars
<1>. QED
  BY <1>1, <1>4, <1>5, <1>6, <1>7 DEF CloudInv, LinksInv, syncVars

LEMMA OrderStep ==
  ASSUME CloudInv, NEW o \in Purchases, NEW title, RunAutoOrderOneByEcs(o, title)
  PROVE  CloudInv'
<1>1. /\ order' = [order EXCEPT ![o] = "done"]
      /\ rows' = rows \cup {o}
      /\ row' = [row EXCEPT ![o] = OrderRow(o)]
      /\ bound' = [bound EXCEPT ![o] = autoBindToStreeNode(title)]
      /\ quiet' = FALSE
      /\ UNCHANGED <<born, nodes, pid, req, later, link, worldVars, syncVars, faults>>
  BY DEF RunAutoOrderOneByEcs
<1>2. OrderRow(o) \in RowRecords
  BY CloudSyncAssumption DEF OrderRow, RowRecords, Hashes, Hash
<1>3. o \in Assets /\ o \notin CloudInstances /\ o \notin Records /\ o \notin Hosts
  BY Apart
<1>4. autoBindToStreeNode(title) \in SUBSET nodes
  BY DEF autoBindToStreeNode
<1>5. TreeInv'
  BY <1>1, <1>3, <1>4 DEF CloudInv, TreeInv, TreeTypeOK, RequestRecords
<1>6. RowsInv'
  BY <1>1, <1>2, <1>3 DEF CloudInv, RowsInv, WorldInv, ShowsAsset, ShowsInstance, worldVars
<1>7. LaterInv' /\ WorldInv'
  <2>1. LaterInv'
    BY <1>1, LaterRests
  <2>2. WorldInv'
    BY <1>1 DEF CloudInv, WorldInv, worldVars
  <2>. QED
    BY <2>1, <2>2
<1>8. (\A k \in AssetKinds : PassInv(k, pass[k])') /\ DnsInv(dns)'
  BY <1>1, PassesRest, DnsRests DEF syncVars, worldVars
<1>. QED
  BY <1>1, <1>5, <1>6, <1>7, <1>8 DEF CloudInv, LinksInv, syncVars

LEMMA TreeStep ==
  ASSUME CloudInv, TreeNext
  PROVE  TreeInv' /\ rows' = rows
<1>. DEFINE Req == [op : {"none", "bind", "unbind", "delete", "ended"},
                    asset : Assets \cup {"none"}, node : TreeNodes \cup {Root},
                    read : SUBSET TreeNodes]
            ReqInv(q) == /\ q \in Req /\ q.read \subseteq born
                         /\ q.op \in {"bind", "unbind"} => q.node \in born /\ q.asset \in rows
<1>1. /\ rows \subseteq Assets /\ nodes \subseteq born /\ born \subseteq TreeNodes
      /\ pid \in [TreeNodes -> TreeNodes \cup {Root}]
      /\ bound \in [Assets -> SUBSET nodes]
      /\ \A u \in Assets \ rows : bound[u] = {}
      /\ req \in [TreeRequests -> Req] /\ \A r \in TreeRequests : ReqInv(req[r])
  BY DEF CloudInv, TreeInv, TreeTypeOK, RequestRecords
<1>2. ASSUME rows' \subseteq Assets, nodes' \subseteq born', born' \subseteq TreeNodes,
             pid' \in [TreeNodes -> TreeNodes \cup {Root}],
             bound' \in [Assets -> SUBSET nodes'],
             \A u \in Assets \ rows' : bound'[u] = {},
             req' \in [TreeRequests -> Req],
             \A r \in TreeRequests : ReqInv(req[r])'
      PROVE  TreeInv'
  BY <1>2 DEF TreeInv, TreeTypeOK, RequestRecords
<1>3. ASSUME NEW n \in TreeNodes, NEW p \in TreeNodes \cup {Root}, createStreeNode(n, p)
      PROVE  TreeInv' /\ rows' = rows
  <2>1. /\ born' = born \cup {n} /\ nodes' = nodes \cup {n}
        /\ pid' = [pid EXCEPT ![n] = p] /\ UNCHANGED <<rows, bound, req>>
    BY <1>3 DEF createStreeNode
  <2>. QED
    BY <1>1, <1>2, <2>1
<1>4. ASSUME NEW n \in TreeNodes, NEW p \in TreeNodes \cup {Root}, updateStreeNode(n, p)
      PROVE  TreeInv' /\ rows' = rows
  <2>1. pid' = [pid EXCEPT ![n] = p] /\ UNCHANGED <<rows, born, nodes, bound, req>>
    BY <1>4 DEF updateStreeNode
  <2>. QED
    BY <1>1, <1>2, <2>1
<1>5. Ended \in Req /\ Ended.op = "ended" /\ Ended.read = {}
  BY DEF Ended, NoRequest
<1>6. ASSUME NEW r \in TreeRequests, DeleteOne(r)
      PROVE  TreeInv' /\ rows' = rows
  <2>1. PICK n : n = req[r].node
    OBVIOUS
  <2>2. /\ nodes' = nodes \ {n} /\ bound' = [u \in Assets |-> bound[u] \ {n}]
        /\ req' = [req EXCEPT ![r] = Ended] /\ UNCHANGED <<rows, born, pid>>
    BY <1>6, <2>1 DEF DeleteOne
  <2>3. \A x \in TreeRequests : ReqInv(req[x])'
    BY <1>1, <1>5, <2>2
  <2>4. bound' \in [Assets -> SUBSET nodes']
    BY <1>1, <2>2
  <2>5. \A u \in Assets \ rows' : bound'[u] = {}
    BY <1>1, <2>2
  <2>. HIDE DEF Req, ReqInv
  <2>. QED
    BY <1>1, <1>2, <1>5, <2>2, <2>3, <2>4, <2>5
<1>7. ASSUME NEW r \in TreeRequests, UpdateBindNodes(r)
      PROVE  TreeInv' /\ rows' = rows
  <2>1. PICK q \in Req : q = req[r] /\ ReqInv(q) /\ q.op \in {"bind", "unbind"}
    BY <1>1, <1>7 DEF UpdateBindNodes
  <2>2. PICK t \in SUBSET born : t = thisNode(q)
    <3>1. q.node \in born /\ q.read \subseteq born
      BY <2>1
    <3>. QED
      BY <3>1 DEF thisNode
  <2>3. /\ nodes' = nodes \cup t /\ bound' = [bound EXCEPT ![q.asset] = t]
        /\ req' = [req EXCEPT ![r] = Ended] /\ UNCHANGED <<rows, born, pid>>
    BY <1>7, <2>1, <2>2 DEF UpdateBindNodes
  <2>4. PICK u \in rows : u = q.asset
    BY <2>1
  <2>5. bound' \in [Assets -> SUBSET nodes'] /\ \A v \in Assets \ rows' : bound'[v] = {}
    BY <1>1, <2>3, <2>4
  <2>6. \A x \in TreeRequests : ReqInv(req[x])'
    BY <1>1, <1>5, <2>3
  <2>7. nodes' \subseteq born'
    BY <1>1, <2>3
  <2>. HIDE DEF Req, ReqInv
  <2>. QED
    BY <1>1, <1>2, <1>5, <2>3, <2>5, <2>6, <2>7
<1>8. ASSUME NEW r \in TreeRequests, NEW q \in Req, ReqInv(q),
             req' = [req EXCEPT ![r] = q], UNCHANGED <<rows, born, nodes, pid, bound>>
      PROVE  TreeInv' /\ rows' = rows
  <2>1. \A x \in TreeRequests : ReqInv(req[x])'
    BY <1>1, <1>8
  <2>2. req' \in [TreeRequests -> Req]
    BY <1>1, <1>8
  <2>. HIDE DEF Req, ReqInv
  <2>. QED
    BY <1>1, <1>2, <1>8, <2>1, <2>2
<1>9. ASSUME NEW r \in TreeRequests, NEW n \in TreeNodes, deleteStreeNode(r, n)
      PROVE  TreeInv' /\ rows' = rows
  <2>1. PICK q : q = [NoRequest EXCEPT !.op = "delete", !.node = n]
    OBVIOUS
  <2>2. q \in Req /\ ReqInv(q)
    BY <2>1 DEF NoRequest
  <2>3. req' = [req EXCEPT ![r] = q] /\ UNCHANGED <<rows, born, nodes, pid, bound>>
    BY <1>9, <2>1 DEF deleteStreeNode
  <2>. HIDE DEF Req, ReqInv
  <2>. QED
    BY <1>8, <2>2, <2>3
<1>10. ASSUME NEW r \in TreeRequests, NEW n \in TreeNodes, NEW u \in rows,
              NEW kind, NEW op \in {"bind", "unbind"}, Ask(r, kind, op, u, n)
       PROVE  TreeInv' /\ rows' = rows
  <2>1. PICK q : q = [op |-> op, asset |-> u, node |-> n, read |-> bound[u]]
    OBVIOUS
  <2>2. n \in born /\ bound[u] \subseteq born /\ u \in Assets
    BY <1>1, <1>10 DEF Ask
  <2>3. q \in Req /\ ReqInv(q)
    BY <1>1, <2>1, <2>2
  <2>4. req' = [req EXCEPT ![r] = q] /\ UNCHANGED <<rows, born, nodes, pid, bound>>
    BY <1>10, <2>1 DEF Ask
  <2>. HIDE DEF Req, ReqInv
  <2>. QED
    BY <1>8, <2>3, <2>4
<1>. HIDE DEF Req, ReqInv
<1>. QED
  BY <1>3, <1>4, <1>6, <1>7, <1>9, <1>10 DEF TreeNext,
     bindEcsToStreeNode, unBindEcsToStreeNode, bindElbToStreeNode, unBindElbToStreeNode,
     bindRdsToStreeNode, unBindRdsToStreeNode, bindDnsToStreeNode, unBindDnsToStreeNode

LEMMA TreeNextStep ==
  ASSUME CloudInv, TreeNext, quiet' \in BOOLEAN,
         UNCHANGED <<row, later, link, order, worldVars, syncVars, faults>>
  PROVE  CloudInv'
<1>1. TreeInv' /\ rows' = rows
  BY TreeStep
<1>2. UNCHANGED <<row, link, order, cloud, stage, pass, dns>>
  BY DEF worldVars, syncVars
<1>3. RowsInv'
  BY <1>1, <1>2 DEF CloudInv, RowsInv, ShowsAsset, ShowsInstance
<1>4. LaterInv' /\ WorldInv'
  BY <1>1, LaterRests, WorldRests DEF CloudInv, WorldInv
<1>5. (\A k \in AssetKinds : PassInv(k, pass[k])') /\ DnsInv(dns)'
  BY <1>2, PassesRest, DnsRests
<1>. QED
  BY <1>1, <1>2, <1>3, <1>4, <1>5 DEF CloudInv, LinksInv

-----------------------------------------------------------------------------
(* One of the passes moves.                                                 *)
LEMMA PassMoves ==
  ASSUME CloudInv, NEW k \in AssetKinds, pass[k].pc # "none",
         NEW q, PassInv(k, q), q.pc # "none",
         pass' = [pass EXCEPT ![k] = q], UNCHANGED <<cloud, stage>>
  PROVE  /\ pass' \in [AssetKinds -> PassRecords]
         /\ \A j \in AssetKinds :
              PassInv(j, pass[j])' /\ (pass'[j].pc = "none" <=> stage' # "base")
<1>1. pass \in [AssetKinds -> PassRecords] /\ q \in PassRecords
  BY DEF CloudInv, PassInv
<1>2. stage = "base" /\ stage' = "base"
  BY DEF CloudInv
<1>3. \A j \in AssetKinds : PassInv(j, pass'[j]) /\ pass'[j].pc # "none"
  BY <1>1, <1>2 DEF CloudInv
<1>4. \A j \in AssetKinds : PassInv(j, pass[j])'
  BY <1>3 DEF PassInv, OfKind, ShowsInstance
<1>. QED
  BY <1>1, <1>2, <1>3, <1>4

LEMMA BeginStep ==
  ASSUME CloudInv, RunSyncCloudResource
  PROVE  CloudInv'
<1>1. PICK p : p = [NoPass EXCEPT !.pc = "read"]
  OBVIOUS
<1>2. /\ stage' = "base" /\ pass' = [k \in AssetKinds |-> p] /\ quiet' \in BOOLEAN
      /\ stage = "idle"
      /\ UNCHANGED <<treeVars, row, later, link, order, worldVars, dns, faults>>
  BY <1>1 DEF RunSyncCloudResource
<1>3. p.pc = "read" /\ \A k \in AssetKinds : PassInv(k, p)
  BY <1>1, EmptyIs DEF NoPass, PassInv, PassRecords
<1>4. p \in PassRecords
  BY <1>3 DEF PassInv, AssetKinds
<1>5. TreeInv' /\ RowsInv' /\ LaterInv' /\ WorldInv'
  BY <1>2, TablesRest, WorldRests DEF CloudInv, WorldInv, worldVars
<1>6. \A k \in AssetKinds : PassInv(k, pass[k])'
  BY <1>2, <1>3 DEF PassInv, ShowsInstance, OfKind, worldVars
<1>7. DnsInv(dns)'
  BY <1>2, DnsRests
<1>. QED
  BY <1>2, <1>3, <1>4, <1>5, <1>6, <1>7 DEF CloudInv, LinksInv, treeVars

(* What the database gives a pass to compare with.                          *)
LEMMA UidsAre ==
  ASSUME CloudInv, NEW k \in AssetKinds
  PROVE  /\ GetUidAndHash(k) \in OfAssets(Hashes)
         /\ \A u \in DOMAIN GetUidAndHash(k) :
              /\ u \in rows /\ KindOfAsset(u) = k /\ u \notin Hosts
              /\ ~Twice(u) => GetUidAndHash(k)[u] = row[u].hash
         /\ \A i \in OfKind(k) : i \in rows => i \in DOMAIN GetUidAndHash(k)
<1>1. PICK T \in SUBSET Rows(k) :
        /\ GetUidAndHash(k) = [u \in T |-> HashOf(u)]
        /\ \A u \in T : u \notin Hosts
        /\ \A i \in OfKind(k) : i \in rows => i \in T
  <2>1. CASE k = "ecs"
    <3>1. PICK T : T = {v \in Rows("ecs") : row[v].vm = 1}
      OBVIOUS
    <3>2. \A u \in T : u \notin Hosts
      BY <3>1 DEF CloudInv, RowsInv, Rows
    <3>3. \A i \in OfKind(k) : i \in rows => i \in T
      BY <2>1, <3>1 DEF CloudInv, RowsInv, ShowsAsset, ShowsInstance, Rows, OfKind
    <3>6. \A u \in T : HashOf(u) = row[u].hash
      BY <3>1 DEF HashOf, CloudInv, LaterInv, TreeInv, TreeTypeOK, Rows
    <3>4. GetUidAndHash(k) = [u \in T |-> HashOf(u)]
      BY <2>1, <3>1, <3>6 DEF GetUidAndHash, GetResourceEcsUidAndHash
    <3>5. T \in SUBSET Rows(k)
      BY <2>1, <3>1
    <3>. QED
      BY <3>2, <3>3, <3>4, <3>5
  <2>2. CASE k # "ecs"
    <3>1. GetUidAndHash(k) = [u \in Rows(k) |-> HashOf(u)]
      BY <2>2 DEF GetUidAndHash
    <3>2. \A u \in Rows(k) : u \notin Hosts
      BY <2>2, Apart DEF Rows
    <3>3. \A i \in OfKind(k) : i \in rows => i \in Rows(k)
      BY DEF Rows, OfKind
    <3>. QED
      BY <3>1, <3>2, <3>3
  <2>. QED
    BY <2>1, <2>2
<1>2. T \in SUBSET Assets /\ \A u \in T : u \in rows /\ KindOfAsset(u) = k
  BY DEF Rows, CloudInv, TreeInv, TreeTypeOK
<1>3. \A u \in T : HashOf(u) \in Hashes /\ (~Twice(u) => HashOf(u) = row[u].hash)
  BY <1>2 DEF CloudInv, RowsInv, LaterInv, LaterRecords, RowRecords, HashOf
<1>4. [u \in T |-> HashOf(u)] \in [T -> Hashes]
  BY <1>3
<1>5. GetUidAndHash(k) \in OfAssets(Hashes)
  BY <1>1, <1>2, <1>4, OfAssetsIs
<1>. QED
  BY <1>1, <1>2, <1>3, <1>5

LEMMA ReadUidsStep ==
  ASSUME CloudInv, NEW k \in AssetKinds, ReadUids(k)
  PROVE  CloudInv'
<1>1. PICK p \in PassRecords : p = pass[k]
  BY DEF CloudInv
<1>2. p.pc = "read" /\ PassInv(k, p)
  BY <1>1 DEF ReadUids, CloudInv
<1>3. PICK db \in OfAssets(Hashes) :
        /\ db \in {GetUidAndHash(k), p.db}
        /\ pass' = [pass EXCEPT ![k] = [p EXCEPT !.pc = "fetch", !.db = db]]
  <2>1. CASE pass' = [pass EXCEPT ![k].pc = "fetch", ![k].db = GetUidAndHash(k)]
    BY <1>1, <2>1, UidsAre DEF CloudInv
  <2>2. CASE pass' = [pass EXCEPT ![k].pc = "fetch"]
    <3>1. p.db \in OfAssets(Hashes)
      BY DEF PassRecords
    <3>2. [p EXCEPT !.pc = "fetch"] = [p EXCEPT !.pc = "fetch", !.db = p.db]
      BY DEF PassRecords
    <3>. QED
      BY <1>1, <2>2, <3>1, <3>2 DEF CloudInv
  <2>. QED
    BY <2>1, <2>2 DEF ReadUids
<1>4. PICK q : q = [p EXCEPT !.pc = "fetch", !.db = db]
  OBVIOUS
<1>11. /\ q \in PassRecords /\ q.pc = "fetch" /\ q.db = db /\ q.all = p.all
       /\ q.add = p.add /\ q.mod = p.mod /\ q.del = p.del /\ q.short = p.short
  BY <1>4 DEF PassRecords
<1>5. \A u \in DOMAIN db :
        KindOfAsset(u) = k /\ u \notin Hosts /\ (u \in CloudInstances => cloud[u] # "unborn")
  <2>1. CASE db = GetUidAndHash(k)
    BY <2>1, UidsAre DEF CloudInv, RowsInv
  <2>2. CASE db = p.db
    BY <1>2, <2>2 DEF PassInv
  <2>. QED
    BY <1>3, <2>1, <2>2
<1>6. PassInv(k, q)
  BY <1>2, <1>4, <1>5, <1>11 DEF PassInv
<1>7. /\ UNCHANGED <<treeVars, row, later, link, order, worldVars, stage, dns>>
      /\ faults' \in 0 .. MaxFaults /\ quiet' \in BOOLEAN
  BY FaultCounts DEF ReadUids, CloudInv, WorldInv, boundVars
<1>8. /\ pass' \in [AssetKinds -> PassRecords]
      /\ \A j \in AssetKinds :
           PassInv(j, pass[j])' /\ (pass'[j].pc = "none" <=> stage' # "base")
  BY <1>1, <1>2, <1>3, <1>4, <1>6, <1>7, <1>11, PassMoves DEF worldVars
<1>9. TreeInv' /\ RowsInv' /\ LaterInv' /\ WorldInv'
  BY <1>7, TablesRest, WorldRests DEF worldVars
<1>10. DnsInv(dns)'
  BY <1>7, DnsRests
<1>. QED
  BY <1>7, <1>8, <1>9, <1>10 DEF CloudInv, LinksInv, treeVars

LEMMA PageIs ==
  ASSUME NEW S, NEW T \in FirstPage(S)
  PROVE  /\ T \in SUBSET S
         /\ IsFiniteSet(S) /\ Cardinality(S) <= PageSize => T = S
<1>1. T \in SUBSET S /\ (T # S => Cardinality(T) = PageSize)
  BY DEF FirstPage
<1>2. ASSUME IsFiniteSet(S), Cardinality(S) <= PageSize PROVE T = S
  <2>1. Cardinality(T) <= Cardinality(S) /\ (Cardinality(S) = Cardinality(T) => S = T)
    BY <1>1, <1>2, FS_Subset
  <2>2. Cardinality(S) \in Nat /\ IsFiniteSet(T)
    BY <1>1, <1>2, FS_CardinalityType, FS_Subset
  <2>3. Cardinality(T) \in Nat /\ PageSize \in Nat
    BY <2>2, FS_CardinalityType, CloudSyncAssumption
  <2>. QED
    BY <1>1, <1>2, <2>1, <2>2, <2>3
<1>. QED
  BY <1>1, <1>2

(* The answer of an account, or what is left of it after an error.          *)
SaidOf(i) == {CloudRow(i, ip, s) : ip \in {Blank, cloud[i]}, s \in {0, spec[i]}}

Answer(k, a, ok, f) ==
  \/ f = Empty /\ ~ok
  \/ \E T \in SUBSET Listed(k, a) :
       /\ DOMAIN f = T /\ f = [i \in T |-> f[i]]
       /\ \A i \in T : f[i] \in SaidOf(i)
       /\ ok => T \in Told(k, a) /\ \A i \in T : f[i] = CloudRow(i, cloud[i], spec[i])

LEMMA TellsAll ==
  ASSUME NEW k, NEW a, NEW ok, NEW T \in SUBSET Listed(k, a), ok => T \in Told(k, a),
         NEW f, f = [i \in T |-> CloudRow(i, cloud[i], spec[i])]
  PROVE  Answer(k, a, ok, f)
<1>1. \A i \in T : f[i] = CloudRow(i, cloud[i], spec[i])
  OBVIOUS
<1>2. \A i \in T : f[i] \in SaidOf(i)
  BY <1>1 DEF SaidOf
<1>3. DOMAIN f = T /\ f = [i \in T |-> f[i]]
  OBVIOUS
<1>. QED
  BY <1>1, <1>2, <1>3 DEF Answer

LEMMA TellsSome ==
  ASSUME NEW k, NEW a, NEW T \in SUBSET Listed(k, a), NEW H, NEW all \in BOOLEAN,
         NEW f, f = [i \in T |-> CloudRow(i, AddressBut(H, i), SpecIf(i, all))]
  PROVE  Answer(k, a, FALSE, f)
<1>1. \A i \in T : f[i] = CloudRow(i, AddressBut(H, i), SpecIf(i, all))
  OBVIOUS
<1>2. \A i : AddressBut(H, i) \in {Blank, cloud[i]} /\ SpecIf(i, all) \in {0, spec[i]}
  BY DEF AddressBut, SpecIf
<1>3. \A i \in T : f[i] \in SaidOf(i)
  BY <1>1, <1>2 DEF SaidOf
<1>4. DOMAIN f = T /\ f = [i \in T |-> f[i]]
  OBVIOUS
<1>. QED
  BY <1>3, <1>4 DEF Answer

LEMMA NobodyHidden ==
  /\ \A i : AddressBut({}, i) = cloud[i]
  /\ \A i : SpecIf(i, TRUE) = spec[i]
BY DEF AddressBut, SpecIf

LEMMA AliTells ==
  ASSUME NEW k \in AssetKinds, NEW ok \in BOOLEAN, NEW f \in Answers(k, "aliyun", ok)
  PROVE  Answer(k, "aliyun", ok, f)
<1>. DEFINE L == Listed(k, "aliyun")
<1>1. \A T \in FirstPage(L) : T \in SUBSET L /\ T \in Told(k, "aliyun")
  BY PageIs DEF Told
<1>2. CASE k = "ecs"
  <2>1. f \in RunSyncOneCloudEcsAli(ok)
    BY <1>2 DEF Answers
  <2>2. CASE ok
    <3>1. PICK T \in FirstPage(L) : f = [i \in T |-> ConvertEcsCloudAli(i, AddressBut({}, i), TRUE)]
      <4>1. \E T \in FirstPage(Listed("ecs", "aliyun")) : f = [i \in T |-> ConvertEcsCloudAli(i, AddressBut({}, i), TRUE)]
        <5>1. RunSyncOneCloudEcsAli(ok) = {[i \in T |-> ConvertEcsCloudAli(i, AddressBut({}, i), TRUE)] :
                            T \in FirstPage(Listed("ecs", "aliyun"))}
          BY <2>2 DEF RunSyncOneCloudEcsAli
        <5>. QED
          BY <2>1, <5>1
      <4>. QED
        BY <1>2, <4>1
    <3>2. f = [i \in T |-> CloudRow(i, cloud[i], spec[i])]
      BY <3>1, NobodyHidden DEF ConvertEcsCloudAli
    <3>. HIDE DEF L
    <3>. QED
      BY <1>1, <3>2, TellsAll DEF L
  <2>3. CASE ~ok
    <3>1. CASE f = Empty
      BY <2>3, <3>1 DEF Answer
    <3>2. CASE f # Empty
      <4>1. PICK T \in FirstPage(L), H \in SUBSET L, all \in BOOLEAN :
              f = [i \in T |-> ConvertEcsCloudAli(i, AddressBut(H, i), all)]
        BY <1>2, <2>1, <2>3, <3>2 DEF RunSyncOneCloudEcsAli
      <4>2. f = [i \in T |-> CloudRow(i, AddressBut(H, i), SpecIf(i, all))]
        BY <4>1 DEF ConvertEcsCloudAli
      <4>. QED
        BY <1>1, <2>3, <4>2, TellsSome
    <3>. QED
      BY <3>1, <3>2
  <2>. QED
    BY <2>2, <2>3
<1>3. CASE k = "elb"
  <2>1. f \in RunSyncOneCloudElbAli(ok)
    BY <1>3 DEF Answers
  <2>2. CASE ok
    <3>1. PICK T \in FirstPage(L) : f = [i \in T |-> ConvertLbCloudAli(i, TRUE)]
      <4>1. \E T \in FirstPage(Listed("elb", "aliyun")) : f = [i \in T |-> ConvertLbCloudAli(i, TRUE)]
        <5>1. RunSyncOneCloudElbAli(ok) = {[i \in T |-> ConvertLbCloudAli(i, TRUE)] :
                            T \in FirstPage(Listed("elb", "aliyun"))}
          BY <2>2 DEF RunSyncOneCloudElbAli
        <5>. QED
          BY <2>1, <5>1
      <4>. QED
        BY <1>3, <4>1
    <3>2. f = [i \in T |-> CloudRow(i, cloud[i], spec[i])]
      BY <3>1, NobodyHidden DEF ConvertLbCloudAli
    <3>. QED
      BY <1>1, <3>2, TellsAll
  <2>3. CASE ~ok
    <3>1. PICK T \in SUBSET L, all \in BOOLEAN : f = [i \in T |-> ConvertLbCloudAli(i, all)]
      BY <1>3, <2>1, <2>3 DEF RunSyncOneCloudElbAli
    <3>2. f = [i \in T |-> CloudRow(i, AddressBut({}, i), SpecIf(i, all))]
      BY <3>1, NobodyHidden DEF ConvertLbCloudAli
    <3>. QED
      BY <2>3, <3>2, TellsSome
  <2>. QED
    BY <2>2, <2>3
<1>4. CASE k = "rds"
  <2>1. f \in RunSyncOneCloudRdsAli(ok)
    BY <1>4 DEF Answers
  <2>2. CASE ok
    <3>1. PICK T \in FirstPage(L) : f = [i \in T |-> ConvertRdsCloudAli(i, AddressBut({}, i))]
      BY <1>4, <2>1, <2>2 DEF RunSyncOneCloudRdsAli
    <3>2. f = [i \in T |-> CloudRow(i, cloud[i], spec[i])]
      BY <3>1, NobodyHidden DEF ConvertRdsCloudAli
    <3>. QED
      BY <1>1, <3>2, TellsAll
  <2>3. CASE ~ok
    <3>1. CASE f = Empty
      BY <2>3, <3>1 DEF Answer
    <3>2. CASE f # Empty
      <4>1. PICK T \in FirstPage(L), H \in SUBSET L :
              f = [i \in T |-> ConvertRdsCloudAli(i, AddressBut(H, i))]
        BY <1>4, <2>1, <2>3, <3>2 DEF RunSyncOneCloudRdsAli
      <4>2. f = [i \in T |-> CloudRow(i, AddressBut(H, i), SpecIf(i, TRUE))]
        BY <4>1, NobodyHidden DEF ConvertRdsCloudAli
      <4>. QED
        BY <1>1, <2>3, <4>2, TellsSome
    <3>. QED
      BY <3>1, <3>2
  <2>. QED
    BY <2>2, <2>3
<1>. QED
  BY <1>2, <1>3, <1>4 DEF AssetKinds

LEMMA AwsTells ==
  ASSUME NEW k \in AssetKinds, NEW ok \in BOOLEAN, NEW f \in Answers(k, "aws", ok)
  PROVE  Answer(k, "aws", ok, f)
<1>. DEFINE L == Listed(k, "aws")
<1>1. L \in SUBSET L /\ L \in Told(k, "aws")
  BY DEF Told
<1>2. CASE k = "ecs"
  <2>1. f \in RunSyncOneCloudEc2Aws(ok)
    BY <1>2 DEF Answers
  <2>2. CASE ok
    <3>1. f = [i \in L |-> ConvertEc2CloudAws(i, TRUE)]
      BY <1>2, <2>1, <2>2 DEF RunSyncOneCloudEc2Aws
    <3>2. f = [i \in L |-> CloudRow(i, cloud[i], spec[i])]
      BY <3>1, NobodyHidden DEF ConvertEc2CloudAws
    <3>. QED
      BY <1>1, <3>2, TellsAll
  <2>3. CASE ~ok
    <3>1. f = Empty \/ f = [i \in L |-> ConvertEc2CloudAws(i, FALSE)]
      BY <1>2, <2>1, <2>3 DEF RunSyncOneCloudEc2Aws
    <3>2. CASE f = Empty
      BY <2>3, <3>2 DEF Answer
    <3>3. CASE f = [i \in L |-> ConvertEc2CloudAws(i, FALSE)]
      <4>1. f = [i \in L |-> CloudRow(i, AddressBut({}, i), SpecIf(i, FALSE))]
        BY <3>3, NobodyHidden DEF ConvertEc2CloudAws
      <4>. QED
        BY <1>1, <2>3, <4>1, TellsSome
    <3>. QED
      BY <3>1, <3>2, <3>3
  <2>. QED
    BY <2>2, <2>3
<1>3. CASE k = "elb"
  <2>1. f \in RunSyncOneCloudElbAws(ok)
    BY <1>3 DEF Answers
  <2>2. CASE ok
    <3>1. f = [i \in L |-> ConvertElbCloudAws(i, TRUE)]
      <4>1. f = [i \in Listed("elb", "aws") |-> ConvertElbCloudAws(i, TRUE)]
        <5>1. RunSyncOneCloudElbAws(ok) = {[i \in Listed("elb", "aws") |-> ConvertElbCloudAws(i, TRUE)]}
          BY <2>2 DEF RunSyncOneCloudElbAws
        <5>. QED
          BY <2>1, <5>1
      <4>. QED
        BY <1>3, <4>1
    <3>2. f = [i \in L |-> CloudRow(i, cloud[i], spec[i])]
      BY <3>1, NobodyHidden DEF ConvertElbCloudAws
    <3>. QED
      BY <1>1, <3>2, TellsAll
  <2>3. CASE ~ok
    <3>1. PICK T \in SUBSET L, all \in BOOLEAN : f = [i \in T |-> ConvertElbCloudAws(i, all)]
      BY <1>3, <2>1, <2>3 DEF RunSyncOneCloudElbAws
    <3>2. f = [i \in T |-> CloudRow(i, AddressBut({}, i), SpecIf(i, all))]
      BY <3>1, NobodyHidden DEF ConvertElbCloudAws
    <3>. QED
      BY <2>3, <3>2, TellsSome
  <2>. QED
    BY <2>2, <2>3
<1>4. CASE k = "rds"
  <2>1. PICK T \in SUBSET L : f = [i \in T |-> ConvertRdsCloudAws(i)] /\ (ok => T = L)
    <3>1. f \in RunSyncOneCloudRdsAws(ok)
      BY <1>4 DEF Answers
    <3>. QED
      BY <1>4, <3>1 DEF RunSyncOneCloudRdsAws
  <2>2. f = [i \in T |-> CloudRow(i, cloud[i], spec[i])]
    BY <2>1 DEF ConvertRdsCloudAws
  <2>. QED
    BY <1>1, <2>1, <2>2, TellsAll
<1>. QED
  BY <1>2, <1>3, <1>4 DEF AssetKinds

LEMMA SaidIs ==
  ASSUME CloudInv, NEW k \in AssetKinds, NEW a, NEW i \in Listed(k, a), NEW x \in SaidOf(i)
  PROVE  /\ i \in Assets /\ i \in OfKind(k) /\ i \in OfAccount(k, a) /\ Up(i)
         /\ x \in RowRecords /\ ShowsInstance(i, x)
         /\ x = CloudRow(i, cloud[i], spec[i]) => AsItIs(k, i, x)
<1>1. /\ i \in Assets /\ i \in CloudInstances /\ KindOfAsset(i) = k
      /\ cloud[i] \in Ips /\ VendorOf(i) = a /\ VendorOf(i) \in Accounts
  BY Apart DEF Listed, Up
<1>2. PICK ip \in {Blank, cloud[i]}, s \in {0, spec[i]} : x = CloudRow(i, ip, s)
  BY DEF SaidOf
<1>3. ip \in Ips \cup {Blank} /\ s \in 0 .. 2
  BY <1>1 DEF CloudInv, WorldInv
<1>4. x = [vendor |-> VendorOf(i), vm |-> 1, ip |-> ip, hash |-> GenHash(k, ip, s)]
  BY <1>1, <1>2 DEF CloudRow
<1>5. GenHash(k, ip, s) \in Hashes /\ (k # "rds" => GenHash(k, ip, s).ip = ip)
  BY <1>3 DEF GenHash, Hash, Hashes
<1>6. x \in RowRecords /\ ShowsInstance(i, x)
  BY <1>1, <1>3, <1>4, <1>5 DEF RowRecords, ShowsInstance
<1>7. ASSUME x = CloudRow(i, cloud[i], spec[i]) PROVE AsItIs(k, i, x)
  BY <1>1, <1>7 DEF AsItIs, CloudRow
<1>. QED
  BY <1>1, <1>6, <1>7 DEF OfKind, OfAccount, Up

Answered(k, a, ok, f) ==
  /\ f \in OfAssets(RowRecords)
  /\ DOMAIN f \subseteq Listed(k, a)
  /\ \A i \in DOMAIN f : ShowsInstance(i, f[i])
  /\ ok => DOMAIN f \in Told(k, a) /\ \A i \in DOMAIN f : AsItIs(k, i, f[i])

LEMMA AnswersAre ==
  ASSUME CloudInv, NEW k \in AssetKinds, NEW a \in Accounts, NEW ok \in BOOLEAN,
         NEW f \in Answers(k, a, ok)
  PROVE  Answered(k, a, ok, f)
<1>1. Answer(k, a, ok, f)
  BY AliTells, AwsTells DEF Accounts
<1>2. CASE f = Empty /\ ~ok
  BY <1>2, EmptyIs DEF Answered
<1>3. CASE ~(f = Empty /\ ~ok)
  <2>1. PICK T \in SUBSET Listed(k, a) :
          /\ DOMAIN f = T /\ f = [i \in T |-> f[i]]
          /\ \A i \in T : f[i] \in SaidOf(i)
          /\ ok => T \in Told(k, a) /\ \A i \in T : f[i] = CloudRow(i, cloud[i], spec[i])
    BY <1>1, <1>3 DEF Answer
  <2>2. \A i \in T : /\ i \in Assets /\ f[i] \in RowRecords /\ ShowsInstance(i, f[i])
                     /\ ok => AsItIs(k, i, f[i])
    BY <2>1, SaidIs
  <2>3. T \in SUBSET Assets /\ f \in [T -> RowRecords]
    BY <2>1, <2>2
  <2>4. f \in OfAssets(RowRecords)
    BY <2>3, OfAssetsIs
  <2>. QED
    BY <2>1, <2>2, <2>4 DEF Answered
<1>. QED
  BY <1>2, <1>3

(* Who is not short of instances told of all.                               *)
LEMMA ToldAll ==
  ASSUME NEW k \in AssetKinds, NEW a \in Accounts, NEW T \in Told(k, a), a \notin Cut(k)
  PROVE  T = Listed(k, a)
<1>1. CASE a = "aws"
  BY <1>1 DEF Told
<1>2. CASE a = "aliyun"
  <2>1. T \in FirstPage(Listed(k, a)) /\ ~(Cardinality(Listed(k, a)) > PageSize)
    BY <1>2 DEF Told, Cut
  <2>2. IsFiniteSet(Listed(k, a))
    <3>1. Listed(k, a) \in SUBSET CloudInstances
      BY DEF Listed
    <3>. QED
      BY <3>1, FS_Subset, CloudSyncAssumption
  <2>3. Cardinality(Listed(k, a)) \in Nat /\ PageSize \in Nat
    BY <2>2, FS_CardinalityType, CloudSyncAssumption
  <2>4. Cardinality(Listed(k, a)) <= PageSize
    BY <2>1, <2>3
  <2>. QED
    BY <2>1, <2>2, <2>4, PageIs
<1>. QED
  BY <1>1, <1>2 DEF Accounts

(* The clouds are asked and the answers compared.                           *)
Fetched(k, p, q, a) ==
  /\ p \in PassRecords /\ q \in PassRecords
  /\ p = pass[k] /\ p.pc = "fetch" /\ pass' = [pass EXCEPT ![k] = q]
  /\ q.pc = "save" /\ q.db = p.db /\ q.all = a
  /\ q.add = DOMAIN a \ DOMAIN p.db
  /\ q.mod = {u \in DOMAIN a \cap DOMAIN p.db : a[u].hash # p.db[u]}
  /\ q.del = DOMAIN p.db \ DOMAIN a
  /\ \A i \in DOMAIN a : i \in OfKind(k) /\ Up(i) /\ ShowsInstance(i, a[i])
  /\ \A i \in OfKind(k) : Up(i) /\ VendorOf(i) \notin q.short => i \in DOMAIN a
  /\ quiet' => /\ quiet /\ AllTold(k, DOMAIN a)
               /\ \A i \in DOMAIN a : AsItIs(k, i, a[i])

LEMMA FetchIs ==
  ASSUME CloudInv, NEW k \in AssetKinds, Fetch(k)
  PROVE  \E p, q, a : Fetched(k, p, q, a)
<1>1. PICK p \in PassRecords : p = pass[k] /\ p.pc = "fetch"
  BY DEF CloudInv, Fetch
<1>2. PICK failed \in SUBSET Accounts :
        /\ quiet' = (quiet /\ failed = {})
        /\ \E f \in Answers(k, "aliyun", "aliyun" \notin failed),
              g \in Answers(k, "aws", "aws" \notin failed) :
             pass' = [pass EXCEPT ![k] =
                        Differences([@ EXCEPT !.pc = "save", !.all = PutRow(f, g),
                                              !.short = failed \cup Cut(k)])]
  BY DEF Fetch
<1>3. PICK f \in Answers(k, "aliyun", "aliyun" \notin failed),
           g \in Answers(k, "aws", "aws" \notin failed) :
        pass' = [pass EXCEPT ![k] =
                   Differences([@ EXCEPT !.pc = "save", !.all = PutRow(f, g),
                                         !.short = failed \cup Cut(k)])]
  BY <1>2
<1>4. /\ Answered(k, "aliyun", "aliyun" \notin failed, f)
      /\ Answered(k, "aws", "aws" \notin failed, g)
  BY AnswersAre DEF Accounts
<1>18. PICK sh \in SUBSET Accounts : sh = failed \cup Cut(k)
  BY DEF Cut, Accounts
<1>5. PICK a : a = PutRow(f, g)
  OBVIOUS
<1>6. /\ DOMAIN a = DOMAIN f \cup DOMAIN g
      /\ \A u \in DOMAIN a : a[u] = IF u \in DOMAIN g THEN g[u] ELSE f[u]
      /\ a = [u \in DOMAIN f \cup DOMAIN g |-> a[u]]
  BY <1>5 DEF PutRow
<1>7. a \in OfAssets(RowRecords)
  <2>1. /\ DOMAIN f \in SUBSET Assets /\ DOMAIN g \in SUBSET Assets
        /\ \A u \in DOMAIN f : f[u] \in RowRecords
        /\ \A u \in DOMAIN g : g[u] \in RowRecords
    BY <1>4, OfAssetsHas DEF Answered
  <2>2. \A u \in DOMAIN a : a[u] \in RowRecords
    BY <1>6, <2>1
  <2>3. a \in [DOMAIN f \cup DOMAIN g -> RowRecords]
    BY <1>6, <2>2
  <2>4. DOMAIN f \cup DOMAIN g \in SUBSET Assets
    BY <2>1
  <2>. QED
    BY <2>3, <2>4, OfAssetsIs
<1>8. ASSUME NEW i \in DOMAIN a
      PROVE  i \in OfKind(k) /\ Up(i) /\ ShowsInstance(i, a[i])
  <2>1. \/ i \in DOMAIN f /\ a[i] = f[i]
        \/ i \in DOMAIN g /\ a[i] = g[i]
    BY <1>6
  <2>2. i \in Listed(k, "aliyun") \/ i \in Listed(k, "aws")
    BY <1>4, <2>1 DEF Answered
  <2>3. i \in OfKind(k) /\ Up(i)
    BY <2>2 DEF Listed, OfKind
  <2>. QED
    BY <1>4, <2>1, <2>3 DEF Answered
<1>9. ASSUME NEW i \in OfKind(k), Up(i), VendorOf(i) \notin sh
      PROVE  i \in DOMAIN a
  <2>1. VendorOf(i) \notin failed /\ VendorOf(i) \notin Cut(k)
    BY <1>9, <1>18
  <2>2. i \in Listed(k, VendorOf(i)) /\ VendorOf(i) \in {"aliyun", "aws"}
    BY <1>9, Apart DEF Listed, OfKind, Accounts
  <2>3. CASE VendorOf(i) = "aliyun"
    <3>1. DOMAIN f = Listed(k, "aliyun")
      BY <1>4, <2>1, <2>3, ToldAll DEF Answered, Accounts
    <3>. QED
      BY <1>6, <2>2, <2>3, <3>1
  <2>4. CASE VendorOf(i) = "aws"
    <3>1. DOMAIN g = Listed(k, "aws")
      BY <1>4, <2>1, <2>4, ToldAll DEF Answered, Accounts
    <3>. QED
      BY <1>6, <2>2, <2>4, <3>1
  <2>. QED
    BY <2>2, <2>3, <2>4
<1>19. ASSUME quiet'
       PROVE  /\ quiet /\ AllTold(k, DOMAIN a)
              /\ \A i \in DOMAIN a : AsItIs(k, i, a[i])
  <2>1. quiet /\ failed = {}
    BY <1>2, <1>19
  <2>2. /\ DOMAIN f \subseteq Listed(k, "aliyun") /\ DOMAIN g \subseteq Listed(k, "aws")
        /\ DOMAIN f \in Told(k, "aliyun") /\ DOMAIN g \in Told(k, "aws")
        /\ \A i \in DOMAIN f : AsItIs(k, i, f[i])
        /\ \A i \in DOMAIN g : AsItIs(k, i, g[i])
    BY <1>4, <2>1 DEF Answered
  <2>3. /\ DOMAIN a \cap OfAccount(k, "aliyun") = DOMAIN f
        /\ DOMAIN a \cap OfAccount(k, "aws") = DOMAIN g
    BY <1>6, <2>2 DEF Listed, OfAccount
  <2>4. AllTold(k, DOMAIN a)
    BY <2>2, <2>3 DEF AllTold, Accounts
  <2>. QED
    BY <1>6, <2>1, <2>2, <2>4
<1>10. PICK d \in OfAssets(Hashes) : d = p.db
  BY DEF PassRecords
<1>11. PICK x : x = [p EXCEPT !.pc = "save", !.all = a, !.short = sh]
  OBVIOUS
<1>12. DOMAIN a \in SUBSET Assets /\ DOMAIN d \in SUBSET Assets
  BY <1>7, OfAssetsHas
<1>13. x \in PassRecords /\ x.pc = "save" /\ x.all = a /\ x.db = d /\ x.short = sh
  BY <1>7, <1>10, <1>11 DEF PassRecords
<1>14. PICK q \in PassRecords :
         /\ q = Differences(x)
         /\ q.pc = "save" /\ q.db = d /\ q.all = a /\ q.short = sh
         /\ q.add = DOMAIN a \ DOMAIN d
         /\ q.mod = {u \in DOMAIN a \cap DOMAIN d : a[u].hash # d[u]}
         /\ q.del = DOMAIN d \ DOMAIN a
  <2>1. PICK A \in SUBSET Assets, M \in SUBSET Assets, D \in SUBSET Assets :
          /\ A = DOMAIN a \ DOMAIN d
          /\ M = {u \in DOMAIN a \cap DOMAIN d : a[u].hash # d[u]}
          /\ D = DOMAIN d \ DOMAIN a
    BY <1>12
  <2>2. Differences(x) = [x EXCEPT !.add = A, !.mod = M, !.del = D]
    BY <1>13, <2>1 DEF Differences
  <2>3. PICK q : q = [x EXCEPT !.add = A, !.mod = M, !.del = D]
    OBVIOUS
  <2>4. /\ q \in PassRecords /\ q.pc = "save" /\ q.db = d /\ q.all = a /\ q.short = sh
        /\ q.add = A /\ q.mod = M /\ q.del = D
    BY <1>13, <2>3 DEF PassRecords
  <2>. QED
    BY <2>1, <2>2, <2>3, <2>4
<1>15. pass' = [pass EXCEPT ![k] = q]
  <2>1. pass' = [pass EXCEPT ![k] = Differences([pass[k] EXCEPT !.pc = "save", !.all = PutRow(f, g),
                                                 !.short = failed \cup Cut(k)])]
    BY <1>3
  <2>. QED
    BY <1>1, <1>5, <1>11, <1>14, <1>18, <2>1
<1>16. /\ q.pc = "save" /\ q.db = p.db /\ q.all = a /\ q.add = DOMAIN a \ DOMAIN p.db
       /\ q.mod = {u \in DOMAIN a \cap DOMAIN p.db : a[u].hash # p.db[u]}
       /\ q.del = DOMAIN p.db \ DOMAIN a
  BY <1>10, <1>14
<1>17. Fetched(k, p, q, a)
  BY <1>1, <1>8, <1>9, <1>14, <1>15, <1>16, <1>19 DEF Fetched
<1>. QED
  BY <1>17

LEMMA FetchStep ==
  ASSUME CloudInv, NEW k \in AssetKinds, Fetch(k)
  PROVE  CloudInv'
<1>0. PICK p, q, a : Fetched(k, p, q, a)
  BY FetchIs
<1>1. /\ q \in PassRecords /\ p = pass[k] /\ p.pc = "fetch"
      /\ pass' = [pass EXCEPT ![k] = q]
      /\ q.pc = "save" /\ q.db = p.db /\ q.all = a
      /\ q.add = DOMAIN a \ DOMAIN p.db
      /\ q.mod = {u \in DOMAIN a \cap DOMAIN p.db : a[u].hash # p.db[u]}
      /\ q.del = DOMAIN p.db \ DOMAIN a
      /\ \A i \in DOMAIN a : i \in OfKind(k) /\ Up(i) /\ ShowsInstance(i, a[i])
      /\ \A i \in OfKind(k) : Up(i) /\ VendorOf(i) \notin q.short => i \in DOMAIN a
  BY <1>0 DEF Fetched
<1>2. PassInv(k, p)
  BY <1>1 DEF CloudInv
<1>3. \A i \in CloudInstances : ~Up(i) => cloud[i] \in {"unborn", "gone"}
  BY DEF CloudInv, WorldInv, Up
<1>4. \A i \in CloudInstances : Up(i) => cloud[i] # "unborn"
  BY CloudSyncAssumption DEF Up
<1>5. \A u \in q.del : /\ KindOfAsset(u) = k /\ u \notin Hosts
                       /\ u \in CloudInstances => cloud[u] = "gone" \/ VendorOf(u) \in q.short
  BY <1>1, <1>2, <1>3 DEF PassInv, OfKind
<1>6. q.add \cup q.mod \subseteq DOMAIN q.all
  BY <1>1
<1>7. \A i \in DOMAIN q.all :
        i \in OfKind(k) /\ cloud[i] # "unborn" /\ ShowsInstance(i, q.all[i])
  BY <1>1, <1>4 DEF OfKind
<1>8. PassInv(k, q)
  BY <1>1, <1>2, <1>5, <1>6, <1>7 DEF PassInv
<1>9. UNCHANGED <<treeVars, row, later, link, order, worldVars, stage, dns>>
  BY DEF Fetch
<1>10. faults' \in 0 .. MaxFaults /\ quiet' \in BOOLEAN
  <2>1. PICK failed \in SUBSET Accounts :
          /\ faults + Cardinality(failed) <= MaxFaults
          /\ faults' = faults + Cardinality(failed)
          /\ quiet' = (quiet /\ failed = {})
    BY DEF Fetch
  <2>2. IsFiniteSet(Accounts)
    <3>1. PICK S : S = {"aliyun"} /\ IsFiniteSet(S)
      BY FS_Singleton
    <3>2. IsFiniteSet(S \cup {"aws"})
      BY <3>1, FS_AddElement
    <3>3. S \cup {"aws"} = Accounts
      BY <3>1 DEF Accounts
    <3>. QED
      BY <3>2, <3>3
  <2>3. Cardinality(failed) \in Nat
    <3>1. failed \in SUBSET Accounts
      BY Zenon
    <3>2. IsFiniteSet(failed)
      BY <2>2, <3>1, FS_Subset
    <3>. QED
      BY <3>2, FS_CardinalityType
  <2>4. faults \in 0 .. MaxFaults /\ MaxFaults \in Nat
    BY CloudSyncAssumption DEF CloudInv, WorldInv
  <2>. QED
    BY <2>1, <2>3, <2>4
<1>11. /\ pass' \in [AssetKinds -> PassRecords]
       /\ \A j \in AssetKinds :
            PassInv(j, pass[j])' /\ (pass'[j].pc = "none" <=> stage' # "base")
  BY <1>1, <1>8, <1>9, PassMoves DEF worldVars
<1>12. TreeInv' /\ RowsInv' /\ LaterInv' /\ WorldInv'
  BY <1>9, <1>10, TablesRest, WorldRests DEF worldVars
<1>13. DnsInv(dns)'
  BY <1>9, DnsRests
<1>. QED
  BY <1>9, <1>11, <1>12, <1>13 DEF CloudInv, LinksInv, treeVars

(* A pass that has less left to do.                                         *)
LEMMA PassShrinks ==
  ASSUME NEW k \in AssetKinds, NEW p, PassInv(k, p), NEW q \in PassRecords,
         q.all = p.all, q.db = p.db, q.short = p.short,
         q.add \subseteq p.add, q.mod \subseteq p.mod, q.del \subseteq p.del
  PROVE  PassInv(k, q)
BY DEF PassInv

(* While a pass saves, the tables change as its lists say.                  *)
LEMMA SavingStep ==
  ASSUME CloudInv, NEW k \in AssetKinds, NEW p \in PassRecords, p = pass[k], p.pc = "save",
         NEW q \in PassRecords, q.pc = "save", q.all = p.all, q.db = p.db, q.short = p.short,
         q.add \subseteq p.add, q.mod \subseteq p.mod, q.del \subseteq p.del,
         pass' = [pass EXCEPT ![k] = q],
         TreeInv', RowsInv', LaterInv', LinksInv',
         UNCHANGED <<order, worldVars, stage, dns>>,
         faults' \in 0 .. MaxFaults, quiet' \in BOOLEAN
  PROVE  CloudInv'
<1>1. PassInv(k, p)
  BY DEF CloudInv
<1>2. PassInv(k, q)
  BY <1>1, PassShrinks
<1>3. /\ pass' \in [AssetKinds -> PassRecords]
      /\ \A j \in AssetKinds :
           PassInv(j, pass[j])' /\ (pass'[j].pc = "none" <=> stage' # "base")
  BY <1>2, PassMoves DEF worldVars
<1>4. WorldInv' /\ DnsInv(dns)'
  BY WorldRests, DnsRests
<1>5. dns.unlinked = {}
  BY DEF CloudInv
<1>. QED
  BY <1>3, <1>4, <1>5 DEF CloudInv

LEMMA CreateRowStep ==
  ASSUME CloudInv, NEW k \in AssetKinds, NEW u \in Assets, CreateRow(k, u)
  PROVE  CloudInv'
<1>1. PICK p \in PassRecords : p = pass[k]
  BY DEF CloudInv
<1>2. p.pc = "save" /\ u \in p.add /\ PassInv(k, p)
  BY <1>1 DEF CreateRow, CloudInv
<1>3. PICK q : q = [p EXCEPT !.add = p.add \ {u}]
  OBVIOUS
<1>4. /\ q \in PassRecords /\ q.pc = "save" /\ q.all = p.all /\ q.db = p.db
      /\ q.short = p.short
      /\ q.add \subseteq p.add /\ q.mod \subseteq p.mod /\ q.del \subseteq p.del
  BY <1>2, <1>3 DEF PassRecords
<1>5. pass' = [pass EXCEPT ![k] = q]
  BY <1>1, <1>3 DEF CreateRow, CloudInv
<1>6. /\ UNCHANGED <<born, nodes, pid, bound, req, link, order, worldVars, stage, dns>>
      /\ faults' \in 0 .. MaxFaults /\ quiet' \in BOOLEAN
  BY FaultCounts DEF CreateRow, CloudInv, WorldInv, boundVars
<1>7. \/ u \notin rows /\ rows' = rows \cup {u} /\ row' = [row EXCEPT ![u] = p.all[u]]
           /\ later' = later
      \/ /\ u \in rows /\ k = "rds" /\ UNCHANGED <<rows, row>>
         /\ later' = [later EXCEPT ![u] = [NoLater EXCEPT !.row = p.all[u]]]
      \/ UNCHANGED <<rows, row, later>>
  BY <1>1 DEF CreateRow
<1>8. /\ u \in CloudInstances /\ KindOfAsset(u) = k /\ cloud[u] # "unborn"
      /\ ShowsInstance(u, p.all[u])
      /\ u \in Assets /\ u \notin Hosts /\ u \notin Records
  BY <1>2, Apart DEF PassInv, OfKind
<1>9. p.all[u] \in RowRecords
  <2>1. p.all \in OfAssets(RowRecords) /\ u \in DOMAIN p.all
    BY <1>2 DEF PassRecords, PassInv
  <2>. QED
    BY <2>1, OfAssetsHas
<1>10. TreeInv'
  BY <1>6, <1>7 DEF CloudInv, TreeInv, TreeTypeOK, RequestRecords
<1>11. RowsInv'
  <2>1. CASE UNCHANGED <<rows, row>>
    BY <1>6, <2>1 DEF CloudInv, RowsInv, ShowsAsset, ShowsInstance, worldVars
  <2>2. CASE rows' = rows \cup {u} /\ row' = [row EXCEPT ![u] = p.all[u]]
    BY <1>6, <1>8, <1>9, <2>2, Apart DEF CloudInv, RowsInv, ShowsAsset, ShowsInstance, worldVars
  <2>. QED
    BY <1>7, <2>1, <2>2
<1>13. LaterInv'
  <2>1. CASE UNCHANGED later
    BY <1>7, <2>1, LaterRests
  <2>2. CASE /\ u \in rows /\ k = "rds" /\ UNCHANGED <<rows, row>>
             /\ later' = [later EXCEPT ![u] = [NoLater EXCEPT !.row = p.all[u]]]
    <3>1. PICK x : x = [NoLater EXCEPT !.row = p.all[u]]
      OBVIOUS
    <3>2. x \in LaterRecords /\ x.row = p.all[u]
      BY <1>9, <3>1, NoRowIs DEF NoLater, LaterRecords
    <3>3. ShowsAsset(u, x.row)
      BY <1>8, <3>2 DEF ShowsAsset
    <3>4. later' = [later EXCEPT ![u] = x]
      BY <2>2, <3>1
    <3>5. later' \in [Assets -> LaterRecords] /\ later'[u] = x
          /\ \A v \in Assets \ {u} : later'[v] = later[v]
      BY <3>2, <3>4 DEF CloudInv, LaterInv
    <3>6. ASSUME NEW v \in Assets, Twice(v)'
          PROVE  v \in rows /\ KindOfAsset(v) \in {"rds", "dns"} /\ ShowsAsset(v, later'[v].row)
      <4>1. CASE v = u
        BY <1>8, <2>2, <3>3, <3>5, <4>1
      <4>2. CASE v # u
        BY <3>5, <3>6, <4>2 DEF CloudInv, LaterInv, Twice
      <4>. QED
        BY <4>1, <4>2
    <3>. QED
      BY <2>2, <3>5, <3>6 DEF LaterInv, ShowsAsset, ShowsInstance
  <2>. QED
    BY <1>7, <2>1, <2>2
<1>12. LinksInv'
  BY <1>6, <1>7 DEF CloudInv, LinksInv
<1>. QED
  BY <1>1, <1>2, <1>4, <1>5, <1>6, <1>10, <1>11, <1>12, <1>13, SavingStep

LEMMA UpdateRowStep ==
  ASSUME CloudInv, NEW k \in AssetKinds, NEW u \in Assets, UpdateRow(k, u)
  PROVE  CloudInv'
<1>1. PICK p \in PassRecords : p = pass[k]
  BY DEF CloudInv
<1>2. p.pc = "save" /\ u \in p.mod /\ PassInv(k, p)
  BY <1>1 DEF UpdateRow, CloudInv
<1>3. PICK q : q = [p EXCEPT !.mod = p.mod \ {u}]
  OBVIOUS
<1>4. /\ q \in PassRecords /\ q.pc = "save" /\ q.all = p.all /\ q.db = p.db
      /\ q.short = p.short
      /\ q.add \subseteq p.add /\ q.mod \subseteq p.mod /\ q.del \subseteq p.del
  BY <1>2, <1>3 DEF PassRecords
<1>5. pass' = [pass EXCEPT ![k] = q]
  BY <1>1, <1>3 DEF UpdateRow, CloudInv
<1>6. /\ UNCHANGED <<treeVars, later, link, order, worldVars, stage, dns>>
      /\ faults' \in 0 .. MaxFaults /\ quiet' \in BOOLEAN
  BY FaultCounts DEF UpdateRow, CloudInv, WorldInv, boundVars
<1>7. \/ u \in rows /\ row' = [row EXCEPT ![u] = p.all[u]]
      \/ row' = row
  BY <1>1 DEF UpdateRow
<1>8. /\ u \in CloudInstances /\ KindOfAsset(u) = k /\ cloud[u] # "unborn"
      /\ ShowsInstance(u, p.all[u])
      /\ u \in Assets /\ u \notin Hosts /\ u \notin Records
  BY <1>2, Apart DEF PassInv, OfKind
<1>9. p.all[u] \in RowRecords
  <2>1. p.all \in OfAssets(RowRecords) /\ u \in DOMAIN p.all
    BY <1>2 DEF PassRecords, PassInv
  <2>. QED
    BY <2>1, OfAssetsHas
<1>10. TreeInv' /\ LaterInv' /\ LinksInv'
  BY <1>6, TreeRests, LaterRests DEF CloudInv, LinksInv, treeVars
<1>11. RowsInv'
  <2>1. CASE row' = row
    BY <1>6, <2>1 DEF CloudInv, RowsInv, ShowsAsset, ShowsInstance, worldVars, treeVars
  <2>2. CASE u \in rows /\ row' = [row EXCEPT ![u] = p.all[u]]
    BY <1>6, <1>8, <1>9, <2>2 DEF CloudInv, RowsInv, ShowsAsset, ShowsInstance, worldVars, treeVars
  <2>. QED
    BY <1>7, <2>1, <2>2
<1>. QED
  BY <1>1, <1>2, <1>4, <1>5, <1>6, <1>10, <1>11, SavingStep

(* A row that goes takes its requests along.                                *)
LEMMA DropRowIs ==
  ASSUME TreeInv, NEW u \in Assets, NEW another \in BOOLEAN, DropRow(u, another),
         UNCHANGED <<born, nodes, pid>>
  PROVE  TreeInv'
<1>1. /\ rows' \subseteq rows /\ rows \subseteq rows' \cup {u}
      /\ bound' = [bound EXCEPT ![u] = {}]
      /\ req' = [r \in TreeRequests |-> IF req[r].asset = u THEN Ended ELSE req[r]]
  BY DEF DropRow
<1>2. Ended \in RequestRecords /\ Ended.op = "ended" /\ Ended.read = {}
  BY DEF Ended, NoRequest, RequestRecords
<1>3. ASSUME NEW r \in TreeRequests
      PROVE  /\ req'[r] \in RequestRecords
             /\ req'[r].op \in {"none", "bind", "unbind", "delete", "ended"}
             /\ req'[r].op \in {"bind", "unbind"} => req'[r].asset \in rows' /\ req'[r].node \in born
             /\ req'[r].read \subseteq born
  <2>1. CASE req[r].asset = u
    BY <1>1, <1>2, <2>1
  <2>2. CASE req[r].asset # u
    <3>1. req'[r] = req[r]
      BY <1>1, <2>2
    <3>2. req[r].op \in {"bind", "unbind"} => req[r].asset \in rows' /\ req[r].node \in born
      BY <1>1, <2>2 DEF TreeInv, TreeTypeOK
    <3>. QED
      BY <3>1, <3>2 DEF TreeInv, TreeTypeOK
  <2>. QED
    BY <2>1, <2>2
<1>4. req' \in [TreeRequests -> RequestRecords]
  BY <1>1, <1>2, <1>3
<1>5. /\ bound' \in [Assets -> SUBSET nodes'] /\ rows' \subseteq Assets
      /\ \A v \in Assets \ rows' : bound'[v] = {}
  BY <1>1 DEF TreeInv, TreeTypeOK
<1>. QED
  BY <1>3, <1>4, <1>5 DEF TreeInv, TreeTypeOK, RequestRecords

LEMMA DeleteFirstIs ==
  ASSUME TreeInv, RowsInv, LaterInv, LinksInv, NEW u \in Assets, DeleteFirst(u),
         UNCHANGED <<born, nodes, pid, cloud, order>>
  PROVE  TreeInv' /\ RowsInv' /\ LaterInv' /\ LinksInv'
<1>1. PICK T \in BOOLEAN : T = Twice(u)
  BY DEF Twice
<1>2. /\ DropRow(u, T) /\ rows' = IF T THEN rows ELSE rows \ {u}
      /\ row' = [row EXCEPT ![u] = later[u].row]
      /\ link' = [n \in Records |-> IF n = u THEN later[n].link ELSE link[n]]
      /\ later' = [later EXCEPT ![u] = NoLater]
  BY <1>1 DEF DeleteFirst, DropRow
<1>3. TreeInv'
  BY <1>2, DropRowIs
<1>4. PICK x \in LaterRecords :
        /\ x = later[u] /\ x.row \in RowRecords /\ x.link \in Assets \cup {Blank}
        /\ T => u \in rows /\ u \notin Hosts /\ ShowsAsset(u, x.row)
        /\ ~T => x.row = NoRow /\ x.link = Blank
  BY <1>1, Apart, NoRowIs DEF LaterInv, LaterRecords, Twice
<1>5. /\ row' \in [Assets -> RowRecords] /\ row'[u] = x.row
      /\ \A v \in Assets \ {u} : row'[v] = row[v]
  BY <1>2, <1>4 DEF RowsInv
<1>6. RowsInv'
  <2>1. \A v \in rows' : ShowsAsset(v, row'[v])
    BY <1>2, <1>4, <1>5 DEF RowsInv, TreeInv, TreeTypeOK
  <2>2. \A v \in rows' \cap Hosts : row'[v].vendor = "self" /\ row'[v].vm = 2
    BY <1>2, <1>4, <1>5 DEF RowsInv, TreeInv, TreeTypeOK
  <2>3. \A v \in Assets \ rows' : row'[v] = NoRow
    BY <1>2, <1>4, <1>5 DEF RowsInv
  <2>4. rows' \subseteq rows
    BY <1>2
  <2>. QED
    BY <1>5, <2>1, <2>2, <2>3, <2>4 DEF RowsInv, ShowsAsset, ShowsInstance
<1>7. LaterInv'
  <2>1. /\ later' \in [Assets -> LaterRecords] /\ later'[u] = NoLater
        /\ \A v \in Assets \ {u} : later'[v] = later[v]
    BY <1>2, NoRowIs DEF LaterInv
  <2>2. ASSUME NEW v \in Assets, Twice(v)'
        PROVE  v \in rows' /\ KindOfAsset(v) \in {"rds", "dns"} /\ ShowsAsset(v, later'[v].row)
    BY <1>2, <2>1, <2>2 DEF LaterInv, Twice
  <2>. QED
    BY <2>1, <2>2 DEF LaterInv, ShowsAsset, ShowsInstance
<1>8. LinksInv'
  <2>1. ASSUME NEW n \in Records
        PROVE  link'[n] \in Assets \cup {Blank} /\ (link'[n] # Blank => n \in rows')
    BY <1>2, <1>4 DEF LinksInv
  <2>. QED
    BY <1>2, <2>1 DEF LinksInv
<1>. QED
  BY <1>3, <1>6, <1>7, <1>8

LEMMA RemoveRowStep ==
  ASSUME CloudInv, NEW k \in AssetKinds, NEW u \in Assets, RemoveRow(k, u)
  PROVE  CloudInv'
<1>1. PICK p \in PassRecords : p = pass[k]
  BY DEF CloudInv
<1>2. p.pc = "save" /\ u \in p.del /\ PassInv(k, p)
  BY <1>1 DEF RemoveRow, CloudInv
<1>3. PICK q : q = [p EXCEPT !.del = p.del \ {u}]
  OBVIOUS
<1>4. /\ q \in PassRecords /\ q.pc = "save" /\ q.all = p.all /\ q.db = p.db
      /\ q.short = p.short
      /\ q.add \subseteq p.add /\ q.mod \subseteq p.mod /\ q.del \subseteq p.del
  BY <1>2, <1>3 DEF PassRecords
<1>5. pass' = [pass EXCEPT ![k] = q]
  BY <1>1, <1>3 DEF RemoveRow, CloudInv
<1>6. /\ UNCHANGED <<born, nodes, pid, order, worldVars, stage, dns>>
      /\ faults' \in 0 .. MaxFaults /\ quiet' \in BOOLEAN
  BY FaultCounts DEF RemoveRow, CloudInv, WorldInv, boundVars
<1>7. TreeInv' /\ RowsInv' /\ LaterInv' /\ LinksInv'
  <2>1. CASE UNCHANGED rowVars
    <3>1. UNCHANGED <<treeVars, row, later, link, order, cloud>>
      BY <1>6, <2>1 DEF rowVars, treeVars, worldVars
    <3>. QED
      BY <3>1, TablesRest DEF CloudInv, LinksInv, treeVars
  <2>2. CASE DeleteFirst(u)
    BY <1>6, <2>2, DeleteFirstIs DEF CloudInv, worldVars
  <2>. QED
    BY <2>1, <2>2 DEF RemoveRow
<1>. QED
  BY <1>1, <1>2, <1>4, <1>5, <1>6, <1>7, SavingStep

-----------------------------------------------------------------------------
LEMMA AssociatedIs ==
  ASSUME CloudInv, NEW v
  PROVE  \A K : associateDnsWithAsset(v, K) \subseteq Assets \cup {Blank}
BY DEF associateDnsWithAsset, ByIp, Rows, CloudInv, TreeInv, TreeTypeOK

(* The hashes of the records in the table.                                  *)
LEMMA RecordHashes ==
  ASSUME CloudInv
  PROVE  /\ GetUidAndHash("dns") \in OfAssets(Hashes)
         /\ Rows("dns") = rows \cap Records /\ DOMAIN GetUidAndHash("dns") = rows \cap Records
         /\ \A n \in rows \cap Records : ~Twice(n) => GetUidAndHash("dns")[n] = row[n].hash
<1>1. Rows("dns") = rows \cap Records
  BY Apart DEF Rows, CloudInv, TreeInv, TreeTypeOK
<1>2. /\ Rows("dns") \in SUBSET Assets
      /\ \A n \in Rows("dns") : HashOf(n) \in Hashes /\ (~Twice(n) => HashOf(n) = row[n].hash)
  BY <1>1, Apart DEF CloudInv, RowsInv, LaterInv, LaterRecords, RowRecords, HashOf
<1>3. [n \in Rows("dns") |-> HashOf(n)] \in [Rows("dns") -> Hashes]
  BY <1>2
<1>4. GetUidAndHash("dns") = [n \in Rows("dns") |-> HashOf(n)]
  BY DEF GetUidAndHash
<1>. QED
  BY <1>1, <1>2, <1>3, <1>4, OfAssetsIs

LEMMA DnsBeginStep ==
  ASSUME CloudInv, RunSyncCloudResourceDns
  PROVE  CloudInv'
<1>1. /\ stage = "base" /\ pass' = [k \in AssetKinds |-> NoPass]
      /\ UNCHANGED <<treeVars, row, later, link, order, worldVars>>
  BY DEF RunSyncCloudResourceDns
<1>2. faults' \in 0 .. MaxFaults /\ quiet' \in BOOLEAN
  BY FaultCounts DEF RunSyncCloudResourceDns, CloudInv, WorldInv, boundVars
<1>3. PICK db \in OfAssets(Hashes) : db = GetUidAndHash("dns")
  BY RecordHashes
<1>4. PICK d : d = [NoDns EXCEPT !.pc = "fetch", !.db = db]
  OBVIOUS
<1>5. /\ d.pc = "fetch" /\ d.all = Empty /\ d.add = {} /\ d.mod = {} /\ d.del = {}
      /\ d.unlinked = {} /\ d \in DnsRecords
  BY <1>3, <1>4, EmptyIs DEF NoDns, DnsRecords
<1>6. DnsInv(d)
  BY <1>5, EmptyIs DEF DnsInv
<1>7. \/ stage' = "dns" /\ dns' = d
      \/ stage' = "idle" /\ dns' = dns
  BY <1>3, <1>4 DEF RunSyncCloudResourceDns
<1>8. /\ pass' \in [AssetKinds -> PassRecords]
      /\ \A k \in AssetKinds : PassInv(k, pass[k])' /\ pass'[k].pc = "none"
  <2>1. \A k \in AssetKinds : NoPass \in PassRecords /\ pass'[k] = NoPass
    BY <1>1, NoPassIs DEF PassInv
  <2>2. \A k \in AssetKinds : PassInv(k, pass'[k]) /\ pass'[k].pc = "none"
    BY <2>1, NoPassIs
  <2>3. \A k \in AssetKinds : PassInv(k, pass[k])'
    BY <1>1, <2>2 DEF PassInv, OfKind, ShowsInstance, worldVars
  <2>. QED
    BY <1>1, <2>1, <2>2, <2>3
<1>9. TreeInv' /\ RowsInv' /\ LaterInv' /\ WorldInv' /\ LinksInv'
  BY <1>1, <1>2, TablesRest, WorldRests DEF CloudInv, LinksInv, worldVars, treeVars
<1>10. /\ DnsInv(dns)' /\ (dns'.pc = "none" <=> stage' # "dns")
       /\ dns'.unlinked = {} /\ stage' \in {"idle", "base", "dns"}
  <2>1. CASE stage' = "dns" /\ dns' = d
    <3>1. DnsInv(dns')
      BY <1>6, <2>1
    <3>. QED
      BY <1>5, <2>1, <3>1 DEF DnsInv
  <2>2. CASE stage' = "idle" /\ dns' = dns
    BY <1>1, <2>2 DEF CloudInv, DnsInv
  <2>. QED
    BY <1>7, <2>1, <2>2
<1>. QED
  BY <1>1, <1>5, <1>7, <1>8, <1>9, <1>10 DEF CloudInv, treeVars

(* Only the variables of the DNS pass change.                               *)
LEMMA DnsMoves ==
  ASSUME CloudInv, NEW d, dns' = d, DnsInv(d), d.pc # "none", stage = "dns",
         d.unlinked \subseteq rows \cap Records, d.pc # "link" => d.unlinked = {},
         UNCHANGED <<treeVars, row, order, worldVars, stage, pass>>, LaterInv', LinksInv',
         faults' \in 0 .. MaxFaults, quiet' \in BOOLEAN
  PROVE  CloudInv'
<1>1. TreeInv' /\ WorldInv'
  BY TreeRests, WorldRests DEF CloudInv
<1>4. RowsInv'
  BY DEF CloudInv, RowsInv, ShowsAsset, ShowsInstance, treeVars, worldVars
<1>2. \A k \in AssetKinds : PassInv(k, pass[k])'
  BY PassesRest DEF worldVars
<1>3. DnsInv(dns)'
  BY DEF DnsInv
<1>. QED
  BY <1>1, <1>2, <1>3, <1>4 DEF CloudInv, treeVars

(* The provider is asked and the answer compared.                           *)
FetchedDns(p, q, a) ==
  /\ p \in DnsRecords /\ q \in DnsRecords /\ p = dns /\ q = dns'
  /\ p.pc = "fetch" /\ q.pc = "save" /\ q.db = p.db /\ q.all = a
  /\ q.add = DOMAIN a \ DOMAIN p.db
  /\ q.mod = {u \in DOMAIN a \cap DOMAIN p.db : a[u].hash # p.db[u]}
  /\ q.del = DOMAIN p.db \ DOMAIN a
  /\ q.unlinked = p.unlinked
  /\ \A n \in DOMAIN a : /\ n \in Records /\ a[n].ip = zone[n] /\ a[n].hash.ip = zone[n]
                         /\ zone[n] # Blank
  /\ quiet' => quiet /\ \A n \in Records : zone[n] # Blank => n \in DOMAIN a

LEMMA FetchDnsIs ==
  ASSUME CloudInv, FetchDns
  PROVE  \E p, q, a : FetchedDns(p, q, a)
<1>1. PICK p \in DnsRecords : p = dns /\ p.pc = "fetch"
  BY DEF CloudInv, DnsInv, FetchDns
<1>2. PICK ok \in BOOLEAN :
        /\ dns' = Differences([dns EXCEPT !.pc = "save", !.all = RunSyncOneDomainGodaddy(ok)])
        /\ ok \/ quiet' = FALSE
        /\ ok => quiet' = quiet
  BY DEF FetchDns, boundVars, Fault
<1>3. PICK T : T = {m \in Records : ok /\ zone[m] # Blank}
  OBVIOUS
<1>4. PICK a : a = [n \in T |-> DnsRow(n)]
  OBVIOUS
<1>5. a = RunSyncOneDomainGodaddy(ok)
  BY <1>3, <1>4 DEF RunSyncOneDomainGodaddy
<1>6. \A n \in T : /\ n \in Records /\ n \in Assets /\ a[n] \in RowRecords
                   /\ a[n].ip = zone[n] /\ a[n].hash.ip = zone[n] /\ zone[n] # Blank
  BY <1>3, <1>4, Apart DEF DnsRow, RowRecords, Hashes, Hash, CloudInv, WorldInv
<1>7. DOMAIN a = T /\ T \in SUBSET Assets /\ a \in [T -> RowRecords]
  BY <1>4, <1>6
<1>8. a \in OfAssets(RowRecords)
  BY <1>7, OfAssetsIs
<1>10. PICK d \in OfAssets(Hashes) : d = p.db
  BY DEF DnsRecords
<1>11. PICK x : x = [p EXCEPT !.pc = "save", !.all = a]
  OBVIOUS
<1>12. DOMAIN a \in SUBSET Assets /\ DOMAIN d \in SUBSET Assets
  BY <1>8, OfAssetsHas
<1>13. x \in DnsRecords /\ x.pc = "save" /\ x.all = a /\ x.db = d /\ x.unlinked = p.unlinked
  BY <1>8, <1>10, <1>11 DEF DnsRecords
<1>14. PICK q \in DnsRecords :
         /\ q = Differences(x)
         /\ q.pc = "save" /\ q.db = d /\ q.all = a /\ q.unlinked = p.unlinked
         /\ q.add = DOMAIN a \ DOMAIN d
         /\ q.mod = {u \in DOMAIN a \cap DOMAIN d : a[u].hash # d[u]}
         /\ q.del = DOMAIN d \ DOMAIN a
  <2>1. PICK A \in SUBSET Assets, M \in SUBSET Assets, D \in SUBSET Assets :
          /\ A = DOMAIN a \ DOMAIN d
          /\ M = {u \in DOMAIN a \cap DOMAIN d : a[u].hash # d[u]}
          /\ D = DOMAIN d \ DOMAIN a
    BY <1>12
  <2>2. Differences(x) = [x EXCEPT !.add = A, !.mod = M, !.del = D]
    BY <1>13, <2>1 DEF Differences
  <2>3. PICK q : q = [x EXCEPT !.add = A, !.mod = M, !.del = D]
    OBVIOUS
  <2>4. /\ q \in DnsRecords /\ q.pc = "save" /\ q.db = d /\ q.all = a
        /\ q.add = A /\ q.mod = M /\ q.del = D /\ q.unlinked = p.unlinked
    BY <1>13, <2>3 DEF DnsRecords
  <2>. QED
    BY <2>1, <2>2, <2>3, <2>4
<1>15. dns' = q
  BY <1>1, <1>2, <1>5, <1>11, <1>14
<1>16. /\ q.pc = "save" /\ q.db = p.db /\ q.all = a /\ q.add = DOMAIN a \ DOMAIN p.db
       /\ q.mod = {u \in DOMAIN a \cap DOMAIN p.db : a[u].hash # p.db[u]}
       /\ q.del = DOMAIN p.db \ DOMAIN a /\ q.unlinked = p.unlinked
  BY <1>10, <1>14
<1>17. \A n \in DOMAIN a : /\ n \in Records /\ a[n].ip = zone[n] /\ a[n].hash.ip = zone[n]
                           /\ zone[n] # Blank
  BY <1>6, <1>7
<1>18. quiet' => quiet /\ \A n \in Records : zone[n] # Blank => n \in DOMAIN a
  BY <1>2, <1>3, <1>7
<1>19. FetchedDns(p, q, a)
  BY <1>1, <1>14, <1>15, <1>16, <1>17, <1>18 DEF FetchedDns
<1>. QED
  BY <1>19

LEMMA FetchDnsStep ==
  ASSUME CloudInv, FetchDns
  PROVE  CloudInv'
<1>1. PICK p, q, a : FetchedDns(p, q, a)
  BY FetchDnsIs
<1>2. /\ UNCHANGED <<treeVars, row, later, link, order, worldVars, stage, pass>>
      /\ faults' \in 0 .. MaxFaults /\ quiet' \in BOOLEAN
  BY FaultCounts DEF FetchDns, CloudInv, WorldInv, boundVars
<1>3. /\ dns' = q /\ q \in DnsRecords /\ q.pc = "save" /\ p = dns /\ p.pc = "fetch"
      /\ q.all = a /\ q.unlinked = p.unlinked
      /\ q.add \cup q.mod \subseteq DOMAIN a
      /\ \A n \in DOMAIN a : n \in Records /\ a[n].ip = zone[n] /\ a[n].hash.ip = zone[n]
  BY <1>1 DEF FetchedDns
<1>4. DnsInv(q)
  BY <1>3 DEF DnsInv
<1>5. stage = "dns" /\ q.unlinked = {}
  BY <1>3 DEF CloudInv
<1>6. LaterInv' /\ LinksInv'
  BY <1>2, LaterRests DEF CloudInv, LinksInv, treeVars
<1>. QED
  BY <1>2, <1>3, <1>4, <1>5, <1>6, DnsMoves

LEMMA SaveRecordStep ==
  ASSUME CloudInv, NEW n \in Records, SaveRecord(n)
  PROVE  CloudInv'
<1>1. PICK p \in DnsRecords : p = dns /\ p.pc = "save" /\ n \in p.add \cup p.mod /\ DnsInv(p)
  BY DEF CloudInv, DnsInv, SaveRecord
<1>2. PICK q : q = [p EXCEPT !.add = p.add \ {n}, !.mod = p.mod \ {n}]
  OBVIOUS
<1>3. /\ q \in DnsRecords /\ q.pc = "save" /\ q.all = p.all /\ q.unlinked = p.unlinked
      /\ q.add \subseteq p.add /\ q.mod \subseteq p.mod
  BY <1>1, <1>2 DEF DnsRecords
<1>4. dns' = q
  BY <1>1, <1>2 DEF SaveRecord
<1>5. DnsInv(q)
  BY <1>1, <1>3 DEF DnsInv
<1>6. stage = "dns" /\ q.unlinked = {}
  BY <1>1, <1>3 DEF CloudInv
<1>7. /\ UNCHANGED <<born, nodes, pid, bound, req, order, worldVars, stage, pass>>
      /\ faults' \in 0 .. MaxFaults /\ quiet' \in BOOLEAN
  BY FaultCounts DEF SaveRecord, CloudInv, WorldInv, boundVars
<1>8. p.all[n] \in RowRecords /\ p.all[n].hash.ip = p.all[n].ip
  <2>1. p.all \in OfAssets(RowRecords) /\ n \in DOMAIN p.all
    BY <1>1 DEF DnsRecords, DnsInv
  <2>. QED
    BY <1>1, <2>1, OfAssetsHas DEF DnsInv
<1>11. ShowsAsset(n, p.all[n]) /\ KindOfAsset(n) = "dns" /\ n \in Assets
  BY <1>8, Apart DEF ShowsAsset
<1>12. \/ UNCHANGED <<rows, row, later, link>>
       \/ /\ rows' = rows \cup {n} /\ row' = [row EXCEPT ![n] = p.all[n]] /\ UNCHANGED later
          /\ \E u \in Assets \cup {Blank} : link' = [link EXCEPT ![n] = u]
       \/ /\ UNCHANGED <<rows, row, link>> /\ n \in rows
          /\ \E u \in Assets \cup {Blank} :
               later' = [later EXCEPT ![n] = [row |-> p.all[n], link |-> u]]
  BY <1>1, AssociatedIs DEF SaveRecord, WriteRecord
<1>9. CASE UNCHANGED <<rows, row, later, link>>
  <2>1. LaterInv' /\ LinksInv'
    BY <1>9, LaterRests DEF CloudInv, LinksInv
  <2>2. UNCHANGED treeVars
    BY <1>7, <1>9 DEF treeVars
  <2>. QED
    BY <1>3, <1>4, <1>5, <1>6, <1>7, <1>9, <2>1, <2>2, DnsMoves
<1>13. CASE /\ UNCHANGED <<rows, row, link>> /\ n \in rows
            /\ \E u \in Assets \cup {Blank} :
                 later' = [later EXCEPT ![n] = [row |-> p.all[n], link |-> u]]
  <2>1. PICK u \in Assets \cup {Blank} :
          later' = [later EXCEPT ![n] = [row |-> p.all[n], link |-> u]]
    BY <1>13
  <2>2. PICK x \in LaterRecords : x = [row |-> p.all[n], link |-> u] /\ x.row = p.all[n]
    <3>1. PICK y \in RowRecords : y = p.all[n]
      BY <1>8
    <3>2. PICK x : x = [row |-> y, link |-> u]
      OBVIOUS
    <3>3. x \in LaterRecords /\ x.row = y
      BY <3>2 DEF LaterRecords
    <3>. QED
      BY <3>1, <3>2, <3>3
  <2>3. /\ later' \in [Assets -> LaterRecords] /\ later'[n] = x
        /\ \A v \in Assets \ {n} : later'[v] = later[v]
    BY <1>11, <2>1, <2>2 DEF CloudInv, LaterInv
  <2>4. ASSUME NEW v \in Assets, Twice(v)'
        PROVE  v \in rows' /\ KindOfAsset(v) \in {"rds", "dns"} /\ ShowsAsset(v, later'[v].row)
    <3>1. CASE v = n
      BY <1>11, <1>13, <2>2, <2>3, <3>1
    <3>2. CASE v # n
      BY <1>13, <2>3, <2>4, <3>2 DEF CloudInv, LaterInv, Twice
    <3>. QED
      BY <3>1, <3>2
  <2>5. LaterInv'
    BY <2>3, <2>4 DEF LaterInv, ShowsAsset, ShowsInstance
  <2>6. LinksInv' /\ UNCHANGED treeVars
    BY <1>7, <1>13 DEF CloudInv, LinksInv, treeVars
  <2>. QED
    BY <1>3, <1>4, <1>5, <1>6, <1>7, <1>13, <2>5, <2>6, DnsMoves
<1>10. CASE /\ rows' = rows \cup {n} /\ row' = [row EXCEPT ![n] = p.all[n]] /\ UNCHANGED later
            /\ \E u \in Assets \cup {Blank} : link' = [link EXCEPT ![n] = u]
  <2>1. n \in Assets /\ n \notin Hosts /\ n \notin CloudInstances /\ n \notin Purchases
    BY Apart
  <2>2. TreeInv'
    BY <1>7, <1>10, <2>1 DEF CloudInv, TreeInv, TreeTypeOK, RequestRecords
  <2>3. RowsInv'
    BY <1>7, <1>8, <1>10, <1>11, <2>1 DEF CloudInv, RowsInv, ShowsAsset, ShowsInstance, worldVars
  <2>4. LaterInv' /\ WorldInv'
    BY <1>7, <1>10, LaterRests, WorldRests
  <2>5. \A k \in AssetKinds : PassInv(k, pass[k])'
    BY <1>7, PassesRest DEF worldVars
  <2>6. DnsInv(dns)'
    BY <1>4, <1>5 DEF DnsInv
  <2>8. LinksInv'
    BY <1>10 DEF CloudInv, LinksInv
  <2>. QED
    BY <1>3, <1>4, <1>6, <1>7, <1>10, <2>2, <2>3, <2>4, <2>5, <2>6, <2>8 DEF CloudInv
<1>. QED
  BY <1>9, <1>10, <1>12, <1>13

LEMMA DeleteRecordStep ==
  ASSUME CloudInv, NEW n \in Records, DeleteRecord(n)
  PROVE  CloudInv'
<1>1. PICK p \in DnsRecords : p = dns /\ p.pc = "save" /\ DnsInv(p)
  BY DEF CloudInv, DnsInv, DeleteRecord
<1>2. PICK q : q = [p EXCEPT !.del = p.del \ {n}]
  OBVIOUS
<1>3. /\ q \in DnsRecords /\ q.pc = "save" /\ q.all = p.all /\ q.unlinked = p.unlinked
      /\ q.add = p.add /\ q.mod = p.mod
  BY <1>1, <1>2 DEF DnsRecords
<1>4. dns' = q
  BY <1>1, <1>2 DEF DeleteRecord
<1>5. DnsInv(q)
  BY <1>1, <1>3 DEF DnsInv
<1>6. stage = "dns" /\ q.unlinked = {}
  BY <1>1, <1>3 DEF CloudInv
<1>7. /\ UNCHANGED <<born, nodes, pid, order, worldVars, stage, pass>>
      /\ faults' \in 0 .. MaxFaults /\ quiet' \in BOOLEAN
  BY FaultCounts DEF DeleteRecord, CloudInv, WorldInv, boundVars
<1>9. CASE UNCHANGED rowVars
  <2>1. UNCHANGED <<treeVars, row, later, link>>
    BY <1>7, <1>9 DEF rowVars, treeVars
  <2>2. LaterInv' /\ LinksInv'
    BY <2>1, LaterRests DEF CloudInv, LinksInv, treeVars
  <2>. QED
    BY <1>3, <1>4, <1>5, <1>6, <1>7, <2>1, <2>2, DnsMoves
<1>10. CASE DeleteFirst(n)
  <2>1. n \in Assets
    BY Apart
  <2>2. TreeInv' /\ RowsInv' /\ LaterInv' /\ LinksInv'
    BY <1>7, <1>10, <2>1, DeleteFirstIs DEF CloudInv, worldVars
  <2>4. WorldInv' /\ \A k \in AssetKinds : PassInv(k, pass[k])'
    BY <1>7, WorldRests, PassesRest DEF worldVars
  <2>6. DnsInv(dns)'
    BY <1>4, <1>5 DEF DnsInv
  <2>. QED
    BY <1>3, <1>4, <1>6, <1>7, <2>2, <2>4, <2>6 DEF CloudInv
<1>. QED
  BY <1>9, <1>10 DEF DeleteRecord

LEMMA UnlinkedStep ==
  ASSUME CloudInv, Unlinked
  PROVE  CloudInv'
<1>1. PICK p \in DnsRecords : p = dns /\ p.pc = "save" /\ DnsInv(p)
  BY DEF CloudInv, DnsInv, Unlinked
<1>2. PICK U \in SUBSET Assets :
        U = {n \in Rows("dns") : link[n] = Blank \/ (Twice(n) /\ later[n].link = Blank)}
  BY DEF Rows, CloudInv, TreeInv, TreeTypeOK
<1>3. PICK q : q = [p EXCEPT !.pc = "link", !.unlinked = U]
  OBVIOUS
<1>4. /\ q \in DnsRecords /\ q.pc = "link" /\ q.all = p.all /\ q.unlinked = U
      /\ q.add = p.add /\ q.mod = p.mod
  BY <1>1, <1>3 DEF DnsRecords
<1>5. dns' = q
  BY <1>1, <1>2, <1>3 DEF Unlinked
<1>6. DnsInv(q)
  BY <1>1, <1>4 DEF DnsInv
<1>7. stage = "dns" /\ q.unlinked \subseteq rows \cap Records
  BY <1>1, <1>2, <1>4, RecordHashes DEF CloudInv
<1>8. UNCHANGED <<treeVars, row, later, link, order, worldVars, stage, pass, boundVars>>
  BY DEF Unlinked
<1>9. LaterInv' /\ LinksInv' /\ faults' \in 0 .. MaxFaults /\ quiet' \in BOOLEAN
  BY <1>8, LaterRests DEF CloudInv, LinksInv, WorldInv, boundVars, treeVars
<1>. QED
  BY <1>4, <1>5, <1>6, <1>7, <1>8, <1>9, DnsMoves

LEMMA LinkRecordStep ==
  ASSUME CloudInv, NEW n \in Records, LinkRecord(n)
  PROVE  CloudInv'
<1>1. PICK p \in DnsRecords : p = dns /\ p.pc = "link" /\ DnsInv(p) /\ n \in p.unlinked
  BY DEF CloudInv, DnsInv, LinkRecord
<1>2. PICK q : q = [p EXCEPT !.unlinked = p.unlinked \ {n}]
  OBVIOUS
<1>3. /\ q \in DnsRecords /\ q.pc = "link" /\ q.all = p.all /\ q.unlinked \subseteq p.unlinked
      /\ q.add = p.add /\ q.mod = p.mod
  BY <1>1, <1>2 DEF DnsRecords
<1>4. dns' = q
  BY <1>1, <1>2 DEF LinkRecord
<1>5. DnsInv(q)
  BY <1>1, <1>3 DEF DnsInv
<1>6. stage = "dns" /\ q.unlinked \subseteq rows \cap Records /\ n \in rows
  BY <1>1, <1>3 DEF CloudInv
<1>7. /\ UNCHANGED <<treeVars, row, order, worldVars, stage, pass>>
      /\ faults' \in 0 .. MaxFaults /\ quiet' \in BOOLEAN
  BY FaultCounts DEF LinkRecord, CloudInv, WorldInv, boundVars
<1>8. /\ \/ \E u \in Assets \cup {Blank} : link' = [link EXCEPT ![n] = u]
         \/ link' = link
      /\ \/ Twice(n) /\ \E u \in Assets \cup {Blank} : later' = [later EXCEPT ![n].link = u]
         \/ later' = later
  BY AssociatedIs DEF LinkRecord, LinkRows
<1>9. LinksInv'
  BY <1>6, <1>7, <1>8 DEF CloudInv, LinksInv, treeVars
<1>10. LaterInv'
  <2>1. CASE later' = later
    BY <1>7, <2>1, LaterRests DEF treeVars
  <2>2. CASE Twice(n) /\ \E u \in Assets \cup {Blank} : later' = [later EXCEPT ![n].link = u]
    <3>1. PICK u \in Assets \cup {Blank} : later' = [later EXCEPT ![n].link = u]
      BY <2>2
    <3>2. n \in Assets /\ KindOfAsset(n) = "dns"
      BY Apart
    <3>3. PICK x \in LaterRecords : x = later[n]
      BY <3>2 DEF CloudInv, LaterInv
    <3>4. PICK y : y = [x EXCEPT !.link = u]
      OBVIOUS
    <3>5. y \in LaterRecords /\ y.row = x.row
      BY <3>4 DEF LaterRecords
    <3>6. later' = [later EXCEPT ![n] = y]
      BY <3>1, <3>2, <3>3, <3>4 DEF CloudInv, LaterInv
    <3>7. /\ later' \in [Assets -> LaterRecords] /\ later'[n] = y
          /\ \A v \in Assets \ {n} : later'[v] = later[v]
      BY <3>2, <3>5, <3>6 DEF CloudInv, LaterInv
    <3>8. ASSUME NEW v \in Assets, Twice(v)'
          PROVE  v \in rows' /\ KindOfAsset(v) \in {"rds", "dns"} /\ ShowsAsset(v, later'[v].row)
      <4>1. CASE v = n
        BY <1>7, <2>2, <3>2, <3>3, <3>5, <3>7, <4>1 DEF CloudInv, LaterInv, treeVars
      <4>2. CASE v # n
        BY <1>7, <3>7, <3>8, <4>2 DEF CloudInv, LaterInv, Twice, treeVars
      <4>. QED
        BY <4>1, <4>2
    <3>. QED
      BY <3>7, <3>8 DEF LaterInv, ShowsAsset, ShowsInstance
  <2>. QED
    BY <1>8, <2>1, <2>2
<1>. QED
  BY <1>3, <1>4, <1>5, <1>6, <1>7, <1>9, <1>10, DnsMoves

LEMMA PassEndsStep ==
  ASSUME CloudInv, PassEnds
  PROVE  CloudInv'
<1>1. /\ stage = "dns" /\ stage' = "idle" /\ dns' = NoDns
      /\ UNCHANGED <<treeVars, row, later, link, order, worldVars, pass, boundVars>>
  BY DEF PassEnds, CloudInv
<1>2. TreeInv' /\ RowsInv' /\ LaterInv' /\ WorldInv' /\ LinksInv'
  BY <1>1, TablesRest, WorldRests DEF CloudInv, WorldInv, LinksInv, worldVars, boundVars, treeVars
<1>3. \A k \in AssetKinds : PassInv(k, pass[k])'
  BY <1>1, PassesRest DEF worldVars
<1>4. DnsInv(dns)' /\ dns'.pc = "none" /\ dns'.unlinked = {}
  <2>1. DnsInv(dns') /\ dns'.pc = "none" /\ dns'.unlinked = {}
    BY <1>1, NoDnsIs
  <2>. QED
    BY <2>1 DEF DnsInv
<1>. QED
  BY <1>1, <1>2, <1>3, <1>4 DEF CloudInv, treeVars

-----------------------------------------------------------------------------
LEMMA CloudGoesOn ==
  ASSUME CloudInv, CloudNext
  PROVE  CloudInv'
<1>1. ASSUME /\ TreeNext
             /\ quiet' = (quiet /\ \A n \in Records : bound[n] # {} => bound'[n] # {})
             /\ UNCHANGED <<row, later, link, order, worldVars, syncVars, faults>>
      PROVE  CloudInv'
  <2>1. quiet' \in BOOLEAN
    BY <1>1 DEF CloudInv, WorldInv
  <2>. QED
    BY <1>1, <2>1, TreeNextStep
<1>2. ASSUME SyncNext PROVE CloudInv'
  BY <1>2, BeginStep, ReadUidsStep, FetchStep, CreateRowStep, UpdateRowStep, RemoveRowStep,
     DnsBeginStep, FetchDnsStep, SaveRecordStep, DeleteRecordStep, LinkRecordStep,
     UnlinkedStep, PassEndsStep DEF SyncNext
<1>. QED
  BY <1>1, <1>2, CloudChangesStep, SpecChangesStep, ZoneChangesStep, AgentStep, OrderStep
     DEF CloudNext

LEMMA CloudStutters ==
  ASSUME CloudInv, UNCHANGED cloudVars
  PROVE  CloudInv'
<1>1. UNCHANGED <<treeVars, row, later, link, order, worldVars, syncVars, boundVars>>
  BY DEF cloudVars
<1>2. TreeInv' /\ RowsInv' /\ LaterInv' /\ WorldInv' /\ LinksInv'
  BY <1>1, TablesRest, WorldRests DEF CloudInv, WorldInv, LinksInv, worldVars, boundVars, treeVars
<1>3. \A k \in AssetKinds : PassInv(k, pass[k])'
  BY <1>1, PassesRest DEF syncVars, worldVars
<1>4. DnsInv(dns)'
  BY <1>1, DnsRests DEF syncVars
<1>. QED
  BY <1>1, <1>2, <1>3, <1>4 DEF CloudInv, treeVars, syncVars

LEMMA CloudTyped ==
  ASSUME CloudInv
  PROVE  CloudTypeOK
<1>1. /\ TreeTypeOK
      /\ cloud \in [CloudInstances -> Ips \cup {"unborn", "gone"}]
      /\ spec \in [CloudInstances -> {1, 2}]
      /\ zone \in [Records -> Ips \cup {Blank}]
      /\ order \in [Purchases -> {"pending", "done"}]
      /\ quiet \in BOOLEAN
      /\ cloudChanges \in 0 .. MaxCloudChanges /\ faults \in 0 .. MaxFaults
      /\ \A u \in Assets : Twice(u) => u \in rows /\ KindOfAsset(u) \in {"rds", "dns"}
  BY DEF CloudInv, TreeInv, WorldInv, LaterInv
<1>2. /\ \A u \in rows : row[u].ip \in Ips \cup {Blank}
      /\ \A u \in rows \cap Hosts : row[u].vendor = "self" /\ row[u].vm = 2
      /\ \A u \in rows \cap CloudInstances : row[u].vendor = VendorOf(u) /\ row[u].vm = 1
      /\ \A u \in Assets \ rows : row[u] = NoRow
  BY <1>1 DEF CloudInv, RowsInv, ShowsAsset, ShowsInstance, RowRecords, TreeTypeOK
<1>3. \A k \in AssetKinds :
        /\ pass[k].pc \in {"none", "read", "fetch", "save"}
        /\ pass[k].pc = "none" <=> stage # "base"
        /\ pass[k].add \cup pass[k].mod \subseteq DOMAIN pass[k].all
        /\ pass[k].short \subseteq Accounts
  BY DEF CloudInv, PassInv, PassRecords
<1>4. dns.pc \in {"none", "fetch", "save", "link"} /\ (dns.pc = "none" <=> stage # "dns")
  BY DEF CloudInv, DnsInv, DnsRecords
<1>. QED
  BY <1>1, <1>2, <1>3, <1>4 DEF CloudTypeOK, CloudInv, LinksInv

(* A binding is lost to the node, to a request, or to a pass that missed    *)
(* the asset.                                                               *)
LEMMA BindingsAreKept ==
  ASSUME CloudInv, CloudNext
  PROVE  BindingsSurviveStep
<1>. SUFFICES ASSUME NEW u \in Assets, NEW n \in bound[u], n \notin bound'[u]
              PROVE  n \notin nodes' \/ Released(u, n) \/ (u \notin Hosts /\ Missed(u))
  BY DEF BindingsSurviveStep
<1>1. bound \in [Assets -> SUBSET nodes] /\ \A v \in Assets \ rows : bound[v] = {}
  BY DEF CloudInv, TreeInv, TreeTypeOK
<1>3. ASSUME NEW o \in Purchases, NEW title, RunAutoOrderOneByEcs(o, title) PROVE FALSE
  <2>1. o \in Assets /\ o \notin rows
    BY <1>3, Apart DEF RunAutoOrderOneByEcs, CloudInv, RowsInv
  <2>. QED
    BY <1>1, <1>3, <2>1 DEF RunAutoOrderOneByEcs
<1>4. ASSUME NEW k \in AssetKinds, NEW w \in Assets, RemoveRow(k, w)
      PROVE  u \notin Hosts /\ Missed(u)
  <2>1. bound' = [bound EXCEPT ![w] = {}] /\ w \in pass[k].del
    BY <1>4 DEF RemoveRow, rowVars, DeleteFirst, DropRow
  <2>2. u = w
    BY <1>1, <2>1
  <2>3. /\ KindOfAsset(u) = k /\ u \notin Hosts
        /\ u \in CloudInstances => cloud[u] = "gone" \/ VendorOf(u) \in pass[k].short
    BY <2>1, <2>2 DEF CloudInv, PassInv
  <2>. QED
    BY <2>1, <2>2, <2>3, CloudSyncAssumption DEF Missed, Up
<1>5. ASSUME NEW m \in Records, DeleteRecord(m) PROVE FALSE
  BY <1>1, <1>5 DEF DeleteRecord, DeleteFirst, DropRow, rowVars
<1>6. ASSUME TreeNext PROVE n \notin nodes' \/ Released(u, n)
  <2>1. ASSUME NEW r \in TreeRequests, DeleteOne(r) PROVE n \notin nodes'
    BY <1>1, <2>1 DEF DeleteOne
  <2>2. ASSUME NEW r \in TreeRequests, UpdateBindNodes(r) PROVE Released(u, n)
    <3>1. PICK q : q = req[r] /\ bound' = [bound EXCEPT ![q.asset] = thisNode(q)]
      BY <2>2 DEF UpdateBindNodes
    <3>2. q.asset = u /\ n \notin thisNode(q)
      BY <1>1, <3>1
    <3>3. req'[r] = Ended
      BY <2>2 DEF UpdateBindNodes, CloudInv, TreeInv
    <3>. QED
      BY <3>1, <3>2, <3>3 DEF Released
  <2>3. ASSUME NEW m, NEW p, createStreeNode(m, p) \/ updateStreeNode(m, p) PROVE FALSE
    BY <2>3 DEF createStreeNode, updateStreeNode
  <2>4. ASSUME NEW r, NEW m, deleteStreeNode(r, m) PROVE FALSE
    BY <2>4 DEF deleteStreeNode
  <2>5. ASSUME NEW r, NEW kind, NEW op, NEW v, NEW m, Ask(r, kind, op, v, m) PROVE FALSE
    BY <2>5 DEF Ask
  <2>. QED
    BY <1>6, <2>1, <2>2, <2>3, <2>4, <2>5 DEF TreeNext,
       bindEcsToStreeNode, unBindEcsToStreeNode, bindElbToStreeNode, unBindElbToStreeNode,
       bindRdsToStreeNode, unBindRdsToStreeNode, bindDnsToStreeNode, unBindDnsToStreeNode
<1>7. ASSUME UNCHANGED bound PROVE FALSE
  BY <1>7
<1>8. ASSUME NEW i \in CloudInstances, NEW ip, CloudChanges(i, ip) PROVE FALSE
  BY <1>7, <1>8 DEF CloudChanges, treeVars
<1>9. ASSUME \/ \E m \in Records, ip \in Ips \cup {Blank} : ZoneChanges(m, ip)
             \/ \E i \in CloudInstances : SpecChanges(i)
      PROVE  FALSE
  BY <1>7, <1>9 DEF ZoneChanges, SpecChanges, treeVars
<1>10. ASSUME NEW s \in Hosts, AgentInfoReport(s) PROVE FALSE
  BY <1>7, <1>10 DEF AgentInfoReport
<1>11. ASSUME NEW k \in AssetKinds, ReadUids(k) \/ Fetch(k) PROVE FALSE
  BY <1>7, <1>11 DEF ReadUids, Fetch, treeVars
<1>12. ASSUME NEW k \in AssetKinds, NEW w \in Assets, CreateRow(k, w) \/ UpdateRow(k, w) PROVE FALSE
  BY <1>7, <1>12 DEF CreateRow, UpdateRow, treeVars
<1>13. ASSUME NEW m \in Records, SaveRecord(m) \/ LinkRecord(m) PROVE FALSE
  BY <1>7, <1>13 DEF SaveRecord, LinkRecord, treeVars
<1>14. ASSUME \/ RunSyncCloudResource \/ RunSyncCloudResourceDns \/ FetchDns \/ Unlinked \/ PassEnds
       PROVE FALSE
  BY <1>7, <1>14 DEF RunSyncCloudResource, RunSyncCloudResourceDns, FetchDns, Unlinked, PassEnds,
     treeVars
<1>15. ASSUME SyncNext PROVE u \notin Hosts /\ Missed(u)
  BY <1>4, <1>5, <1>11, <1>12, <1>13, <1>14, <1>15 DEF SyncNext
<1>. QED
  BY <1>3, <1>6, <1>8, <1>9, <1>10, <1>15 DEF CloudNext

(* A pass that ends undisturbed has brought everything in line.             *)
LEMMA QuietPassEnds ==
  ASSUME CloudInv, QuietInv
  PROVE  CleanPassConvergesStep
<1>. SUFFICES ASSUME PassEnds, quiet PROVE Converged
  BY DEF CleanPassConvergesStep
<1>1. dns.pc = "link" /\ dns.unlinked = {} /\ stage = "dns"
  BY DEF PassEnds, CloudInv
<1>2. InstancesThere /\ QuietDns
  BY <1>1 DEF QuietInv
<1>3. \A n \in Records :
        /\ RecordShown(n)
        /\ n \in rows /\ link[n] = Blank =>
             associateDnsWithAsset(row[n].ip, AssetKinds) = {Blank}
  BY <1>1, <1>2 DEF QuietDns
<1>4. ASSUME NEW k \in AssetKinds, NEW a \in Accounts
      PROVE  rows \cap {i \in CloudInstances : KindOfAsset(i) = k /\ VendorOf(i) = a}
               \in IF a = "aliyun" THEN FirstPage(Listed(k, a)) ELSE {Listed(k, a)}
  <2>1. rows \cap OfAccount(k, a) \in Told(k, a)
    BY <1>2 DEF InstancesThere, AllTold
  <2>. QED
    BY <2>1 DEF OfAccount, Told
<1>5. ASSUME NEW i \in rows \cap CloudInstances
      PROVE  /\ row[i].hash = GenHash(KindOfAsset(i), cloud[i], spec[i])
             /\ KindOfAsset(i) # "rds" => row[i].ip = cloud[i]
  <2>1. PICK k \in AssetKinds : k = KindOfAsset(i)
    BY Apart
  <2>2. AsItIs(k, i, row[i])
    BY <1>2, <2>1 DEF InstancesThere, OfKind
  <2>. QED
    BY <2>1, <2>2 DEF AsItIs
<1>6. ASSUME NEW n \in Records
      PROVE  /\ zone[n] # Blank => n \in rows /\ row[n].ip = zone[n]
             /\ n \in rows /\ zone[n] = Blank => Settled(n)
             /\ n \in rows /\ link[n] = Blank =>
                  associateDnsWithAsset(row[n].ip, AssetKinds) = {Blank}
  BY <1>3 DEF RecordShown
<1>. QED
  BY <1>4, <1>5, <1>6 DEF Converged

-----------------------------------------------------------------------------
(* What an account has told holds while the clouds rest.                    *)
LEMMA ToldRests ==
  ASSUME UNCHANGED cloud, NEW k, NEW S, AllTold(k, S), NEW T,
         \A i \in OfKind(k) : i \in T <=> i \in S
  PROVE  AllTold(k, T)'
<1>1. ASSUME NEW a \in Accounts PROVE T \cap OfAccount(k, a) \in Told(k, a)'
  <2>1. Listed(k, a)' = Listed(k, a)
    BY DEF Listed, Up
  <2>2. T \cap OfAccount(k, a) = S \cap OfAccount(k, a)
    BY DEF OfAccount, OfKind
  <2>3. PICK L : L = Listed(k, a)
    OBVIOUS
  <2>4. Told(k, a) = IF a = "aliyun" THEN FirstPage(L) ELSE {L}
    BY <2>3 DEF Told
  <2>5. Told(k, a)' = IF a = "aliyun" THEN FirstPage(L) ELSE {L}
    BY <2>1, <2>3 DEF Told, FirstPage
  <2>. QED
    BY <2>2, <2>4, <2>5 DEF AllTold
<1>. QED
  BY <1>1 DEF AllTold, OfAccount

(* A pass does not mind what is done to the rows of another kind.           *)
SameRows(j) ==
  \A u \in Assets : KindOfAsset(u) = j =>
    (u \in rows' <=> u \in rows) /\ row'[u] = row[u] /\ later'[u] = later[u]

LEMMA SameUids ==
  ASSUME rows \subseteq Assets, rows' \subseteq Assets, NEW j \in AssetKinds, SameRows(j)
  PROVE  GetUidAndHash(j)' = GetUidAndHash(j)
<1>1. /\ Rows(j)' = Rows(j)
      /\ \A u \in Rows(j) : row'[u] = row[u] /\ HashOf(u)' = HashOf(u)
  BY DEF Rows, SameRows, HashOf, Twice
<1>2. CASE j = "ecs"
  <2>1. PICK T : T = {v \in Rows("ecs") : row[v].vm = 1}
    OBVIOUS
  <2>2. T = {v \in Rows("ecs")' : row'[v].vm = 1}
    BY <1>1, <1>2, <2>1
  <2>3. GetUidAndHash(j) = [u \in T |-> row[u].hash]
    BY <1>2, <2>1 DEF GetUidAndHash, GetResourceEcsUidAndHash
  <2>4. GetUidAndHash(j)' = [u \in T |-> row'[u].hash]
    BY <1>2, <2>2 DEF GetUidAndHash, GetResourceEcsUidAndHash
  <2>5. \A u \in T : row'[u] = row[u]
    BY <1>1, <1>2, <2>1
  <2>. QED
    BY <2>3, <2>4, <2>5
<1>3. CASE j # "ecs"
  <2>1. GetUidAndHash(j) = [u \in Rows(j) |-> HashOf(u)]
    BY <1>3 DEF GetUidAndHash
  <2>2. GetUidAndHash(j)' = [u \in Rows(j)' |-> HashOf(u)']
    BY <1>3 DEF GetUidAndHash
  <2>. QED
    BY <1>1, <2>1, <2>2
<1>. QED
  BY <1>2, <1>3

LEMMA StaysQuiet ==
  ASSUME CloudInv, CloudInv', NEW j \in AssetKinds, QuietPass(j), pass'[j] = pass[j],
         UNCHANGED <<cloud, spec>>, SameRows(j)
  PROVE  QuietPass(j)'
<1>1. GetUidAndHash(j)' = GetUidAndHash(j)
  BY SameUids DEF CloudInv, TreeInv, TreeTypeOK
<1>2. PICK p : p = pass[j] /\ p = pass'[j]
  OBVIOUS
<1>3. ASSUME p.pc = "save", NEW i \in OfKind(j) PROVE InstanceAwaits(p, j, i)'
  <2>2. InstanceAwaits(p, j, i)
    BY <1>2, <1>3 DEF QuietPass
  <2>3. (i \in rows' <=> i \in rows) /\ row'[i] = row[i]
    BY Apart DEF SameRows, OfKind
  <2>. QED
    BY <2>2, <2>3 DEF InstanceAwaits, AsItIs
<1>4. ASSUME p.pc = "save" PROVE AllTold(j, DOMAIN p.all)'
  <2>1. PICK S : S = DOMAIN p.all
    OBVIOUS
  <2>2. AllTold(j, S)
    BY <1>2, <1>4, <2>1 DEF QuietPass
  <2>3. AllTold(j, S)'
    BY <2>2, ToldRests
  <2>. QED
    BY <2>1, <2>3
<1>5. p.pc = "fetch" => p.db = GetUidAndHash(j)'
  BY <1>1, <1>2 DEF QuietPass
<1>. QED
  BY <1>2, <1>3, <1>4, <1>5 DEF QuietPass, OfKind

(* What one pass does in good order leaves the others as they were.         *)
LEMMA QuietSaving ==
  ASSUME CloudInv, CloudInv', QuietInv, quiet, NEW k \in AssetKinds, pass[k].pc # "none",
         NEW q, pass' = [pass EXCEPT ![k] = q], UNCHANGED <<cloud, spec, stage>>,
         \A u \in Assets : ~Twice(u)',
         \A j \in AssetKinds \ {k} : SameRows(j),
         q.pc = "fetch" => q.db = GetUidAndHash(k)',
         q.pc = "save" => /\ AllTold(k, DOMAIN q.all)
                          /\ \A i \in OfKind(k) : InstanceAwaits(q, k, i)'
  PROVE  QuietInv'
<1>1. stage = "base" /\ stage' = "base" /\ \A j \in AssetKinds : QuietPass(j)
  BY DEF CloudInv, QuietInv
<1>2. pass'[k] = q /\ \A j \in AssetKinds \ {k} : pass'[j] = pass[j]
  BY DEF CloudInv
<1>3. \A j \in AssetKinds \ {k} : QuietPass(j)'
  BY <1>1, <1>2, StaysQuiet
<1>4. QuietPass(k)'
  <2>1. ASSUME q.pc = "save" PROVE AllTold(k, DOMAIN q.all)'
    <3>1. PICK S : S = DOMAIN q.all
      OBVIOUS
    <3>2. AllTold(k, S)'
      BY <2>1, <3>1, ToldRests
    <3>. QED
      BY <3>1, <3>2
  <2>. QED
    BY <1>2, <2>1 DEF QuietPass, OfKind
<1>. QED
  BY <1>1, <1>3, <1>4 DEF QuietInv

LEMMA QuietReadUids ==
  ASSUME CloudInv, CloudInv', QuietInv, NEW k \in AssetKinds, ReadUids(k)
  PROVE  QuietInv'
<1>1. CASE Fault
  BY <1>1 DEF Fault, QuietInv
<1>2. CASE /\ pass' = [pass EXCEPT ![k].pc = "fetch", ![k].db = GetUidAndHash(k)]
           /\ UNCHANGED boundVars
  <2>1. PICK p \in PassRecords : p = pass[k] /\ p.pc = "read"
    BY DEF CloudInv, ReadUids
  <2>2. PICK d \in OfAssets(Hashes) : d = GetUidAndHash(k)
    BY UidsAre
  <2>3. PICK q : q = [p EXCEPT !.pc = "fetch", !.db = d]
    OBVIOUS
  <2>4. q.pc = "fetch" /\ q.db = d
    BY <2>3 DEF PassRecords
  <2>5. pass' = [pass EXCEPT ![k] = q]
    BY <1>2, <2>1, <2>2, <2>3 DEF CloudInv
  <2>6. UNCHANGED <<rows, row, later, cloud, spec, stage, quiet>>
    BY <1>2 DEF ReadUids, treeVars, worldVars, boundVars
  <2>7. \A j \in AssetKinds : SameRows(j)
    BY <2>6 DEF SameRows
  <2>8. GetUidAndHash(k)' = d
    BY <2>2, <2>7, SameUids DEF CloudInv, TreeInv, TreeTypeOK
  <2>9. ASSUME quiet PROVE QuietInv'
    <3>1. \A u \in Assets : ~Twice(u)'
      BY <2>6, <2>9 DEF QuietInv, Twice
    <3>. QED
      BY <2>1, <2>4, <2>5, <2>6, <2>7, <2>8, <2>9, <3>1, QuietSaving
  <2>. QED
    BY <2>6, <2>9 DEF QuietInv
<1>. QED
  BY <1>1, <1>2 DEF ReadUids

LEMMA QuietFetch ==
  ASSUME CloudInv, CloudInv', QuietInv, NEW k \in AssetKinds, Fetch(k)
  PROVE  QuietInv'
<1>1. PICK p, q, a : Fetched(k, p, q, a)
  BY FetchIs
<1>2. /\ p = pass[k] /\ p.pc = "fetch" /\ pass' = [pass EXCEPT ![k] = q]
      /\ q.pc = "save" /\ q.all = a
      /\ q.add = DOMAIN a \ DOMAIN p.db
      /\ q.mod = {u \in DOMAIN a \cap DOMAIN p.db : a[u].hash # p.db[u]}
      /\ q.del = DOMAIN p.db \ DOMAIN a
      /\ \A i \in DOMAIN a : i \in OfKind(k)
      /\ quiet' => /\ quiet /\ AllTold(k, DOMAIN a)
                   /\ \A i \in DOMAIN a : AsItIs(k, i, a[i])
  BY <1>1 DEF Fetched
<1>3. UNCHANGED <<rows, row, later, cloud, spec, stage>>
  BY DEF Fetch, treeVars, worldVars
<1>4. \A j \in AssetKinds : SameRows(j)
  BY <1>3 DEF SameRows
<1>5. ASSUME quiet', NEW i \in OfKind(k) PROVE InstanceAwaits(q, k, i)
  <2>1. PICK db : db = p.db /\ db = GetUidAndHash(k)
    BY <1>2, <1>5 DEF QuietInv, QuietPass, CloudInv
  <2>2. i \in CloudInstances /\ KindOfAsset(i) = k /\ i \in Assets /\ ~Twice(i)
    BY <1>2, <1>5, Apart DEF OfKind, QuietInv
  <2>3. /\ i \in DOMAIN db <=> i \in rows
        /\ i \in rows => db[i] = row[i].hash
    BY <2>1, <2>2, UidsAre
  <2>4. i \in rows /\ k # "rds" => row[i].hash.ip = row[i].ip
    BY <2>2 DEF CloudInv, RowsInv, ShowsAsset, ShowsInstance
  <2>5. i \in DOMAIN a => AsItIs(k, i, a[i])
    BY <1>2, <1>5
  <2>6. /\ i \in q.add <=> i \in DOMAIN a /\ i \notin rows
        /\ i \in q.mod <=> i \in DOMAIN a /\ i \in rows /\ a[i].hash # row[i].hash
        /\ i \in q.del <=> i \in rows /\ i \notin DOMAIN a
    BY <1>2, <2>1, <2>3
  <2>7. ASSUME i \in DOMAIN a, i \in rows, a[i].hash = row[i].hash PROVE AsItIs(k, i, row[i])
    <3>1. row[i].hash = GenHash(k, cloud[i], spec[i])
      BY <2>5, <2>7 DEF AsItIs
    <3>2. k # "rds" => row[i].ip = cloud[i]
      BY <2>4, <2>7, <3>1 DEF GenHash, Hash
    <3>. QED
      BY <3>1, <3>2 DEF AsItIs
  <2>. QED
    BY <1>2, <2>5, <2>6, <2>7 DEF InstanceAwaits
<1>6. ASSUME quiet' PROVE \A i \in OfKind(k) : InstanceAwaits(q, k, i)'
  BY <1>3, <1>5, <1>6 DEF InstanceAwaits, AsItIs
<1>7. ASSUME quiet' PROVE QuietInv'
  <2>1. \A u \in Assets : ~Twice(u)'
    BY <1>2, <1>3, <1>7 DEF QuietInv, Twice
  <2>. QED
    BY <1>2, <1>3, <1>4, <1>6, <1>7, <2>1, QuietSaving
<1>. QED
  BY <1>7 DEF QuietInv

LEMMA QuietCreateRow ==
  ASSUME CloudInv, CloudInv', QuietInv, NEW k \in AssetKinds, NEW u \in Assets, CreateRow(k, u)
  PROVE  QuietInv'
<1>1. CASE Fault
  BY <1>1 DEF Fault, QuietInv
<1>2. CASE quiet /\ ~Fault
  <2>1. PICK p \in PassRecords : p = pass[k] /\ p.pc = "save" /\ u \in p.add /\ PassInv(k, p)
    BY DEF CloudInv, CreateRow
  <2>2. PICK q : q = [p EXCEPT !.add = p.add \ {u}]
    OBVIOUS
  <2>3. /\ q.pc = "save" /\ q.all = p.all /\ q.mod = p.mod /\ q.del = p.del
        /\ q.add = p.add \ {u}
    BY <2>1, <2>2 DEF PassRecords
  <2>4. pass' = [pass EXCEPT ![k] = q]
    BY <2>1, <2>2 DEF CreateRow, CloudInv
  <2>5. AllTold(k, DOMAIN p.all) /\ \A i \in OfKind(k) : InstanceAwaits(p, k, i)
    BY <1>2, <2>1 DEF QuietInv, QuietPass, CloudInv
  <2>6. u \in OfKind(k) /\ u \in DOMAIN p.all /\ KindOfAsset(u) = k
    BY <2>1 DEF PassInv, OfKind
  <2>7. u \notin rows
    BY <2>1, <2>5, <2>6 DEF InstanceAwaits
  <2>8. /\ rows' = rows \cup {u} /\ row' = [row EXCEPT ![u] = p.all[u]]
        /\ UNCHANGED <<later, cloud, spec, stage>>
    BY <1>2, <2>1, <2>7 DEF CreateRow, worldVars
  <2>9. row'[u] = p.all[u] /\ \A v \in Assets \ {u} : row'[v] = row[v]
    BY <2>8 DEF CloudInv, RowsInv
  <2>10. \A j \in AssetKinds \ {k} : SameRows(j)
    BY <2>6, <2>8, <2>9 DEF SameRows
  <2>11. ASSUME NEW i \in OfKind(k) PROVE InstanceAwaits(q, k, i)'
    <3>1. i \in Assets /\ InstanceAwaits(p, k, i)
      BY <2>5, Apart DEF OfKind
    <3>. QED
      BY <2>3, <2>6, <2>7, <2>8, <2>9, <3>1 DEF InstanceAwaits, AsItIs
  <2>12. \A v \in Assets : ~Twice(v)'
    BY <1>2, <2>8 DEF QuietInv, Twice
  <2>. QED
    BY <1>2, <2>1, <2>3, <2>4, <2>5, <2>8, <2>10, <2>11, <2>12, QuietSaving
<1>. QED
  BY <1>1, <1>2 DEF CreateRow, QuietInv, boundVars

LEMMA QuietUpdateRow ==
  ASSUME CloudInv, CloudInv', QuietInv, NEW k \in AssetKinds, NEW u \in Assets, UpdateRow(k, u)
  PROVE  QuietInv'
<1>1. CASE Fault
  BY <1>1 DEF Fault, QuietInv
<1>2. CASE quiet /\ ~Fault
  <2>1. PICK p \in PassRecords : /\ p = pass[k] /\ p.pc = "save" /\ p.add = {} /\ u \in p.mod
                                 /\ PassInv(k, p)
    BY DEF CloudInv, UpdateRow
  <2>2. PICK q : q = [p EXCEPT !.mod = p.mod \ {u}]
    OBVIOUS
  <2>3. /\ q.pc = "save" /\ q.all = p.all /\ q.add = p.add /\ q.del = p.del
        /\ q.mod = p.mod \ {u}
    BY <2>1, <2>2 DEF PassRecords
  <2>4. pass' = [pass EXCEPT ![k] = q]
    BY <2>1, <2>2 DEF UpdateRow, CloudInv
  <2>5. AllTold(k, DOMAIN p.all) /\ \A i \in OfKind(k) : InstanceAwaits(p, k, i)
    BY <1>2, <2>1 DEF QuietInv, QuietPass, CloudInv
  <2>6. u \in OfKind(k) /\ u \in DOMAIN p.all /\ KindOfAsset(u) = k
    BY <2>1 DEF PassInv, OfKind
  <2>7. u \in rows /\ \A v \in Assets : ~Twice(v)
    BY <1>2, <2>1, <2>5, <2>6 DEF InstanceAwaits, QuietInv
  <2>8. /\ rows' = rows /\ row' = [row EXCEPT ![u] = p.all[u]]
        /\ UNCHANGED <<later, cloud, spec, stage>>
    BY <1>2, <2>1, <2>7 DEF UpdateRow, worldVars, treeVars
  <2>9. row'[u] = p.all[u] /\ \A v \in Assets \ {u} : row'[v] = row[v]
    BY <2>8 DEF CloudInv, RowsInv
  <2>10. \A j \in AssetKinds \ {k} : SameRows(j)
    BY <2>6, <2>8, <2>9 DEF SameRows
  <2>11. ASSUME NEW i \in OfKind(k) PROVE InstanceAwaits(q, k, i)'
    <3>1. i \in Assets /\ InstanceAwaits(p, k, i)
      BY <2>5, Apart DEF OfKind
    <3>. QED
      BY <2>3, <2>6, <2>7, <2>8, <2>9, <3>1 DEF InstanceAwaits, AsItIs
  <2>12. \A v \in Assets : ~Twice(v)'
    BY <2>7, <2>8 DEF Twice
  <2>. QED
    BY <1>2, <2>1, <2>3, <2>4, <2>5, <2>8, <2>10, <2>11, <2>12, QuietSaving
<1>. QED
  BY <1>1, <1>2 DEF UpdateRow, QuietInv, boundVars

(* Without second rows an asset goes with its row.                          *)
LEMMA DeletesAll ==
  ASSUME CloudInv, NEW u \in Assets, DeleteFirst(u), \A v \in Assets : ~Twice(v)
  PROVE  /\ rows' = rows \ {u} /\ row' = [row EXCEPT ![u] = NoRow]
         /\ bound' = [bound EXCEPT ![u] = {}]
         /\ \A v \in Assets : ~Twice(v)' /\ later'[v] = later[v]
         /\ \A v \in Assets \ {u} : row'[v] = row[v]
<1>1. ~Twice(u) /\ later[u] = NoLater
  BY DEF Twice
<1>2. DropRow(u, FALSE)
  BY <1>1 DEF DeleteFirst, DropRow
<1>3. rows' = rows \ {u} /\ bound' = [bound EXCEPT ![u] = {}]
  BY <1>2 DEF DropRow
<1>4. row' = [row EXCEPT ![u] = NoRow] /\ later' = [later EXCEPT ![u] = NoLater]
  BY <1>1, NoRowIs DEF DeleteFirst
<1>5. \A v \in Assets : later'[v] = later[v]
  BY <1>1, <1>4 DEF CloudInv, LaterInv
<1>6. \A v \in Assets : ~Twice(v)'
  BY <1>5 DEF Twice
<1>7. \A v \in Assets \ {u} : row'[v] = row[v]
  BY <1>4 DEF CloudInv, RowsInv
<1>. QED
  BY <1>3, <1>4, <1>5, <1>6, <1>7

LEMMA QuietRemoveRow ==
  ASSUME CloudInv, CloudInv', QuietInv, NEW k \in AssetKinds, NEW u \in Assets, RemoveRow(k, u)
  PROVE  QuietInv'
<1>1. CASE Fault
  BY <1>1 DEF Fault, QuietInv
<1>2. CASE quiet /\ ~Fault
  <2>1. PICK p \in PassRecords : /\ p = pass[k] /\ p.pc = "save" /\ p.add = {} /\ p.mod = {}
                                 /\ u \in p.del /\ PassInv(k, p)
    BY DEF CloudInv, RemoveRow
  <2>2. PICK q : q = [p EXCEPT !.del = p.del \ {u}]
    OBVIOUS
  <2>3. /\ q.pc = "save" /\ q.all = p.all /\ q.add = p.add /\ q.mod = p.mod
        /\ q.del = p.del \ {u}
    BY <2>1, <2>2 DEF PassRecords
  <2>4. pass' = [pass EXCEPT ![k] = q]
    BY <2>1, <2>2 DEF RemoveRow, CloudInv
  <2>5. AllTold(k, DOMAIN p.all) /\ \A i \in OfKind(k) : InstanceAwaits(p, k, i)
    BY <1>2, <2>1 DEF QuietInv, QuietPass, CloudInv
  <2>6. KindOfAsset(u) = k
    BY <2>1 DEF PassInv
  <2>7. DeleteFirst(u) /\ UNCHANGED <<cloud, spec, stage>> /\ \A v \in Assets : ~Twice(v)
    BY <1>2 DEF RemoveRow, worldVars, QuietInv
  <2>8. /\ rows' = rows \ {u} /\ row' = [row EXCEPT ![u] = NoRow]
        /\ \A v \in Assets : ~Twice(v)' /\ later'[v] = later[v]
        /\ \A v \in Assets \ {u} : row'[v] = row[v]
    BY <2>7, DeletesAll
  <2>10. \A j \in AssetKinds \ {k} : SameRows(j)
    BY <2>6, <2>8 DEF SameRows
  <2>11. ASSUME NEW i \in OfKind(k) PROVE InstanceAwaits(q, k, i)'
    <3>1. i \in Assets /\ InstanceAwaits(p, k, i)
      BY <2>5, Apart DEF OfKind
    <3>. QED
      BY <2>1, <2>3, <2>7, <2>8, <3>1 DEF InstanceAwaits, AsItIs
  <2>. QED
    BY <1>2, <2>1, <2>3, <2>4, <2>5, <2>7, <2>8, <2>10, <2>11, QuietSaving
<1>. QED
  BY <1>1, <1>2 DEF RemoveRow, QuietInv, boundVars

-----------------------------------------------------------------------------
(* The instances do not change while the records do.                        *)
LEMMA InstancesStay ==
  ASSUME InstancesThere, UNCHANGED <<cloud, spec>>,
         \A i \in CloudInstances : (i \in rows' <=> i \in rows) /\ row'[i] = row[i]
  PROVE  InstancesThere'
<1>1. ASSUME NEW k \in AssetKinds PROVE AllTold(k, rows)'
  <2>1. PICK S : S = rows /\ AllTold(k, S)
    BY DEF InstancesThere
  <2>2. PICK T : T = rows'
    OBVIOUS
  <2>3. AllTold(k, T)'
    BY <2>1, <2>2, ToldRests DEF OfKind
  <2>. QED
    BY <2>2, <2>3 DEF AllTold
<1>2. ASSUME NEW k \in AssetKinds, NEW i \in OfKind(k), i \in rows'
      PROVE  AsItIs(k, i, row[i])'
  <2>1. i \in rows /\ row'[i] = row[i]
    BY <1>2 DEF OfKind
  <2>2. AsItIs(k, i, row[i])
    BY <2>1 DEF InstancesThere
  <2>. QED
    BY <2>1, <2>2 DEF AsItIs
<1>. QED
  BY <1>1, <1>2 DEF InstancesThere, OfKind, AsItIs

LEMMA QuietDnsBegin ==
  ASSUME CloudInv, CloudInv', QuietInv, RunSyncCloudResourceDns
  PROVE  QuietInv'
<1>1. CASE Fault
  BY <1>1 DEF Fault, QuietInv
<1>2. CASE quiet /\ ~Fault
  <2>1. PICK db \in OfAssets(Hashes) : db = GetUidAndHash("dns")
    BY RecordHashes
  <2>2. PICK d : d = [NoDns EXCEPT !.pc = "fetch", !.db = db]
    OBVIOUS
  <2>3. d.pc = "fetch" /\ d.db = db
    BY <2>2 DEF NoDns
  <2>4. stage = "base" /\ stage' = "dns" /\ dns' = d
    BY <1>2, <2>1, <2>2 DEF RunSyncCloudResourceDns
  <2>5. UNCHANGED <<rows, row, later, cloud, spec>>
    BY DEF RunSyncCloudResourceDns, treeVars, worldVars
  <2>6. InstancesThere
    <3>. SUFFICES ASSUME NEW k \in AssetKinds
                  PROVE  /\ AllTold(k, rows)
                         /\ \A i \in OfKind(k) : i \in rows => AsItIs(k, i, row[i])
      BY DEF InstancesThere
    <3>1. PICK p : p = pass[k] /\ p.pc = "save" /\ p.add = {} /\ p.mod = {} /\ p.del = {}
      BY DEF RunSyncCloudResourceDns, Saved
    <3>2. AllTold(k, DOMAIN p.all) /\ \A i \in OfKind(k) : InstanceAwaits(p, k, i)
      BY <1>2, <2>4, <3>1 DEF QuietInv, QuietPass
    <3>3. \A i \in OfKind(k) : /\ i \in rows <=> i \in DOMAIN p.all
                               /\ i \in rows => AsItIs(k, i, row[i])
      BY <3>1, <3>2 DEF InstanceAwaits
    <3>4. PICK S : S = DOMAIN p.all
      OBVIOUS
    <3>5. \A a \in Accounts : rows \cap OfAccount(k, a) = S \cap OfAccount(k, a)
      BY <3>3, <3>4 DEF OfAccount, OfKind
    <3>6. AllTold(k, S)
      BY <3>2, <3>4
    <3>7. AllTold(k, rows)
      BY <3>5, <3>6 DEF AllTold
    <3>. QED
      BY <3>3, <3>7
  <2>7. InstancesThere'
    BY <2>5, <2>6, InstancesStay
  <2>8. db = GetUidAndHash("dns")'
    BY <2>1, <2>5 DEF GetUidAndHash, Rows, HashOf, Twice
  <2>9. \A u \in Assets : ~Twice(u)'
    BY <1>2, <2>5 DEF QuietInv, Twice
  <2>. QED
    BY <2>3, <2>4, <2>7, <2>8, <2>9 DEF QuietInv, QuietDns
<1>. QED
  BY <1>1, <1>2 DEF RunSyncCloudResourceDns, QuietInv, boundVars

LEMMA QuietFetchDns ==
  ASSUME CloudInv, CloudInv', QuietInv, FetchDns
  PROVE  QuietInv'
<1>1. PICK p, q, a : FetchedDns(p, q, a)
  BY FetchDnsIs
<1>2. /\ p = dns /\ p.pc = "fetch" /\ dns' = q
      /\ q.pc = "save" /\ q.all = a
      /\ q.add = DOMAIN a \ DOMAIN p.db
      /\ q.mod = {u \in DOMAIN a \cap DOMAIN p.db : a[u].hash # p.db[u]}
      /\ q.del = DOMAIN p.db \ DOMAIN a
      /\ \A n \in DOMAIN a : /\ n \in Records /\ a[n].ip = zone[n] /\ a[n].hash.ip = zone[n]
                             /\ zone[n] # Blank
      /\ quiet' => quiet /\ \A n \in Records : zone[n] # Blank => n \in DOMAIN a
  BY <1>1 DEF FetchedDns
<1>3. UNCHANGED <<rows, row, later, cloud, spec, zone, stage, bound>> /\ stage = "dns"
  BY <1>2 DEF FetchDns, treeVars, worldVars, CloudInv
<1>8. quiet' => \A u \in Assets : ~Twice(u)
  BY <1>2 DEF QuietInv
<1>4. ASSUME quiet', NEW n \in Records PROVE RecordAwaits(q, n)
  <2>1. PICK db : db = p.db /\ db = GetUidAndHash("dns")
    BY <1>2, <1>3, <1>4 DEF QuietInv, QuietDns
  <2>2. DOMAIN db = rows \cap Records /\ (n \in rows => db[n] = row[n].hash)
    BY <1>4, <1>8, <2>1, RecordHashes, Apart
  <2>3. n \in rows => row[n].hash.ip = row[n].ip
    BY Apart DEF CloudInv, RowsInv, ShowsAsset
  <2>4. n \in DOMAIN a <=> zone[n] # Blank
    BY <1>2, <1>4
  <2>5. /\ n \in q.add <=> n \notin rows /\ zone[n] # Blank
        /\ n \in q.mod <=> n \in rows /\ zone[n] # Blank /\ a[n].hash # row[n].hash
        /\ n \in q.del <=> n \in rows /\ zone[n] = Blank
    BY <1>2, <2>1, <2>2, <2>4
  <2>. QED
    BY <1>2, <2>3, <2>4, <2>5 DEF RecordAwaits
<1>5. ASSUME quiet', NEW n \in Records PROVE RecordAwaits(q, n)'
  BY <1>3, <1>4, <1>5 DEF RecordAwaits, Settled
<1>6. ASSUME quiet' PROVE InstancesThere'
  BY <1>2, <1>3, <1>6, InstancesStay DEF QuietInv
<1>7. ASSUME quiet' PROVE QuietDns'
  BY <1>2, <1>5, <1>7 DEF QuietDns, RecordAwaits
<1>9. quiet' => \A u \in Assets : ~Twice(u)'
  BY <1>3, <1>8 DEF Twice
<1>. QED
  BY <1>3, <1>6, <1>7, <1>9 DEF QuietInv

LEMMA QuietSaveRecord ==
  ASSUME CloudInv, CloudInv', QuietInv, NEW n \in Records, SaveRecord(n)
  PROVE  QuietInv'
<1>1. CASE Fault
  BY <1>1 DEF Fault, QuietInv
<1>2. CASE quiet /\ ~Fault
  <2>1. PICK p \in DnsRecords : p = dns /\ p.pc = "save" /\ n \in p.add \cup p.mod /\ DnsInv(p)
    BY DEF CloudInv, DnsInv, SaveRecord
  <2>2. PICK q : q = [p EXCEPT !.add = p.add \ {n}, !.mod = p.mod \ {n}]
    OBVIOUS
  <2>3. /\ q.pc = "save" /\ q.all = p.all /\ q.add = p.add \ {n} /\ q.mod = p.mod \ {n}
        /\ q.del = p.del
    BY <2>1, <2>2 DEF DnsRecords
  <2>4. dns' = q /\ stage = "dns"
    BY <2>1, <2>2 DEF SaveRecord, CloudInv
  <2>5. \A m \in Records : RecordAwaits(p, m)
    BY <1>2, <2>1, <2>4 DEF QuietInv, QuietDns
  <2>6. /\ rows' = rows \cup {n} /\ row' = [row EXCEPT ![n] = p.all[n]]
        /\ UNCHANGED <<later, cloud, spec, zone, stage, bound>>
    BY <1>2, <2>1 DEF SaveRecord, WriteRecord, worldVars
  <2>7. n \in Assets /\ row'[n] = p.all[n] /\ \A v \in Assets \ {n} : row'[v] = row[v]
    BY <2>6, Apart DEF CloudInv, RowsInv
  <2>8. n \in DOMAIN p.all
    BY <2>1 DEF DnsInv
  <2>9. ASSUME NEW m \in Records PROVE RecordAwaits(q, m)'
    <3>1. m \in Assets /\ RecordAwaits(p, m)
      BY <2>5, Apart
    <3>. QED
      BY <2>3, <2>6, <2>7, <2>8, <3>1 DEF RecordAwaits, Settled
  <2>10. InstancesThere'
    <3>1. InstancesThere
      BY <1>2, <2>4 DEF QuietInv
    <3>2. \A i \in CloudInstances : (i \in rows' <=> i \in rows) /\ row'[i] = row[i]
      BY <2>6, <2>7, Apart
    <3>. QED
      BY <2>6, <3>1, <3>2, InstancesStay
  <2>11. QuietDns'
    BY <2>3, <2>4, <2>9 DEF QuietDns, RecordAwaits
  <2>12. \A u \in Assets : ~Twice(u)'
    BY <1>2, <2>6 DEF QuietInv, Twice
  <2>. QED
    BY <2>4, <2>6, <2>10, <2>11, <2>12 DEF QuietInv
<1>. QED
  BY <1>1, <1>2 DEF SaveRecord, QuietInv, boundVars

LEMMA QuietDeleteRecord ==
  ASSUME CloudInv, CloudInv', QuietInv, NEW n \in Records, DeleteRecord(n)
  PROVE  QuietInv'
<1>1. CASE Fault
  BY <1>1 DEF Fault, QuietInv
<1>2. CASE quiet /\ ~Fault
  <2>1. PICK p \in DnsRecords : /\ p = dns /\ p.pc = "save" /\ p.add = {} /\ p.mod = {}
                                /\ n \in p.del /\ DnsInv(p)
    BY DEF CloudInv, DnsInv, DeleteRecord
  <2>2. PICK q : q = [p EXCEPT !.del = p.del \ {n}]
    OBVIOUS
  <2>3. /\ q.pc = "save" /\ q.all = p.all /\ q.add = p.add /\ q.mod = p.mod
        /\ q.del = p.del \ {n}
    BY <2>1, <2>2 DEF DnsRecords
  <2>4. dns' = q /\ stage = "dns"
    BY <2>1, <2>2 DEF DeleteRecord, CloudInv
  <2>5. \A m \in Records : RecordAwaits(p, m)
    BY <1>2, <2>1, <2>4 DEF QuietInv, QuietDns
  <2>6. UNCHANGED <<cloud, spec, zone, stage>> /\ \A v \in Assets : ~Twice(v)
    BY <1>2 DEF DeleteRecord, worldVars, QuietInv
  <2>8. /\ row \in [Assets -> RowRecords] /\ n \in Assets
        /\ bound \in [Assets -> SUBSET nodes]
    BY Apart DEF CloudInv, RowsInv, TreeInv, TreeTypeOK
  <2>7. /\ \/ /\ rows' = rows \ {n} /\ row' = [row EXCEPT ![n] = NoRow]
              /\ bound' = [bound EXCEPT ![n] = {}]
           \/ UNCHANGED <<rows, row, bound>> /\ (n \in Hyphened \/ bound[n] # {})
        /\ \A v \in Assets : ~Twice(v)'
    <3>1. CASE DeleteFirst(n)
      BY <2>6, <2>8, <3>1, DeletesAll
    <3>2. CASE UNCHANGED rowVars /\ (n \in Hyphened \/ bound[n] # {})
      BY <2>6, <3>2 DEF rowVars, Twice
    <3>. QED
      BY <1>2, <3>1, <3>2 DEF DeleteRecord
  <2>9. ASSUME NEW m \in Records PROVE RecordAwaits(q, m)'
    <3>1. m \in Assets /\ RecordAwaits(p, m) /\ RecordAwaits(p, n)
      BY <2>5, Apart
    <3>2. CASE m = n
      BY <2>1, <2>3, <2>6, <2>7, <2>8, <3>1, <3>2 DEF RecordAwaits, Settled
    <3>3. CASE m # n
      <4>1. (m \in rows' <=> m \in rows) /\ row'[m] = row[m] /\ bound'[m] = bound[m]
        BY <2>7, <2>8, <3>1, <3>3
      <4>. QED
        BY <2>3, <2>6, <3>1, <3>3, <4>1 DEF RecordAwaits, Settled
    <3>. QED
      BY <3>2, <3>3
  <2>10. InstancesThere'
    <3>1. InstancesThere
      BY <1>2, <2>4 DEF QuietInv
    <3>2. \A i \in CloudInstances : (i \in rows' <=> i \in rows) /\ row'[i] = row[i]
      BY <2>7, <2>8, Apart
    <3>. QED
      BY <2>6, <3>1, <3>2, InstancesStay
  <2>11. QuietDns'
    BY <2>3, <2>4, <2>9 DEF QuietDns, RecordAwaits
  <2>. QED
    BY <2>4, <2>6, <2>7, <2>10, <2>11 DEF QuietInv
<1>. QED
  BY <1>1, <1>2 DEF DeleteRecord, QuietInv, boundVars

(* The rows that show an address are those of the tables.                   *)
LEMMA SameAssociation ==
  ASSUME UNCHANGED <<rows, row, later>>, NEW v
  PROVE  associateDnsWithAsset(v, AssetKinds)' = associateDnsWithAsset(v, AssetKinds)
BY DEF associateDnsWithAsset, ByIp, Rows

LEMMA NothingAssociated ==
  ASSUME CloudInv, NEW v, Blank \in associateDnsWithAsset(v, AssetKinds)
  PROVE  associateDnsWithAsset(v, AssetKinds) = {Blank}
<1>1. \A k \in {"ecs", "elb", "rds"} : Blank \notin ByIp(k, v)
  BY CloudSyncAssumption DEF ByIp, Rows, CloudInv, TreeInv, TreeTypeOK
<1>. QED
  BY <1>1 DEF associateDnsWithAsset

LEMMA QuietUnlinked ==
  ASSUME CloudInv, CloudInv', QuietInv, Unlinked
  PROVE  QuietInv'
<1>1. PICK p \in DnsRecords : /\ p = dns /\ p.pc = "save" /\ p.add = {} /\ p.mod = {} /\ p.del = {}
  BY DEF CloudInv, DnsInv, Unlinked
<1>2. PICK U \in SUBSET Assets :
        U = {n \in Rows("dns") : link[n] = Blank \/ (Twice(n) /\ later[n].link = Blank)}
  BY DEF Rows, CloudInv, TreeInv, TreeTypeOK
<1>3. PICK q : q = [p EXCEPT !.pc = "link", !.unlinked = U]
  OBVIOUS
<1>4. q.pc = "link" /\ q.unlinked = U
  BY <1>3 DEF DnsRecords
<1>5. dns' = q
  BY <1>1, <1>2, <1>3 DEF Unlinked
<1>6. /\ UNCHANGED <<rows, bound, row, later, link, cloud, spec, zone, stage, quiet>>
      /\ stage = "dns"
  BY <1>1 DEF Unlinked, treeVars, worldVars, boundVars, CloudInv
<1>7. ASSUME quiet, NEW n \in Records
      PROVE  RecordShown(n) /\ (n \in rows /\ link[n] = Blank => n \in U)
  <2>1. RecordAwaits(p, n)
    BY <1>1, <1>6, <1>7 DEF QuietInv, QuietDns
  <2>2. RecordShown(n)
    BY <1>1, <2>1 DEF RecordAwaits, RecordShown
  <2>. QED
    BY <1>2, <2>2, RecordHashes
<1>8. ASSUME quiet PROVE InstancesThere' /\ QuietDns' /\ \A u \in Assets : ~Twice(u)'
  <2>1. InstancesThere'
    BY <1>6, <1>8, InstancesStay DEF QuietInv
  <2>2. ASSUME NEW n \in Records
        PROVE  RecordShown(n)' /\ (n \in rows' /\ link'[n] = Blank => n \in U)
    BY <1>6, <1>7, <1>8 DEF RecordShown, Settled
  <2>3. QuietDns'
    BY <1>4, <1>5, <2>2 DEF QuietDns, RecordShown
  <2>4. \A u \in Assets : ~Twice(u)'
    BY <1>6, <1>8 DEF QuietInv, Twice
  <2>. QED
    BY <2>1, <2>3, <2>4
<1>. QED
  BY <1>6, <1>8 DEF QuietInv

LEMMA QuietLinkRecord ==
  ASSUME CloudInv, CloudInv', QuietInv, NEW n \in Records, LinkRecord(n)
  PROVE  QuietInv'
<1>1. CASE Fault
  BY <1>1 DEF Fault, QuietInv
<1>2. CASE quiet /\ ~Fault
  <2>1. PICK p \in DnsRecords : p = dns /\ p.pc = "link" /\ n \in p.unlinked
    BY DEF CloudInv, DnsInv, LinkRecord
  <2>2. PICK q : q = [p EXCEPT !.unlinked = p.unlinked \ {n}]
    OBVIOUS
  <2>3. q.pc = "link" /\ q.unlinked = p.unlinked \ {n}
    BY <2>1, <2>2 DEF DnsRecords
  <2>4. dns' = q /\ stage = "dns"
    BY <2>1, <2>2 DEF LinkRecord, CloudInv
  <2>12. ~Twice(n) /\ \A u \in Assets : ~Twice(u)
    BY <1>2, Apart DEF QuietInv
  <2>6. /\ UNCHANGED later
        /\ \E u \in associateDnsWithAsset(row[n].ip, AssetKinds) :
             link' = IF link[n] = Blank THEN [link EXCEPT ![n] = u] ELSE link
    BY <1>2, <2>12 DEF LinkRecord, LinkRows
  <2>5. UNCHANGED <<rows, bound, row, later, cloud, spec, zone, stage>>
    BY <2>6 DEF LinkRecord, treeVars, worldVars
  <2>7. /\ link'[n] = Blank => associateDnsWithAsset(row[n].ip, AssetKinds) = {Blank}
        /\ \A m \in Records \ {n} : link'[m] = link[m]
    <3>1. PICK u \in associateDnsWithAsset(row[n].ip, AssetKinds) :
            link' = IF link[n] = Blank THEN [link EXCEPT ![n] = u] ELSE link
      BY <2>6
    <3>2. u = Blank => associateDnsWithAsset(row[n].ip, AssetKinds) = {Blank}
      BY <3>1, NothingAssociated
    <3>. QED
      BY <3>1, <3>2 DEF CloudInv, LinksInv
  <2>8. ASSUME NEW m \in Records
        PROVE  /\ RecordShown(m)
               /\ m \in rows /\ link'[m] = Blank =>
                    m \in q.unlinked \/ associateDnsWithAsset(row[m].ip, AssetKinds) = {Blank}
    <3>1. /\ RecordShown(m)
          /\ m \in rows /\ link[m] = Blank =>
               m \in p.unlinked \/ associateDnsWithAsset(row[m].ip, AssetKinds) = {Blank}
      BY <1>2, <2>1, <2>4 DEF QuietInv, QuietDns
    <3>. QED
      BY <2>3, <2>7, <3>1
  <2>9. ASSUME NEW m \in Records
        PROVE  /\ RecordShown(m)'
               /\ m \in rows' /\ link'[m] = Blank =>
                    m \in q.unlinked \/ associateDnsWithAsset(row[m].ip, AssetKinds)' = {Blank}
    <3>1. RecordShown(m)'
      BY <2>5, <2>8 DEF RecordShown, Settled
    <3>2. PICK v : v = row[m].ip /\ v = row'[m].ip
      BY <2>5
    <3>3. associateDnsWithAsset(v, AssetKinds)' = associateDnsWithAsset(v, AssetKinds)
      BY <2>5, SameAssociation
    <3>4. associateDnsWithAsset(row[m].ip, AssetKinds)' = associateDnsWithAsset(v, AssetKinds)'
      BY <3>2 DEF associateDnsWithAsset
    <3>. QED
      BY <2>5, <2>8, <3>1, <3>2, <3>3, <3>4
  <2>10. InstancesThere'
    <3>1. InstancesThere
      BY <1>2, <2>4 DEF QuietInv
    <3>. QED
      BY <2>5, <3>1, InstancesStay
  <2>11. QuietDns'
    BY <2>3, <2>4, <2>9 DEF QuietDns
  <2>13. \A u \in Assets : ~Twice(u)'
    BY <2>5, <2>12 DEF Twice
  <2>. QED
    BY <2>4, <2>5, <2>10, <2>11, <2>13 DEF QuietInv
<1>. QED
  BY <1>1, <1>2 DEF LinkRecord, QuietInv, boundVars

(* Nothing that people do to the tree disturbs a pass, but for the nodes    *)
(* of a record, which quiet takes note of.                                  *)
LEMMA QuietTree ==
  ASSUME CloudInv, CloudInv', QuietInv, TreeNext,
         quiet' = (quiet /\ \A n \in Records : bound[n] # {} => bound'[n] # {}),
         UNCHANGED <<row, later, link, order, worldVars, syncVars, faults>>
  PROVE  QuietInv'
<1>1. UNCHANGED <<rows, row, later, link, cloud, spec, zone, stage, pass, dns>>
  BY TreeStep DEF worldVars, syncVars
<1>. SUFFICES ASSUME quiet' PROVE QuietInv'
  BY DEF QuietInv
<1>2. quiet /\ \A n \in Records : Settled(n) => Settled(n)'
  BY <1>1 DEF Settled
<1>3. ASSUME stage = "base", NEW k \in AssetKinds PROVE QuietPass(k)'
  <2>1. QuietPass(k) /\ SameRows(k)
    BY <1>1, <1>2, <1>3 DEF QuietInv, SameRows
  <2>. QED
    BY <1>1, <2>1, StaysQuiet
<1>5. \A u \in Assets : ~Twice(u)'
  BY <1>1, <1>2 DEF QuietInv, Twice
<1>4. ASSUME stage = "dns" PROVE InstancesThere' /\ QuietDns'
  <2>1. InstancesThere /\ QuietDns
    BY <1>2, <1>4 DEF QuietInv
  <2>2. InstancesThere'
    BY <1>1, <2>1, InstancesStay
  <2>3. dns'.pc = "fetch" => dns'.db = GetUidAndHash("dns")'
    BY <1>1, <2>1 DEF QuietDns, GetUidAndHash, Rows, HashOf, Twice
  <2>4. ASSUME dns.pc = "save", NEW n \in Records PROVE RecordAwaits(dns, n)'
    <3>1. RecordAwaits(dns, n)
      BY <2>1, <2>4 DEF QuietDns
    <3>. QED
      BY <1>1, <1>2, <3>1 DEF RecordAwaits
  <2>5. ASSUME dns.pc = "link", NEW n \in Records
        PROVE  /\ RecordShown(n)'
               /\ n \in rows' /\ link'[n] = Blank =>
                    n \in dns'.unlinked \/ associateDnsWithAsset(row[n].ip, AssetKinds)' = {Blank}
    <3>1. /\ RecordShown(n)
          /\ n \in rows /\ link[n] = Blank =>
               n \in dns.unlinked \/ associateDnsWithAsset(row[n].ip, AssetKinds) = {Blank}
      BY <2>1, <2>5 DEF QuietDns
    <3>2. RecordShown(n)'
      BY <1>1, <1>2, <3>1 DEF RecordShown
    <3>3. PICK v : v = row[n].ip /\ v = row'[n].ip
      BY <1>1
    <3>4. associateDnsWithAsset(v, AssetKinds)' = associateDnsWithAsset(v, AssetKinds)
      BY <1>1, SameAssociation
    <3>5. associateDnsWithAsset(row[n].ip, AssetKinds)' = associateDnsWithAsset(v, AssetKinds)'
      BY <3>3 DEF associateDnsWithAsset
    <3>. QED
      BY <1>1, <3>1, <3>2, <3>3, <3>4, <3>5
  <2>6. QuietDns'
    BY <1>1, <2>3, <2>4, <2>5 DEF QuietDns
  <2>. QED
    BY <2>2, <2>6
<1>. QED
  BY <1>1, <1>3, <1>4, <1>5 DEF QuietInv

LEMMA QuietGoesOn ==
  ASSUME CloudInv, CloudInv', QuietInv, CloudNext
  PROVE  QuietInv'
<1>1. ASSUME quiet' = FALSE PROVE QuietInv'
  BY <1>1 DEF QuietInv
<1>2. ASSUME NEW i \in CloudInstances, NEW ip, CloudChanges(i, ip) \/ SpecChanges(i)
      PROVE  quiet' = FALSE
  BY <1>2 DEF CloudChanges, SpecChanges, CloudChange
<1>3. ASSUME NEW m \in Records, NEW ip, ZoneChanges(m, ip) PROVE quiet' = FALSE
  BY <1>3 DEF ZoneChanges, CloudChange
<1>4. ASSUME NEW s \in Hosts, AgentInfoReport(s) PROVE quiet' = FALSE
  BY <1>4 DEF AgentInfoReport
<1>5. ASSUME NEW o \in Purchases, NEW title, RunAutoOrderOneByEcs(o, title) PROVE quiet' = FALSE
  BY <1>5 DEF RunAutoOrderOneByEcs
<1>6. ASSUME RunSyncCloudResource PROVE QuietInv'
  <2>1. PICK p : p = [NoPass EXCEPT !.pc = "read"]
    OBVIOUS
  <2>2. stage' = "base" /\ pass' = [k \in AssetKinds |-> p] /\ p.pc = "read"
    BY <1>6, <2>1 DEF RunSyncCloudResource, NoPass
  <2>3. \A k \in AssetKinds : QuietPass(k)'
    BY <2>2 DEF QuietPass
  <2>4. quiet' => \A u \in Assets : ~Twice(u)'
    BY <1>6 DEF RunSyncCloudResource, Twice
  <2>. QED
    BY <2>2, <2>3, <2>4 DEF QuietInv
<1>7. ASSUME PassEnds PROVE QuietInv'
  BY <1>7 DEF PassEnds, QuietInv, boundVars, Twice
<1>8. ASSUME SyncNext PROVE QuietInv'
  BY <1>6, <1>7, <1>8, QuietReadUids, QuietFetch, QuietCreateRow, QuietUpdateRow, QuietRemoveRow,
     QuietDnsBegin, QuietFetchDns, QuietSaveRecord, QuietDeleteRecord, QuietUnlinked,
     QuietLinkRecord DEF SyncNext
<1>. QED
  BY <1>1, <1>2, <1>3, <1>4, <1>5, <1>8, QuietTree DEF CloudNext

LEMMA QuietStutters ==
  ASSUME CloudInv, CloudInv', QuietInv, UNCHANGED cloudVars
  PROVE  QuietInv'
<1>1. UNCHANGED <<rows, bound, row, later, link, cloud, spec, zone, stage, pass, dns, quiet>>
  BY DEF cloudVars, treeVars, worldVars, syncVars, boundVars
<1>2. \A k \in AssetKinds : QuietPass(k) => QuietPass(k)'
  BY <1>1, StaysQuiet DEF SameRows
<1>3. InstancesThere => InstancesThere'
  BY <1>1, InstancesStay
<1>4. QuietDns => QuietDns'
  BY <1>1 DEF QuietDns, RecordAwaits, RecordShown, Settled, GetUidAndHash, Rows, HashOf, Twice,
     associateDnsWithAsset, ByIp
<1>5. (\A u \in Assets : ~Twice(u)) => \A u \in Assets : ~Twice(u)'
  BY <1>1 DEF Twice
<1>. QED
  BY <1>1, <1>2, <1>3, <1>4, <1>5 DEF QuietInv

-----------------------------------------------------------------------------
(* The parts together.                                                      *)
DirectoryInv == PeopleInv

LEMMA DirectoryBegins ==
  ASSUME DirectoryInit
  PROVE  DirectoryInv
BY PeopleBegin DEF DirectoryInv

LEMMA DirectoryGoesOn ==
  ASSUME DirectoryInv, DirectoryNext \/ UNCHANGED directoryVars
  PROVE  DirectoryInv'
BY PeopleGoOn, PeopleStutter DEF DirectoryInv

PartsInv ==
  /\ Inv
  /\ part = "duty" => DutyInv
  /\ part = "cloud" => CloudInv /\ QuietInv
  /\ part = "people" => DirectoryInv

LEMMA PartsBegin == BackgroundInit => PartsInv
<1>. SUFFICES ASSUME BackgroundInit PROVE PartsInv
  OBVIOUS
<1>1. Inv
  BY InitInv DEF BackgroundInit
<1>2. CASE part = "duty" /\ DutyInit
  BY <1>1, <1>2, DutyStart DEF PartsInv
<1>3. CASE part = "cloud" /\ CloudInit
  BY <1>1, <1>3, CloudBegins DEF PartsInv
<1>4. CASE part = "people" /\ DirectoryInit
  BY <1>1, <1>4, DirectoryBegins DEF PartsInv
<1>5. CASE part = "alerts"
  BY <1>1, <1>5 DEF PartsInv
<1>. QED
  BY <1>2, <1>3, <1>4, <1>5 DEF BackgroundInit

BackgroundVars == <<vars, dutyVars, cloudVars, directoryVars, part>>

(* Each part moves, or rests, by itself.                                    *)
LEMMA PartMoves ==
  ASSUME [BackgroundNext]_BackgroundVars
  PROVE  /\ part' = part
         /\ [Next]_vars
         /\ part = "duty" => [DutyNext]_dutyVars
         /\ part = "cloud" => [CloudNext]_cloudVars
         /\ part = "people" => [DirectoryNext]_directoryVars
<1>1. CASE part = "alerts" /\ Next /\ UNCHANGED <<dutyVars, cloudVars, directoryVars, part>>
  BY <1>1
<1>2. CASE part = "duty" /\ DutyNext /\ UNCHANGED <<vars, cloudVars, directoryVars, part>>
  BY <1>2
<1>3. CASE part = "cloud" /\ CloudNext /\ UNCHANGED <<vars, dutyVars, directoryVars, part>>
  BY <1>3
<1>4. CASE part = "people" /\ DirectoryNext /\ UNCHANGED <<vars, dutyVars, cloudVars, part>>
  BY <1>4
<1>5. CASE UNCHANGED BackgroundVars
  BY <1>5 DEF BackgroundVars
<1>. QED
  BY <1>1, <1>2, <1>3, <1>4, <1>5 DEF BackgroundNext

LEMMA PartsGoOn == PartsInv /\ [BackgroundNext]_BackgroundVars => PartsInv'
<1>. SUFFICES ASSUME PartsInv, [BackgroundNext]_BackgroundVars PROVE PartsInv'
  OBVIOUS
<1>1. Inv' /\ part' = part
  BY PartMoves, NextKeepsInv DEF PartsInv
<1>2. part = "duty" => DutyInv'
  BY PartMoves, DutyGoesOn, DutyStutters DEF PartsInv
<1>3. part = "cloud" => CloudInv' /\ QuietInv'
  <2>1. part = "cloud" => CloudInv'
    BY PartMoves, CloudGoesOn, CloudStutters DEF PartsInv
  <2>. QED
    BY <2>1, PartMoves, QuietGoesOn, QuietStutters DEF PartsInv
<1>4. part = "people" => DirectoryInv'
  BY PartMoves, DirectoryGoesOn DEF PartsInv
<1>. QED
  BY <1>1, <1>2, <1>3, <1>4 DEF PartsInv

(* What the steps of each part rely on: the types, what is true of the      *)
(* lists and rows that a handler, a pass or a request holds, and, of the    *)
(* rota, that a fair history is the calendar's.                             *)
THEOREM PartsInvariance == BackgroundSpec => []PartsInv
BY PartsBegin, PartsGoOn, PTL DEF BackgroundSpec, BackgroundVars

(* The types of the webhook, the rota, the synchronisation with the clouds  *)
(* and the accounts: what each handler, pass and request holds included.    *)
THEOREM PartsTyped == BackgroundSpec => []PartsTypeOK
<1>1. PartsInv => PartsTypeOK
  BY CloudTyped, DirectoryTyped DEF PartsInv, PartsTypeOK, Inv, DutyInv, DirectoryInv
<1>. QED
  BY PartsInvariance, <1>1, PTL

(* For rotas of whatever length and turns of whatever length: while the     *)
(* cron job misses no day and nobody edits the group, OnGroup's answer for  *)
(* a day, which it finds in the history of the days before, is whose turn   *)
(* it is since the group was created; changes of the day are applied to     *)
(* that, and do not shift the turns after it.                               *)
THEOREM RotaIsKeptAlways == BackgroundSpec => []RotaIsKept
<1>1. PartsInv => RotaIsKept
  BY RotaIsKeptNow DEF PartsInv, RotaIsKept
<1>. QED
  BY PartsInvariance, <1>1, PTL

(* The plan that the console shows of a group, as far as it looks ahead, is *)
(* what the cron job's passes of the next days will record, although the    *)
(* one counts from the turn of today and the other from day to day.         *)
THEOREM PlanIsServedAlways == BackgroundSpec => []PlanIsServed
<1>1. PartsInv => PlanIsServed
  BY PlanComesTrueNow DEF PartsInv, PlanIsServed
<1>. QED
  BY PartsInvariance, <1>1, PTL

(* Every asset keeps its place in the tree, however passes, agents,         *)
(* purchases and requests come between each other, and whichever calls      *)
(* fail: a node is lost only when it is deleted, to a request that takes it *)
(* away or had read the nodes before, or to a pass of the three kinds of    *)
(* assets that did not find the asset: one that its cloud no longer has,    *)
(* that is of no cloud, or that is of an account that did not tell of all   *)
(* it has to that very pass.                                                *)
THEOREM AssetsStayBoundAlways == BackgroundSpec => AssetsStayBound
<1>1. PartsInv /\ [BackgroundNext]_BackgroundVars
        => [part = "cloud" => BindingsSurviveStep]_cloudVars
  BY PartMoves, BindingsAreKept DEF PartsInv
<1>. QED
  BY PartsInvariance, <1>1, PTL DEF BackgroundSpec, BackgroundVars, AssetsStayBound

(* A pass that nothing came between leaves the tables as the clouds are, as *)
(* far as they are shown, for whatever rows there were before it, provided  *)
(* that no asset had two: what it added, changed and deleted of each kind,  *)
(* and the DNS records it linked, are all there was to do.                  *)
THEOREM CloudConvergesAlways == BackgroundSpec => CloudConverges
<1>1. PartsInv /\ [BackgroundNext]_BackgroundVars
        => [part = "cloud" => CleanPassConvergesStep]_cloudVars
  BY QuietPassEnds DEF PartsInv
<1>. QED
  BY PartsInvariance, <1>1, PTL DEF BackgroundSpec, BackgroundVars, CloudConverges

=============================================================================
