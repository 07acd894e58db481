-------------------------------- MODULE OnDuty --------------------------------
(***************************************************************************)
(* The rota of one on-duty group: the history that the cron job fills once  *)
(* a day (cron/onduty_group.go), the swaps that people enter and the plan   *)
(* that they are shown (web/view_server/api_monitor_onduty.go), and the     *)
(* person whom the alert webhook notifies                                   *)
(* (models/tbl_monitor_onduty_group.go).                                    *)
(*                                                                         *)
(* Groups do not meet, so the module is about one.  Days are numbers, the   *)
(* members are in the order in which the database returns them.  A pass of  *)
(* the cron job ends on the day it began.                                   *)
(***************************************************************************)
EXTENDS Integers, Sequences, FiniteSets

CONSTANTS
  Members,   (* the users who may serve                                     *)
  Rotas,     (* the lists of members a group may have                       *)
  Shifts,    (* the values of ShiftDays                                     *)
  LastDay,   (* bound: the days that are looked at                          *)
  Horizon,   (* the days ahead for which plans are compared                 *)
  MaxSwaps,  (* bound: the days for which a swap is entered                 *)
  DutyFaults (* "gap": days on which the server does not run,               *)
             (* "edit": the group is edited                                 *)

NoUser == 0

Days == 1 .. LastDay

(* The members of a group are rows of a join table: nobody is one twice.    *)
ASSUME OnDutyAssumption ==
  /\ NoUser \notin Members
  /\ Rotas \subseteq Seq(Members)
  /\ \A m \in Rotas : \A i, k \in DOMAIN m : m[i] = m[k] => i = k
  /\ Shifts \subseteq Nat \ {0}
  /\ LastDay \in Nat \ {0}
  /\ Horizon \in Nat
  /\ MaxSwaps \in Nat
  /\ DutyFaults \subseteq {"gap", "edit"}

VARIABLES
  day,      (* today                                                        *)
  group,    (* the row of monitor_onduty_groups and its members             *)
  swap,     (* the last of the monitor_onduty_changes of each day           *)
  history,  (* the row of monitor_onduty_histories of each day              *)
  fill      (* the local variables of FullFillOnDutyHistoryOnGroup          *)

dutyVars == <<day, group, swap, history, fill>>

-----------------------------------------------------------------------------
(* who serves, and for whom: origin is 0 when nobody stands in.             *)
NoEntry == [who |-> NoUser, origin |-> NoUser]

NoGroup == [members |-> <<>>, shift |-> 1, created |-> 0, edited |-> FALSE]

On(h, d)    == d \in DOMAIN h /\ h[d] # NoEntry
Recorded(d) == On(history, d)
Swapped(d)  == On(swap, d)

(* Whose turn the day was: the rota goes on from the person replaced.       *)
Turn(h, d) == IF h[d].origin # NoUser THEN h[d].origin ELSE h[d].who

IndexOf(g, u) ==
  IF \E i \in DOMAIN g.members : g.members[i] = u
  THEN CHOOSE i \in DOMAIN g.members :
         /\ g.members[i] = u
         /\ \A k \in DOMAIN g.members : g.members[k] = u => i <= k
  ELSE 1

(* The member k places after u, who counts as the first one if he is gone.  *)
Successor(g, u, k) ==
  g.members[((IndexOf(g, u) - 1 + k) % Len(g.members)) + 1]

(* The rota by the calendar: the days since the creation decide.            *)
ByCalendar(g, d) ==
  LET past == IF d > g.created THEN d - g.created ELSE 0
  IN  g.members[((past \div g.shift) % Len(g.members)) + 1]

(* ToDayOnDutyUser, who is notified: the swap first, then the history.      *)
FillToDayOndutyUser(g, d) ==
  CASE g.members = <<>> -> NoUser
    [] g.members # <<>> /\ Swapped(d) -> swap[d].who
    [] g.members # <<>> /\ ~Swapped(d) /\ Recorded(d) -> history[d].who
    [] OTHER -> ByCalendar(g, d)

(* A mutant of needChange: one day less is enough.                          *)
needChangeEarly(g, h, d) ==
  Cardinality({e \in d - g.shift .. d - 1 : On(h, e) /\ Turn(h, e) = Turn(h, d - 1)})
    >= g.shift - 1

(* Of the last ShiftDays days, were all the turn of yesterday's person?     *)
needChange(g, h, d) ==
  Cardinality({e \in d - g.shift .. d - 1 : On(h, e) /\ Turn(h, e) = Turn(h, d - 1)})
    >= g.shift

(* The cron job's choice for a day without a swap, if h is the history.     *)
Rotation(g, h, d) ==
  CASE ~On(h, d - 1) -> FillToDayOndutyUser(g, d)
    [] On(h, d - 1) /\ needChange(g, h, d) -> Successor(g, Turn(h, d - 1), 1)
    [] OTHER -> Turn(h, d - 1)

-----------------------------------------------------------------------------
(* getMonitorOndutyGroupFuturePlan: whose turn it is today, as the plan     *)
(* reckons it.                                                              *)
PlanBase(d) ==
  CASE Swapped(d) -> swap[d].origin
    [] ~Swapped(d) /\ Recorded(d) -> Turn(history, d)
    [] OTHER -> FillToDayOndutyUser(group, d)

(* A mutant of ConsecutiveDays: it counts the substitutes.                  *)
ConsecutiveServed(d) ==
  1 + Cardinality({c \in 1 .. group.shift - 1 :
        \A e \in d - c .. d - 1 : Recorded(e) /\ history[e].who = PlanBase(d)})

(* The days that person has had in a row, today included.                   *)
ConsecutiveDays(d) ==
  1 + Cardinality({c \in 1 .. group.shift - 1 :
        \A e \in d - c .. d - 1 : Recorded(e) /\ Turn(history, e) = PlanBase(d)})

(* The plan for the k-th day after d: the rest of the turn, then whole      *)
(* turns of the members that follow.                                        *)
FuturePlan(d, k) ==
  LET remaining == group.shift - ConsecutiveDays(d)
      turns == IF k <= remaining THEN 0
               ELSE 1 + ((k - remaining - 1) \div group.shift)
  IN  Successor(group, PlanBase(d), turns)

-----------------------------------------------------------------------------
Idle == [pc |-> "idle", g |-> NoGroup]

createMonitorOndutyGroup(m, s) ==
  /\ group = NoGroup
  /\ \A d \in Days : ~Recorded(d)
  /\ group' = [members |-> m, shift |-> s, created |-> day, edited |-> FALSE]
  /\ UNCHANGED <<day, swap, history, fill>>

updateMonitorOndutyGroup(m, s) ==
  /\ "edit" \in DutyFaults
  /\ group # NoGroup
  /\ group' = [group EXCEPT !.members = m, !.shift = s, !.edited = TRUE]
  /\ UNCHANGED <<day, swap, history, fill>>

(* A group without a send group may go; its history stays.                  *)
deleteMonitorOndutyGroup ==
  /\ "edit" \in DutyFaults
  /\ group # NoGroup
  /\ group' = [NoGroup EXCEPT !.edited = TRUE]
  /\ UNCHANGED <<day, swap, history, fill>>

(* A mutant of createMonitorOndutyChange: the swap is recorded at once.     *)
createMonitorOndutyHistory(d, origin, target) ==
  /\ history' = [history EXCEPT ![d] = [who |-> target, origin |-> origin]]
  /\ UNCHANGED <<day, group, swap, fill>>

(* The substitute must be a member; whom he replaces is not checked, nor    *)
(* the day.                                                                 *)
createMonitorOndutyChange(d, origin, target) ==
  /\ origin # target
  /\ \E i \in DOMAIN group.members : group.members[i] = target
  /\ Cardinality({e \in Days : Swapped(e)} \cup {d}) <= MaxSwaps
  /\ swap' = [swap EXCEPT ![d] = [who |-> target, origin |-> origin]]
  /\ UNCHANGED <<day, group, history, fill>>

(* The pass reads the groups, and a goroutine for each goes on from there.  *)
FullFillOnDutyHistory ==
  /\ fill.pc = "idle"
  /\ group.members # <<>>
  /\ fill' = [pc |-> "check", g |-> group]
  /\ UNCHANGED <<day, group, swap, history>>

(* A mutant of RecordSwap: it forgets who was replaced.                     *)
RecordSubstitute == history' = [history EXCEPT ![day] = [NoEntry EXCEPT !.who = swap[day].who]]

RecordSwap == history' = [history EXCEPT ![day] = swap[day]]

(* Today is recorded already, or a swap decides, or the rota has to.        *)
FillFromSwap ==
  /\ fill.pc = "check"
  /\ fill' = IF Recorded(day) \/ Swapped(day) THEN Idle
                                              ELSE [fill EXCEPT !.pc = "rotate"]
  /\ IF ~Recorded(day) /\ Swapped(day) THEN RecordSwap ELSE UNCHANGED history
  /\ UNCHANGED <<day, group, swap>>

FillFromRotation ==
  /\ fill.pc = "rotate"
  /\ history' = [history EXCEPT
                   ![day] = [NoEntry EXCEPT !.who = Rotation(fill.g, history, day)]]
  /\ fill' = Idle
  /\ UNCHANGED <<day, group, swap>>

(* Midnight, on most days after a pass.                                     *)
NextDay ==
  /\ day < LastDay
  /\ fill.pc = "idle"
  /\ Recorded(day) \/ group.members = <<>> \/ "gap" \in DutyFaults
  /\ day' = day + 1
  /\ UNCHANGED <<group, swap, history, fill>>

-----------------------------------------------------------------------------
DutyInit ==
  /\ day = 1
  /\ group = NoGroup
  /\ swap = [d \in Days |-> NoEntry]
  /\ history = [d \in Days |-> NoEntry]
  /\ fill = Idle

DutyNext ==
  \/ \E m \in Rotas, s \in Shifts :
       createMonitorOndutyGroup(m, s) \/ updateMonitorOndutyGroup(m, s)
  \/ deleteMonitorOndutyGroup
  \/ /\ group # NoGroup
     /\ \E d \in Days, o, t \in Members : createMonitorOndutyChange(d, o, t)
  \/ FullFillOnDutyHistory
  \/ FillFromSwap
  \/ FillFromRotation
  \/ NextDay

DutySpec == DutyInit /\ [][DutyNext]_dutyVars

-----------------------------------------------------------------------------
Entries == [who : Members \cup {NoUser}, origin : Members \cup {NoUser}]

Groups == [members : Rotas \cup {<<>>}, shift : Shifts \cup {1},
           created : 0 .. LastDay, edited : BOOLEAN]

DutyTypeOK ==
  /\ day \in Nat
  /\ group \in Groups
  /\ swap \in [Days -> Entries]
  /\ history \in [Days -> Entries]
  /\ \A d \in Days : Recorded(d) => d <= day
  /\ fill \in [pc : {"idle", "check", "rotate"}, g : Groups]

(* A day whose entry names the right person as the one replaced, if any;    *)
(* not the day of the creation if it got its swap during the pass.          *)
HonestDay(d) ==
  /\ Recorded(d)
  /\ history[d].origin \in {NoUser, ByCalendar(group, d)}
  /\ d = group.created /\ Swapped(d) => history[d] = swap[d]

(* Swaps do not disturb the rota: as long as the group is not edited, the   *)
(* server runs every day and swaps name the person whose turn it is, it is  *)
(* everybody's turn on the days of the calendar, so for ShiftDays days in a *)
(* row, whoever stood in for whom, and whatever was entered when.  Whom the *)
(* webhook notifies before the history is filled is the same person.        *)
RotaKept ==
  ~group.edited =>
    \A d \in group.created .. day :
      (Recorded(d) /\ \A e \in group.created .. d : HonestDay(e))
        => Turn(history, d) = ByCalendar(group, d)

(* The history as it will be n days from now, if nothing happens but the    *)
(* daily pass.                                                              *)
Forecast(n) ==
  LET after[k \in 0 .. n] ==
        IF k = 0 THEN [d \in 1 .. day |-> history[d]]
        ELSE [d \in 1 .. day + k |->
                IF d < day + k THEN after[k - 1][d]
                ELSE [NoEntry EXCEPT !.who = Rotation(group, after[k - 1], d)]]
  IN  after[n]

(* The plan that people are shown is what the cron job will do day by day:  *)
(* after gaps, edits and swaps, unless today's swap names another person    *)
(* than the history as the one replaced, or it is the turn of somebody who  *)
(* is not, or no longer, a member.                                          *)
PlanComesTrue ==
  /\ Recorded(day)
  /\ \E i \in DOMAIN group.members : group.members[i] = Turn(history, day)
  /\ Swapped(day) => swap[day].origin = Turn(history, day)
  => LET forecast == Forecast(Horizon)
     IN  \A k \in 1 .. Horizon : FuturePlan(day, k) = forecast[day + k].who

=============================================================================
