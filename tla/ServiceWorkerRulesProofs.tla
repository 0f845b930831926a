---------------------- MODULE ServiceWorkerRulesProofs ----------------------
(***************************************************************************)
(* What the worker of ServiceWorker leaves in the browser and in storage,  *)
(* for all lists, popups, failures and restarts: at rest the rules are the *)
(* ones the session asks for and the session is the one the schedules ask  *)
(* for, no edit opens a page while a session lasts, a temporary allow      *)
(* survives every pass, and a session is archived twice only if the        *)
(* browser closed.                                                         *)
(***************************************************************************)
EXTENDS ServiceWorkerProofs, BlockingRulesProofs

-----------------------------------------------------------------------------
(* The rules of the session and what the worker remembers of them.          *)

(* what the worker believes the browser has, the browser has *)
Remembered == lastRules # None => lastRules = rules

(* the rules go once the session has left the active slot *)
Cleared == At("clear") => active = None

(* an update that succeeds leaves the browser with the new rules *)
LEMMA Updated ==
  ASSUME Remembered, NEW new, new # None, UpdateBlockingRules(new)
  PROVE  rules' = new /\ lastRules' = new /\ failed' = FALSE
BY DEF UpdateBlockingRules, Remembered

(* the domains of temporary allows are entries *)
LEMMA AllowedDomains ==
  ASSUME NEW allows \in SUBSET Allows PROVE DomainsOf(allows) \in SUBSET Entries
BY DEF DomainsOf, Allows

(* the snapshots of a session are entries, and its rules are a list of rules *)
LEMMA SessionRulesOK ==
  ASSUME NEW s \in Sessions, NEW allows \in SUBSET Allows
  PROVE  /\ s.block \in SUBSET Entries /\ s.white \in SUBSET Entries
         /\ DomainsOf(allows) \in SUBSET Entries
         /\ SessionRules(s, allows) # None
<1>1. s.block \in SUBSET Entries /\ s.white \in SUBSET Entries
  BY DEF Sessions
<1> QED
  BY <1>1, AllowedDomains, ServiceWorkerAssumption DEF SessionRules

(* the rules of a session block the pages it asks for and no others *)
LEMMA SessionRulesMatch ==
  ASSUME NEW s \in Sessions, NEW allows \in SUBSET Allows, NEW p \in Pages
  PROVE  Blocked(SessionRules(s, allows), p) <=>
           Wanted(s.mode, s.block, s.white, DomainsOf(allows), p)
<1>1. /\ s.block \in SUBSET Entries /\ s.white \in SUBSET Entries
      /\ DomainsOf(allows) \in SUBSET Entries
  BY SessionRulesOK
<1>2. CASE s.mode = "lockdown"
  BY <1>1, <1>2, LockdownRulesMatch DEF SessionRules
<1>3. CASE s.mode # "lockdown"
  <2>1. s.mode = "blocklist"
    BY <1>3 DEF Sessions, Modes
  <2> QED BY <1>1, <2>1, BlocklistRulesMatch DEF SessionRules
<1> QED
  BY <1>2, <1>3

(* only two updates, a closing browser and a sleeping worker touch them *)
LEMMA RulesFrame ==
  [Next]_vars => \/ ClearAllRules \/ Enforce \/ Sleep \/ Restart
                 \/ UNCHANGED <<rules, lastRules, failed>>
<1>1. WorkerStep => ClearAllRules \/ Enforce \/ UNCHANGED <<rules, lastRules, failed>>
  BY DEF WorkerStep, RunReconcile, StartSession, StopSession, ExpireSession,
         EndTask, WriteHistory, ResetActive, ResetChallenge, ReadState,
         PruneAllows, SelectSchedule, MigrateStray, Supersede, WindowOver,
         LeaveWindow, ManualDue, EndsHere, ActivateScheduled, browser
<1>2. StorageChanged \/ Alarm \/ Tick \/ Finishes \/ PopupStep \/ UNCHANGED vars
        => UNCHANGED <<rules, lastRules, failed>>
  BY PagesFrame DEF StorageChanged, Alarm, AlarmFires, Tick, Finishes, WriteStep,
     PopupStep, SendStart, SendStop, GetStatus, SendToBackground, ClearHistory,
     vars, browser
<1> QED
  BY <1>1, <1>2 DEF Next

(* an enforcing step: the session it enforces and the rules it leaves *)
LEMMA EnforceOutcome ==
  ASSUME Types, Remembered, Enforce
  PROVE  /\ active \in Sessions /\ task.allows \in SUBSET Allows
         /\ UNCHANGED <<active, temporary, changed, reconcile, queue>>
         /\ task' = [task EXCEPT !.pc = "end"]
         /\ \/ /\ rules' = SessionRules(active, task.allows) /\ lastRules' = rules'
               /\ failed' = FALSE /\ alarms'.allow = alarms.allow
            \/ UNCHANGED <<rules, lastRules>> /\ failed' = TRUE
<1>1. active \in Sessions /\ task.allows \in SUBSET Allows
  BY DEF Enforce, Live, Types, SessionOK, TaskOK, ListInv, TaskReads, At
<1>2. SessionRules(active, task.allows) # None
  BY <1>1, SessionRulesOK
<1>3. DOMAIN alarms = {"expiry", "boundary", "allow"}
  BY DEF Types, AlarmsOK
<1>4. UpdateBlockingRules(SessionRules(active, task.allows)) =>
        rules' = SessionRules(active, task.allows) /\ lastRules' = rules' /\ failed' = FALSE
  BY <1>2, Updated
<1> QED
  BY <1>1, <1>3, <1>4 DEF Enforce, RejectRules, Goto, lists, session

(* a clearing step: there is no session, and it leaves no rules *)
LEMMA ClearOutcome ==
  ASSUME Types, Remembered, Cleared, ClearAllRules
  PROVE  /\ active = None
         /\ UNCHANGED <<active, temporary, changed, reconcile, queue>>
         /\ \/ /\ rules' = {} /\ lastRules' = rules' /\ failed' = FALSE
               /\ alarms'.allow = alarms.allow
               /\ \/ /\ task' = [task EXCEPT !.pc = "decide"]
                     /\ task.pc = "clear" /\ task.then = "decide"
                  \/ task' = [task EXCEPT !.pc = "end"]
            \/ /\ UNCHANGED <<rules, lastRules>> /\ failed' = TRUE
               /\ task' = [task EXCEPT !.pc = "end"]
<1>1. active = None
  BY DEF ClearAllRules, Cleared
<1>2. {} # None
  BY ServiceWorkerAssumption
<1>3. DOMAIN alarms = {"expiry", "boundary", "allow"}
  BY DEF Types, AlarmsOK
<1>4. UpdateBlockingRules({}) => rules' = {} /\ lastRules' = rules' /\ failed' = FALSE
  BY <1>2, Updated
<1> QED
  BY <1>1, <1>3, <1>4 DEF ClearAllRules, RejectRules, Goto, At, lists, session

(* every update is remembered as it succeeded *)
LEMMA RememberedStep ==
  Types /\ Remembered /\ Cleared /\ [Next]_vars => Remembered'
<1> SUFFICES ASSUME Types, Remembered, Cleared, [Next]_vars PROVE Remembered'
  OBVIOUS
<1>1. CASE Enforce
  BY <1>1, EnforceOutcome DEF Remembered
<1>2. CASE ClearAllRules
  BY <1>2, ClearOutcome DEF Remembered
<1>3. CASE Sleep \/ Restart
  BY <1>3 DEF Sleep, Restart, Remembered
<1>4. CASE UNCHANGED <<rules, lastRules, failed>>
  BY <1>4 DEF Remembered
<1> QED
  BY <1>1, <1>2, <1>3, <1>4, RulesFrame

-----------------------------------------------------------------------------
(* A reconcile request is either a waiting message or out of date.          *)

Asked  == \E i \in DOMAIN queue : queue[i].type = "reconcile"
Queued == reconcile => Asked

(* a message taken leaves the others waiting *)
LEMMA TakenFirst ==
  ASSUME NEW q \in Seq(Message), q # <<>>, NEW i \in DOMAIN q, q[i] # Head(q)
  PROVE  i - 1 \in DOMAIN Tail(q) /\ Tail(q)[i - 1] = q[i]
<1>1. /\ Len(q) \in Nat \ {0} /\ DOMAIN q = 1..Len(q) /\ Head(q) = q[1]
      /\ Len(Tail(q)) = Len(q) - 1 /\ DOMAIN Tail(q) = 1..(Len(q) - 1)
      /\ \A j \in 1..(Len(q) - 1) : Tail(q)[j] = q[j + 1]
  BY EmptySeq
<1>2. i # 1 /\ i \in 1..Len(q)
  BY <1>1
<1> QED
  BY <1>1, <1>2

(* a request to reconcile waits until the task that clears it is taken *)
LEMMA QueuedStep ==
  ASSUME Types, Queued, [Next]_vars PROVE Queued'
<1>0. queue \in Seq(Message) /\ [type |-> "reconcile"] \in Message
  BY DEF Types, QueueOK, Message
<1>1. RequestReconcile => Asked'
  <2> DEFINE m == [type |-> "reconcile"]
  <2>1. m \in Message /\ m.type = "reconcile"
    BY <1>0
  <2> HIDE DEF m
  <2>2. CASE queue' = Append(queue, m)
    BY <1>0, <2>1, <2>2, AppendedLast DEF Asked
  <2>3. CASE queue' = queue /\ Asked
    BY <2>3 DEF Asked
  <2> QED BY <2>2, <2>3 DEF RequestReconcile, Asked, m
<1>2. ASSUME NEW type, type # "reconcile", Take(type), UNCHANGED reconcile PROVE Queued'
  <2> SUFFICES ASSUME reconcile PROVE Asked'
    BY <1>2 DEF Queued
  <2>1. PICK i \in DOMAIN queue : queue[i].type = "reconcile"
    BY DEF Queued, Asked
  <2>2. queue # <<>> /\ queue[i] # Head(queue) /\ queue' = Tail(queue)
    BY <1>2, <2>1 DEF Take
  <2>3. i - 1 \in DOMAIN Tail(queue) /\ Tail(queue)[i - 1] = queue[i]
    BY <1>0, <2>2, TakenFirst
  <2> QED BY <2>1, <2>2, <2>3 DEF Asked
<1>3. ASSUME NEW m \in Message, SendToBackground(m) PROVE Queued'
  <2>1. queue' = Append(queue, m) /\ UNCHANGED reconcile
    BY <1>3 DEF SendToBackground
  <2> QED BY <1>0, <2>1, AppendedLast DEF Queued, Asked
<1>4. CASE RunReconcile \/ EndTask
  BY <1>4 DEF RunReconcile, EndTask, Queued, Asked
<1>5. CASE StartSession \/ StopSession \/ ExpireSession
  BY <1>2, <1>5 DEF StartSession, StopSession, ExpireSession
<1>6. CASE StorageChanged \/ Alarm
  BY <1>1, <1>6 DEF StorageChanged, Alarm, AlarmFires, Queued
<1>7. CASE Restart
  <2>1. queue' = <<[type |-> "reconcile"]>>
    BY <1>7 DEF Restart
  <2>2. 1 \in DOMAIN queue' /\ queue'[1].type = "reconcile"
    BY <2>1
  <2> QED BY <2>2 DEF Queued, Asked
<1>8. UNCHANGED <<queue, reconcile>> => Queued'
  BY DEF Queued, Asked
<1>9. ASSUME NEW start \in Starts, SendStart(start) PROVE Queued'
  <2> DEFINE m == [type |-> "start", mode |-> start.mode, planned |-> start.planned]
  <2>1. m \in Message
    BY ServiceWorkerAssumption DEF Message
  <2> QED BY <1>3, <1>9, <2>1 DEF SendStart
<1>10. CASE SendStop \/ GetStatus
  <2>1. [type |-> "stop"] \in Message /\ [type |-> "expire"] \in Message
    BY DEF Message
  <2> QED BY <1>3, <1>10, <2>1 DEF SendStop, GetStatus
<1>11. ClearHistory \/ BlocklistPage \/ AllowlistPage \/ SchedulePage \/ Tick
         \/ Sleep \/ Finishes \/ UNCHANGED vars => UNCHANGED <<queue, reconcile>>
  BY PagesFrame DEF ClearHistory, Tick, Sleep, Finishes, WriteStep, vars, worker
<1>12. WorkerStep => \/ RunReconcile \/ EndTask \/ StartSession \/ StopSession
                     \/ ExpireSession \/ UNCHANGED <<queue, reconcile>>
  BY DEF WorkerStep, WriteHistory, ResetActive, ResetChallenge, ClearAllRules,
         ReadState, PruneAllows, SelectSchedule, MigrateStray, Supersede,
         WindowOver, LeaveWindow, ManualDue, EndsHere, ActivateScheduled, Enforce
<1> QED
  BY <1>4, <1>5, <1>6, <1>7, <1>8, <1>9, <1>10, <1>11, <1>12 DEF Next, PopupStep

-----------------------------------------------------------------------------
(* What a pass has read, and what the worker leaves when it rests.          *)

(* a pass between its reading of the temporary allows and its end; a session *)
(* may end on the way *)
Applying ==
  \/ task.pc \in {"select", "decide", "activate", "enforce"}
  \/ task.pc \in {"archive", "reset", "clear"} /\ task.then \in {"decide", "activate"}

(* the allows a pass applies are the stored ones, or a change is announced; *)
(* and their alarm is set *)
Applied ==
  Applying => /\ changed \/ temporary = task.allows
              /\ alarms.allow = AllowAlarm(task.allows)

(* the rules are those of the session and the stored allows, watched by an  *)
(* alarm *)
RulesMatch ==
  IF active = None THEN rules = {}
  ELSE rules = SessionRules(active, temporary) /\ alarms.allow = AllowAlarm(temporary)

(* between tasks, unless another pass is to come *)
Rested == Between => failed \/ changed \/ reconcile \/ RulesMatch

RulesInv == Remembered /\ Cleared /\ Queued /\ Applied /\ Rested

(* a task that neither rests, nor clears, nor applies what it read *)
LEMMA ElsewhereOK ==
  ASSUME ~Between', ~At("clear")', ~Applying'
  PROVE  Cleared' /\ Applied' /\ Rested'
BY DEF Cleared, Applied, Rested

(* a step of a pass that keeps what the pass read *)
LEMMA CarriedOK ==
  ASSUME Applied, Applying, ~Between', At("clear")' => active' = None,
         task'.allows = task.allows, UNCHANGED <<temporary, alarms>>,
         changed' \/ UNCHANGED changed
  PROVE  Cleared' /\ Applied' /\ Rested'
BY DEF Cleared, Applied, Rested

(* one step per action *)
LEMMA RestedStep ==
  ASSUME Types, RulesInv, [Next]_vars PROVE Cleared' /\ Applied' /\ Rested'
<1>0. IsTask(task) /\ Remembered /\ Cleared /\ Queued /\ Applied /\ Rested
      /\ alarms \in [{"expiry", "boundary", "allow"} -> AlarmTimes]
  BY DEF Types, ListInv, TaskReads, RulesInv, AlarmsOK
<1>1. ASSUME UNCHANGED <<task, active, rules, failed, alarms, reconcile>>,
             changed' \/ UNCHANGED <<changed, temporary>>
      PROVE  Cleared' /\ Applied' /\ Rested'
  BY <1>0, <1>1 DEF Cleared, Applied, Applying, Rested, RulesMatch, Between, At
<1>2. CASE Tick \/ Sleep \/ PopupStep \/ UNCHANGED vars
  <2>1. UNCHANGED <<task, active, rules, failed, alarms, reconcile, changed, temporary>>
    BY <1>2, PagesFrame
    DEF Tick, Sleep, PopupStep, SendStart, SendStop, GetStatus, SendToBackground,
        ClearHistory, BlocklistPage, AllowlistPage, SchedulePage, AddBlocklist,
        RemoveBlocklist, AddWhitelist, RemoveWhitelist, EditList,
        ListTemporaryAllows, AddTemporaryAllow, RemoveTemporaryAllow,
        CreateSchedule, UpdateSchedule, DeleteSchedule, WriteSchedules, Edit,
        vars, lists, session, browser, worker
  <2> QED BY <1>1, <2>1
<1>3. CASE Finishes
  <2> PICK i \in DOMAIN writes : WriteStep(i)
    BY <1>3 DEF Finishes
  <2>1. UNCHANGED <<task, active, rules, failed, alarms, reconcile>>
        /\ changed' = (changed \/ lists' # lists)
    BY DEF WriteStep, session, browser, worker
  <2>2. CASE lists' # lists
    BY <1>1, <2>1, <2>2
  <2>3. CASE lists' = lists
    <3>1. temporary' = temporary /\ changed' = changed
      BY <2>1, <2>3 DEF lists, Types, FlagsOK
    <3> QED BY <1>1, <2>1, <3>1
  <2> QED BY <2>2, <2>3
<1>4. CASE StorageChanged \/ Alarm
  <2>1. Between /\ reconcile' /\ UNCHANGED <<task, active>>
    BY <1>4 DEF StorageChanged, Alarm, AlarmFires, RequestReconcile, session
  <2> QED BY <1>0, <2>1 DEF Between, At, Cleared, Applied, Applying, Rested
<1>5. CASE Restart
  <2>1. task'.pc = "idle" /\ reconcile'
    BY <1>5, IdleFields DEF Restart
  <2> QED BY <2>1 DEF At, Cleared, Applied, Applying, Rested
<1>6. ASSUME task'.pc \in {"pass", "prune"} PROVE Cleared' /\ Applied' /\ Rested'
  BY <1>6, ElsewhereOK DEF Between, At, Applying
<1>7. ASSUME task'.pc = "idle", At("idle") \/ At("end"), UNCHANGED <<active, rules,
             failed, changed, temporary, alarms>>, ~reconcile \/ reconcile'
      PROVE  Cleared' /\ Applied' /\ Rested'
  BY <1>0, <1>7 DEF Between, At, Cleared, Applied, Applying, Rested, RulesMatch
<1>8. CASE RunReconcile
  <2>1. CASE reconcile
    <3>1. task'.pc = "pass"
      BY <1>0, <1>8, <2>1 DEF RunReconcile, IsTask
    <3> QED BY <1>6, <3>1
  <2>2. CASE ~reconcile
    <3>1. /\ task'.pc = "idle" /\ At("idle")
          /\ UNCHANGED <<active, rules, failed, changed, temporary, alarms>>
      BY <1>8, <2>2, IdleFields DEF RunReconcile, Take, At, lists, session, browser
    <3> QED BY <1>7, <2>2, <3>1
  <2> QED BY <2>1, <2>2
<1>9. CASE EndTask
  <2>1. At("end") /\ UNCHANGED <<active, rules, failed, changed, temporary, alarms>>
    BY <1>9 DEF EndTask, lists, session, browser
  <2>2. CASE task.kind = "reconcile" /\ reconcile
    <3>1. task' = NextPass
      BY <1>9, <2>2 DEF EndTask, NextPass
    <3> QED BY <1>6, <3>1, IdleFields
  <2>3. CASE ~(task.kind = "reconcile" /\ reconcile)
    <3>1. task'.pc = "idle" /\ (~reconcile \/ reconcile')
      BY <1>9, <2>3, IdleFields DEF EndTask
    <3> QED BY <1>7, <2>1, <3>1
  <2> QED BY <2>2, <2>3
<1>10. CASE StartSession
  <2>1. CASE active # None
    <3>1. /\ task' = task /\ At("idle")
          /\ UNCHANGED <<active, rules, failed, changed, temporary, alarms, reconcile>>
      BY <1>10, <2>1 DEF StartSession, Take, At, lists, browser
    <3> QED BY <1>1, <3>1
  <2>2. CASE active = None
    <3>1. task'.pc = "pass"
      BY <1>0, <1>10, <2>2 DEF StartSession, IsTask
    <3> QED BY <1>6, <3>1
  <2> QED BY <2>1, <2>2
<1>11. ASSUME NEW kind, NEW outcome, NEW then, Finalize(kind, outcome, then)
       PROVE  /\ task'.pc = "archive" /\ task'.then = then
              /\ task'.allows = task.allows
  BY <1>0, <1>11 DEF Finalize, IsTask
<1>12. CASE StopSession \/ ExpireSession
  <2>1. UNCHANGED <<active, rules, failed, changed, temporary, alarms, reconcile>>
    BY <1>12 DEF StopSession, ExpireSession, lists, session, browser
  <2>2. CASE task' = task
    BY <1>1, <2>1, <2>2
  <2>3. CASE \/ Finalize("stop", "stopped", "unchallenge")
             \/ Finalize("expire", ScheduledOutcome(active), "done")
    <3>1. task'.pc = "archive" /\ task'.then \in {"unchallenge", "done"}
      BY <1>11, <2>3
    <3> QED BY <3>1, ElsewhereOK DEF Between, At, Applying
  <2> QED BY <1>12, <2>2, <2>3 DEF StopSession, ExpireSession
<1>13. CASE WriteHistory
  <2>1. /\ task.pc = "archive" /\ task'.pc = "reset" /\ task'.then = task.then
        /\ task'.allows = task.allows /\ UNCHANGED <<temporary, alarms, changed>>
    BY <1>0, <1>13 DEF WriteHistory, Goto, At, IsTask, lists, browser
  <2>2. CASE Applying
    BY <1>0, <2>1, <2>2, CarriedOK DEF Between, At
  <2>3. CASE ~Applying
    BY <2>1, <2>3, ElsewhereOK DEF Between, At, Applying
  <2> QED BY <2>2, <2>3
<1>14. CASE ResetActive
  <2>1. /\ task.pc = "reset" /\ task'.then = task.then /\ task'.allows = task.allows
        /\ task'.pc = IF task.then \in {"activate", "unchallenge"} THEN task.then
                      ELSE "clear"
        /\ active' = None /\ changed' /\ UNCHANGED <<temporary, alarms>>
    BY <1>0, <1>14 DEF ResetActive, At, IsTask, lists, browser
  <2>2. CASE Applying
    BY <1>0, <2>1, <2>2, CarriedOK DEF Between, At
  <2>3. CASE ~Applying
    BY <2>1, <2>3 DEF Between, At, Applying, Cleared, Applied, Rested
  <2> QED BY <2>2, <2>3
<1>15. CASE ResetChallenge
  <2>1. task'.pc = "pass"
    BY <1>0, <1>15 DEF ResetChallenge, Goto, IsTask
  <2> QED BY <1>6, <2>1
<1>16. ASSUME task' = [task EXCEPT !.pc = "end"], failed' \/ changed' \/ RulesMatch'
       PROVE  Cleared' /\ Applied' /\ Rested'
  <2>1. task'.pc = "end"
    BY <1>0, <1>16 DEF IsTask
  <2> QED BY <1>16, <2>1 DEF At, Applying, Cleared, Applied, Rested
<1>17. CASE ClearAllRules
  <2>1. CASE task' = [task EXCEPT !.pc = "end"]
    <3>1. failed' \/ RulesMatch'
      BY <1>0, <1>17, ClearOutcome DEF RulesMatch
    <3> QED BY <1>16, <2>1, <3>1
  <2>2. CASE task' # [task EXCEPT !.pc = "end"]
    <3>1. /\ task' = [task EXCEPT !.pc = "decide"] /\ task.pc = "clear"
          /\ task.then = "decide" /\ alarms'.allow = alarms.allow
          /\ UNCHANGED <<temporary, changed>>
      BY <1>0, <1>17, <2>2, ClearOutcome
    <3>2. task'.pc = "decide" /\ task'.allows = task.allows
      BY <1>0, <3>1 DEF IsTask
    <3> QED BY <1>0, <3>1, <3>2 DEF Applying, Applied, Cleared, Rested, Between, At
  <2> QED BY <2>1, <2>2
<1>18. CASE Enforce
  <2>1. Applying
    BY <1>18 DEF Enforce, At, Applying
  <2>2. /\ active # None /\ task' = [task EXCEPT !.pc = "end"]
        /\ UNCHANGED <<active, temporary, changed>>
    BY <1>0, <1>18, EnforceOutcome, ServiceWorkerAssumption
  <2>3. failed' \/ changed' \/ RulesMatch'
    BY <1>0, <1>18, <2>1, <2>2, EnforceOutcome DEF RulesMatch, Applied
  <2> QED BY <1>16, <2>2, <2>3
<1>19. CASE ReadState
  <2> DEFINE allows == Unexpired(temporary, now)
  <2>1. /\ task'.pc = IF allows = temporary THEN "select" ELSE "prune"
        /\ task'.allows = allows /\ UNCHANGED temporary
        /\ allows = temporary => alarms'.allow = AllowAlarm(allows)
    BY <1>0, <1>19 DEF ReadState, IsTask, lists
  <2> HIDE DEF allows
  <2>2. CASE allows = temporary
    BY <2>1, <2>2 DEF Cleared, Applied, Rested, Between, At
  <2>3. CASE allows # temporary
    BY <1>6, <2>1, <2>3
  <2> QED BY <2>2, <2>3
<1>20. CASE PruneAllows
  <2>1. /\ task'.pc = "select" /\ task'.allows = task.allows
        /\ temporary' = task.allows /\ alarms'.allow = AllowAlarm(task.allows)
    BY <1>0, <1>20 DEF PruneAllows, Goto, IsTask
  <2> QED BY <2>1 DEF Cleared, Applied, Rested, Between, At
<1>21. CASE SelectSchedule
  <2>1. /\ task.pc = "select" /\ task'.pc = "decide" /\ task'.allows = task.allows
        /\ UNCHANGED <<temporary, alarms, changed>>
    BY <1>0, <1>21 DEF SelectSchedule, At, IsTask, lists, browser
  <2> QED BY <1>0, <2>1, CarriedOK DEF Applying, Between, At
<1>22. CASE MigrateStray \/ Supersede \/ WindowOver \/ LeaveWindow \/ ManualDue
  <2>1. task.pc = "decide" /\ UNCHANGED <<temporary, alarms, changed>>
        /\ \E kind, outcome, then : Finalize(kind, outcome, then)
    BY <1>22 DEF MigrateStray, Supersede, WindowOver, LeaveWindow, ManualDue,
                EndsHere, At, lists, browser
  <2>2. task'.pc = "archive" /\ task'.allows = task.allows
    BY <1>11, <2>1
  <2> QED BY <1>0, <2>1, <2>2, CarriedOK DEF Applying, Between, At
<1>23. CASE ActivateScheduled
  <2>1. /\ task.pc \in {"activate", "decide"} /\ task'.pc = "enforce"
        /\ task'.allows = task.allows /\ changed' /\ UNCHANGED <<temporary, alarms>>
    BY <1>0, <1>23 DEF ActivateScheduled, Goto, At, IsTask, lists, browser
  <2> QED BY <1>0, <2>1, CarriedOK DEF Applying, Between, At
<1> QED
  BY <1>2, <1>3, <1>4, <1>5, <1>8, <1>9, <1>10, <1>12, <1>13, <1>14, <1>15,
     <1>17, <1>18, <1>19, <1>20, <1>21, <1>22, <1>23 DEF Next, WorkerStep

(* the rules at rest, for ever *)
LEMMA RulesAlways == Spec => [](Types /\ RulesInv)
<1>1. Init => RulesInv
  <2> SUFFICES ASSUME Init PROVE RulesInv
    OBVIOUS
  <2>1. queue = <<[type |-> "reconcile"]>> /\ task.pc = "idle" /\ reconcile
        /\ lastRules = None
    BY IdleFields DEF Init
  <2>2. 1 \in DOMAIN queue /\ queue[1].type = "reconcile"
    BY <2>1
  <2> QED BY <2>1, <2>2 DEF RulesInv, Remembered, Cleared, Queued, Asked, Applied,
               Applying, Rested, At
<1>2. Types /\ RulesInv /\ [Next]_vars => RulesInv'
  BY RememberedStep, QueuedStep, RestedStep DEF RulesInv
<1> QED
  BY <1>1, <1>2, TypesInit, TypesStep, PTL DEF Spec

(* an alarm that is not due watches allows that have not expired *)
LEMMA WatchedAllows ==
  ASSUME NEW allows \in SUBSET Allows, NEW t,
         AllowAlarm(allows) = None \/ AllowAlarm(allows) > t, t \in Nat
  PROVE  {a \in allows : a.expires > t} = allows
<1> DEFINE times == {a.expires : a \in allows}
<1>1. times \in SUBSET Nat /\ AllowAlarm(allows) = Earliest(times)
  BY DEF Allows, AllowAlarm
<1>2. \A a \in allows : a.expires \in times
  OBVIOUS
<1> HIDE DEF times
<1>3. CASE times = {}
  BY <1>2, <1>3
<1>4. CASE times # {}
  <2>1. \E x \in times : \A y \in times : x <= y
    BY <1>1, <1>4, Least
  <2>2. Earliest(times) \in times /\ \A y \in times : Earliest(times) <= y
    BY <1>4, <2>1 DEF Earliest
  <2>3. Earliest(times) # None
    BY <1>1, <2>2, ServiceWorkerAssumption
  <2>4. Earliest(times) > t /\ Earliest(times) \in Nat
    BY <1>1, <2>2, <2>3
  <2>5. ASSUME NEW y \in times PROVE y > t
    <3>1. y \in Nat /\ Earliest(times) <= y
      BY <1>1, <2>2
    <3> QED BY <2>4, <3>1
  <2> QED BY <1>2, <2>5
<1> QED
  BY <1>3, <1>4

(* Whatever passes failed, met or were cut short before: a worker that      *)
(* rests leaves the rules the session and the unexpired allows ask for, and *)
(* none without a session.                                                  *)
THEOREM RestingRulesMatch == Spec => []SettledRulesMatch
<1>1. Types /\ RulesInv => SettledRulesMatch
  <2> SUFFICES ASSUME Types, RulesInv, Settled, NEW p \in Pages
               PROVE  Blocked(rules, p) <=>
                        /\ active # None
                        /\ Wanted(active.mode, active.block, active.white,
                             DomainsOf({a \in temporary : a.expires > now}), p)
    BY DEF SettledRulesMatch
  <2>1. ~failed /\ ~changed /\ Between /\ queue = <<>>
    BY DEF Settled, Between
  <2>2. ~reconcile
    BY <2>1 DEF RulesInv, Queued, Asked
  <2>3. RulesMatch
    BY <2>1, <2>2 DEF RulesInv, Rested
  <2>4. CASE active = None
    BY <2>3, <2>4 DEF RulesMatch, Blocked
  <2>5. CASE active # None
    <3>1. /\ active \in Sessions /\ temporary \in SUBSET Allows /\ now \in Nat
          /\ "allow" \in DOMAIN alarms
      BY <2>5 DEF Types, SessionOK, ListInv, StoredOK, AlarmsOK
    <3>2. AllowAlarm(temporary) = None \/ AllowAlarm(temporary) > now
      BY <2>3, <2>5, <3>1 DEF RulesMatch, Settled
    <3>3. {a \in temporary : a.expires > now} = temporary
      BY <3>1, <3>2, WatchedAllows
    <3> QED BY <2>3, <2>5, <3>1, <3>3, SessionRulesMatch DEF RulesMatch
  <2> QED BY <2>4, <2>5
<1> QED
  BY <1>1, RulesAlways, PTL

(* The snapshots are locked when a session starts: while it lasts, no edit  *)
(* of the lists opens a page; only a temporary allow does.                  *)
THEOREM NoEditOpens == Spec => OpenedOnlyByAllow
<1> DEFINE Locked ==
      active # None /\ active' = active =>
        \A p \in Pages :
          /\ Wanted(active.mode, active.block, active.white, {}, p)
          /\ Blocked(rules, p) /\ ~Blocked(rules', p)
          => CoveredBy(DomainsOf(task.allows), p)
<1>1. Types /\ RulesInv /\ [Next]_vars => [Locked]_vars
  <2> SUFFICES ASSUME Types, RulesInv, [Next]_vars, active # None, active' = active,
                      NEW p \in Pages, Blocked(rules, p), ~Blocked(rules', p),
                      Wanted(active.mode, active.block, active.white, {}, p)
               PROVE  CoveredBy(DomainsOf(task.allows), p)
    OBVIOUS
  <2>1. rules' # rules
    OBVIOUS
  <2>2. Enforce
    BY <2>1, RulesFrame, ClearOutcome DEF Sleep, Restart, RulesInv
  <2>3. rules' = SessionRules(active, task.allows)
        /\ active \in Sessions /\ task.allows \in SUBSET Allows
    BY <2>1, <2>2, EnforceOutcome DEF RulesInv
  <2>4. ~Wanted(active.mode, active.block, active.white, DomainsOf(task.allows), p)
    BY <2>3, SessionRulesMatch
  <2> QED BY <2>4 DEF Wanted, CoveredBy
<1> HIDE DEF Locked
<1>2. Spec => [][Locked]_vars
  BY <1>1, RulesAlways, PTL DEF Spec
<1> QED
  BY <1>2 DEF Locked, OpenedOnlyByAllow

-----------------------------------------------------------------------------
(* Temporary allows, written by the popup and by the pass without a common  *)
(* lock.                                                                    *)

Lasting == {a \in granted : a.expires > now}

(* what a popup will store keeps the granted allows but the one it takes, and *)
(* at last has the one it gives *)
WriterKeeps(w, lasting, t) ==
  IF w.key = "temporary"
  THEN /\ w.gives \subseteq Allows
       /\ \A j \in DOMAIN w.values : lasting \ w.takes \subseteq w.values[j]
       /\ {a \in w.gives : a.expires > t} \subseteq w.values[Len(w.values)]
       /\ Len(w.values) # 1 => w.takes = {}
  ELSE w.gives = {} /\ w.takes = {}

(* while no two writers of the list overlap: granted allows are stored, are in *)
(* what a pass will store and in what every popup will store *)
SerialInv ==
  ~raced =>
    /\ granted \subseteq Allows /\ Lasting \subseteq temporary
    /\ At("prune") => Lasting \subseteq task.allows
    /\ \A i \in DOMAIN writes : WriterKeeps(writes[i], Lasting, now)

(* only the reading of the state begins to prune *)
LEMMA OnlyReadsPrune ==
  ASSUME Types, [Next]_vars, At("prune")'
  PROVE  task' = task \/ ReadState
<1>0. IsTask(task)
  BY DEF Types, ListInv, TaskReads
<1>. USE DEF At
<1>1. \A pc : Goto(pc) => task'.pc = pc
  BY <1>0 DEF Goto, IsTask
<1>2. \A kind, outcome, then : Finalize(kind, outcome, then) => task'.pc = "archive"
  BY <1>0 DEF Finalize, IsTask
<1>3. ~RunReconcile /\ ~EndTask /\ ~Restart
  <2>1. RunReconcile \/ EndTask \/ Restart =>
          task' \in {Idle, NextPass, [task EXCEPT !.pc = "pass", !.kind = "reconcile"]}
    BY DEF RunReconcile, EndTask, Restart, NextPass
  <2>2. [task EXCEPT !.pc = "pass", !.kind = "reconcile"].pc = "pass"
    BY <1>0 DEF IsTask
  <2> QED BY <2>1, <2>2, IdleFields
<1>4. StartSession => task' = task
  BY <1>0 DEF StartSession, IsTask
<1>5. StopSession \/ ExpireSession => task' = task
  BY <1>2 DEF StopSession, ExpireSession
<1>6. ~WriteHistory /\ ~ResetChallenge /\ ~PruneAllows /\ ~ClearAllRules
      /\ ~ActivateScheduled /\ ~Enforce
  BY <1>1 DEF WriteHistory, ResetChallenge, PruneAllows, ClearAllRules, RejectRules,
     ActivateScheduled, Enforce
<1>7. ~ResetActive /\ ~SelectSchedule
  BY <1>0 DEF ResetActive, SelectSchedule, IsTask
<1>8. ~MigrateStray /\ ~Supersede /\ ~WindowOver /\ ~LeaveWindow /\ ~ManualDue
  BY <1>2 DEF MigrateStray, Supersede, WindowOver, LeaveWindow, ManualDue, EndsHere
<1>9. StorageChanged \/ Alarm \/ Tick \/ Sleep \/ Finishes \/ PopupStep
        \/ UNCHANGED vars => task' = task
  BY PagesFrame DEF StorageChanged, Alarm, AlarmFires, Tick, Sleep, Finishes,
     WriteStep, PopupStep, SendStart, SendStop, GetStatus, SendToBackground,
     ClearHistory, vars, worker
<1> QED
  BY <1>3, <1>4, <1>5, <1>6, <1>7, <1>8, <1>9 DEF Next, WorkerStep

(* a popup that starts to write *)
LEMMA EditSerial ==
  ASSUME ListInv, SerialInv, NEW key \in Keys, NEW values \in Seq(Lists),
         NEW gives \in Lists, NEW takes \in Lists, Edit(key, values, gives, takes),
         ~raced => WriterKeeps([key |-> key, values |-> values, gives |-> gives,
                                takes |-> takes], Lasting, now)
  PROVE  SerialInv'
<1> DEFINE new == [key |-> key, values |-> values, gives |-> gives, takes |-> takes]
<1>1. new \in Write
  BY DEF Write
<1>2. /\ writes' = Append(writes, new)
      /\ UNCHANGED <<temporary, task, now, granted, raced>>
  BY DEF Edit, lists, worker, observed
<1>3. ~raced => WriterKeeps(new, Lasting, now)
  OBVIOUS
<1> HIDE DEF new
<1>4. writes \in Seq(Write)
  BY DEF ListInv, WritesOK
<1>5. ASSUME ~raced, NEW i \in DOMAIN writes' PROVE WriterKeeps(writes'[i], Lasting, now)
  <2>1. writes'[i] = new \/ (i \in DOMAIN writes /\ writes'[i] = writes[i])
    BY <1>1, <1>2, <1>4
  <2> QED BY <1>3, <1>5, <2>1 DEF SerialInv
<1> QED
  BY <1>2, <1>5 DEF SerialInv, WriterKeeps, Lasting, At

(* a list of one or two writes *)
LEMMA OneOrTwo ==
  ASSUME NEW S, NEW a \in S, NEW b \in S, NEW q, q = <<>> \/ q = <<a>>
  PROVE  /\ Append(q, b) \in Seq(S) /\ Append(q, b)[Len(Append(q, b))] = b
         /\ \A j \in DOMAIN Append(q, b) : Append(q, b)[j] \in {a, b}
<1>1. q \in Seq(S) /\ \A j \in DOMAIN q : q[j] = a
  <2>1. CASE q = <<>>
    BY <2>1
  <2>2. CASE q = <<a>>
    BY <2>2
  <2> QED BY <2>1, <2>2
<1>2. /\ Append(q, b) \in Seq(S) /\ Len(Append(q, b)) = Len(q) + 1
      /\ DOMAIN Append(q, b) = 1..(Len(q) + 1)
  BY <1>1
<1>3. Append(q, b)[Len(q) + 1] = b
  BY <1>1
<1>4. \A j \in 1..Len(q) : Append(q, b)[j] = q[j]
  BY <1>1
<1>5. Len(q) \in Nat /\ DOMAIN q = 1..Len(q)
  BY <1>1
<1> QED BY <1>1, <1>2, <1>3, <1>4, <1>5

(* the pages of the popup that give and take temporary allows *)
LEMMA AllowlistSerial ==
  ASSUME ListInv, SerialInv, AllowlistPage PROVE SerialInv'
<1> DEFINE kept == Unexpired(temporary, now)
<1>0. /\ temporary \subseteq Allows /\ now \in Nat /\ kept \in Lists /\ {} \in Lists
      /\ "temporary" \in Keys /\ "whitelist" \in Keys /\ whitelist \subseteq Accepted
  BY DEF ListInv, StoredOK, Lists, Keys, Unexpired
<1>1. Pruned = <<>> \/ Pruned = <<kept>>
  BY DEF Pruned
<1>2. ~raced => Lasting \subseteq kept
  BY DEF SerialInv, Lasting, Unexpired
<1> HIDE DEF kept
<1>3. CASE ListTemporaryAllows
  <2>1. Edit("temporary", <<kept>>, {}, {}) /\ <<kept>> \in Seq(Lists)
    BY <1>0, <1>1, <1>3 DEF ListTemporaryAllows
  <2>2. ~raced => WriterKeeps([key |-> "temporary", values |-> <<kept>>, gives |-> {},
                               takes |-> {}], Lasting, now)
    BY <1>2 DEF WriterKeeps
  <2> QED BY <1>0, <2>1, <2>2, EditSerial
<1>4. ASSUME NEW e \in Entries, AddWhitelist(e) \/ RemoveWhitelist(e) PROVE SerialInv'
  <2>1. PICK list \in Lists : Edit("whitelist", <<list>>, {}, {})
    BY <1>0, <1>4, BlockingRulesAssumption
    DEF AddWhitelist, RemoveWhitelist, EditList, Lists, IsValidStoredDomain
  <2>2. WriterKeeps([key |-> "whitelist", values |-> <<list>>, gives |-> {}, takes |-> {}], Lasting, now)
    BY DEF WriterKeeps
  <2>3. <<list>> \in Seq(Lists)
    OBVIOUS
  <2> QED BY <1>0, <2>1, <2>2, <2>3, EditSerial
<1>5. ASSUME NEW e \in Entries, NEW d \in AllowTimes, AddTemporaryAllow(e, d)
      PROVE  SerialInv'
  <2> DEFINE entry  == [domain |-> e, expires |-> now + d]
             values == Append(Pruned, kept \cup {entry})
  <2>1. entry \in Allows
    BY <1>0, ServiceWorkerAssumption DEF Allows
  <2>2. Edit("temporary", values, {entry}, {})
    BY <1>5 DEF AddTemporaryAllow, kept
  <2> HIDE DEF entry
  <2>3. kept \cup {entry} \in Lists /\ {entry} \in Lists
    BY <1>0, <2>1 DEF Lists
  <2>4. /\ values \in Seq(Lists) /\ values[Len(values)] = kept \cup {entry}
        /\ \A j \in DOMAIN values : values[j] \in {kept, kept \cup {entry}}
    BY <1>0, <1>1, <2>3, OneOrTwo
  <2> HIDE DEF values
  <2>5. ~raced => WriterKeeps([key |-> "temporary", values |-> values,
                               gives |-> {entry}, takes |-> {}], Lasting, now)
    BY <1>2, <2>1, <2>4 DEF WriterKeeps
  <2> QED BY <1>0, <2>2, <2>3, <2>4, <2>5, EditSerial
<1>6. ASSUME NEW entry \in temporary, RemoveTemporaryAllow(entry) PROVE SerialInv'
  <2> DEFINE left == temporary \ {entry}
  <2>1. Edit("temporary", <<left>>, {}, {entry})
    BY <1>6 DEF RemoveTemporaryAllow
  <2>2. left \in Lists /\ {entry} \in Lists
    BY <1>0 DEF Lists
  <2>3. ~raced => Lasting \ {entry} \subseteq left
    BY DEF SerialInv
  <2> HIDE DEF left
  <2>4. ~raced => WriterKeeps([key |-> "temporary", values |-> <<left>>, gives |-> {},
                               takes |-> {entry}], Lasting, now)
    BY <2>3 DEF WriterKeeps
  <2>5. <<left>> \in Seq(Lists)
    BY <2>2
  <2> QED BY <1>0, <2>1, <2>2, <2>4, <2>5, EditSerial
<1> QED
  BY <1>3, <1>4, <1>5, <1>6 DEF AllowlistPage

(* the other pages give and take nothing *)
LEMMA OtherPagesSerial ==
  ASSUME ListInv, SerialInv, BlocklistPage \/ SchedulePage PROVE SerialInv'
<1>0. "blocklist" \in Keys /\ "schedules" \in Keys
  BY DEF Keys
<1>1. ASSUME NEW key \in {"blocklist", "schedules"}, NEW values,
             Edit(key, values, {}, {})
      PROVE  SerialInv'
  <2> DEFINE new == [key |-> key, values |-> values, gives |-> {}, takes |-> {}]
  <2>1. /\ writes' = Append(writes, new)
        /\ UNCHANGED <<temporary, task, now, granted, raced>>
    BY <1>1 DEF Edit, lists, worker, observed
  <2>2. WriterKeeps(new, Lasting, now)
    BY <1>1 DEF WriterKeeps
  <2> HIDE DEF new
  <2>3. \A i \in DOMAIN writes' : writes'[i] = new \/ (i \in DOMAIN writes /\ writes'[i] = writes[i])
    BY <2>1 DEF ListInv, WritesOK
  <2>4. ~raced => \A i \in DOMAIN writes' : WriterKeeps(writes'[i], Lasting, now)
    BY <2>2, <2>3 DEF SerialInv
  <2> QED BY <2>1, <2>4 DEF SerialInv, WriterKeeps, Lasting, At
<1>2. CASE BlocklistPage
  BY <1>1, <1>2 DEF BlocklistPage, AddBlocklist, RemoveBlocklist, EditList
<1>3. CASE SchedulePage
  <2>1. \E values : Edit("schedules", values, {}, {})
    BY <1>3 DEF SchedulePage, CreateSchedule, UpdateSchedule, DeleteSchedule, WriteSchedules
  <2> QED BY <1>1, <2>1
<1> QED
  BY <1>2, <1>3

(* a popup that writes, alone *)
LEMMA FinishSerial ==
  ASSUME ListInv, SerialInv, NEW i \in DOMAIN writes, WriteStep(i) PROVE SerialInv'
<1> DEFINE w == writes[i]
<1>0. writes \in Seq(Write) /\ w \in Write /\ WriteOK(w)
  BY DEF ListInv, WritesOK
<1>1. /\ w.values \in Seq(Lists) /\ w.values # <<>>
      /\ Head(w.values) = w.values[1] /\ Len(w.values) \in Nat \ {0}
      /\ DOMAIN w.values = 1..Len(w.values)
  BY <1>0, EmptySeq DEF WriteOK, Write
<1>2. /\ temporary' = IF w.key = "temporary" THEN Head(w.values) ELSE temporary
      /\ granted' = IF Len(w.values) = 1 THEN (granted \cup w.gives) \ w.takes
                    ELSE granted
      /\ raced' = (raced \/ (w.key = "temporary" /\ Overlapped(i)))
      /\ UNCHANGED <<task, now>>
  BY DEF WriteStep, worker, bounds
<1> SUFFICES ASSUME ~raced' PROVE SerialInv'
  BY DEF SerialInv
<1>3. /\ ~raced /\ (w.key = "temporary" => ~Overlapped(i)) /\ WriterKeeps(w, Lasting, now)
      /\ granted \subseteq Allows /\ Lasting \subseteq temporary
      /\ At("prune") => Lasting \subseteq task.allows
      /\ \A k \in DOMAIN writes : WriterKeeps(writes[k], Lasting, now)
  BY <1>2 DEF SerialInv
<1>4. \A j \in DOMAIN writes' :
        \/ \E k \in DOMAIN writes \ {i} : writes'[j] = writes[k]
        \/ Len(w.values) # 1 /\ writes'[j] = [w EXCEPT !.values = Tail(@)]
  BY <1>0, WritersLeft
<1> HIDE DEF w
<1>5. Len(w.values) # 1 \/ w.key # "temporary" => granted' = granted /\ Lasting' = Lasting
  BY <1>2, <1>3 DEF WriterKeeps, Lasting
<1>6. granted' \subseteq Allows /\ Lasting' \subseteq temporary'
  <2>1. CASE w.key # "temporary"
    BY <1>2, <1>3, <1>5, <2>1
  <2>2. CASE w.key = "temporary" /\ Len(w.values) # 1
    BY <1>1, <1>2, <1>3, <1>5, <2>2 DEF WriterKeeps
  <2>3. CASE w.key = "temporary" /\ Len(w.values) = 1
    <3>1. Lasting' \subseteq (Lasting \ w.takes) \cup {a \in w.gives : a.expires > now}
      BY <1>2, <2>3 DEF Lasting
    <3>2. granted' \subseteq Allows
      BY <1>2, <1>3, <2>3 DEF WriterKeeps
    <3> QED BY <1>1, <1>2, <1>3, <2>3, <3>1, <3>2 DEF WriterKeeps
  <2> QED BY <2>1, <2>2, <2>3
<1>7. At("prune")' => Lasting' \subseteq task'.allows
  BY <1>2, <1>3, <1>5 DEF At, Overlapped
<1>8. ASSUME NEW j \in DOMAIN writes' PROVE WriterKeeps(writes'[j], Lasting', now')
  <2>1. ASSUME NEW k \in DOMAIN writes \ {i}, writes'[j] = writes[k]
        PROVE  WriterKeeps(writes'[j], Lasting', now')
    <3>1. CASE w.key = "temporary"
      BY <1>3, <2>1, <3>1 DEF Overlapped, WriterKeeps
    <3>2. CASE w.key # "temporary"
      BY <1>2, <1>3, <1>5, <2>1, <3>2 DEF WriterKeeps
    <3> QED BY <3>1, <3>2
  <2>2. ASSUME Len(w.values) # 1, writes'[j] = [w EXCEPT !.values = Tail(@)]
        PROVE  WriterKeeps(writes'[j], Lasting', now')
    <3>1. /\ writes'[j].key = w.key /\ writes'[j].values = Tail(w.values)
          /\ writes'[j].gives = w.gives /\ writes'[j].takes = w.takes
      BY <1>0, <2>2 DEF Write
    <3>2. /\ Len(Tail(w.values)) = Len(w.values) - 1
          /\ \A m \in DOMAIN Tail(w.values) :
               m + 1 \in DOMAIN w.values /\ Tail(w.values)[m] = w.values[m + 1]
          /\ Tail(w.values)[Len(Tail(w.values))] = w.values[Len(w.values)]
      <4> DEFINE q == w.values
      <4>1. q \in Seq(Lists) /\ q # <<>> /\ Len(q) # 1 /\ Len(q) \in Nat \ {0}
            /\ DOMAIN q = 1..Len(q)
        BY <1>1, <2>2
      <4> HIDE DEF q
      <4>2. /\ Tail(q) \in Seq(Lists) /\ Len(Tail(q)) = Len(q) - 1
            /\ DOMAIN Tail(q) = 1..(Len(q) - 1)
        BY <4>1
      <4>3. \A m \in DOMAIN Tail(q) : m + 1 \in DOMAIN q /\ Tail(q)[m] = q[m + 1]
        BY <4>1, TailOf
      <4>4. Len(q) - 1 \in DOMAIN Tail(q)
        BY <4>1, <4>2
      <4> QED BY <4>1, <4>2, <4>3, <4>4 DEF q
    <3>3. Lasting' = Lasting /\ now' = now
      BY <1>2, <1>5, <2>2
    <3>4. CASE w.key = "temporary"
      <4>1. /\ w.gives \subseteq Allows /\ w.takes = {}
            /\ \A m \in DOMAIN w.values : Lasting \ w.takes \subseteq w.values[m]
            /\ {a \in w.gives : a.expires > now} \subseteq w.values[Len(w.values)]
        BY <1>3, <2>2, <3>4 DEF WriterKeeps
      <4>2. \A m \in DOMAIN Tail(w.values) : Lasting \ w.takes \subseteq Tail(w.values)[m]
        BY <3>2, <4>1
      <4>3. {a \in w.gives : a.expires > now} \subseteq Tail(w.values)[Len(Tail(w.values))]
        BY <3>2, <4>1
      <4> QED BY <3>1, <3>3, <3>4, <4>1, <4>2, <4>3 DEF WriterKeeps
    <3>5. CASE w.key # "temporary"
      BY <1>3, <3>1, <3>5 DEF WriterKeeps
    <3> QED BY <3>4, <3>5
  <2> QED BY <1>4, <2>1, <2>2
<1> QED
  BY <1>6, <1>7, <1>8 DEF SerialInv

(* who touches the list, its writers, or what is observed of them *)
LEMMA SerialFrame ==
  ASSUME [Next]_vars
  PROVE  \/ UNCHANGED <<temporary, granted, raced, writes, now>>
         \/ Finishes \/ AllowlistPage \/ BlocklistPage \/ SchedulePage
         \/ Tick \/ Restart \/ PruneAllows
<1>1. WorkerStep => UNCHANGED <<temporary, granted, raced, writes, now>> \/ PruneAllows
  <2>1. RunReconcile \/ StartSession \/ StopSession \/ ExpireSession \/ EndTask
          => UNCHANGED <<temporary, granted, raced, writes, now>>
    BY DEF RunReconcile, StartSession, StopSession, ExpireSession, EndTask,
       lists, bounds, observed
  <2>2. WriteHistory \/ ResetActive \/ ResetChallenge \/ ClearAllRules \/ ReadState
          \/ SelectSchedule => UNCHANGED <<temporary, granted, raced, writes, now>>
    BY DEF WriteHistory, ResetActive, ResetChallenge, ClearAllRules, ReadState,
       SelectSchedule, lists, bounds, observed
  <2>3. MigrateStray \/ Supersede \/ WindowOver \/ LeaveWindow \/ ManualDue
          \/ ActivateScheduled \/ Enforce
          => UNCHANGED <<temporary, granted, raced, writes, now>>
    BY DEF MigrateStray, Supersede, WindowOver, LeaveWindow, ManualDue, EndsHere,
       ActivateScheduled, Enforce, lists, bounds, observed
  <2> QED BY <2>1, <2>2, <2>3 DEF WorkerStep
<1>2. StorageChanged \/ Alarm \/ Sleep \/ UNCHANGED vars
        => UNCHANGED <<temporary, granted, raced, writes, now>>
  BY DEF StorageChanged, Alarm, AlarmFires, Sleep, vars, lists, bounds, observed
<1>3. PopupStep => \/ UNCHANGED <<temporary, granted, raced, writes, now>>
                   \/ AllowlistPage \/ BlocklistPage \/ SchedulePage
  BY DEF PopupStep, SendStart, SendStop, GetStatus, SendToBackground, ClearHistory,
     lists, observed
<1> QED
  BY <1>1, <1>2, <1>3 DEF Next

(* while no two writers overlap, no action loses a granted allow           *)
LEMMA SerialStep == Types /\ SerialInv /\ [Next]_vars => SerialInv'
<1> SUFFICES ASSUME Types, SerialInv, [Next]_vars PROVE SerialInv'
  OBVIOUS
<1>0. /\ ListInv /\ temporary \subseteq Allows /\ now \in Nat
      /\ IsTask(task) /\ writes \in Seq(Write)
  BY DEF Types, ListInv, StoredOK, TaskReads, WritesOK
<1>1. CASE UNCHANGED <<temporary, granted, raced, writes, now>>
  <2>1. Lasting' = Lasting
    BY <1>1 DEF Lasting
  <2>2. ASSUME ~raced, At("prune")' PROVE Lasting \subseteq task'.allows
    <3>1. CASE task' = task
      BY <2>2, <3>1 DEF SerialInv, At
    <3>2. CASE ReadState
      <4>1. task'.allows = Unexpired(temporary, now)
        BY <1>0, <3>2 DEF ReadState, IsTask
      <4> QED BY <1>0, <2>2, <4>1 DEF SerialInv, Lasting, Unexpired
    <3> QED BY <2>2, <3>1, <3>2, OnlyReadsPrune
  <2>3. ~raced => \A i \in DOMAIN writes' : WriterKeeps(writes'[i], Lasting', now')
    BY <1>1, <2>1 DEF SerialInv
  <2> QED BY <1>1, <2>1, <2>2, <2>3 DEF SerialInv
<1>2. CASE Finishes
  BY <1>0, <1>2, FinishSerial DEF Finishes
<1>3. CASE AllowlistPage
  BY <1>0, <1>3, AllowlistSerial
<1>4. CASE BlocklistPage \/ SchedulePage
  BY <1>0, <1>4, OtherPagesSerial
<1>5. CASE Tick
  <2>1. /\ now' = now + 1
        /\ UNCHANGED <<temporary, granted, raced, writes, task>>
    BY <1>5 DEF Tick, lists, worker, observed
  <2> SUFFICES ASSUME ~raced PROVE SerialInv'
    BY <2>1 DEF SerialInv
  <2>2. /\ granted \subseteq Allows /\ Lasting \subseteq temporary
        /\ At("prune") => Lasting \subseteq task.allows
        /\ \A i \in DOMAIN writes : WriterKeeps(writes[i], Lasting, now)
    BY DEF SerialInv
  <2>3. \A a \in Allows : a.expires > now + 1 => a.expires > now
    BY <1>0 DEF Allows
  <2>4. Lasting' \subseteq Lasting
    BY <2>1, <2>2, <2>3 DEF Lasting
  <2>5. ASSUME NEW i \in DOMAIN writes PROVE WriterKeeps(writes[i], Lasting', now + 1)
    <3>1. WriterKeeps(writes[i], Lasting, now)
      BY <2>2
    <3> QED BY <2>3, <2>4, <3>1 DEF WriterKeeps
  <2> QED BY <2>1, <2>2, <2>4, <2>5 DEF SerialInv, At
<1>6. CASE Restart
  <2>1. /\ writes' = <<>> /\ task' = Idle
        /\ UNCHANGED <<temporary, granted, raced, now>>
    BY <1>6 DEF Restart, lists, observed
  <2>2. ~At("prune")'
    BY <2>1, IdleFields DEF At
  <2>3. DOMAIN writes' = {}
    BY <2>1
  <2> QED BY <2>1, <2>2, <2>3 DEF SerialInv, Lasting
<1>7. CASE PruneAllows
  <2>1. /\ At("prune") /\ temporary' = task.allows /\ task'.pc = "select"
        /\ raced' = (raced \/ \E i \in DOMAIN writes : writes[i].key = "temporary")
        /\ UNCHANGED <<granted, writes, now>>
    <3>1. task'.pc = "select"
      BY <1>0, <1>7 DEF PruneAllows, Goto, IsTask
    <3> QED BY <1>7, <3>1 DEF PruneAllows, bounds
  <2>2. Lasting' = Lasting
    BY <2>1 DEF Lasting
  <2>3. ASSUME ~raced', NEW i \in DOMAIN writes PROVE WriterKeeps(writes[i], Lasting, now)
    BY <2>1, <2>3 DEF SerialInv
  <2> QED BY <2>1, <2>2, <2>3 DEF SerialInv, At
<1> QED
  BY <1>1, <1>2, <1>3, <1>4, <1>5, <1>6, <1>7, SerialFrame

(* A temporary allow that was given stays until it expires or is removed,   *)
(* unless two writers of the list overlapped.                               *)
THEOREM SerialAllowsLast == Spec => []AllowsSurviveSerialUse
<1>1. Init => SerialInv
  BY IdleFields DEF Init, SerialInv, Lasting, At
<1>2. SerialInv => AllowsSurviveSerialUse
  BY DEF SerialInv, AllowsSurviveSerialUse, Lasting
<1> QED
  BY <1>1, <1>2, TypesInit, TypesStep, SerialStep, PTL DEF Spec

-----------------------------------------------------------------------------
(* Sessions are archived once.                                              *)

Repeats(q) == Len(q) - Cardinality(IdsOf(q))

(* A list repeats at most as many sessions as the browser was closed; fewer *)
(* when it has the active session, which will be archived again.            *)
Once(q, own) ==
  /\ \A id \in IdsOf(q) : id < nextSession
  /\ Repeats(q) <= restarts
  /\ own /\ active # None /\ active.id \in IdsOf(q) => Repeats(q) < restarts
OnceInv ==
  /\ restarts \in Nat /\ (active # None => active.id < nextSession)
  /\ Once(history, ~At("reset"))
  /\ At("archive") => Once(task.seen, TRUE)

(* sessions are numbered *)
LEMMA IdsAreNat ==
  ASSUME NEW q \in Seq(Entry), NEW id \in IdsOf(q) PROVE id \in Nat
<1>1. PICK i \in DOMAIN q : id = q[i].id
  BY DEF IdsOf
<1>2. DOMAIN q = 1..Len(q)
  OBVIOUS
<1>3. q[i] \in Entry
  BY <1>2, ElementOfSeq
<1> QED
  BY <1>1, <1>3 DEF Entry

(* finitely many of them are in a list *)
LEMMA IdsAreFinite ==
  ASSUME NEW q \in Seq(Entry), NEW n \in Nat, \A id \in IdsOf(q) : id < n
  PROVE  IsFiniteSet(IdsOf(q)) /\ Cardinality(IdsOf(q)) \in Nat
<1>1. IdsOf(q) \subseteq 0..n
  BY IdsAreNat
<1>2. IsFiniteSet(0..n)
  BY FS_Interval
<1> QED
  BY <1>1, <1>2, FS_Subset, FS_CardinalityType

(* how a session more changes what is repeated *)
LEMMA RepeatsOfLonger ==
  ASSUME NEW entry \in Entry, NEW q \in Seq(Entry), NEW n \in Nat,
         \A id \in IdsOf(q) : id < n
  PROVE  /\ Repeats(q) \in Int
         /\ Repeats(<<entry>> \o q) = IF entry.id \in IdsOf(q) THEN Repeats(q) + 1
                                      ELSE Repeats(q)
<1>2. IsFiniteSet(IdsOf(q))
  BY IdsAreFinite
<1>3. /\ Cardinality(IdsOf(q)) \in Nat
      /\ Cardinality(IdsOf(q) \cup {entry.id})
           = IF entry.id \in IdsOf(q) THEN Cardinality(IdsOf(q))
             ELSE Cardinality(IdsOf(q)) + 1
  BY <1>2, FS_AddElement, FS_CardinalityType
<1>4. IdsOf(<<entry>> \o q) = IdsOf(q) \cup {entry.id}
  BY IdsOfLonger
<1>5. Len(<<entry>> \o q) = Len(q) + 1 /\ Len(q) \in Nat
  <2>1. <<entry>> \in Seq(Entry) /\ Len(<<entry>>) = 1
    OBVIOUS
  <2> QED BY <2>1, ConcatProperties
<1>6. PICK long : long = <<entry>> \o q
  OBVIOUS
<1>7. Len(long) = Len(q) + 1 /\ IdsOf(long) = IdsOf(q) \cup {entry.id}
  BY <1>4, <1>5, <1>6
<1>8. /\ Repeats(long) = Len(long) - Cardinality(IdsOf(long))
      /\ Repeats(q) = Len(q) - Cardinality(IdsOf(q))
  BY Zenon DEF Repeats
<1>9. Repeats(long) = IF entry.id \in IdsOf(q) THEN Repeats(q) + 1 ELSE Repeats(q)
  BY <1>3, <1>5, <1>7, <1>8
<1> QED
  BY <1>3, <1>5, <1>6, <1>8, <1>9

(* only Restart closes the browser *)
LEMMA RestartsFrame == [Next]_vars /\ ~Restart => restarts' = restarts
<1>1. WorkerStep => restarts' = restarts
  <2>1. RunReconcile \/ StartSession \/ StopSession \/ ExpireSession \/ EndTask
          => restarts' = restarts
    BY DEF RunReconcile, StartSession, StopSession, ExpireSession, EndTask, bounds
  <2>2. WriteHistory \/ ResetActive \/ ResetChallenge \/ ClearAllRules \/ ReadState
          \/ SelectSchedule \/ PruneAllows => restarts' = restarts
    BY DEF WriteHistory, ResetActive, ResetChallenge, ClearAllRules, ReadState,
       SelectSchedule, PruneAllows, bounds
  <2>3. MigrateStray \/ Supersede \/ WindowOver \/ LeaveWindow \/ ManualDue
          \/ ActivateScheduled \/ Enforce => restarts' = restarts
    BY DEF MigrateStray, Supersede, WindowOver, LeaveWindow, ManualDue, EndsHere,
       ActivateScheduled, Enforce, bounds
  <2> QED BY <2>1, <2>2, <2>3 DEF WorkerStep
<1>2. StorageChanged \/ Alarm \/ Sleep \/ Tick \/ Finishes \/ UNCHANGED vars
        => restarts' = restarts
  BY DEF StorageChanged, Alarm, AlarmFires, Sleep, Tick, Finishes, WriteStep, vars,
     bounds
<1>3. BlocklistPage \/ AllowlistPage \/ SchedulePage => restarts' = restarts
  BY DEF BlocklistPage, AllowlistPage, SchedulePage, AddBlocklist, RemoveBlocklist,
     AddWhitelist, RemoveWhitelist, EditList, ListTemporaryAllows, AddTemporaryAllow,
     RemoveTemporaryAllow, CreateSchedule, UpdateSchedule, DeleteSchedule,
     WriteSchedules, Edit
<1>4. PopupStep => restarts' = restarts
  BY <1>3 DEF PopupStep, SendStart, SendStop, GetStatus, SendToBackground, ClearHistory
<1> QED
  BY <1>1, <1>2, <1>4 DEF Next

(* a session's own steps apart, a task goes on to archive from a task that is *)
(* not about to reset, and only a restart prevents a reset *)
LEMMA TaskMoves ==
  ASSUME Types, [Next]_vars, ~SessionWrites
  PROVE  \/ task' = task
         \/ ~At("reset") /\ \E kind, outcome, then : Finalize(kind, outcome, then)
         \/ /\ task'.pc \notin {"archive", "reset", "activate"}
            /\ ~At("reset") \/ Restart
<1>0. IsTask(task)
  BY DEF Types, ListInv, TaskReads
<1>. USE DEF At
<1>2. CASE MigrateStray \/ Supersede \/ WindowOver \/ LeaveWindow \/ ManualDue
  BY <1>2 DEF MigrateStray, Supersede, WindowOver, LeaveWindow, ManualDue, EndsHere
<1>3. CASE ExpireSession
  BY <1>3 DEF ExpireSession, Take
<1>4. CASE RunReconcile \/ EndTask \/ Restart
  <2>1. task' \in {Idle, NextPass, [task EXCEPT !.pc = "pass", !.kind = "reconcile"]}
    BY <1>4 DEF RunReconcile, EndTask, Restart, NextPass
  <2>2. [task EXCEPT !.pc = "pass", !.kind = "reconcile"].pc = "pass"
    BY <1>0 DEF IsTask
  <2>3. task'.pc \in {"idle", "pass"}
    BY <2>1, <2>2, IdleFields
  <2> QED BY <1>4, <2>3 DEF RunReconcile, EndTask, Take
<1>5. CASE ResetChallenge \/ PruneAllows \/ ClearAllRules \/ Enforce
  <2>1. \E pc \in {"pass", "select", "decide", "end"} : Goto(pc)
    BY <1>5 DEF ResetChallenge, PruneAllows, ClearAllRules, Enforce, RejectRules
  <2>2. task'.pc \in {"pass", "select", "decide", "end"}
    BY <1>0, <2>1 DEF Goto, IsTask
  <2> QED BY <1>5, <2>2 DEF ResetChallenge, PruneAllows, ClearAllRules, Enforce
<1>6. CASE ReadState
  <2>1. task'.pc \in {"select", "prune"}
    BY <1>0, <1>6 DEF ReadState, IsTask
  <2> QED BY <1>6, <2>1 DEF ReadState
<1>7. StorageChanged \/ Alarm \/ Tick \/ Sleep \/ Finishes \/ PopupStep
        \/ UNCHANGED vars => task' = task \/ ClearHistory
  BY PagesFrame DEF StorageChanged, Alarm, AlarmFires, Tick, Sleep, Finishes,
     WriteStep, PopupStep, SendStart, SendStop, GetStatus, SendToBackground,
     vars, worker
<1> QED
  BY <1>2, <1>3, <1>4, <1>5, <1>6, <1>7 DEF Next, WorkerStep, SessionWrites

(* the history repeats a session at most once for every time the browser   *)
(* closed                                                                  *)
LEMMA OnceStep ==
  ASSUME Types, Kept, OnceInv, [Next]_vars PROVE OnceInv'
<1>0. /\ IsTask(task) /\ TaskOK /\ None \notin Sessions
      /\ history \in Seq(Entry) /\ nextSession \in Nat /\ restarts \in Nat
      /\ active \in Sessions \cup {None}
  BY ServiceWorkerAssumption DEF Types, ListInv, TaskReads, SessionOK, OnceInv
<1>00. Repeats(history) \in Int /\ (At("archive") => Repeats(task.seen) \in Int)
  <2>1. ASSUME NEW q \in Seq(Entry), \A id \in IdsOf(q) : id < nextSession
        PROVE  Repeats(q) \in Int
    <3>1. \E entry : entry \in Entry
      <4>1. [id |-> 0, sched |-> None, outcome |-> "stopped"] \in Entry
        BY DEF Entry, Times, Outcomes
      <4> QED BY <4>1
    <3> QED BY <1>0, <2>1, <3>1, RepeatsOfLonger
  <2> QED BY <1>0, <2>1 DEF OnceInv, Once, TaskOK
<1>. USE DEF At
<1>1. CASE UNCHANGED <<active, history, nextSession, restarts>>
           /\ \/ task' = task
              \/ /\ task'.pc \notin {"archive", "reset", "activate"}
                 /\ task.pc # "reset"
  BY <1>1 DEF OnceInv, Once
<1>2. ASSUME UNCHANGED <<active, history, nextSession, restarts>>, task.pc # "reset",
             NEW kind, NEW outcome, NEW then, Finalize(kind, outcome, then)
      PROVE  OnceInv'
  <2>1. task'.pc = "archive" /\ task'.seen = history
    BY <1>0, <1>2 DEF Finalize, IsTask
  <2> QED BY <1>2, <2>1 DEF OnceInv, Once
<1>3. ASSUME active = None, active' # None, active'.id = nextSession,
             nextSession' = nextSession + 1, UNCHANGED <<history, restarts>>,
             task'.pc \in {"pass", "enforce"}, task.pc # "reset"
      PROVE  OnceInv'
  <2>1. \A id \in IdsOf(history) : id \in Nat
    BY <1>0, IdsAreNat
  <2>2. /\ \A id \in IdsOf(history) : id < nextSession
        /\ Repeats(history) <= restarts
    BY DEF OnceInv, Once
  <2>3. nextSession \notin IdsOf(history)
    BY <1>0, <2>2
  <2> QED BY <1>0, <1>3, <2>1, <2>2, <2>3 DEF OnceInv, Once
<1>4. CASE Restart
  <2>1. /\ task'.pc = "idle" /\ restarts' = restarts + 1
        /\ UNCHANGED <<active, history, nextSession>>
    BY <1>4, IdleFields DEF Restart, session
  <2>2. Repeats(history) <= restarts => Repeats(history) < restarts + 1
    BY <1>0, <1>00
  <2>3. restarts + 1 \in Nat /\ \A k \in Int : k < restarts + 1 => k <= restarts + 1
    BY <1>0
  <2> QED BY <1>00, <2>1, <2>2, <2>3 DEF OnceInv, Once
<1>5. CASE StartSession
  <2>1. CASE active # None
    BY <1>1, <1>5, <2>1, RestartsFrame DEF StartSession, session, Take
  <2>2. CASE active = None
    <3>1. task'.pc = "pass" /\ task.pc = "idle"
      BY <1>0, <1>5, <2>2 DEF StartSession, IsTask, Take
    <3>2. active' # None /\ active'.id = nextSession
      BY <1>0, <1>5, <2>2, StartedOK DEF StartSession, ActiveSession
    <3>3. nextSession' = nextSession + 1 /\ UNCHANGED <<history, restarts>>
      BY <1>5, <2>2 DEF StartSession
    <3> QED BY <1>3, <2>2, <3>1, <3>2, <3>3
  <2> QED BY <2>1, <2>2
<1>6. CASE StopSession
  <2>1. UNCHANGED <<active, history, nextSession, restarts>> /\ task.pc # "reset"
    BY <1>6 DEF StopSession, bounds, Take
  <2>2. task' = task \/ Finalize("stop", "stopped", "unchallenge")
    BY <1>6 DEF StopSession
  <2> QED BY <1>1, <1>2, <2>1, <2>2
<1>7. CASE WriteHistory
  <2>1. task.pc = "archive" /\ UNCHANGED <<active, nextSession, restarts>>
    BY <1>7 DEF WriteHistory, bounds
  <2>2. task'.pc = "reset"
    BY <1>0, <1>7 DEF WriteHistory, Goto, IsTask
  <2>3. PICK entry \in Entry : entry.id = active.id /\ history' = <<entry>> \o task.seen
    BY <1>7, ArchivedEntry
  <2>4. task.seen \in Seq(Entry) /\ Once(task.seen, TRUE) /\ active # None
        /\ active.id < nextSession
    BY <1>0, <2>1 DEF TaskOK, OnceInv
  <2>5. IdsOf(history') = {active.id} \cup IdsOf(task.seen)
    BY <2>3, <2>4, IdsOfLonger
  <2>6. Repeats(history') = IF active.id \in IdsOf(task.seen) THEN Repeats(task.seen) + 1
                            ELSE Repeats(task.seen)
    BY <1>0, <2>3, <2>4, RepeatsOfLonger DEF Once
  <2>7. Repeats(history') <= restarts
    BY <1>0, <1>00, <2>1, <2>4, <2>6 DEF Once
  <2>8. \A id \in IdsOf(history') : id < nextSession
    BY <2>4, <2>5 DEF Once
  <2> QED BY <1>0, <2>1, <2>2, <2>4, <2>7, <2>8 DEF OnceInv, Once
<1>8. CASE ResetActive
  <2>1. /\ task.pc = "reset" /\ active' = None
        /\ UNCHANGED <<history, nextSession, restarts>>
    BY <1>8 DEF ResetActive, bounds
  <2>2. task'.pc \notin {"archive", "reset"}
    BY <1>0, <1>8 DEF ResetActive, IsTask
  <2> QED BY <1>0, <2>1, <2>2 DEF OnceInv, Once
<1>9. CASE SelectSchedule
  <2>1. task'.pc = "decide" /\ task.pc = "select"
    BY <1>0, <1>9 DEF SelectSchedule, IsTask
  <2> QED BY <1>1, <1>9, <2>1 DEF SelectSchedule, bounds
<1>10. CASE ActivateScheduled
  <2>1. task'.pc = "enforce" /\ task.pc # "reset"
    BY <1>0, <1>10 DEF ActivateScheduled, Goto, IsTask
  <2>2. active' # None /\ active'.id = nextSession
    BY <1>0, <1>10, ActivatedOK DEF ActivateScheduled, ActiveSession
  <2>3. active = None
    BY <1>10 DEF ActivateScheduled, Kept
  <2>4. nextSession' = nextSession + 1 /\ UNCHANGED <<history, restarts>>
    BY <1>10 DEF ActivateScheduled
  <2> QED BY <1>3, <2>1, <2>2, <2>3, <2>4
<1>11. CASE ClearHistory
  <2>1. /\ history' = <<>> /\ UNCHANGED <<active, task, nextSession, restarts>>
    BY <1>11 DEF ClearHistory, worker
  <2>2. IdsOf(<<>>) = {} /\ Repeats(<<>>) = 0
    BY FS_EmptySet DEF IdsOf, Repeats
  <2> QED BY <1>0, <2>1, <2>2 DEF OnceInv, Once
<1>12. CASE ~SessionWrites /\ ~Restart
  <2>1. UNCHANGED <<active, history, nextSession, restarts>>
    BY <1>12, SessionFrame, RestartsFrame
  <2>2. CASE task.pc # "reset" /\ \E kind, outcome, then : Finalize(kind, outcome, then)
    BY <1>2, <2>1, <2>2
  <2>3. CASE \/ task' = task
             \/ /\ task'.pc \notin {"archive", "reset", "activate"}
                /\ task.pc # "reset"
    BY <1>1, <2>1, <2>3
  <2>4. \/ task' = task
        \/ task.pc # "reset" /\ \E kind, outcome, then : Finalize(kind, outcome, then)
        \/ /\ task'.pc \notin {"archive", "reset", "activate"}
           /\ task.pc # "reset" \/ Restart
    BY <1>12, TaskMoves
  <2> QED BY <1>12, <2>2, <2>3, <2>4
<1> QED
  BY <1>4, <1>5, <1>6, <1>7, <1>8, <1>9, <1>10, <1>11, <1>12 DEF SessionWrites

(* A session is archived twice only if the browser closed between the two   *)
(* writes that end it: the history repeats no more than the browser closed. *)
THEOREM RepeatsNeedRestarts == Spec => []ArchivedOnce
<1>1. Init => OnceInv
  <2> SUFFICES ASSUME Init PROVE OnceInv
    OBVIOUS
  <2>1. PICK s \in Stored :
          active = s.active /\ nextSession = IF s.active = None THEN 1 ELSE 2
    BY DEF Init
  <2>2. restarts = 0 /\ history = <<>> /\ ~At("archive")
    BY IdleFields DEF Init, At
  <2>3. IdsOf(<<>>) = {} /\ Repeats(<<>>) = 0
    BY FS_EmptySet DEF IdsOf, Repeats
  <2>4. active # None => active.id < nextSession
    BY <2>1, ServiceWorkerAssumption
  <2> QED BY <2>2, <2>3, <2>4 DEF OnceInv, Once
<1>2. Types /\ OnceInv => ArchivedOnce
  <2> SUFFICES ASSUME Types, OnceInv PROVE ArchivedOnce
    OBVIOUS
  <2>1. history \in Seq(Entry) /\ nextSession \in Nat /\ restarts \in Nat
        /\ \A id \in IdsOf(history) : id < nextSession
    BY DEF Types, SessionOK, OnceInv, Once
  <2>2. Archived = IdsOf(history) /\ Repeats(history) <= restarts
    BY DEF Archived, IdsOf, OnceInv, Once
  <2>3. Cardinality(IdsOf(history)) \in Nat
    BY <2>1, IdsAreFinite
  <2>4. Len(history) \in Nat
    BY <2>1
  <2> QED BY <2>1, <2>2, <2>3, <2>4 DEF ArchivedOnce, Repeats
<1> QED
  BY <1>1, <1>2, TypesInit, TypesStep, KeptInit, KeptStep, OnceStep, PTL DEF Spec

-----------------------------------------------------------------------------
(* Schedules: what the alarm for the next boundary foresees.                *)

(* until the time b, or a time of m, the schedules that run from t on are   *)
(* the ones of t                                                            *)
Foresees(list, b, m, t) ==
  \A s \in list, u \in Nat :
    t <= u /\ (b = None \/ u < b) /\ ~(\E x \in m : x <= u)
      => (Running(s, u) <=> Running(s, t))

(* the alarm for the next boundary, with the boundaries too close for one,  *)
(* foresees the whole list                                                  *)
LEMMA AlarmForesees ==
  ASSUME NEW list \in SUBSET Schedules, NEW t \in Nat, NEW m,
         BoundariesAhead(list, t) \ Boundaries(list, t) \subseteq m
  PROVE  Foresees(list, Earliest(Boundaries(list, t)), m, t)
<1> DEFINE first == Earliest(Boundaries(list, t))
<1>1. Boundaries(list, t) \in SUBSET Nat /\ BoundariesAhead(list, t) \in SUBSET Nat
  BY BoundariesOK
<1>2. Boundaries(list, t) # {} => first # None
  BY <1>1, EarliestIsFirst, ServiceWorkerAssumption
<1>3. ASSUME NEW s \in list, NEW u \in Nat, t <= u, first = None \/ u < first,
             ~(\E x \in m : x <= u)
      PROVE  Running(s, u) <=> Running(s, t)
  <2>1. ASSUME NEW b \in Boundaries(list, t) PROVE u < b
    <3>1. first \in Nat /\ first <= b /\ b \in Nat
      BY <1>1, EarliestIsFirst
    <3>2. u < first
      BY <1>2, <1>3
    <3> HIDE DEF first
    <3> QED BY <3>1, <3>2
  <2>2. ASSUME NEW b \in BoundariesAhead(list, t), b \notin Boundaries(list, t)
        PROVE  u < b
    <3>1. b \in Nat /\ ~(b <= u)
      BY <1>1, <1>3, <2>2
    <3> QED BY <3>1
  <2> QED BY <1>3, <2>1, <2>2, BoundariesForesee
<1> QED
  BY <1>3 DEF Foresees

(* what was foreseen stays foreseen until one of these times has come       *)
LEMMA ForeseenLater ==
  ASSUME NEW list, NEW b \in AlarmTimes, NEW m, NEW t \in Nat,
         Foresees(list, b, m, t), b = None \/ t + 1 < b,
         ~(\E x \in m : x <= t + 1)
  PROVE  /\ Foresees(list, b, m, t + 1)
         /\ \A s \in list : Running(s, t + 1) <=> Running(s, t)
<1>1. t + 1 \in Nat /\ t <= t + 1
  OBVIOUS
<1>2. \A s \in list : Running(s, t + 1) <=> Running(s, t)
  BY <1>1 DEF Foresees
<1>3. \A u \in Nat : t + 1 <= u => t <= u
  OBVIOUS
<1> QED
  BY <1>2, <1>3 DEF Foresees

DueAlarm == alarms.boundary # None /\ alarms.boundary <= now
Foreseen == Foresees(schedules, alarms.boundary, unmarked, now)
Passed   == DueAlarm \/ Missed

(* an alarm comes no later than the end of the suppression, or none does    *)
Watched ==
  Quiet => suppressed \in unmarked
             \/ (alarms.boundary # None /\ alarms.boundary <= suppressed)

(* the schedule a pass has selected runs, and none runs if it selected none *)
Picked ==
  Quiet \/ IF task.cur = None THEN \A s \in schedules : ~Running(s, now)
           ELSE task.cur \in schedules /\ Running(task.cur, now)

(* unless suppressed now, the running schedule has its session, and no      *)
(* other schedule has one                                                   *)
Right == Quiet \/ SessionIsRight

(* A pass applies the schedules it has read, unless a change is announced   *)
(* meanwhile, or the time of the alarm or one without an alarm comes.       *)
WindowInv ==
  /\ unmarked \subseteq Nat
  /\ At("prune") \/ At("select") =>
       changed \/ (task.schedules = schedules /\ Foreseen /\ Watched)
  /\ At("decide") => changed \/ Passed \/ (Foreseen /\ Watched /\ Picked)
  /\ At("activate") \/ At("enforce") \/ At("clear") => changed
  /\ Between => changed \/ reconcile \/ Passed \/ (Foreseen /\ Watched /\ Right)

(* what the last pass left without an alarm changes only with the next      *)
LEMMA UnmarkedFrame ==
  /\ [Next]_vars /\ ~ReadState => UNCHANGED unmarked
  /\ Sleep \/ PopupStep \/ UNCHANGED vars => UNCHANGED unmarked
<1>1. WorkerStep /\ ~ReadState => UNCHANGED unmarked
  BY DEF WorkerStep, RunReconcile, StartSession, StopSession, ExpireSession,
         EndTask, WriteHistory, ResetActive, ResetChallenge, ClearAllRules,
         PruneAllows, SelectSchedule, MigrateStray, Supersede, WindowOver,
         LeaveWindow, ManualDue, EndsHere, ActivateScheduled, Enforce, observed
<1>2. StorageChanged \/ Alarm \/ Tick \/ Sleep \/ Restart \/ Finishes
        \/ UNCHANGED vars => UNCHANGED unmarked
  BY DEF StorageChanged, Alarm, AlarmFires, Tick, Sleep, Restart, Finishes,
         WriteStep, vars, observed
<1>3. PopupStep => UNCHANGED unmarked
  BY DEF PopupStep, SendStart, SendStop, GetStatus, SendToBackground,
         ClearHistory, BlocklistPage, AllowlistPage, SchedulePage, AddBlocklist,
         RemoveBlocklist, AddWhitelist, RemoveWhitelist, EditList,
         ListTemporaryAllows, AddTemporaryAllow, RemoveTemporaryAllow,
         CreateSchedule, UpdateSchedule, DeleteSchedule, WriteSchedules, Edit,
         observed
<1> QED
  BY <1>1, <1>2, <1>3 DEF Next

(* a pass that reads the state notes what its alarms leave out              *)
LEMMA ReadForesees ==
  ASSUME Types, ReadState
  PROVE  unmarked' \subseteq Nat /\ Foreseen' /\ Watched'
<1> DEFINE ahead == BoundariesAhead(schedules, now)
           set   == Boundaries(schedules, now)
<1>1. /\ now \in Nat /\ schedules \in SUBSET Schedules /\ suppressed \in Times
      /\ alarms \in [{"expiry", "boundary", "allow"} -> AlarmTimes]
      /\ PerSec \in Nat
  BY WeekSchedulesAssumption
  DEF Types, ListInv, StoredOK, ListOK, SessionOK, AlarmsOK
<1>2. /\ unmarked' = {b \in ahead : 2 * (b - now) <= PerSec}
                       \cup {u \in {suppressed} \ ahead : u # None /\ u > now}
      /\ alarms'.boundary = Earliest(set)
      /\ UNCHANGED <<schedules, now, suppressed>>
  BY <1>1 DEF ReadState, Unmarked, BoundaryAlarm, lists, session, bounds
<1>3. set \subseteq ahead /\ ahead \in SUBSET Nat /\ set \in SUBSET Nat
  BY <1>1, BoundariesOK
<1>4. \A b \in ahead : b \in set \/ 2 * (b - now) <= PerSec
  <2> SUFFICES ASSUME NEW b \in ahead, b \notin set PROVE 2 * (b - now) <= PerSec
    OBVIOUS
  <2>1. ~(2 * (b - now) > PerSec)
    BY DEF Boundaries
  <2> HIDE DEF ahead, set
  <2>2. 2 * (b - now) \in Int
    BY <1>1, <1>3
  <2> QED BY <1>1, <2>1, <2>2
<1>5. ahead \ set \subseteq unmarked'
  <2> HIDE DEF ahead, set
  <2> QED BY <1>2, <1>4
<1>6. Foresees(schedules, Earliest(set), unmarked', now)
  BY <1>1, <1>5, AlarmForesees
<1>7. Foreseen'
  <2> HIDE DEF ahead, set
  <2> QED BY <1>2, <1>6 DEF Foreseen
<1> HIDE DEF ahead, set
<1>8. unmarked' \subseteq Nat
  BY <1>1, <1>2, <1>3 DEF Times
<1>9. ASSUME Quiet PROVE suppressed \in unmarked'
                           \/ (Earliest(set) # None /\ Earliest(set) <= suppressed)
  <2>1. suppressed # None /\ suppressed > now
    BY <1>9 DEF Quiet
  <2>2. CASE suppressed \notin ahead
    BY <1>2, <2>1, <2>2
  <2>3. CASE suppressed \in set
    <3>1. Earliest(set) \in Nat /\ Earliest(set) <= suppressed
      BY <1>3, <2>3, EarliestIsFirst
    <3> QED BY <3>1, ServiceWorkerAssumption
  <2>4. CASE suppressed \in ahead /\ suppressed \notin set
    BY <1>5, <2>4
  <2> QED BY <2>2, <2>3, <2>4
<1>10. Watched'
  BY <1>2, <1>9 DEF Watched, Quiet
<1> QED
  BY <1>7, <1>8, <1>10

(* one step per action *)
LEMMA WindowStep ==
  ASSUME Types, WindowInv, [Next]_vars PROVE WindowInv'
<1>0. /\ IsTask(task) /\ TaskOK /\ WindowInv
      /\ alarms \in [{"expiry", "boundary", "allow"} -> AlarmTimes]
      /\ now \in Nat /\ schedules \in SUBSET Schedules /\ suppressed \in Times
      /\ unmarked' \subseteq Nat /\ (~ReadState => UNCHANGED unmarked)
  <2>1. unmarked' \subseteq Nat
    BY ReadForesees, UnmarkedFrame DEF WindowInv
  <2> QED BY <2>1, UnmarkedFrame
          DEF Types, ListInv, TaskReads, StoredOK, ListOK, AlarmsOK, SessionOK
<1>1. ASSUME UNCHANGED <<task, active, suppressed, reconcile, alarms, now, unmarked>>,
             changed' \/ UNCHANGED <<changed, schedules>>
      PROVE  WindowInv'
  <2>1. CASE changed'
    BY <1>0, <1>1, <2>1 DEF WindowInv, At
  <2>2. CASE UNCHANGED <<changed, schedules>>
    BY <1>0, <1>1, <2>2
    DEF WindowInv, At, Between, Foreseen, Watched, Passed, Missed, DueAlarm, Quiet,
        Picked, Right, SessionIsRight
  <2> QED BY <1>1, <2>1, <2>2
<1>2. CASE Sleep \/ PopupStep \/ UNCHANGED vars
  <2>1. UNCHANGED <<task, active, suppressed, reconcile, alarms, changed, schedules>>
        /\ UNCHANGED now
    BY <1>2, PagesFrame
    DEF Sleep, PopupStep, SendStart, SendStop, GetStatus, SendToBackground,
        ClearHistory, BlocklistPage, AllowlistPage, SchedulePage, AddBlocklist,
        RemoveBlocklist, AddWhitelist, RemoveWhitelist, EditList,
        ListTemporaryAllows, AddTemporaryAllow, RemoveTemporaryAllow,
        CreateSchedule, UpdateSchedule, DeleteSchedule, WriteSchedules, Edit,
        vars, lists, session, browser, worker, bounds
  <2>2. UNCHANGED unmarked
    BY <1>2, UnmarkedFrame
  <2> QED BY <1>1, <2>1, <2>2
<1>3. CASE Finishes
  <2> PICK i \in DOMAIN writes : WriteStep(i)
    BY <1>3 DEF Finishes
  <2>1. UNCHANGED <<task, active, suppressed, reconcile, alarms, now, unmarked>>
        /\ changed' = (changed \/ lists' # lists)
    BY DEF WriteStep, session, browser, worker, bounds
  <2>2. CASE lists' # lists
    BY <1>1, <2>1, <2>2
  <2>3. CASE lists' = lists
    <3>1. schedules' = schedules /\ changed' = changed
      BY <2>1, <2>3 DEF lists, Types, FlagsOK
    <3> QED BY <1>1, <2>1, <3>1
  <2> QED BY <2>2, <2>3
<1>4. CASE StorageChanged \/ Alarm
  <2>1. Between /\ reconcile' /\ UNCHANGED task
    BY <1>4 DEF StorageChanged, Alarm, AlarmFires, RequestReconcile
  <2> QED BY <1>0, <2>1 DEF Between, At, WindowInv
<1>5. CASE Restart
  <2>1. task'.pc = "idle" /\ reconcile'
    BY <1>5, IdleFields DEF Restart
  <2> QED BY <1>0, <2>1 DEF At, WindowInv
<1>6. CASE Tick
  <2>1. /\ now' = now + 1
        /\ At("idle") \/ At("decide")
        /\ UNCHANGED <<task, active, suppressed, reconcile, alarms, changed, schedules>>
        /\ UNCHANGED unmarked
    BY <1>6 DEF Tick, lists, session, browser, worker, observed
  <2>2. alarms.boundary \in AlarmTimes /\ unmarked \subseteq Nat
    BY <1>0 DEF WindowInv
  <2>3. CASE Passed'
    BY <1>0, <2>1, <2>3 DEF At, WindowInv
  <2>4. CASE ~Passed'
    <3>1. /\ ~Passed /\ (alarms.boundary = None \/ now + 1 < alarms.boundary)
          /\ ~(\E x \in unmarked : x <= now + 1)
      <4>1. ~DueAlarm' /\ ~Missed'
        BY <2>4 DEF Passed
      <4>2. ~DueAlarm /\ (alarms.boundary = None \/ now + 1 < alarms.boundary)
        BY <1>0, <2>1, <2>2, <4>1 DEF DueAlarm, AlarmTimes
      <4>3. ~(\E x \in unmarked : x <= now + 1)
        BY <2>1, <4>1 DEF Missed
      <4>4. ~Missed
        BY <1>0, <2>2, <4>3 DEF Missed
      <4> QED BY <4>2, <4>3, <4>4 DEF Passed
    <3>2. Foreseen => /\ Foreseen'
                      /\ \A s \in schedules : Running(s, now') <=> Running(s, now)
      BY <1>0, <2>1, <2>2, <3>1, ForeseenLater DEF Foreseen
    <3>3. Watched => (Quiet' <=> Quiet)
      <4>1. ASSUME Watched, Quiet PROVE suppressed > now + 1
        <5>1. suppressed \in Nat
          BY <1>0, <4>1 DEF Quiet, Times
        <5>2. ~(suppressed <= now + 1)
          BY <1>0, <2>2, <3>1, <4>1, <5>1 DEF Watched, AlarmTimes
        <5> QED BY <1>0, <5>1, <5>2
      <4>2. ~Quiet => ~Quiet'
        BY <1>0, <2>1 DEF Quiet, Times
      <4> QED BY <1>0, <2>1, <4>1, <4>2 DEF Quiet
    <3>4. Watched => Watched'
      BY <2>1, <3>3 DEF Watched
    <3>5. Foreseen /\ Watched /\ Right => Right'
      BY <2>1, <3>2, <3>3 DEF Right, SessionIsRight
    <3>6. Foreseen /\ Watched /\ Picked => Picked'
      BY <2>1, <3>2, <3>3 DEF Picked
    <3> QED BY <1>0, <2>1, <3>1, <3>2, <3>4, <3>5, <3>6 DEF At, Between, WindowInv
  <2> QED BY <2>3, <2>4
<1>7. ASSUME task'.pc \in {"pass", "archive", "reset", "unchallenge"} PROVE WindowInv'
  BY <1>0, <1>7 DEF At, WindowInv, Between
<1>8. ASSUME task'.pc = "idle" \/ task'.pc = "end",
             changed' \/ reconcile' \/ Passed' \/ (Foreseen' /\ Watched' /\ Right')
      PROVE  WindowInv'
  BY <1>0, <1>8 DEF At, WindowInv
<1>9. ASSUME changed', task'.pc # "idle" PROVE WindowInv'
  BY <1>0, <1>9 DEF WindowInv
<1>10. ASSUME NEW kind, NEW outcome, NEW then, Finalize(kind, outcome, then)
       PROVE  WindowInv'
  <2>1. task'.pc = "archive"
    BY <1>0, <1>10 DEF Finalize, IsTask
  <2> QED BY <1>7, <2>1
<1>11. ASSUME Between, task'.pc = "idle", ~reconcile \/ reconcile',
              UNCHANGED <<active, suppressed, alarms, changed, schedules, now,
                          unmarked>>
       PROVE  WindowInv'
  <2>1. changed \/ reconcile \/ Passed \/ (Foreseen /\ Watched /\ Right)
    BY <1>11 DEF WindowInv
  <2>2. changed' \/ reconcile' \/ Passed' \/ (Foreseen' /\ Watched' /\ Right')
    BY <1>11, <2>1
    DEF Passed, DueAlarm, Missed, Foreseen, Watched, Quiet, Right, SessionIsRight
  <2> QED BY <1>8, <1>11, <2>2
<1>12. CASE RunReconcile
  <2>1. CASE reconcile
    <3>1. task'.pc = "pass"
      BY <1>0, <1>12, <2>1 DEF RunReconcile, IsTask
    <3> QED BY <1>7, <3>1
  <2>2. CASE ~reconcile
    <3>1. /\ task'.pc = "idle" /\ Between
          /\ UNCHANGED <<active, suppressed, alarms, changed, schedules, now,
                       unmarked>>
      BY <1>12, <2>2, IdleFields
      DEF RunReconcile, Take, Between, At, lists, session, browser, bounds,
          observed
    <3> QED BY <1>11, <2>2, <3>1
  <2> QED BY <2>1, <2>2
<1>13. CASE EndTask
  <2>1. Between /\ UNCHANGED <<active, suppressed, alarms, changed, schedules, now,
                              unmarked>>
    BY <1>13 DEF EndTask, Between, lists, session, browser, bounds, observed
  <2>2. CASE task.kind = "reconcile" /\ reconcile
    <3>1. task' = NextPass
      BY <1>13, <2>2 DEF EndTask, NextPass
    <3> QED BY <1>7, <3>1, IdleFields
  <2>3. CASE ~(task.kind = "reconcile" /\ reconcile)
    <3>1. task'.pc = "idle" /\ (~reconcile \/ reconcile')
      BY <1>13, <2>3, IdleFields DEF EndTask
    <3> QED BY <1>11, <2>1, <3>1
  <2> QED BY <2>2, <2>3
<1>14. CASE StartSession
  <2>1. CASE active # None
    <3>1. /\ UNCHANGED <<task, active, suppressed, reconcile, alarms, now,
                       unmarked>>
          /\ UNCHANGED <<changed, schedules>>
      BY <1>14, <2>1 DEF StartSession, lists, browser, observed
    <3> QED BY <1>1, <3>1
  <2>2. CASE active = None
    <3>1. task'.pc = "pass"
      BY <1>0, <1>14, <2>2 DEF StartSession, IsTask
    <3> QED BY <1>7, <3>1
  <2> QED BY <2>1, <2>2
<1>15. CASE StopSession
  <2>1. CASE active = None
    <3>1. /\ UNCHANGED <<task, active, suppressed, reconcile, alarms, now,
                       unmarked>>
          /\ UNCHANGED <<changed, schedules>>
      BY <1>15, <2>1 DEF StopSession, lists, browser, bounds
    <3> QED BY <1>1, <3>1
  <2>2. CASE active # None
    BY <1>10, <1>15, <2>2 DEF StopSession
  <2> QED BY <2>1, <2>2
<1>16. CASE ExpireSession
  <2>1. /\ UNCHANGED <<active, suppressed, reconcile, alarms, now, changed, schedules>>
        /\ UNCHANGED unmarked
        /\ task' = task \/ Finalize("expire", ScheduledOutcome(active), "done")
    BY <1>16 DEF ExpireSession, lists, session, browser, bounds, observed
  <2> QED BY <1>1, <1>10, <2>1
<1>17. CASE WriteHistory
  <2>1. task'.pc = "reset"
    BY <1>0, <1>17 DEF WriteHistory, Goto, IsTask
  <2> QED BY <1>7, <2>1
<1>18. CASE ResetActive
  <2>1. changed' /\ task'.pc # "idle"
    BY <1>0, <1>18 DEF ResetActive, IsTask
  <2> QED BY <1>9, <2>1
<1>19. CASE ResetChallenge
  <2>1. task'.pc = "pass"
    BY <1>0, <1>19 DEF ResetChallenge, Goto, IsTask
  <2> QED BY <1>7, <2>1
<1>20. CASE ReadState
  <2>1. /\ task'.pc \in {"select", "prune"} /\ task'.schedules = schedules
        /\ UNCHANGED schedules
    BY <1>0, <1>20 DEF ReadState, IsTask, lists
  <2> QED BY <1>20, <2>1, ReadForesees DEF At, WindowInv, Between
<1>21. CASE PruneAllows
  <2>1. /\ task'.pc = "select" /\ task'.schedules = task.schedules /\ At("prune")
        /\ alarms'.boundary = alarms.boundary
        /\ UNCHANGED <<schedules, now, suppressed, unmarked>>
        /\ changed => changed'
    BY <1>0, <1>21 DEF PruneAllows, Goto, IsTask, bounds, session
  <2> QED BY <1>0, <2>1 DEF At, WindowInv, Between, Foreseen, Watched, Quiet
<1>22. CASE SelectSchedule
  <2>1. /\ task'.pc = "decide" /\ At("select")
        /\ UNCHANGED <<schedules, now, alarms, changed, unmarked>>
        /\ \/ Quiet /\ suppressed' = suppressed
           \/ ~Quiet /\ suppressed' = None
              /\ task'.cur = GetCurrentSchedule(task.schedules, now)
    BY <1>0, <1>22 DEF SelectSchedule, IsTask, Quiet, lists, browser, bounds, observed
  <2>2. CASE changed
    BY <1>9, <2>1, <2>2
  <2>3. CASE ~changed
    <3>1. task.schedules = schedules /\ Foreseen /\ Watched
      BY <1>0, <2>1, <2>3 DEF WindowInv
    <3>2. Foreseen' /\ Watched'
      BY <2>1, <3>1 DEF Foreseen, Watched, Quiet
    <3>3. Picked'
      <4>1. CASE Quiet /\ suppressed' = suppressed
        BY <2>1, <4>1 DEF Picked, Quiet
      <4>2. CASE task'.cur = GetCurrentSchedule(schedules, now)
        BY <1>0, <2>1, <4>2, CurrentOK, ServiceWorkerAssumption DEF Picked
      <4> QED BY <2>1, <3>1, <4>1, <4>2
    <3> QED BY <1>0, <2>1, <3>2, <3>3 DEF At, WindowInv, Between
  <2> QED BY <2>2, <2>3
<1>23. CASE MigrateStray \/ Supersede \/ WindowOver \/ LeaveWindow \/ ManualDue
  <2>1. \E kind, outcome, then : Finalize(kind, outcome, then)
    BY <1>23 DEF MigrateStray, Supersede, WindowOver, LeaveWindow, ManualDue, EndsHere
  <2> QED BY <1>10, <2>1
<1>24. CASE ActivateScheduled
  <2>1. changed' /\ task'.pc = "enforce"
    BY <1>0, <1>24 DEF ActivateScheduled, Goto, IsTask
  <2> QED BY <1>9, <2>1
<1>25. ASSUME At("decide"), task'.pc = "end", alarms'.boundary = alarms.boundary,
              UNCHANGED <<active, suppressed, changed, schedules, now, unmarked>>,
              task.cur = None => active = None \/ active.sched = None,
              task.cur # None => active # None /\ active.sched = task.cur.id
       PROVE  WindowInv'
  <2>1. Picked => Right
    BY <1>25 DEF Picked, Right, SessionIsRight
  <2>2. changed' \/ Passed' \/ (Foreseen' /\ Watched' /\ Right')
    BY <1>0, <1>25, <2>1
    DEF WindowInv, Passed, DueAlarm, Missed, Foreseen, Watched, Quiet, Right,
        SessionIsRight
  <2> QED BY <1>8, <1>25, <2>2
<1>26. CASE ClearAllRules
  <2>1. /\ task'.pc \in {"decide", "end"} /\ alarms'.boundary = alarms.boundary
        /\ task'.pc = "decide" => At("clear")
        /\ UNCHANGED <<active, suppressed, changed, schedules, now, unmarked>>
    BY <1>0, <1>26 DEF ClearAllRules, RejectRules, Goto, At, IsTask, lists, session, bounds,
        observed
  <2>2. CASE At("clear")
    BY <1>0, <1>9, <2>1, <2>2 DEF WindowInv
  <2>3. CASE ~At("clear")
    BY <1>25, <1>26, <2>1, <2>3 DEF ClearAllRules
  <2> QED BY <2>2, <2>3
<1>27. CASE Enforce
  <2>1. /\ task'.pc = "end" /\ alarms'.boundary = alarms.boundary
        /\ UNCHANGED <<active, suppressed, changed, schedules, now, unmarked>>
    BY <1>0, <1>27 DEF Enforce, RejectRules, Goto, IsTask, lists, session, bounds,
        observed
  <2>2. CASE At("enforce")
    BY <1>0, <1>9, <2>1, <2>2 DEF WindowInv
  <2>3. CASE ~At("enforce")
    <3>1. /\ At("decide") /\ active # None
          /\ \/ active.sched # None /\ task.cur # None /\ active.sched = task.cur.id
             \/ active.sched = None /\ task.cur = None
      BY <1>27, <2>3 DEF Enforce, Live, Scheduled, Current
    <3> QED BY <1>25, <2>1, <3>1
  <2> QED BY <2>2, <2>3
<1> QED
  BY <1>2, <1>3, <1>4, <1>5, <1>6, <1>12, <1>13, <1>14, <1>15, <1>16, <1>17, <1>18,
     <1>19, <1>20, <1>21, <1>22, <1>23, <1>24, <1>26, <1>27 DEF Next, WorkerStep

(* A worker that rests has woken for every start and end of a window and    *)
(* for the end of every suppression: the running schedule, unless it is     *)
(* suppressed now, has its session and no other schedule has one.  What it  *)
(* may not have woken for are the times the last pass set no alarm for: a   *)
(* boundary within half a second, the end of a suppression.                 *)
THEOREM RestingSessionIsRight == Spec => []SettledSessionIsRight
<1>1. Init => WindowInv
  BY IdleFields DEF Init, WindowInv, At
<1>2. Types /\ RulesInv /\ WindowInv => SettledSessionIsRight
  <2> SUFFICES ASSUME Types, RulesInv, WindowInv, Settled, ~Quiet, ~Missed
               PROVE  SessionIsRight
    BY DEF SettledSessionIsRight
  <2>1. ~changed /\ Between /\ queue = <<>>
    BY DEF Settled, Between
  <2>2. ~reconcile
    BY <2>1 DEF RulesInv, Queued, Asked
  <2>3. ~Passed
    <3>1. "boundary" \in DOMAIN alarms /\ alarms.boundary \in AlarmTimes /\ now \in Nat
      BY DEF Types, AlarmsOK, ListInv, StoredOK
    <3> QED BY <3>1 DEF Settled, Passed, DueAlarm, AlarmTimes
  <2> QED BY <2>1, <2>2, <2>3 DEF WindowInv, Right
<1> QED
  BY <1>1, <1>2, TypesInit, TypesStep, WindowStep, RulesAlways, PTL DEF Spec
=============================================================================
