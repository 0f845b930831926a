------------------------- MODULE SessionManagerProofs -------------------------
(***************************************************************************)
(* What holds of the session manager for all schedules, targets, durations *)
(* and clocks and any number of crashes and failing calls.                 *)
(***************************************************************************)
EXTENDS SessionManager, TLAPS

(* What a handler may rely on at each of its writes. *)
HandlerInv ==
  /\ pc = "apply" <=> starting # NoSession
  /\ pc \in {"down", "apply"} => active = NoSession
  /\ pc \in {"stop", "sync_targets", "sync_sites"} => active # NoSession
  /\ pc \in {"stop_update", "stop_delete", "updated", "delete_stop"} => active.sched # 0
  /\ pc = "updated" => \E s \in schedules : s.id = active.sched
  /\ pc \in {"down", "stop", "stop_update", "stop_delete"} => enforced = {}

(* the clock arithmetic stays in the integers *)
LEMMA DivisionIsWhole ==
  ASSUME NEW a \in Int, NEW b \in Nat \ {0}
  PROVE  a \div b \in Int
  OBVIOUS

(* num_seconds().max(1) is positive, whatever the two times are *)
LEMMA SecondsArePositive ==
  ASSUME NEW from \in Int, NEW end \in Int
  PROVE  Seconds(from, end) \in Nat \ {0}
  BY DivisionIsWhole, ClockAssumption DEF Seconds

(* the end of a window is a time *)
LEMMA WindowEndIsWhole ==
  ASSUME TypeOK, NEW s \in schedules
  PROVE  WindowEnd(s) \in Int
  <1>1. now \div DayLen \in Int
    BY DivisionIsWhole, ClockAssumption DEF TypeOK
  <1>2. s.end \in Int
    BY ClockAssumption DEF TypeOK, Schedule
  <1>. QED BY <1>1, <1>2, ClockAssumption DEF WindowEnd, Day

(* the planned end of a session is a time *)
LEMMA DeadlineIsWhole ==
  ASSUME NEW s \in Session
  PROVE  Deadline(s) \in Nat
  BY ClockAssumption DEF Deadline, Session

-----------------------------------------------------------------------------
(* Types *)

(* None is told from every session, and its fields are empty *)
LEMMA NoSessionFields ==
  /\ NoSession \notin Session
  /\ NoSession.id = 0 /\ NoSession.sched = 0 /\ NoSession.planned = 0
  /\ NoSession.targets = {}
  BY DEF NoSession, Session

(* the empty map of suppressions has the type of the map *)
LEMMA NoSuppressionIsMap == NoSuppression \in [ScheduleIds -> Nat]
  BY DEF NoSuppression

(* the new session of StartSession and Activate *)
LEMMA NewSessionIsSession ==
  ASSUME TypeOK, NEW sched \in ScheduleIds \cup {0}, NEW mode \in Modes,
         NEW planned \in Nat, NEW sites \in SUBSET Sites
  PROVE  /\ NewSession(sched, mode, planned, sites) \in Session
         /\ NewSession(sched, mode, planned, sites).sched = sched
         /\ NewSession(sched, mode, planned, sites).planned = planned
  BY DEF NewSession, Session, TypeOK

(* the first start of the service *)
LEMMA TypeInit == Init => TypeOK /\ HandlerInv
  BY NoSuppressionIsMap, NoSessionFields, BoundsAssumption
  DEF Init, TypeOK, PCs, HandlerInv

(* one step per action: what it assigns has the type of its variable *)
LEMMA TypeNext == TypeOK /\ HandlerInv /\ [Next]_vars => TypeOK'
  <1> SUFFICES ASSUME TypeOK, HandlerInv, [Next]_vars PROVE TypeOK'
    OBVIOUS
  <1> USE NoSessionFields, NoSuppressionIsMap DEF table, requests, budget
  <1>1. ASSUME NEW m \in Modes, NEW d \in Durations, StartSession(m, d) PROVE TypeOK'
    <2>0. PICK lost : starting' = NewSession(0, m, d, siteList \ lost)
      BY <1>1 DEF StartSession
    <2>a. siteList \ lost \in SUBSET Sites /\ d \in Nat
      BY DurationsAssumption DEF TypeOK
    <2>1. starting' \in Session /\ starting'.sched = 0
      BY <2>0, <2>a, NewSessionIsSession
    <2>2. live' \subseteq live \cup {starting'} /\ history' \subseteq history
      BY <1>1 DEF StartSession, SaveLive
    <2>3. storeFaults' \in Nat
      BY <1>1 DEF StartSession, StoreWorks, StoreFails, TypeOK
    <2>4. \A s \in live' \cup {active', starting'} : s.sched # 0 => s.planned > 0
      BY <1>1, <2>1, <2>2 DEF StartSession, TypeOK
    <2>5. /\ pc' = "apply" /\ nextId' = nextId + 1
          /\ UNCHANGED <<now, subject, requests, saved, active, suppressed, enforced,
                         restarts, enforcerFaults>>
      BY <1>1 DEF StartSession
    <2>. QED BY <2>1, <2>2, <2>3, <2>4, <2>5 DEF TypeOK, PCs
  <1>2. CASE Apply
    <2>1. starting \in Session
      BY <1>2 DEF Apply, HandlerInv, TypeOK
    <2>2. live' \subseteq live /\ history' \subseteq [id : Nat \ {0}, outcome : Outcomes]
      BY <1>2, <2>1 DEF Apply, SaveEnded, Session, Outcomes, TypeOK
    <2>3. active' \in {active, starting} /\ enforced' \subseteq Targets
      BY <1>2, <2>1 DEF Apply, Session, TypeOK
    <2>4. storeFaults' \in Nat /\ enforcerFaults' \in Nat
      BY <1>2 DEF Apply, StoreWorks, StoreFails, EnforcerWorks, EnforcerFails, TypeOK
    <2>. QED BY <1>2, <2>1, <2>2, <2>3, <2>4 DEF TypeOK, PCs, Apply
  <1>3. CASE Tick
    BY <1>3 DEF TypeOK, PCs, Tick
  <1>4. CASE CompleteExpired
    BY <1>4 DEF TypeOK, PCs, CompleteExpired, EndActive, Clear, StoreWorks, StoreFails,
                EnforcerWorks, EnforcerFails, SaveEnded, Session, Outcomes
  <1>5. CASE PurgeSuppressions
    BY <1>5 DEF TypeOK, PCs, PurgeSuppressions, Pending, Persist, StoreWorks, StoreFails
  <1>6. CASE NothingDue
    BY <1>6 DEF TypeOK, PCs, NothingDue
  <1>7. CASE TakeOver
    BY <1>7 DEF TypeOK, PCs, TakeOver, EndActive, Clear, StoreWorks, StoreFails,
                EnforcerWorks, EnforcerFails, SaveEnded, Session, Outcomes
  <1>8. CASE Activate
    <2>1. PICK s \in schedules :
            starting' = NewSession(s.id, s.mode, Seconds(now, WindowEnd(s)), siteList)
      BY <1>8 DEF Activate, Wanted, FirstDue, Due
    <2>2. s.id \in ScheduleIds /\ s.mode \in Modes /\ now \in Int /\ siteList \in SUBSET Sites
      BY DEF TypeOK, Schedule
    <2>a. Seconds(now, WindowEnd(s)) \in Nat \ {0}
      BY <2>2, WindowEndIsWhole, SecondsArePositive
    <2>3. starting' \in Session /\ starting'.planned > 0
      BY <2>1, <2>2, <2>a, NewSessionIsSession
    <2>4. live' \subseteq live \cup {starting'} /\ history' \subseteq history
      BY <1>8 DEF Activate, SaveLive
    <2>. QED BY <1>8, <2>3, <2>4 DEF TypeOK, PCs, Activate
  <1>9. CASE EvaluateFails
    BY <1>9 DEF TypeOK, PCs, EvaluateFails, StoreFails
  <1>10. CASE StopSession
    BY <1>10, DeadlineIsWhole
    DEF TypeOK, PCs, StopSession, ClearAndSuppress, Clear, Persist, StoreWorks, StoreFails,
        EnforcerWorks
  <1>11. CASE StopSave
    <2>1. active \in Session
      BY <1>11, NoSessionFields DEF StopSave, HandlerInv, TypeOK
    <2>2. live' \subseteq live /\ history' \subseteq [id : Nat \ {0}, outcome : Outcomes]
      BY <1>11, <2>1 DEF StopSave, SaveEnded, Session, Outcomes, TypeOK
    <2>3. active' \in {active, NoSession} /\ storeFaults' \in Nat
      BY <1>11 DEF StopSave, StoreWorks, StoreFails, TypeOK
    <2>4. suppressed' \in [ScheduleIds -> Nat]
      BY <1>11 DEF StopSave, Forget, TypeOK
    <2>. QED BY <1>11, <2>2, <2>3, <2>4 DEF TypeOK, PCs, StopSave
  <1>12. ASSUME NEW i \in ScheduleIds, NEW p \in Plans, CreateSchedule(i, p) PROVE TypeOK'
    BY <1>12, PlansAssumption DEF TypeOK, PCs, CreateSchedule, WithId, Schedule
  <1>13. ASSUME NEW i \in ScheduleIds, NEW p \in Plans, UpdateSchedule(i, p) PROVE TypeOK'
    BY <1>13, PlansAssumption DEF TypeOK, PCs, UpdateSchedule, WithId, Schedule
  <1>14. CASE ResyncSession
    <2>1. active \in Session
      BY <1>14, NoSessionFields DEF ResyncSession, HandlerInv, TypeOK
    <2>2. UpdatedRow \in schedules
      BY <1>14 DEF ResyncSession, HandlerInv, UpdatedRow
    <2>a. UpdatedRow.mode \in Modes /\ active.started \in Int
      BY <2>1, <2>2 DEF TypeOK, Schedule, Session
    <2>3. Seconds(active.started, WindowEnd(UpdatedRow)) \in Nat \ {0}
      BY <2>2, <2>a, WindowEndIsWhole, SecondsArePositive
    <2>4. active' \in Session /\ active'.planned > 0
      <3> DEFINE plan == Seconds(active.started, WindowEnd(UpdatedRow))
      <3>1. active' = [active EXCEPT !.mode = UpdatedRow.mode, !.planned = plan]
        BY <1>14 DEF ResyncSession, Follow
      <3>2. plan \in Nat /\ plan > 0
        BY <2>3
      <3> HIDE DEF plan
      <3>. QED BY <2>1, <2>a, <3>1, <3>2 DEF Session
    <2>5. live' \subseteq live \cup {active'} /\ history' \subseteq history
      BY <1>14 DEF ResyncSession, SaveLive
    <2>6. enforced' \subseteq Targets /\ storeFaults' \in Nat /\ enforcerFaults' \in Nat
      BY <1>14, <2>1 DEF ResyncSession, StoreWorks, StoreFails, EnforcerWorks,
                         EnforcerFails, TypeOK, Session
    <2>. QED BY <1>14, <2>4, <2>5, <2>6 DEF TypeOK, PCs, ResyncSession
  <1>15. CASE StopUpdated
    BY <1>15, DeadlineIsWhole
    DEF TypeOK, PCs, StopUpdated, ClearAndSuppress, Clear, Persist, StoreWorks, StoreFails,
        EnforcerWorks, EnforcerFails, Forget
  <1>16. ASSUME NEW i \in ScheduleIds, DeleteSchedule(i) PROVE TypeOK'
    BY <1>16 DEF TypeOK, PCs, DeleteSchedule, Forget, Persist, StoreWorks, StoreFails
  <1>17. CASE StopDeleted
    BY <1>17, DeadlineIsWhole
    DEF TypeOK, PCs, StopDeleted, ClearAndSuppress, Clear, Persist, StoreWorks, StoreFails,
        EnforcerWorks, EnforcerFails
  <1>18. CASE DeleteRow
    BY <1>18 DEF TypeOK, PCs, DeleteRow, StoreWorks, StoreFails
  <1>19. ASSUME NEW t \in Targets, EditTargets(t) PROVE TypeOK'
    BY <1>19 DEF TypeOK, PCs, EditTargets
  <1>20. CASE SyncTargets
    <2> DEFINE candidate == [active EXCEPT !.targets = appTargets]
    <2>1. active \in Session
      BY <1>20 DEF SyncTargets, HandlerInv, TypeOK
    <2>2. candidate \in Session /\ candidate.targets = appTargets
          /\ (candidate.sched # 0 => candidate.planned > 0)
      BY <2>1 DEF Session, TypeOK
    <2>3. active' \in {active, candidate} /\ live' \subseteq live \cup {candidate}
          /\ history' \subseteq history
      BY <1>20 DEF SyncTargets, Install, SaveLive
    <2>4. enforced' \subseteq Targets
      BY <1>20, <2>1, <2>2 DEF SyncTargets, Install, TypeOK, Session
    <2>5. storeFaults' \in Nat /\ enforcerFaults' \in Nat
      BY <1>20 DEF SyncTargets, StoreWorks, StoreFails, EnforcerWorks, EnforcerFails, TypeOK
    <2>. QED BY <1>20, <2>2, <2>3, <2>4, <2>5 DEF TypeOK, PCs, SyncTargets
  <1>21. ASSUME NEW e \in Sites, EditSites(e) PROVE TypeOK'
    BY <1>21 DEF TypeOK, PCs, EditSites
  <1>22. CASE SyncSites
    <2> DEFINE candidate == [active EXCEPT !.sites = siteList]
    <2>1. active \in Session
      BY <1>22 DEF SyncSites, HandlerInv, TypeOK
    <2>2. candidate \in Session /\ (candidate.sched # 0 => candidate.planned > 0)
      BY <2>1 DEF Session, TypeOK
    <2>3. active' \in {active, candidate} /\ live' \subseteq live \cup {candidate}
          /\ history' \subseteq history /\ storeFaults' \in Nat
      BY <1>22 DEF SyncSites, SaveLive, StoreWorks, StoreFails, TypeOK
    <2>. QED BY <1>22, <2>2, <2>3 DEF TypeOK, PCs, SyncSites
  <1>23. CASE ClearHistory
    BY <1>23 DEF TypeOK, PCs, ClearHistory
  <1>24. CASE Crash
    BY <1>24 DEF TypeOK, PCs, Crash
  <1>25. CASE Recover
    BY <1>25 DEF TypeOK, PCs, Recover, Pending, Latest, StoreWorks, StoreFails,
                EnforcerWorks, EnforcerFails, SaveEnded, Session, Outcomes
  <1>26. CASE Advance
    BY <1>26 DEF TypeOK, PCs, Advance
  <1>27. CASE UNCHANGED vars
    BY <1>27 DEF TypeOK, vars
  <1>. QED
    BY <1>1, <1>2, <1>3, <1>4, <1>5, <1>6, <1>7, <1>8, <1>9, <1>10, <1>11, <1>12, <1>13,
       <1>14, <1>15, <1>16, <1>17, <1>18, <1>19, <1>20, <1>21, <1>22, <1>23, <1>24,
       <1>25, <1>26, <1>27
    DEF Next, Request, Continue

-----------------------------------------------------------------------------
(* Enforcement: an invariant of the volatile part *)

(* one step per action: where pc goes, and that enforcement is released with
   the session or before it *)
LEMMA HandlerNext ==
  TypeOK /\ HandlerInv /\ NothingEnforcedWithoutSession /\ [Next]_vars
    => HandlerInv' /\ NothingEnforcedWithoutSession'
  <1> DEFINE Safe == HandlerInv /\ NothingEnforcedWithoutSession
  <1> SUFFICES ASSUME TypeOK, Safe, [Next]_vars PROVE Safe'
    OBVIOUS
  <1> USE NoSessionFields DEF table, requests, budget
  <1>1. ASSUME NEW m \in Modes, NEW d \in Durations, StartSession(m, d) PROVE Safe'
    <2>1. starting'.id = nextId /\ nextId # 0
      BY <1>1 DEF StartSession, NewSession, TypeOK
    <2>. QED BY <1>1, <2>1 DEF StartSession, HandlerInv, NothingEnforcedWithoutSession
  <1>2. CASE Apply
    BY <1>2 DEF Apply, HandlerInv, NothingEnforcedWithoutSession
  <1>3. CASE Tick
    BY <1>3 DEF Tick, HandlerInv, NothingEnforcedWithoutSession
  <1>4. CASE CompleteExpired
    BY <1>4 DEF CompleteExpired, EndActive, Clear, HandlerInv, NothingEnforcedWithoutSession
  <1>5. CASE PurgeSuppressions
    BY <1>5 DEF PurgeSuppressions, HandlerInv, NothingEnforcedWithoutSession
  <1>6. CASE NothingDue
    BY <1>6 DEF NothingDue, HandlerInv, NothingEnforcedWithoutSession
  <1>7. CASE TakeOver
    BY <1>7 DEF TakeOver, EndActive, Clear, HandlerInv, NothingEnforcedWithoutSession
  <1>8. CASE Activate
    <2>1. starting'.id = nextId /\ nextId # 0
      BY <1>8 DEF Activate, NewSession, TypeOK
    <2>. QED BY <1>8, <2>1 DEF Activate, HandlerInv, NothingEnforcedWithoutSession
  <1>9. CASE EvaluateFails
    BY <1>9 DEF EvaluateFails, HandlerInv, NothingEnforcedWithoutSession
  <1>10. CASE StopSession
    BY <1>10 DEF StopSession, ClearAndSuppress, Clear, HandlerInv,
                 NothingEnforcedWithoutSession
  <1>11. CASE StopSave
    BY <1>11 DEF StopSave, HandlerInv, NothingEnforcedWithoutSession
  <1>12. ASSUME NEW i \in ScheduleIds, NEW p \in Plans, CreateSchedule(i, p) PROVE Safe'
    BY <1>12 DEF CreateSchedule, HandlerInv, NothingEnforcedWithoutSession
  <1>13. ASSUME NEW i \in ScheduleIds, NEW p \in Plans, UpdateSchedule(i, p) PROVE Safe'
    <2>1. WithId(i, p) \in schedules' /\ WithId(i, p).id = i /\ i # 0
      BY <1>13, IdsAssumption DEF UpdateSchedule, WithId
    <2>. QED BY <1>13, <2>1 DEF UpdateSchedule, HandlerInv, NothingEnforcedWithoutSession
  <1>14. CASE ResyncSession
    <2>1. active'.sched = active.sched
      BY <1>14 DEF ResyncSession, Follow, HandlerInv, TypeOK, Session
    <2>2. active' # NoSession
      BY <1>14, <2>1 DEF ResyncSession, HandlerInv
    <2>. QED BY <1>14, <2>2 DEF ResyncSession, HandlerInv, NothingEnforcedWithoutSession
  <1>15. CASE StopUpdated
    BY <1>15 DEF StopUpdated, ClearAndSuppress, Clear, HandlerInv,
                 NothingEnforcedWithoutSession
  <1>16. ASSUME NEW i \in ScheduleIds, DeleteSchedule(i) PROVE Safe'
    BY <1>16, IdsAssumption DEF DeleteSchedule, HandlerInv, NothingEnforcedWithoutSession
  <1>17. CASE StopDeleted
    BY <1>17 DEF StopDeleted, ClearAndSuppress, Clear, HandlerInv,
                 NothingEnforcedWithoutSession
  <1>18. CASE DeleteRow
    BY <1>18 DEF DeleteRow, HandlerInv, NothingEnforcedWithoutSession
  <1>19. ASSUME NEW t \in Targets, EditTargets(t) PROVE Safe'
    BY <1>19 DEF EditTargets, HandlerInv, NothingEnforcedWithoutSession
  <1>20. CASE SyncTargets
    <2> DEFINE candidate == [active EXCEPT !.targets = appTargets]
    <2>1. candidate # NoSession
      BY <1>20 DEF SyncTargets, HandlerInv, TypeOK, Session
    <2>2. active' \in {active, candidate}
      BY <1>20 DEF SyncTargets, Install
    <2>. QED BY <1>20, <2>1, <2>2 DEF SyncTargets, HandlerInv, NothingEnforcedWithoutSession
  <1>21. ASSUME NEW e \in Sites, EditSites(e) PROVE Safe'
    BY <1>21 DEF EditSites, HandlerInv, NothingEnforcedWithoutSession
  <1>22. CASE SyncSites
    <2> DEFINE candidate == [active EXCEPT !.sites = siteList]
    <2>1. candidate # NoSession
      BY <1>22 DEF SyncSites, HandlerInv, TypeOK, Session
    <2>2. active' \in {active, candidate}
      BY <1>22 DEF SyncSites
    <2>. QED BY <1>22, <2>1, <2>2 DEF SyncSites, HandlerInv, NothingEnforcedWithoutSession
  <1>23. CASE ClearHistory
    BY <1>23 DEF ClearHistory, HandlerInv, NothingEnforcedWithoutSession
  <1>24. CASE Crash
    BY <1>24 DEF Crash, HandlerInv, NothingEnforcedWithoutSession
  <1>25. CASE Recover
    <2>1. active' \in live \cup {NoSession} /\ (active' = NoSession => enforced' = {})
      BY <1>25 DEF Recover, Latest, HandlerInv, TypeOK
    <2>. QED BY <1>25, <2>1 DEF Recover, HandlerInv, NothingEnforcedWithoutSession
  <1>26. CASE Advance
    BY <1>26 DEF Advance, HandlerInv, NothingEnforcedWithoutSession
  <1>27. CASE UNCHANGED vars
    BY <1>27 DEF vars, HandlerInv, NothingEnforcedWithoutSession
  <1>. QED
    BY <1>1, <1>2, <1>3, <1>4, <1>5, <1>6, <1>7, <1>8, <1>9, <1>10, <1>11, <1>12, <1>13,
       <1>14, <1>15, <1>16, <1>17, <1>18, <1>19, <1>20, <1>21, <1>22, <1>23, <1>24,
       <1>25, <1>26, <1>27
    DEF Next, Request, Continue

(* Types and the handler invariant hold together in every state. *)
LEMMA SafeAlways == Spec => [](TypeOK /\ HandlerInv /\ NothingEnforcedWithoutSession)
  <1>1. Init => NothingEnforcedWithoutSession
    BY DEF Init, NothingEnforcedWithoutSession
  <1>. QED BY <1>1, TypeInit, TypeNext, HandlerNext, PTL DEF Spec

(* Every variable keeps its type, and no session a schedule started runs    *)
(* without an end: the model's UPDATEs, clamped durations and EXCEPTs never *)
(* leave the tables of focus-store.                                         *)
THEOREM TypeCorrect == Spec => []TypeOK
  BY SafeAlways, PTL

(* However many SQL statements and enforcement calls fail and wherever the  *)
(* process dies, nothing is terminated while the service holds no session.  *)
THEOREM NothingEnforcedIdle == Spec => []NothingEnforcedWithoutSession
  BY SafeAlways, PTL

-----------------------------------------------------------------------------
(* The sessions table: ids are used once, and a row that is being saved or  *)
(* run is there.                                                            *)

TableInv ==
  /\ RunningSessionIsOnDisk
  /\ starting # NoSession => \E r \in live : r.id = starting.id
  /\ \A r \in live : r.id < nextId
  /\ \A h \in history : h.id < nextId

(* the steps that leave the table, the ids and the sessions in memory alone *)
OtherStep ==
  \/ Tick \/ PurgeSuppressions \/ NothingDue \/ EvaluateFails \/ StopSession
  \/ \E i \in ScheduleIds, p \in Plans : CreateSchedule(i, p) \/ UpdateSchedule(i, p)
  \/ StopUpdated \/ StopDeleted \/ DeleteRow
  \/ \E i \in ScheduleIds : DeleteSchedule(i)
  \/ \E t \in Targets : EditTargets(t)
  \/ \E e \in Sites : EditSites(e)
  \/ UNCHANGED vars

(* none of them writes the table or exchanges the session in memory *)
LEMMA TableUntouched ==
  ASSUME OtherStep \/ Advance
  PROVE  UNCHANGED <<live, history, nextId, active, starting>>
  BY DEF OtherStep, table, Tick, PurgeSuppressions, NothingDue, EvaluateFails, StopSession,
         CreateSchedule, UpdateSchedule, StopUpdated, StopDeleted, DeleteRow,
         DeleteSchedule, EditTargets, EditSites, Advance, vars, ClearAndSuppress

(* ending the running session, completely or not at all *)
LEMMA EndActiveOutcomes ==
  ASSUME NEW outcome, NEW next, EndActive(outcome, next)
  PROVE  \/ UNCHANGED <<live, history, active>>
         \/ SaveEnded(active, outcome) /\ active' = NoSession
  BY DEF EndActive, table

(* saving the running session again under its id *)
LEMMA SavedUnderItsId ==
  ASSUME TypeOK, TableInv, starting = NoSession, UNCHANGED <<nextId, starting>>,
         active \in Session, active' \in Session, active'.id = active.id,
         \/ SaveLive(active')
         \/ UNCHANGED <<live, history>>
  PROVE  TableInv'
  <1>1. PICK r \in live : r.id = active.id
    BY NoSessionFields DEF TableInv, RunningSessionIsOnDisk
  <1>2. CASE SaveLive(active')
    <2>1. \A s \in live' : \E o \in live : o.id = s.id
      BY <1>1, <1>2 DEF SaveLive
    <2>2. history' \subseteq history /\ active' \in live'
      BY <1>2 DEF SaveLive
    <2>. QED BY <2>1, <2>2 DEF TableInv, RunningSessionIsOnDisk
  <1>3. CASE UNCHANGED <<live, history>>
    BY <1>1, <1>3 DEF TableInv, RunningSessionIsOnDisk
  <1>. QED BY <1>2, <1>3

(* saving as ended a session that no longer runs *)
LEMMA SavedAsEnded ==
  ASSUME TypeOK, TableInv, NEW s, NEW outcome, SaveEnded(s, outcome),
         \E r \in live : r.id = s.id,
         active' = NoSession, starting' = NoSession, nextId' = nextId
  PROVE  TableInv'
  <1>1. s.id < nextId
    BY DEF TableInv
  <1>2. /\ \A r \in live' : r \in live /\ r.id # s.id
        /\ \A h \in history' : h.id = s.id \/ h \in history
    BY DEF SaveEnded
  <1>. QED BY <1>1, <1>2 DEF TableInv, RunningSessionIsOnDisk

(* the first row of a session, under a fresh id *)
LEMMA SavedAfresh ==
  ASSUME TypeOK, TableInv, SaveLive(starting'), starting'.id = nextId,
         nextId' = nextId + 1, active = NoSession, active' = NoSession
  PROVE  TableInv'
  <1>1. \A r \in live' : r = starting' \/ r \in live
    BY DEF SaveLive
  <1>2. history' \subseteq history /\ starting' \in live'
    BY DEF SaveLive
  <1>3. /\ \A r \in live : r.id < nextId'
        /\ \A h \in history : h.id < nextId'
    BY DEF TableInv, TypeOK, Session
  <1>4. nextId < nextId' /\ \A h \in history : h.id # nextId
    BY DEF TypeOK, TableInv
  <1>5. \A r \in live', h \in history' : r.id # h.id
    BY <1>1, <1>2, <1>4 DEF TableInv, RunningSessionIsOnDisk
  <1>6. /\ \A r \in live' : r.id < nextId'
        /\ \A h \in history' : h.id < nextId'
    BY <1>1, <1>2, <1>3, <1>4
  <1>. QED BY <1>2, <1>5, <1>6 DEF TableInv, RunningSessionIsOnDisk

(* one step per action: the rows it writes *)
LEMMA TableNext == TypeOK /\ HandlerInv /\ TypeOK' /\ TableInv /\ [Next]_vars => TableInv'
  <1> SUFFICES ASSUME TypeOK, HandlerInv, TypeOK', TableInv, [Next]_vars PROVE TableInv'
    OBVIOUS
  <1> USE NoSessionFields DEF table
  <1>1. ASSUME UNCHANGED <<live, history, nextId, active, starting>> PROVE TableInv'
    BY <1>1 DEF TableInv, RunningSessionIsOnDisk
  <1>2. ASSUME NEW m \in Modes, NEW d \in Durations, StartSession(m, d) PROVE TableInv'
    BY <1>2, SavedAfresh DEF StartSession, NewSession
  <1>3. CASE Activate
    BY <1>3, SavedAfresh DEF Activate, NewSession
  <1>4. CASE Apply
    <2>1. starting # NoSession /\ starting' = NoSession /\ nextId' = nextId /\ active = NoSession
      BY <1>4 DEF Apply, HandlerInv
    <2>2. PICK r \in live : r.id = starting.id
      BY <2>1 DEF TableInv
    <2>3. CASE SaveEnded(starting, "stopped") /\ active' = active
      BY <2>1, <2>2, <2>3, SavedAsEnded
    <2>4. CASE UNCHANGED <<live, history>> /\ active' \in {active, starting}
      BY <2>1, <2>2, <2>4 DEF TableInv, RunningSessionIsOnDisk
    <2>. QED BY <1>4, <2>3, <2>4 DEF Apply
  <1>5. ASSUME active # NoSession, starting = NoSession, UNCHANGED <<nextId, starting>>,
               \/ UNCHANGED <<live, history, active>>
               \/ \E outcome \in Outcomes : SaveEnded(active, outcome) /\ active' = NoSession
        PROVE  TableInv'
    <2>1. PICK r \in live : r.id = active.id
      BY <1>5 DEF TableInv, RunningSessionIsOnDisk
    <2>2. CASE UNCHANGED <<live, history, active>>
      BY <1>1, <1>5, <2>2
    <2>3. ASSUME NEW outcome, SaveEnded(active, outcome), active' = NoSession PROVE TableInv'
      BY <1>5, <2>1, <2>3, SavedAsEnded
    <2>. QED BY <1>5, <2>2, <2>3
  <1>6. CASE CompleteExpired
    BY <1>5, <1>6, EndActiveOutcomes DEF CompleteExpired, HandlerInv, Outcomes
  <1>7. CASE TakeOver
    BY <1>5, <1>7, EndActiveOutcomes DEF TakeOver, HandlerInv, Outcomes
  <1>8. CASE StopSave
    BY <1>5, <1>8 DEF StopSave, HandlerInv, Outcomes
  <1>9. CASE ResyncSession
    <2>1. /\ active \in Session /\ active' = Follow(active, UpdatedRow)
          /\ starting = NoSession /\ UNCHANGED <<nextId, starting>>
      BY <1>9 DEF ResyncSession, HandlerInv, TypeOK
    <2>2. active'.id = active.id
      BY <2>1 DEF Follow, Session
    <2>3. active' \in Session
      BY <2>1, <2>2 DEF TypeOK, Session
    <2>4. SaveLive(active') \/ UNCHANGED <<live, history>>
      BY <1>9 DEF ResyncSession
    <2>. QED BY <2>1, <2>2, <2>3, <2>4, SavedUnderItsId
  <1>10. CASE SyncTargets
    <2> DEFINE candidate == [active EXCEPT !.targets = appTargets]
    <2>1. active \in Session /\ starting = NoSession /\ UNCHANGED <<nextId, starting>>
      BY <1>10 DEF SyncTargets, HandlerInv, TypeOK
    <2>2. candidate.id = active.id
      BY <2>1 DEF Session
    <2>3. /\ active' \in {active, candidate}
          /\ SaveLive(active') \/ UNCHANGED <<live, history>>
      BY <1>10 DEF SyncTargets, Install, SaveLive
    <2>4. active'.id = active.id /\ active' \in Session
      BY <2>1, <2>2, <2>3 DEF TypeOK, Session
    <2>. QED BY <2>1, <2>3, <2>4, SavedUnderItsId
  <1>11. CASE SyncSites
    <2> DEFINE candidate == [active EXCEPT !.sites = siteList]
    <2>1. active \in Session /\ starting = NoSession /\ UNCHANGED <<nextId, starting>>
      BY <1>11 DEF SyncSites, HandlerInv, TypeOK
    <2>2. candidate.id = active.id
      BY <2>1 DEF Session
    <2>3. /\ active' \in {active, candidate}
          /\ SaveLive(active') \/ UNCHANGED <<live, history>>
      BY <1>11 DEF SyncSites
    <2>4. active'.id = active.id /\ active' \in Session
      BY <2>1, <2>2, <2>3 DEF TypeOK, Session
    <2>. QED BY <2>1, <2>3, <2>4, SavedUnderItsId
  <1>12. CASE ClearHistory
    BY <1>12 DEF ClearHistory, TableInv, RunningSessionIsOnDisk
  <1>13. CASE Crash
    BY <1>13 DEF Crash, TableInv, RunningSessionIsOnDisk
  <1>14. CASE Recover
    <2>1. active = NoSession /\ starting = NoSession /\ UNCHANGED <<nextId, starting>>
      BY <1>14 DEF Recover, HandlerInv
    <2>2. \/ UNCHANGED <<live, history>> /\ active' \in live \cup {NoSession}
          \/ \E s \in live : SaveEnded(s, "completed") /\ active' = active
      BY <1>14, <2>1 DEF Recover, Latest
    <2>3. CASE UNCHANGED <<live, history>> /\ active' \in live \cup {NoSession}
      BY <2>1, <2>3 DEF TableInv, RunningSessionIsOnDisk
    <2>4. ASSUME NEW s \in live, SaveEnded(s, "completed"), active' = active PROVE TableInv'
      BY <2>1, <2>4, SavedAsEnded
    <2>. QED BY <2>2, <2>3, <2>4
  <1>15. CASE OtherStep \/ Advance
    BY <1>1, <1>15, TableUntouched
  <1>. QED
    BY <1>2, <1>3, <1>4, <1>6, <1>7, <1>8, <1>9, <1>10, <1>11, <1>12, <1>13, <1>14, <1>15
    DEF Next, Request, Continue, OtherStep

(* the table invariant holds whatever fails and wherever the process dies *)
LEMMA TableAlways == Spec => []TableInv
  <1>1. Init => TableInv
    BY NoSessionFields DEF Init, TableInv, RunningSessionIsOnDisk
  <1>. QED BY <1>1, SafeAlways, TableNext, PTL DEF Spec

(* A crash at any moment, after any failures, finds the running session    *)
(* among the active rows, and no session is both running and ended.        *)
THEOREM RunningSessionIsRestorable == Spec => []RunningSessionIsOnDisk
  BY TableAlways, PTL DEF TableInv

-----------------------------------------------------------------------------
(* Enforcement and the rows a restart would restore it from *)

(* the rows have the targets of the sessions they were saved for            *)
SavedTargets ==
  /\ active # NoSession =>
       \E r \in live : r.id = active.id /\ r.targets = active.targets
  /\ starting # NoSession =>
       \E r \in live : r.id = starting.id /\ r.targets = starting.targets

(* faults are counted down from their bounds                                *)
FaultsLeft ==
  storeFaults \in 0..MaxStoreFaults /\ enforcerFaults \in 0..MaxEnforcerFaults

EnforcedTargets == BothFailed \/ enforced \in {{}, active.targets}

(* what a step may do to the faults that are left *)
LEMMA FaultsNext ==
  ASSUME FaultsLeft, [Next]_vars
  PROVE  /\ FaultsLeft' /\ (BothFailed => BothFailed')
         /\ StoreFails /\ EnforcerFails => BothFailed'
  <1>1. /\ StoreFails \/ StoreWorks
        /\ EnforcerFails \/ EnforcerWorks
    <2> USE DEF StoreFails, StoreWorks, EnforcerFails, EnforcerWorks
    <2>1. CASE \/ Request \/ Tick \/ CompleteExpired \/ UNCHANGED vars
      BY <2>1 DEF Request, Tick, CompleteExpired, EndActive, Clear, StartSession,
                  StopSession, ClearAndSuppress, Persist, CreateSchedule, UpdateSchedule,
                  DeleteSchedule, EditTargets, EditSites, ClearHistory, budget, vars
    <2>2. CASE Continue
      BY <2>2 DEF Continue, Apply, PurgeSuppressions, NothingDue, TakeOver, Activate,
                  EvaluateFails, StopSave, ResyncSession, StopUpdated, StopDeleted,
                  DeleteRow, SyncTargets, SyncSites, EndActive, Clear, ClearAndSuppress,
                  Persist, budget
    <2>3. CASE Crash \/ Recover \/ Advance
      BY <2>3 DEF Crash, Recover, Advance, budget
    <2>. QED BY <2>1, <2>2, <2>3 DEF Next
  <1>2. MaxStoreFaults \in Nat /\ MaxEnforcerFaults \in Nat
    BY BoundsAssumption
  <1>. QED
    BY <1>1, <1>2 DEF FaultsLeft, BothFailed, StoreFails, StoreWorks, EnforcerFails,
                      EnforcerWorks

(* targets of a session change together with its row, or neither changes *)
LEMMA SavedTargetsNext ==
  TypeOK /\ HandlerInv /\ SavedTargets /\ [Next]_vars => SavedTargets'
  <1> SUFFICES ASSUME TypeOK, HandlerInv, SavedTargets, [Next]_vars PROVE SavedTargets'
    OBVIOUS
  <1> USE NoSessionFields DEF table
  <1>1. ASSUME UNCHANGED <<live, active, starting>> PROVE SavedTargets'
    BY <1>1 DEF SavedTargets
  <1>2. ASSUME SaveLive(starting'), active = NoSession, active' = NoSession
        PROVE  SavedTargets'
    BY <1>2 DEF SavedTargets, SaveLive
  <1>3. ASSUME starting' = NoSession, active' = NoSession PROVE SavedTargets'
    BY <1>3 DEF SavedTargets
  <1>4. ASSUME active \in Session, active'.targets = active.targets, active'.id = active.id,
               active # NoSession, starting' = NoSession, UNCHANGED live
        PROVE  SavedTargets'
    BY <1>4 DEF SavedTargets
  <1>5. ASSUME SaveLive(active'), starting' = NoSession PROVE SavedTargets'
    BY <1>5 DEF SavedTargets, SaveLive
  <1>6. ASSUME NEW m \in Modes, NEW d \in Durations, StartSession(m, d) PROVE SavedTargets'
    BY <1>2, <1>6 DEF StartSession
  <1>7. CASE Activate
    BY <1>2, <1>7 DEF Activate
  <1>8. CASE Apply
    BY <1>8 DEF Apply, HandlerInv, SavedTargets
  <1>9. CASE CompleteExpired
    BY <1>1, <1>3, <1>9, EndActiveOutcomes DEF CompleteExpired, HandlerInv
  <1>10. CASE TakeOver
    BY <1>1, <1>3, <1>10, EndActiveOutcomes DEF TakeOver, HandlerInv
  <1>11. CASE StopSave
    BY <1>1, <1>3, <1>11 DEF StopSave, HandlerInv
  <1>12. CASE ResyncSession
    <2>1. active \in Session /\ active' = Follow(active, UpdatedRow) /\ starting' = NoSession
      BY <1>12 DEF ResyncSession, HandlerInv, TypeOK
    <2>2. active'.targets = active.targets /\ active'.id = active.id /\ active # NoSession
      BY <2>1 DEF Follow, Session
    <2>3. SaveLive(active') \/ UNCHANGED live
      BY <1>12 DEF ResyncSession
    <2>. QED BY <1>4, <1>5, <2>1, <2>2, <2>3
  <1>13. CASE SyncTargets
    <2>1. starting' = NoSession
      BY <1>13 DEF SyncTargets, HandlerInv
    <2>2. SaveLive(active') \/ UNCHANGED <<live, active, starting>>
      BY <1>13 DEF SyncTargets, Install, SaveLive
    <2>. QED BY <1>1, <1>5, <2>1, <2>2
  <1>14. CASE SyncSites
    BY <1>1, <1>5, <1>14 DEF SyncSites, HandlerInv
  <1>15. CASE ClearHistory
    BY <1>1, <1>15 DEF ClearHistory
  <1>16. CASE Crash
    BY <1>3, <1>16 DEF Crash
  <1>17. CASE Recover
    <2>1. starting' = NoSession /\ active = NoSession
      BY <1>17 DEF Recover, HandlerInv
    <2>2. \/ active' = NoSession
          \/ UNCHANGED <<live, history>> /\ active' \in live
      BY <1>17, <2>1 DEF Recover, Latest
    <2>3. CASE active' = NoSession
      BY <1>3, <2>1, <2>3
    <2>4. CASE active' \in live /\ UNCHANGED live
      BY <2>1, <2>4 DEF SavedTargets
    <2>. QED BY <2>2, <2>3, <2>4
  <1>18. CASE OtherStep \/ Advance
    BY <1>1, <1>18, TableUntouched
  <1>. QED
    BY <1>6, <1>7, <1>8, <1>9, <1>10, <1>11, <1>12, <1>13, <1>14, <1>15, <1>16, <1>17, <1>18
    DEF Next, Request, Continue, OtherStep

(* unless a statement and a call failed, the enforcer has nothing but the    *)
(* targets in memory                                                         *)
LEMMA EnforcedTargetsNext ==
  TypeOK /\ HandlerInv /\ FaultsLeft /\ EnforcedTargets /\ [Next]_vars => EnforcedTargets'
  <1> SUFFICES ASSUME TypeOK, HandlerInv, FaultsLeft, EnforcedTargets, [Next]_vars
               PROVE  EnforcedTargets'
    OBVIOUS
  <1> USE NoSessionFields
  <1>0. (BothFailed => BothFailed') /\ (StoreFails /\ EnforcerFails => BothFailed')
    BY FaultsNext
  <1>1. ASSUME enforced' \in {{}, enforced}, active'.targets = active.targets
        PROVE  EnforcedTargets'
    BY <1>0, <1>1 DEF EnforcedTargets
  <1>2. ASSUME enforced' \in {{}, active'.targets} PROVE EnforcedTargets'
    BY <1>2 DEF EnforcedTargets
  <1>3. CASE Request
    BY <1>1, <1>3 DEF Request, StartSession, StopSession, ClearAndSuppress, Clear,
         CreateSchedule, UpdateSchedule, DeleteSchedule, EditTargets, EditSites, ClearHistory
  <1>4. CASE Tick \/ CompleteExpired \/ TakeOver
    BY <1>1, <1>2, <1>4 DEF Tick, CompleteExpired, TakeOver, EndActive, Clear
  <1>5. CASE Apply
    BY <1>1, <1>2, <1>5 DEF Apply
  <1>6. CASE PurgeSuppressions \/ NothingDue \/ Activate \/ EvaluateFails \/ DeleteRow
    BY <1>1, <1>6 DEF PurgeSuppressions, NothingDue, Activate, EvaluateFails, DeleteRow
  <1>7. CASE StopSave
    BY <1>2, <1>7 DEF StopSave, HandlerInv
  <1>8. CASE ResyncSession
    <2>1. active \in Session /\ active' = Follow(active, UpdatedRow)
      BY <1>8 DEF ResyncSession, HandlerInv, TypeOK
    <2>2. active'.targets = active.targets
      BY <2>1 DEF Follow, Session
    <2>. QED BY <1>1, <1>2, <1>8, <2>2 DEF ResyncSession
  <1>9. CASE StopUpdated \/ StopDeleted
    BY <1>1, <1>9 DEF StopUpdated, StopDeleted, ClearAndSuppress, Clear
  <1>10. CASE SyncTargets
    <2>1. CASE StoreFails /\ EnforcerFails
      BY <1>0, <2>1 DEF EnforcedTargets
    <2>2. CASE enforced' = active'.targets
      BY <1>2, <2>2
    <2>3. CASE enforced' = enforced /\ UNCHANGED active
      BY <1>1, <2>3
    <2>. QED BY <1>10, <2>1, <2>2, <2>3 DEF SyncTargets, Install
  <1>11. CASE SyncSites
    <2>1. active \in Session
      BY <1>11 DEF SyncSites, HandlerInv, TypeOK
    <2>2. active'.targets = active.targets
      BY <1>11, <2>1 DEF SyncSites, Session
    <2>. QED BY <1>1, <1>11, <2>2 DEF SyncSites
  <1>12. CASE Crash \/ Recover \/ Advance \/ UNCHANGED vars
    BY <1>1, <1>2, <1>12 DEF Crash, Recover, Advance, HandlerInv, vars
  <1>. QED
    BY <1>3, <1>4, <1>5, <1>6, <1>7, <1>8, <1>9, <1>10, <1>11, <1>12 DEF Next, Continue

(* Whichever statement or call fails and wherever the process dies, the     *)
(* enforcer has no targets but those the next start would restore, unless   *)
(* both a statement and a call have failed.                                 *)
THEOREM EnforcementIsRestorable == Spec => []EnforcedIsOnDisk
  <1>1. Init => SavedTargets /\ FaultsLeft /\ EnforcedTargets
    BY BoundsAssumption DEF Init, SavedTargets, FaultsLeft, EnforcedTargets
  <1>2. FaultsLeft /\ [Next]_vars => FaultsLeft'
    BY FaultsNext
  <1>3. SavedTargets /\ EnforcedTargets => EnforcedIsOnDisk
    BY DEF SavedTargets, EnforcedTargets, EnforcedIsOnDisk
  <1>. QED
    BY <1>1, <1>2, <1>3, SafeAlways, SavedTargetsNext, EnforcedTargetsNext, PTL DEF Spec

-----------------------------------------------------------------------------
(* With a store that works, memory and disk agree between requests and the  *)
(* table keeps the promise of SessionLifecycle.  (With a failing store      *)
(* neither holds: a start that fails to take its row back leaves it.)       *)

DiskInv ==
  /\ storeFaults = 0
  /\ pc = "down" => \A r, s \in live : r = s
  /\ pc = "apply" => live = {starting}
  /\ pc \notin {"down", "apply"} => live = {active} \ {NoSession}

(* such a step neither moves the clock nor leaves or enters a start or a crash *)
LEMMA OtherStepsStayInside ==
  ASSUME TypeOK, HandlerInv, OtherStep, storeFaults = 0
  PROVE  /\ storeFaults' = 0 /\ now' = now
         /\ \/ pc' = pc
            \/ pc \notin {"down", "apply"} /\ pc' \notin {"down", "apply"}
  BY DEF OtherStep, budget, Tick, PurgeSuppressions, NothingDue, EvaluateFails, StopSession,
         CreateSchedule, UpdateSchedule, StopUpdated, StopDeleted, DeleteRow,
         DeleteSchedule, EditTargets, EditSites, vars, ClearAndSuppress, Persist,
         StoreWorks, StoreFails

(* one step per action: the active row and the session in memory *)
LEMMA DiskNext ==
  TypeOK /\ HandlerInv /\ TableInv /\ TypeOK' /\ DiskInv /\ [Next]_vars => DiskInv'
  <1> SUFFICES ASSUME TypeOK, HandlerInv, TableInv, TypeOK', DiskInv, [Next]_vars
               PROVE  DiskInv'
    OBVIOUS
  <1> USE NoSessionFields DEF table, budget, StoreWorks, StoreFails
  <1>1. CASE OtherStep
    BY <1>1, TableUntouched, OtherStepsStayInside DEF DiskInv
  <1>2. CASE Advance
    BY <1>2, TableUntouched DEF Advance, DiskInv
  <1>3. ASSUME NEW m \in Modes, NEW d \in Durations, StartSession(m, d) PROVE DiskInv'
    BY <1>3 DEF StartSession, SaveLive, DiskInv
  <1>4. CASE Activate
    BY <1>4 DEF Activate, SaveLive, DiskInv
  <1>5. CASE Apply
    BY <1>5 DEF Apply, SaveEnded, HandlerInv, DiskInv
  <1>6. CASE CompleteExpired
    BY <1>6 DEF CompleteExpired, EndActive, SaveEnded, DiskInv
  <1>7. CASE TakeOver
    BY <1>7 DEF TakeOver, EndActive, SaveEnded, DiskInv
  <1>8. CASE StopSave
    BY <1>8 DEF StopSave, SaveEnded, DiskInv
  <1>9. CASE ResyncSession
    <2>1. /\ active \in Session /\ active' = Follow(active, UpdatedRow)
          /\ SaveLive(active') /\ storeFaults' = 0 /\ pc = "updated" /\ pc' = "idle"
      BY <1>9 DEF ResyncSession, HandlerInv, TypeOK, DiskInv
    <2>2. active'.id = active.id
      BY <2>1 DEF Follow, Session
    <2>3. live' = {active'} /\ active' # NoSession
      BY <2>1, <2>2 DEF SaveLive, DiskInv, Session
    <2>. QED BY <2>1, <2>3 DEF DiskInv
  <1>10. CASE SyncTargets
    <2> DEFINE candidate == [active EXCEPT !.targets = appTargets]
    <2>1. /\ active \in Session /\ storeFaults' = 0 /\ pc = "sync_targets" /\ pc' = "idle"
          /\ \/ SaveLive(candidate) /\ active' = candidate
             \/ UNCHANGED <<live, active>>
      BY <1>10 DEF SyncTargets, Install, HandlerInv, TypeOK, DiskInv
    <2>2. candidate.id = active.id /\ candidate # NoSession
      BY <2>1 DEF Session
    <2>. QED BY <2>1, <2>2 DEF SaveLive, DiskInv
  <1>11. CASE SyncSites
    <2> DEFINE candidate == [active EXCEPT !.sites = siteList]
    <2>1. /\ active \in Session /\ storeFaults' = 0 /\ pc = "sync_sites" /\ pc' = "idle"
          /\ SaveLive(candidate) /\ active' = candidate
      BY <1>11 DEF SyncSites, HandlerInv, TypeOK, DiskInv
    <2>2. candidate.id = active.id /\ candidate # NoSession
      BY <2>1 DEF Session
    <2>. QED BY <2>1, <2>2 DEF SaveLive, DiskInv
  <1>12. CASE ClearHistory
    BY <1>12 DEF ClearHistory, DiskInv
  <1>13. CASE Crash
    BY <1>13 DEF Crash, DiskInv
  <1>14. CASE Recover
    <2>1. /\ active = NoSession /\ storeFaults' = 0 /\ pc = "down" /\ pc' = "idle"
          /\ \A r, s \in live : r = s
      BY <1>14 DEF Recover, HandlerInv, DiskInv
    <2>2. CASE live = {}
      BY <1>14, <2>1, <2>2 DEF Recover, Latest, DiskInv
    <2>3. ASSUME NEW s \in live PROVE DiskInv'
      <3>1. live = {s} /\ s # NoSession
        BY <2>1, <2>3 DEF TypeOK
      <3>. QED BY <1>14, <2>1, <3>1 DEF Recover, Latest, SaveEnded, DiskInv
    <2>. QED BY <2>2, <2>3
  <1>. QED
    BY <1>1, <1>2, <1>3, <1>4, <1>5, <1>6, <1>7, <1>8, <1>9, <1>10, <1>11, <1>12, <1>13, <1>14
    DEF Next, Request, Continue, OtherStep

(* the disk invariant holds while the store works *)
LEMMA DiskAlways == ASSUME MaxStoreFaults = 0 PROVE Spec => []DiskInv
  <1>1. Init => DiskInv
    BY DEF Init, DiskInv
  <1>. QED BY <1>1, SafeAlways, TableAlways, DiskNext, PTL DEF Spec

(* While every SQL statement succeeds, a restart between requests finds     *)
(* exactly the session in memory: crashes and failing enforcement calls     *)
(* leave no second active row and no stale one.                             *)
THEOREM RestartContinuesPolicy ==
  ASSUME MaxStoreFaults = 0 PROVE Spec => []DiskMatchesMemory
  <1>1. DiskInv => DiskMatchesMemory
    BY DEF DiskInv, DiskMatchesMemory
  <1>. QED BY <1>1, DiskAlways, PTL

Open == {Entry(s) : s \in live}

(* the abstract view of a table with one active row *)
LEMMA OneOpen == ASSUME NEW s, live = {s} PROVE Open = {Entry(s)}
  BY DEF Open

(* the abstract view of a row: its end, reached when the session has expired *)
LEMMA EntryIsDue ==
  ASSUME NEW s \in Session
  PROVE  /\ Entry(s).id = s.id /\ Entry(s).due \in Nat
         /\ now \in Nat /\ Expired(s) => Entry(s).due # 0 /\ now >= Entry(s).due
  <1>1. s.planned > 0 => s.planned * PerSec > 0
    BY ClockAssumption DEF Session
  <1>. QED BY <1>1, DeadlineIsWhole, ClockAssumption DEF Entry, Expired, Deadline, Session

(* the first row of a session begins it *)
LEMMA OpensOne ==
  ASSUME TypeOK, TableInv, live = {}, SaveLive(starting'), starting' \in Session,
         starting'.id = nextId, nextId' = nextId + 1, now' = now
  PROVE  Lifecycle!Next
  <1>1. live' = {starting'} /\ history' = history
    BY DEF SaveLive, TableInv, TypeOK
  <1>2. Open = {} /\ Open' = {Entry(starting')}
    BY <1>1 DEF Open
  <1>3. Entry(starting').id = nextId /\ Entry(starting').due \in Nat
    BY EntryIsDue
  <1>. QED
    BY <1>1, <1>2, <1>3 DEF Lifecycle!Next, Lifecycle!Begin, Open

(* saving the only active row as ended closes its session *)
LEMMA ClosesOne ==
  ASSUME TypeOK, TableInv, NEW s \in Session, live = {s}, NEW outcome \in Outcomes,
         SaveEnded(s, outcome), outcome = "completed" => Expired(s),
         UNCHANGED <<now, nextId>>
  PROVE  Lifecycle!Next
  <1>1. live' = {} /\ history' = history \cup {[id |-> s.id, outcome |-> outcome]}
    BY DEF SaveEnded, TableInv, RunningSessionIsOnDisk
  <1>2. Open = {Entry(s)} /\ Open' = {} /\ Entry(s).id = s.id
    BY <1>1, OneOpen, EntryIsDue DEF Open
  <1>3. Lifecycle!Close(Entry(s), outcome)
    BY <1>1, <1>2 DEF Lifecycle!Close, Open
  <1>4. CASE outcome = "completed"
    BY <1>2, <1>3, <1>4, EntryIsDue DEF Lifecycle!Next, Lifecycle!Complete, Open, TypeOK
  <1>5. CASE outcome = "stopped"
    BY <1>2, <1>3, <1>5 DEF Lifecycle!Next, Lifecycle!Stop, Open
  <1>. QED BY <1>4, <1>5 DEF Outcomes

(* saving the running session under its id moves its end at most *)
LEMMA ReplansOne ==
  ASSUME TypeOK, TableInv, live = {active}, active \in Session, active' \in Session,
         active'.id = active.id, SaveLive(active'), UNCHANGED <<now, nextId>>
  PROVE  Lifecycle!Next
  <1>1. live' = {active'} /\ history' = history
    BY DEF SaveLive, TableInv, RunningSessionIsOnDisk
  <1>2. Open = {Entry(active)} /\ Open' = {Entry(active')}
    BY <1>1 DEF Open
  <1>3. Entry(active).id = active.id /\ Entry(active').id = active.id
        /\ Entry(active').due \in Nat
    BY EntryIsDue
  <1>. QED BY <1>1, <1>2, <1>3 DEF Lifecycle!Next, Lifecycle!Replan, Open

(* one step per action: which step of SessionLifecycle it is, or none *)
LEMMA LifecycleNext ==
  TypeOK /\ HandlerInv /\ TableInv /\ DiskInv /\ TypeOK' /\ [Next]_vars
    => [Lifecycle!Next]_Lifecycle!vars
  <1> DEFINE Goal == [Lifecycle!Next]_Lifecycle!vars
  <1> SUFFICES ASSUME TypeOK, HandlerInv, TableInv, DiskInv, TypeOK', [Next]_vars
               PROVE  Goal
    OBVIOUS
  <1> USE NoSessionFields DEF table, budget, StoreWorks, StoreFails
  <1>1. ASSUME UNCHANGED <<now, live, history, nextId>> PROVE Goal
    BY <1>1 DEF Lifecycle!vars
  <1>2. CASE OtherStep
    BY <1>1, <1>2, TableUntouched, OtherStepsStayInside DEF DiskInv
  <1>3. CASE Advance
    <2>1. now' = now + 1 /\ UNCHANGED <<live, history, nextId>>
      BY <1>3 DEF Advance
    <2>. QED BY <2>1 DEF Lifecycle!Next, Lifecycle!Pass
  <1>4. ASSUME NEW m \in Modes, NEW d \in Durations, StartSession(m, d) PROVE Goal
    <2>1. /\ live = {} /\ SaveLive(starting') /\ starting'.id = nextId
          /\ nextId' = nextId + 1 /\ now' = now
      BY <1>4 DEF StartSession, NewSession, DiskInv
    <2>2. starting' \in Session
      BY <2>1 DEF SaveLive, TypeOK
    <2>. QED BY <2>1, <2>2, OpensOne
  <1>5. CASE Activate
    <2>1. /\ live = {} /\ SaveLive(starting') /\ starting'.id = nextId
          /\ nextId' = nextId + 1 /\ now' = now
      BY <1>5 DEF Activate, NewSession, DiskInv
    <2>2. starting' \in Session
      BY <2>1 DEF SaveLive, TypeOK
    <2>. QED BY <2>1, <2>2, OpensOne
  <1>6. CASE Apply
    <2>1. /\ starting \in Session /\ live = {starting} /\ UNCHANGED <<now, nextId>>
          /\ SaveEnded(starting, "stopped") \/ UNCHANGED <<live, history>>
      BY <1>6 DEF Apply, HandlerInv, TypeOK, DiskInv
    <2>. QED BY <1>1, <2>1, ClosesOne DEF Outcomes
  <1>7. ASSUME NEW outcome \in Outcomes, active # NoSession, live = {active},
               outcome = "completed" => Expired(active), UNCHANGED <<now, nextId>>,
               SaveEnded(active, outcome) \/ UNCHANGED <<live, history>>
        PROVE  Goal
    <2>1. active \in Session
      BY <1>7 DEF TypeOK
    <2>. QED BY <1>1, <1>7, <2>1, ClosesOne
  <1>8. CASE CompleteExpired
    <2>1. /\ active # NoSession /\ live = {active} /\ Expired(active)
          /\ UNCHANGED <<now, nextId>>
          /\ SaveEnded(active, "completed") \/ UNCHANGED <<live, history>>
      BY <1>8, EndActiveOutcomes DEF CompleteExpired, DiskInv
    <2>. QED BY <1>7, <2>1 DEF Outcomes
  <1>9. CASE TakeOver
    <2>1. /\ active # NoSession /\ live = {active} /\ UNCHANGED <<now, nextId>>
          /\ SaveEnded(active, "stopped") \/ UNCHANGED <<live, history>>
      BY <1>9, EndActiveOutcomes DEF TakeOver, DiskInv
    <2>. QED BY <1>7, <2>1 DEF Outcomes
  <1>10. CASE StopSave
    <2>1. /\ active # NoSession /\ live = {active} /\ UNCHANGED <<now, nextId>>
          /\ SaveEnded(active, "stopped") \/ UNCHANGED <<live, history>>
      BY <1>10 DEF StopSave, HandlerInv, DiskInv
    <2>. QED BY <1>7, <2>1 DEF Outcomes
  <1>11. ASSUME active \in Session, live = {active}, active'.id = active.id,
                SaveLive(active'), UNCHANGED <<now, nextId>>
         PROVE  Goal
    <2>1. active' \in Session
      BY <1>11 DEF SaveLive, TypeOK
    <2>. QED BY <1>11, <2>1, ReplansOne
  <1>12. CASE ResyncSession
    <2>1. /\ active \in Session /\ live = {active} /\ active' = Follow(active, UpdatedRow)
          /\ SaveLive(active') /\ UNCHANGED <<now, nextId>>
      BY <1>12 DEF ResyncSession, HandlerInv, TypeOK, DiskInv
    <2>2. active'.id = active.id
      BY <2>1 DEF Follow, Session
    <2>. QED BY <1>11, <2>1, <2>2
  <1>13. CASE SyncTargets
    <2> DEFINE candidate == [active EXCEPT !.targets = appTargets]
    <2>1. /\ active \in Session /\ live = {active} /\ UNCHANGED <<now, nextId>>
          /\ \/ SaveLive(active') /\ active' = candidate
             \/ UNCHANGED <<live, history>>
      BY <1>13 DEF SyncTargets, Install, SaveLive, HandlerInv, TypeOK, DiskInv
    <2>2. candidate.id = active.id
      BY <2>1 DEF Session
    <2>. QED BY <1>1, <1>11, <2>1, <2>2
  <1>14. CASE SyncSites
    <2>1. /\ active \in Session /\ live = {active} /\ UNCHANGED <<now, nextId>>
          /\ SaveLive(active') /\ active' = [active EXCEPT !.sites = siteList]
      BY <1>14 DEF SyncSites, HandlerInv, TypeOK, DiskInv
    <2>2. active'.id = active.id
      BY <2>1 DEF Session
    <2>. QED BY <1>11, <2>1, <2>2
  <1>15. CASE ClearHistory
    BY <1>15 DEF ClearHistory, Lifecycle!Next, Lifecycle!ForgetEnded
  <1>16. CASE Crash
    BY <1>1, <1>16 DEF Crash
  <1>17. CASE Recover
    <2>1. /\ UNCHANGED <<now, nextId>> /\ pc = "down"
          /\ \/ UNCHANGED <<live, history>>
             \/ \E s \in live : Expired(s) /\ SaveEnded(s, "completed")
      BY <1>17 DEF Recover, Latest
    <2>2. ASSUME NEW s \in live, Expired(s), SaveEnded(s, "completed") PROVE Goal
      <3>1. live = {s} /\ s \in Session
        BY <2>1, <2>2 DEF DiskInv, TypeOK
      <3>. QED BY <2>1, <2>2, <3>1, ClosesOne DEF Outcomes
    <2>. QED BY <1>1, <2>1, <2>2
  <1>. QED
    BY <1>2, <1>3, <1>4, <1>5, <1>6, <1>8, <1>9, <1>10, <1>12, <1>13, <1>14, <1>15, <1>16,
       <1>17
    DEF Next, Request, Continue, OtherStep

(* While every SQL statement succeeds, the sessions table implements        *)
(* SessionLifecycle, across crashes at every write and failing enforcement: *)
(* sessions begin one at a time under fresh ids, each ends once and for     *)
(* good, and none is called completed before its end.                       *)
THEOREM TableImplementsLifecycle ==
  ASSUME MaxStoreFaults = 0 PROVE Spec => ImplementsLifecycle
  <1>1. Init => Lifecycle!Init
    BY DEF Init, Lifecycle!Init
  <1>. QED
    BY <1>1, SafeAlways, TableAlways, DiskAlways, LifecycleNext, PTL
    DEF Spec, ImplementsLifecycle, Lifecycle!Spec

-----------------------------------------------------------------------------
(* Schedules: what validate_schedule checks once keeps holding as days pass *)

KeptApart ==
  \A a, b \in schedules : a.id # b.id =>
    \/ EndedBefore(a, Day) \/ EndedBefore(b, Day)
    \/ a.days \cap b.days = {}
    \/ ~(a.start < b.end /\ a.end > b.start)

(* days do not go back *)
LEMMA DaysPass ==
  ASSUME NEW t \in Nat
  PROVE  t \div DayLen \in Nat /\ t \div DayLen <= (t + 1) \div DayLen
  BY ClockAssumption

(* schedules kept apart are never in their window together *)
LEMMA KeptApartSuffices == TypeOK /\ KeptApart => SchedulesDisjoint
  <1> SUFFICES ASSUME TypeOK, KeptApart, NEW a \in schedules, NEW b \in schedules,
                      a.id # b.id, ActiveNow(a), ActiveNow(b)
               PROVE  FALSE
    BY DEF SchedulesDisjoint
  <1>1. Day % WeekLen \in a.days \cap b.days
    BY DEF ActiveNow
  <1>2. /\ a.start \in Int /\ b.start \in Int /\ a.end \in Int /\ b.end \in Int
        /\ DayTime \in Int
    BY ClockAssumption DEF TypeOK, Schedule, DayTime
  <1>3. a.start < b.end /\ a.end > b.start
    BY <1>2 DEF ActiveNow
  <1>. QED BY <1>1, <1>3 DEF KeptApart, ActiveNow

(* validation keeps a new or edited schedule apart from the others, and the
   passing of days only ends schedules *)
LEMMA KeptApartNext == TypeOK /\ KeptApart /\ [Next]_vars => KeptApart'
  <1> SUFFICES ASSUME TypeOK, KeptApart, [Next]_vars PROVE KeptApart'
    OBVIOUS
  <1> USE DEF requests
  <1>1. ASSUME schedules' \subseteq schedules, now' = now PROVE KeptApart'
    BY <1>1 DEF KeptApart, Day, EndedBefore
  <1>2. ASSUME NEW i \in ScheduleIds, NEW p \in Plans, now' = now,
               Valid(WithId(i, p)), schedules' \subseteq schedules \cup {WithId(i, p)}
        PROVE  KeptApart'
    <2>1. \A o \in schedules : ~Conflict(WithId(i, p), o)
      BY <1>2 DEF Valid
    <2>. QED BY <1>2, <2>1 DEF KeptApart, Conflict, Day, EndedBefore
  <1>3. ASSUME NEW i \in ScheduleIds, NEW p \in Plans, CreateSchedule(i, p) PROVE KeptApart'
    BY <1>2, <1>3 DEF CreateSchedule
  <1>4. ASSUME NEW i \in ScheduleIds, NEW p \in Plans, UpdateSchedule(i, p) PROVE KeptApart'
    BY <1>2, <1>4 DEF UpdateSchedule
  <1>5. CASE DeleteRow
    BY <1>1, <1>5 DEF DeleteRow
  <1>6. CASE Advance
    <2>1. schedules' = schedules /\ now' = now + 1
      BY <1>6 DEF Advance
    <2>2. Day \in Nat /\ Day' \in Nat /\ Day <= Day'
      BY <2>1, DaysPass DEF Day, TypeOK
    <2>3. \A s \in schedules : EndedBefore(s, Day) => EndedBefore(s, Day')
      BY <2>2 DEF EndedBefore, TypeOK, Schedule
    <2>. QED BY <2>1, <2>3 DEF KeptApart
  <1>7. CASE \/ \E m \in Modes, d \in Durations : StartSession(m, d)
             \/ \E i \in ScheduleIds : DeleteSchedule(i)
             \/ \E t \in Targets : EditTargets(t)
             \/ \E e \in Sites : EditSites(e)
             \/ ClearHistory \/ Apply \/ StopSave \/ ResyncSession \/ SyncTargets
             \/ SyncSites \/ Crash \/ Recover
    <2>1. UNCHANGED <<schedules, now>>
      BY <1>7 DEF StartSession, DeleteSchedule, EditTargets, EditSites, ClearHistory, Apply,
                  StopSave, ResyncSession, SyncTargets, SyncSites, Crash, Recover
    <2>. QED BY <1>1, <2>1
  <1>8. CASE \/ Tick \/ CompleteExpired \/ PurgeSuppressions \/ NothingDue \/ TakeOver
             \/ Activate \/ EvaluateFails \/ StopSession \/ StopUpdated \/ StopDeleted
             \/ UNCHANGED vars
    <2>1. UNCHANGED <<schedules, now>>
      BY <1>8 DEF Tick, CompleteExpired, PurgeSuppressions, NothingDue, TakeOver, Activate,
                  EvaluateFails, StopSession, StopUpdated, StopDeleted, ClearAndSuppress, vars
    <2>. QED BY <1>1, <2>1
  <1>. QED
    BY <1>3, <1>4, <1>5, <1>6, <1>7, <1>8 DEF Next, Request, Continue

(* Whatever schedules clients submit on whatever days, in any order, no two *)
(* accepted schedules are ever in their window at the same time.            *)
THEOREM SchedulesNeverOverlap == Spec => []SchedulesDisjoint
  <1>1. Init => KeptApart
    BY DEF Init, KeptApart
  <1>. QED
    BY <1>1, SafeAlways, KeptApartNext, KeptApartSuffices, PTL DEF Spec

-----------------------------------------------------------------------------
(* Between requests, while neither the store nor the enforcer fails *)

NoFaults == storeFaults = 0 /\ enforcerFaults = 0

(* the budget of faults is never refilled *)
LEMMA NoFaultsNext ==
  ASSUME NoFaults, [Next]_vars
  PROVE  NoFaults' /\ ~StoreFails /\ ~EnforcerFails
  <1> USE DEF NoFaults, StoreFails, EnforcerFails
  <1>1. ~StoreFails /\ ~EnforcerFails
    OBVIOUS
  <1>2. CASE \/ Request \/ Tick \/ CompleteExpired \/ UNCHANGED vars
    BY <1>2 DEF Request, Tick, CompleteExpired, EndActive, Clear, StoreWorks,
                EnforcerWorks, StartSession, StopSession, ClearAndSuppress, Persist,
                CreateSchedule, UpdateSchedule, DeleteSchedule, EditTargets, EditSites,
                ClearHistory, budget, vars
  <1>3. CASE Continue
    BY <1>3 DEF Continue, Apply, PurgeSuppressions, NothingDue, TakeOver, Activate,
                EvaluateFails, StopSave, ResyncSession, StopUpdated, StopDeleted,
                DeleteRow, SyncTargets, SyncSites, EndActive, Clear, ClearAndSuppress,
                Persist, StoreWorks, EnforcerWorks, budget
  <1>4. CASE Crash \/ Recover \/ Advance
    BY <1>4 DEF Crash, Recover, Advance, StoreWorks, EnforcerWorks, budget
  <1>. QED BY <1>1, <1>2, <1>3, <1>4 DEF Next

(* enforcement is off only between a stop and the row that records it *)
EnforceInv ==
  pc \notin {"stop", "stop_update", "stop_delete"} => enforced = active.targets

(* the enforcer follows the snapshot in every step that can change either *)
LEMMA EnforceNext ==
  TypeOK /\ HandlerInv /\ NothingEnforcedWithoutSession /\ NoFaults /\ EnforceInv
    /\ [Next]_vars => EnforceInv'
  <1> SUFFICES ASSUME TypeOK, HandlerInv, NothingEnforcedWithoutSession, NoFaults,
                      EnforceInv, [Next]_vars
               PROVE  EnforceInv'
    OBVIOUS
  <1>0. ~StoreFails /\ ~EnforcerFails
    BY NoFaultsNext
  <1> USE NoSessionFields DEF budget
  <1>1. ASSUME UNCHANGED <<active, enforced>>, pc \notin {"stop", "stop_update", "stop_delete"}
        PROVE  EnforceInv'
    BY <1>1 DEF EnforceInv
  <1>2. CASE Request
    BY <1>1, <1>2 DEF Request, StartSession, StopSession, ClearAndSuppress, CreateSchedule,
         UpdateSchedule, DeleteSchedule, EditTargets, EditSites, ClearHistory, EnforceInv
  <1>3. CASE Tick \/ CompleteExpired \/ TakeOver
    BY <1>0, <1>3 DEF Tick, CompleteExpired, TakeOver, EndActive, Clear, EnforceInv
  <1>4. CASE Apply
    BY <1>0, <1>4 DEF Apply, EnforceInv
  <1>5. CASE PurgeSuppressions \/ NothingDue \/ Activate \/ EvaluateFails \/ DeleteRow
    BY <1>1, <1>5 DEF PurgeSuppressions, NothingDue, Activate, EvaluateFails, DeleteRow
  <1>6. CASE StopSave
    BY <1>0, <1>6 DEF StopSave, HandlerInv, EnforceInv
  <1>7. CASE ResyncSession
    <2>1. active \in Session /\ active' = Follow(active, UpdatedRow)
      BY <1>7 DEF ResyncSession, HandlerInv, TypeOK
    <2>2. active'.targets = active.targets
      BY <2>1 DEF Follow, Session
    <2>. QED BY <1>0, <1>7, <2>2 DEF ResyncSession, EnforceInv
  <1>8. CASE StopUpdated \/ StopDeleted
    BY <1>0, <1>8 DEF StopUpdated, StopDeleted, ClearAndSuppress, EnforceInv
  <1>9. CASE SyncTargets
    BY <1>0, <1>9 DEF SyncTargets, Install, EnforceInv
  <1>10. CASE SyncSites
    <2>1. active \in Session
      BY <1>10 DEF SyncSites, HandlerInv, TypeOK
    <2>2. active'.targets = active.targets
      BY <1>10, <2>1 DEF SyncSites, Session
    <2>. QED BY <1>10, <2>2 DEF SyncSites, EnforceInv
  <1>11. CASE Crash \/ Recover \/ Advance \/ UNCHANGED vars
    BY <1>0, <1>11 DEF Crash, Recover, Advance, HandlerInv, vars, EnforceInv
  <1>. QED
    BY <1>2, <1>3, <1>4, <1>5, <1>6, <1>7, <1>8, <1>9, <1>10, <1>11 DEF Next, Continue

(* where the bounds allow no failure, none happens *)
LEMMA NoFaultsAlways ==
  ASSUME MaxStoreFaults = 0, MaxEnforcerFaults = 0 PROVE Spec => []NoFaults
  <1>1. Init => NoFaults
    BY DEF Init, NoFaults
  <1>2. NoFaults /\ [Next]_vars => NoFaults'
    BY NoFaultsNext
  <1>. QED BY <1>1, <1>2, PTL DEF Spec

(* While no statement and no enforcement call fails, the enforcer terminates *)
(* between requests exactly the targets of the snapshot, also after any      *)
(* number of crashes.                                                        *)
THEOREM EnforcedAsSnapshot ==
  ASSUME MaxStoreFaults = 0, MaxEnforcerFaults = 0
  PROVE  Spec => []EnforcementMatchesSnapshot
  <1>1. Init => EnforceInv
    BY NoSessionFields DEF Init, EnforceInv
  <1>2. EnforceInv => EnforcementMatchesSnapshot
    BY DEF EnforceInv, EnforcementMatchesSnapshot
  <1>. QED BY <1>1, <1>2, SafeAlways, NoFaultsAlways, EnforceNext, PTL DEF Spec

-----------------------------------------------------------------------------
(* Without crashes, too: the snapshots, and the window of the schedule      *)

(* the service starts once and finds no session *)
FirstRun ==
  /\ NoFaults /\ restarts = 0
  /\ pc = "down" => live = {}

(* no crash, no failure: the first run never ends *)
LEMMA FirstRunNext == TypeOK /\ HandlerInv /\ FirstRun /\ [Next]_vars => FirstRun'
  <1> SUFFICES ASSUME TypeOK, HandlerInv, FirstRun, [Next]_vars PROVE FirstRun'
    OBVIOUS
  <1>1. NoFaults'
    BY NoFaultsNext DEF FirstRun
  <1> USE DEF budget, table, FirstRun
  <1>2. CASE Request \/ Tick \/ CompleteExpired \/ TakeOver \/ UNCHANGED vars
    BY <1>1, <1>2 DEF Request, Tick, CompleteExpired, TakeOver, EndActive, StartSession,
         StopSession, ClearAndSuppress, CreateSchedule, UpdateSchedule, DeleteSchedule,
         EditTargets, EditSites, ClearHistory, vars
  <1>3. CASE Continue
    BY <1>1, <1>3 DEF Continue, Apply, PurgeSuppressions, NothingDue, TakeOver, Activate,
         EvaluateFails, StopSave, ResyncSession, StopUpdated, StopDeleted, DeleteRow,
         SyncTargets, SyncSites, EndActive, ClearAndSuppress
  <1>4. CASE Crash \/ Recover \/ Advance
    BY <1>1, <1>4 DEF Crash, Recover, Advance
  <1>. QED BY <1>2, <1>3, <1>4 DEF Next

(* where the bounds allow no crash either, the first run is the only one *)
LEMMA FirstRunAlways ==
  ASSUME MaxStoreFaults = 0, MaxEnforcerFaults = 0, MaxRestarts = 0
  PROVE  Spec => []FirstRun
  <1>1. Init => FirstRun
    BY DEF Init, FirstRun, NoFaults
  <1>. QED BY <1>1, SafeAlways, FirstRunNext, PTL DEF Spec

(* each list is copied before the next request is taken *)
CurrentInv ==
  /\ starting # NoSession => starting.targets = appTargets /\ starting.sites = siteList
  /\ active # NoSession =>
       /\ pc # "sync_targets" => active.targets = appTargets
       /\ pc # "sync_sites" => active.sites = siteList

(* an edit of a list is followed by its sync before the next request *)
LEMMA CurrentNext ==
  TypeOK /\ HandlerInv /\ FirstRun /\ CurrentInv /\ [Next]_vars => CurrentInv'
  <1> SUFFICES ASSUME TypeOK, HandlerInv, FirstRun, CurrentInv, [Next]_vars
               PROVE  CurrentInv'
    OBVIOUS
  <1>0. ~StoreFails /\ ~EnforcerFails
    BY NoFaultsNext DEF FirstRun
  <1> USE NoSessionFields DEF requests
  <1>1. ASSUME UNCHANGED <<active, starting, appTargets, siteList>>,
               pc \notin {"sync_targets", "sync_sites"}
        PROVE  CurrentInv'
    BY <1>1 DEF CurrentInv
  <1>2. ASSUME NEW m \in Modes, NEW d \in Durations, StartSession(m, d) PROVE CurrentInv'
    <2>1. starting' = NewSession(0, m, d, siteList \ {})
      BY <1>0, <1>2 DEF StartSession
    <2>2. starting'.targets = appTargets /\ starting'.sites = siteList
      BY <2>1 DEF NewSession
    <2>. QED BY <1>2, <2>2 DEF StartSession, CurrentInv
  <1>3. CASE Activate
    <2>1. starting'.targets = appTargets /\ starting'.sites = siteList
      BY <1>3 DEF Activate, NewSession
    <2>. QED BY <1>3, <2>1 DEF Activate, CurrentInv
  <1>4. CASE Apply
    BY <1>0, <1>4 DEF Apply, CurrentInv
  <1>5. CASE CompleteExpired \/ TakeOver \/ StopSave
    BY <1>0, <1>1, <1>5 DEF CompleteExpired, TakeOver, EndActive, StopSave, CurrentInv
  <1>6. CASE ResyncSession
    <2>1. active \in Session /\ active' = Follow(active, UpdatedRow)
      BY <1>6 DEF ResyncSession, HandlerInv, TypeOK
    <2>2. active'.targets = active.targets /\ active'.sites = active.sites
      BY <2>1 DEF Follow, Session
    <2>. QED BY <1>6, <2>1, <2>2 DEF ResyncSession, CurrentInv
  <1>7. CASE SyncTargets
    <2>1. /\ active \in Session /\ active' = [active EXCEPT !.targets = appTargets]
          /\ starting = NoSession
      BY <1>0, <1>7 DEF SyncTargets, Install, HandlerInv, TypeOK
    <2>2. active'.targets = appTargets /\ active'.sites = active.sites
      BY <2>1 DEF Session
    <2>. QED BY <1>7, <2>1, <2>2 DEF SyncTargets, HandlerInv, CurrentInv
  <1>8. CASE SyncSites
    <2>1. /\ active \in Session /\ active' = [active EXCEPT !.sites = siteList]
          /\ starting = NoSession
      BY <1>0, <1>8 DEF SyncSites, HandlerInv, TypeOK
    <2>2. active'.targets = active.targets /\ active'.sites = siteList
      BY <2>1 DEF Session
    <2>. QED BY <1>8, <2>1, <2>2 DEF SyncSites, HandlerInv, CurrentInv
  <1>9. ASSUME NEW t \in Targets, EditTargets(t) PROVE CurrentInv'
    BY <1>9 DEF EditTargets, HandlerInv, CurrentInv
  <1>10. ASSUME NEW e \in Sites, EditSites(e) PROVE CurrentInv'
    BY <1>10 DEF EditSites, HandlerInv, CurrentInv
  <1>11. CASE Crash
    BY <1>11 DEF Crash, FirstRun
  <1>12. CASE Recover
    BY <1>12 DEF Recover, Latest, FirstRun, HandlerInv, CurrentInv
  <1>13. CASE \/ StopSession \/ ClearHistory \/ Tick \/ PurgeSuppressions \/ NothingDue
              \/ \E i \in ScheduleIds, p \in Plans : CreateSchedule(i, p) \/ UpdateSchedule(i, p)
              \/ \E i \in ScheduleIds : DeleteSchedule(i)
              \/ EvaluateFails \/ StopUpdated \/ StopDeleted \/ DeleteRow \/ Advance
    BY <1>1, <1>13
    DEF StopSession, ClearHistory, Tick, PurgeSuppressions, NothingDue, CreateSchedule,
        UpdateSchedule, DeleteSchedule, EvaluateFails, StopUpdated, StopDeleted, DeleteRow,
        Advance, ClearAndSuppress
  <1>14. CASE UNCHANGED vars
    BY <1>14 DEF vars, CurrentInv
  <1>. QED
    BY <1>2, <1>3, <1>4, <1>5, <1>6, <1>7, <1>8, <1>9, <1>10, <1>11, <1>12, <1>13, <1>14
    DEF Next, Request, Continue

(* While nothing fails and no crash comes between an edit and the copy of   *)
(* it, the snapshots of the running session are the permanent lists         *)
(* whenever a request is taken.                                             *)
THEOREM SnapshotStaysCurrent ==
  ASSUME MaxStoreFaults = 0, MaxEnforcerFaults = 0, MaxRestarts = 0
  PROVE  Spec => []SnapshotIsCurrent
  <1>1. Init => CurrentInv
    BY DEF Init, CurrentInv
  <1>2. CurrentInv => SnapshotIsCurrent
    BY DEF CurrentInv, SnapshotIsCurrent
  <1>. QED BY <1>1, <1>2, SafeAlways, FirstRunAlways, CurrentNext, PTL DEF Spec

-----------------------------------------------------------------------------
(* only multiple of a length within less than the length is zero *)
LEMMA ShortMultiple ==
  ASSUME NEW n \in Nat \ {0}, NEW k \in Int, -n < k * n, k * n < n
  PROVE  k = 0
  <1>1. ASSUME k >= 1 PROVE FALSE
    <2>1. (k - 1) * n >= 0
      BY <1>1
    <2>2. k * n = (k - 1) * n + n
      OBVIOUS
    <2>. QED BY <2>1, <2>2
  <1>2. ASSUME k <= -1 PROVE FALSE
    <2>1. (-1 - k) * n >= 0
      BY <1>2
    <2>2. k * n = -((-1 - k) * n) - n
      OBVIOUS
    <2>. QED BY <2>1, <2>2
  <1>. QED BY <1>1, <1>2

(* a sum with a multiple has the same remainder *)
LEMMA ModuloShift ==
  ASSUME NEW n \in Nat \ {0}, NEW d \in Int, NEW e \in Int
  PROVE  (d * n + e) % n = e % n
  <1> DEFINE q == (d * n + e) \div n
             r == (d * n + e) % n
             p == e \div n
             m == e % n
  <1>0. d * n + e \in Int
    OBVIOUS
  <1>1. /\ q \in Int /\ r \in 0..(n - 1) /\ d * n + e = q * n + r
    BY <1>0
  <1>2. /\ p \in Int /\ m \in 0..(n - 1) /\ e = p * n + m
    OBVIOUS
  <1> HIDE DEF q, r, p, m
  <1>3. (d + p - q) * n = r - m
    <2>1. (d + p - q) * n = d * n + p * n - q * n
      BY <1>1, <1>2
    <2>. QED BY <2>1, <1>1, <1>2
  <1>4. d + p - q = 0
    BY <1>1, <1>2, <1>3, ShortMultiple
  <1>5. r = m
    BY <1>1, <1>2, <1>3, <1>4
  <1>. QED BY <1>5 DEF r, m

(* whole seconds, one at least, reach the end of a window to within a second *)
LEMMA SecondsReach ==
  ASSUME NEW from \in Int, NEW end \in Int, from < end,
         NEW reached, reached = from + Seconds(from, end) * PerSec
  PROVE  end \in (reached - PerSec + 1)..(reached + PerSec - 1)
  <1> DEFINE whole == (end - from) \div PerSec
             rest  == (end - from) % PerSec
  <1>1. PerSec \in Nat \ {0} /\ end - from \in Int
    BY ClockAssumption
  <1>2. whole \in Int /\ rest \in 0..(PerSec - 1) /\ end - from = whole * PerSec + rest
    BY <1>1
  <1>3. Seconds(from, end) = IF whole >= 1 THEN whole ELSE 1
    BY DEF Seconds
  <1> HIDE DEF whole, rest
  <1>4. whole * PerSec \in Int
    BY <1>1, <1>2
  <1>5. CASE whole >= 1
    BY <1>1, <1>2, <1>3, <1>4, <1>5
  <1>6. CASE ~(whole >= 1)
    <2>1. -whole * PerSec >= 0
      BY <1>1, <1>2, <1>6
    <2>2. end - from <= PerSec - 1
      BY <1>1, <1>2, <1>4, <2>1
    <2>3. Seconds(from, end) * PerSec = PerSec
      BY <1>1, <1>3, <1>6
    <2>. QED BY <1>1, <2>2, <2>3
  <1>. QED BY <1>5, <1>6

(* the running session s has the mode and an end of the window of its schedule *)
Follows(s) ==
  \E r \in schedules :
    /\ r.id = s.sched /\ r.mode = s.mode
    /\ \E end \in (Deadline(s) - PerSec + 1)..(Deadline(s) + PerSec - 1) :
         end % DayLen = r.end % DayLen

(* a plan of whole seconds until the end of the window of a schedule active now *)
LEMMA PlanFollows ==
  ASSUME TypeOK, NEW r \in schedules, ActiveNow(r), NEW s \in Session,
         s.sched = r.id, s.mode = r.mode, s.started <= now,
         s.planned = Seconds(s.started, WindowEnd(r))
  PROVE  Follows(s)
  <1>1. /\ now \in Int /\ s.started \in Int /\ r.end \in Int /\ WindowEnd(r) \in Int
        /\ Day \in Int /\ DayLen \in Nat \ {0}
    BY WindowEndIsWhole, DivisionIsWhole, ClockAssumption
    DEF TypeOK, Session, Schedule, Day
  <1>2. now < WindowEnd(r)
    <2>1. now = (now \div DayLen) * DayLen + (now % DayLen)
      BY <1>1
    <2>2. now % DayLen < r.end
      BY DEF ActiveNow, DayTime
    <2>3. now \div DayLen \in Int /\ now % DayLen \in Int
      BY <1>1
    <2> DEFINE whole == (now \div DayLen) * DayLen
    <2>4. whole \in Int
      BY <1>1, <2>3
    <2>. QED BY <1>1, <2>1, <2>2, <2>3, <2>4 DEF WindowEnd, Day
  <1>3. WindowEnd(r) \in (Deadline(s) - PerSec + 1)..(Deadline(s) + PerSec - 1)
    <2>1. s.started < WindowEnd(r)
      BY <1>1, <1>2
    <2>2. Deadline(s) = s.started + Seconds(s.started, WindowEnd(r)) * PerSec
      BY DEF Deadline
    <2>. QED BY <1>1, <2>1, <2>2, SecondsReach
  <1>4. WindowEnd(r) % DayLen = r.end % DayLen
    BY <1>1, ModuloShift DEF WindowEnd
  <1>. QED BY <1>3, <1>4 DEF Follows

FollowInv ==
  /\ starting.started <= now /\ active.started <= now
  /\ starting.sched # 0 => Follows(starting)
  /\ active.sched # 0 /\ pc \notin {"updated", "stop_update"} => Follows(active)
  /\ pc = "delete_row" /\ active.sched # 0 => active.sched # subject

(* one step per action: only a schedule in its window starts a session or   *)
(* keeps an edited one, and a schedule goes only after its session          *)
LEMMA FollowNext ==
  TypeOK /\ HandlerInv /\ FirstRun /\ FollowInv /\ [Next]_vars => FollowInv'
  <1> SUFFICES ASSUME TypeOK, HandlerInv, FirstRun, FollowInv, [Next]_vars
               PROVE  FollowInv'
    OBVIOUS
  <1>0. ~StoreFails /\ ~EnforcerFails /\ now \in Nat
    BY NoFaultsNext DEF FirstRun, TypeOK
  <1>n. NoSession.started = 0
    BY DEF NoSession
  <1> USE NoSessionFields, <1>n DEF requests
  <1>1. ASSUME UNCHANGED <<now, schedules, active, starting>>,
               pc \notin {"updated", "stop_update"},
               pc' = "delete_row" /\ active.sched # 0 => active.sched # subject'
        PROVE  FollowInv'
    BY <1>1 DEF FollowInv, Follows, Deadline
  <1>2. ASSUME NEW m \in Modes, NEW d \in Durations, StartSession(m, d) PROVE FollowInv'
    <2>1. starting'.sched = 0 /\ starting'.started = now
      BY <1>2 DEF StartSession, NewSession
    <2>. QED BY <1>0, <1>2, <2>1 DEF StartSession, FollowInv
  <1>3. CASE Activate
    <2>1. PICK r \in Wanted :
            starting' = NewSession(r.id, r.mode, Seconds(now, WindowEnd(r)), siteList)
      BY <1>3 DEF Activate
    <2>2. r \in schedules /\ ActiveNow(r)
      BY DEF Wanted, FirstDue, Due
    <2>3. /\ r.id \in ScheduleIds /\ r.mode \in Modes /\ now \in Int
          /\ siteList \in SUBSET Sites
      BY <2>2 DEF TypeOK, Schedule
    <2>4. Seconds(now, WindowEnd(r)) \in Nat
      BY <2>2, <2>3, WindowEndIsWhole, SecondsArePositive
    <2>5. starting' \in Session
      BY <2>1, <2>3, <2>4, NewSessionIsSession
    <2>6. /\ starting'.sched = r.id /\ starting'.mode = r.mode /\ starting'.started = now
          /\ starting'.planned = Seconds(now, WindowEnd(r))
      BY <2>1 DEF NewSession
    <2>7. Follows(starting')
      BY <1>0, <2>2, <2>5, <2>6, PlanFollows
    <2>8. UNCHANGED <<now, schedules, active>> /\ active = NoSession /\ pc' = "apply"
      BY <1>3 DEF Activate
    <2>9. Follows(starting)'
      BY <2>7, <2>8 DEF Follows, Deadline
    <2>. QED BY <1>0, <2>6, <2>8, <2>9 DEF FollowInv
  <1>4. CASE Apply
    <2>1. /\ active' = starting /\ starting' = NoSession /\ pc' = "idle"
          /\ UNCHANGED <<now, schedules>>
      BY <1>0, <1>4 DEF Apply
    <2>. QED BY <1>0, <2>1 DEF FollowInv, Follows, Deadline
  <1>5. CASE CompleteExpired \/ TakeOver
    <2>1. /\ active' = NoSession /\ pc' \in {"evaluate", "pick"}
          /\ UNCHANGED <<now, schedules, starting>>
      BY <1>0, <1>5 DEF CompleteExpired, TakeOver, EndActive
    <2>. QED BY <1>0, <2>1 DEF FollowInv, Follows, Deadline
  <1>6. CASE StopSave
    <2>1. active' = NoSession /\ UNCHANGED <<now, schedules, starting>>
      BY <1>0, <1>6 DEF StopSave
    <2>. QED BY <1>0, <2>1 DEF FollowInv, Follows, Deadline
  <1>7. CASE ResyncSession
    <2>1. /\ active \in Session /\ active' = Follow(active, UpdatedRow)
          /\ pc = "updated" /\ pc' = "idle" /\ UNCHANGED <<now, schedules, starting>>
      BY <1>7 DEF ResyncSession, HandlerInv, TypeOK
    <2>2. UpdatedRow \in schedules /\ UpdatedRow.id = active.sched
      BY <2>1 DEF HandlerInv, UpdatedRow
    <2>3. UpdatedRow.mode \in Modes /\ active.started \in Int
      BY <2>1, <2>2 DEF TypeOK, Schedule, Session
    <2> DEFINE plan == Seconds(active.started, WindowEnd(UpdatedRow))
    <2>4. plan \in Nat
      BY <2>2, <2>3, WindowEndIsWhole, SecondsArePositive
    <2>5. active' = [active EXCEPT !.mode = UpdatedRow.mode, !.planned = plan]
      BY <2>1 DEF Follow
    <2> HIDE DEF plan
    <2>6. /\ active' \in Session /\ active'.sched = active.sched
          /\ active'.mode = UpdatedRow.mode /\ active'.started = active.started
          /\ active'.planned = plan
      BY <2>1, <2>3, <2>4, <2>5 DEF Session
    <2>7. active'.planned = Seconds(active'.started, WindowEnd(UpdatedRow))
      BY <2>6 DEF plan
    <2>8. ActiveNow(UpdatedRow) /\ active'.started <= now
      BY <1>7, <2>6 DEF ResyncSession, FollowInv
    <2>9. Follows(active')
      BY <2>2, <2>6, <2>7, <2>8, PlanFollows
    <2>. QED BY <2>1, <2>8, <2>9 DEF FollowInv, Follows, Deadline
  <1>8. CASE StopUpdated
    BY <1>0, <1>8 DEF StopUpdated, ClearAndSuppress, FollowInv, Follows, Deadline
  <1>9. CASE SyncTargets \/ SyncSites
    <2>1. /\ active \in Session /\ pc \in {"sync_targets", "sync_sites"} /\ pc' = "idle"
          /\ \/ active' = [active EXCEPT !.targets = appTargets]
             \/ active' = [active EXCEPT !.sites = siteList]
          /\ UNCHANGED <<now, schedules, starting>>
      BY <1>0, <1>9 DEF SyncTargets, SyncSites, Install, HandlerInv, TypeOK
    <2>2. /\ active'.sched = active.sched /\ active'.mode = active.mode
          /\ active'.started = active.started /\ active'.planned = active.planned
      BY <2>1 DEF Session
    <2>. QED BY <2>1, <2>2 DEF FollowInv, Follows, Deadline
  <1>10. ASSUME NEW i \in ScheduleIds, NEW p \in Plans, CreateSchedule(i, p)
         PROVE  FollowInv'
    BY <1>10 DEF CreateSchedule, FollowInv, Follows, Deadline
  <1>11. ASSUME NEW i \in ScheduleIds, NEW p \in Plans, UpdateSchedule(i, p)
         PROVE  FollowInv'
    <2>1. /\ schedules' = {s \in schedules : s.id # i} \cup {WithId(i, p)}
          /\ pc' = IF active.sched = i THEN "updated" ELSE "idle"
          /\ pc = "idle" /\ starting = NoSession /\ UNCHANGED <<now, active, starting>>
      BY <1>11 DEF UpdateSchedule, HandlerInv
    <2>2. CASE active.sched = i
      BY <2>1, <2>2 DEF FollowInv
    <2>3. CASE active.sched # i
      BY <2>1, <2>3 DEF FollowInv, Follows, Deadline
    <2>. QED BY <2>2, <2>3
  <1>12. CASE DeleteRow
    <2>1. /\ schedules' = {s \in schedules : s.id # subject} /\ pc = "delete_row"
          /\ pc' = "idle" /\ starting = NoSession /\ UNCHANGED <<now, active, starting>>
      BY <1>0, <1>12 DEF DeleteRow, HandlerInv
    <2>. QED BY <2>1 DEF FollowInv, Follows, Deadline
  <1>13. ASSUME NEW i \in ScheduleIds, DeleteSchedule(i) PROVE FollowInv'
    BY <1>1, <1>13 DEF DeleteSchedule
  <1>14. CASE StopDeleted
    BY <1>0, <1>1, <1>14 DEF StopDeleted, ClearAndSuppress
  <1>15. CASE \/ StopSession \/ ClearHistory \/ Tick \/ PurgeSuppressions \/ NothingDue
              \/ EvaluateFails \/ \E t \in Targets : EditTargets(t)
              \/ \E e \in Sites : EditSites(e)
    BY <1>1, <1>15
    DEF StopSession, ClearHistory, Tick, PurgeSuppressions, NothingDue, EvaluateFails,
        EditTargets, EditSites, ClearAndSuppress
  <1>16. CASE Advance
    <2>1. now' = now + 1 /\ UNCHANGED <<pc, subject, schedules, active, starting>>
      BY <1>16 DEF Advance
    <2>2. active.started \in Int /\ starting.started \in Int
      BY DEF TypeOK, Session
    <2>3. starting'.started <= now' /\ active'.started <= now'
      BY <1>0, <2>1, <2>2 DEF FollowInv
    <2>. QED BY <2>1, <2>3 DEF FollowInv, Follows, Deadline
  <1>17. CASE Crash
    BY <1>17 DEF Crash, FirstRun
  <1>18. CASE Recover
    BY <1>1, <1>18 DEF Recover, Latest, FirstRun
  <1>19. CASE UNCHANGED vars
    BY <1>19 DEF vars, FollowInv, Follows, Deadline
  <1>. QED
    BY <1>2, <1>3, <1>4, <1>5, <1>6, <1>7, <1>8, <1>9, <1>10, <1>11, <1>12, <1>13, <1>14,
       <1>15, <1>16, <1>17, <1>18, <1>19
    DEF Next, Request, Continue

(* While nothing fails and the service is not restarted, a session run by a *)
(* schedule has the mode of that schedule and ends within a second of the   *)
(* end of one of its windows, for all clocks, lengths of the day and edits. *)
THEOREM ScheduleIsFollowed ==
  ASSUME MaxStoreFaults = 0, MaxEnforcerFaults = 0, MaxRestarts = 0
  PROVE  Spec => []SessionFollowsSchedule
  <1>1. Init => FollowInv
    <2>1. Init => NoSession.started <= now
      BY DEF Init, NoSession
    <2>. QED BY <2>1, NoSessionFields DEF Init, FollowInv
  <1>2. FollowInv => SessionFollowsSchedule
    BY DEF FollowInv, SessionFollowsSchedule, Follows
  <1>. QED BY <1>1, <1>2, SafeAlways, FirstRunAlways, FollowNext, PTL DEF Spec

=============================================================================
