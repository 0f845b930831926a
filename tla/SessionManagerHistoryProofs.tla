--------------------- MODULE SessionManagerHistoryProofs ---------------------
(***************************************************************************)
(* What a client's stop promises, for all schedules and clocks: with a     *)
(* store that works the schedule rests until the end of its window, across *)
(* crashes and failing enforcement calls, and until the first restart      *)
(* nothing but such a stop makes a schedule rest.                          *)
(***************************************************************************)
EXTENDS SessionManagerHistory, SessionManagerProofs

(* the history variable only observes: what holds of Spec holds of HSpec *)
LEMMA HistoryObserves == HSpec => Spec
  <1>1. HInit => Init
    BY DEF HInit
  <1>2. [HNext]_hvars => [Next]_vars
    BY DEF HNext, hvars
  <1>. QED BY <1>1, <1>2, PTL DEF HSpec, Spec

StoreNeverFails == storeFaults = 0

(* types, handlers and a store that works *)
Base == TypeOK /\ HandlerInv /\ StoreNeverFails /\ released \in [ScheduleIds -> Nat]

(* division of times and lengths *)
LEMMA Division ==
  ASSUME NEW a \in Nat, NEW b \in Nat \ {0}
  PROVE  a \div b \in Nat /\ a % b \in 0..(b - 1) /\ a = (a \div b) * b + (a % b)
  OBVIOUS

(* the promised end is never before the deadline and within a second of it  *)
LEMMA WindowEndRoundsUp ==
  ASSUME NEW s \in Session
  PROVE  /\ StoppedWindowEnd(s) \in Nat /\ Deadline(s) <= StoppedWindowEnd(s)
         /\ StoppedWindowEnd(s) <= Deadline(s) + PerSec - 1
  <1> DEFINE d == Deadline(s)
             n == d + PerSec - 1
             q == n \div PerSec
             r == n % PerSec
  <1>1. d \in Nat /\ PerSec \in Nat \ {0} /\ n \in Nat
    BY DeadlineIsWhole, ClockAssumption
  <1>2. q \in Nat /\ r \in 0..(PerSec - 1) /\ n = q * PerSec + r
    BY <1>1, Division
  <1>3. StoppedWindowEnd(s) = q * PerSec
    BY DEF StoppedWindowEnd
  <1> HIDE DEF d, n, q, r
  <1>4. q * PerSec \in Nat
    BY <1>1, <1>2
  <1>5. d <= q * PerSec
    BY <1>1, <1>2, <1>4 DEF n
  <1>6. q * PerSec <= d + PerSec - 1
    BY <1>1, <1>2, <1>4 DEF n
  <1>. QED BY <1>3, <1>4, <1>5, <1>6 DEF d

(* a client's stop, and the two requests that end what it promised *)
Promises == pc = "idle" /\ pc' = "stop" /\ active.sched # 0
Revokes  == pc = "idle" /\ pc' \in {"delete_stop", "delete_row"}

(* what a step does to the promises *)
LEMMA ReleasedNext ==
  ASSUME HNext
  PROVE  /\ Promises =>
              released' = [released EXCEPT ![active.sched] = StoppedWindowEnd(active)]
         /\ Revokes => released' = [released EXCEPT ![subject'] = 0]
         /\ pc = "updated" => released' = [released EXCEPT ![active.sched] = 0]
         /\ ~Promises /\ ~Revokes /\ pc # "updated" => released' = released
  <1> USE DEF Promises, Revokes
  <1>1. CASE Promises
    BY <1>1 DEF HNext
  <1>2. CASE Revokes
    BY <1>2 DEF HNext
  <1>3. CASE pc = "updated"
    BY <1>3 DEF HNext
  <1>4. CASE ~Promises /\ ~Revokes /\ pc # "updated"
    BY <1>4 DEF HNext
  <1>. QED BY <1>1, <1>2, <1>3, <1>4

(* only StopSession promises: every other step keeps or revokes *)
LEMMA OnlyStopsPromise ==
  ASSUME Base, HNext, ~Promises
  PROVE  /\ released' \in [ScheduleIds -> Nat]
         /\ \A i \in ScheduleIds : released'[i] \in {released[i], 0}
  BY ReleasedNext DEF Base

(* the promises keep their type *)
LEMMA BaseNext == Base /\ TypeOK' /\ HandlerInv' /\ [HNext]_hvars => Base'
  <1> SUFFICES ASSUME Base, TypeOK', HandlerInv', [HNext]_hvars PROVE Base'
    OBVIOUS
  <1>1. StoreNeverFails'
    <2>1. CASE UNCHANGED hvars
      BY <2>1 DEF hvars, vars, Base, StoreNeverFails
    <2>2. CASE Next
      BY <2>2 DEF Base, StoreNeverFails, TypeOK, Next, Request, Continue, Tick,
           CompleteExpired, TakeOver, EndActive, Clear, StoreWorks, StoreFails, StartSession,
           StopSession, ClearAndSuppress, Persist, CreateSchedule, UpdateSchedule,
           DeleteSchedule, EditTargets, EditSites, ClearHistory, budget, Apply,
           PurgeSuppressions, NothingDue, Activate, EvaluateFails, StopSave, ResyncSession,
           StopUpdated, StopDeleted, DeleteRow, SyncTargets, SyncSites, Crash, Recover,
           Advance
    <2>. QED BY <2>1, <2>2 DEF HNext
  <1>2. released' \in [ScheduleIds -> Nat]
    <2>1. CASE UNCHANGED hvars
      BY <2>1 DEF hvars, Base
    <2>2. CASE HNext /\ Promises
      <3>1. active \in Session
        BY <2>2, NoSessionFields DEF Promises, Base, TypeOK
      <3>. QED BY <2>2, <3>1, ReleasedNext, WindowEndRoundsUp DEF Base
    <2>3. CASE HNext /\ ~Promises
      BY <2>3, OnlyStopsPromise
    <2>. QED BY <2>1, <2>2, <2>3
  <1>. QED BY <1>1, <1>2 DEF Base

(* a store that may not fail never does *)
LEMMA BaseAlways == ASSUME MaxStoreFaults = 0 PROVE HSpec => []Base
  <1>1. HInit /\ TypeOK /\ HandlerInv => Base
    BY NoSuppressionIsMap DEF HInit, Init, Base, StoreNeverFails
  <1>. QED BY <1>1, HistoryObserves, SafeAlways, BaseNext, PTL DEF HSpec

-----------------------------------------------------------------------------
(* A client's stop sticks                                                   *)

(* what was promised is, up to the last fraction of a second, in the        *)
(* settings table, and in memory while there is one; the stops that are not *)
(* a client's come after the promise is revoked                             *)
Covers(map, i) == released[i] <= map[i] + PerSec - 1
StickInv ==
  /\ \A i \in ScheduleIds : now + PerSec - 1 < released[i] =>
       Covers(saved, i) /\ (pc # "down" => Covers(suppressed, i))
  /\ pc \in {"stop_update", "stop_delete", "delete_stop"} /\ active.sched \in ScheduleIds =>
       released[active.sched] = 0

(* every step keeps the promises covered *)
LEMMA StickNext == Base /\ StickInv /\ [HNext]_hvars => StickInv'
  <1> SUFFICES ASSUME Base, StickInv, HNext PROVE StickInv'
    BY DEF hvars, vars, StickInv, Covers
  <1>0. /\ now \in Nat /\ saved \in [ScheduleIds -> Nat]
        /\ suppressed \in [ScheduleIds -> Nat] /\ released \in [ScheduleIds -> Nat]
        /\ ~StoreFails /\ PerSec \in Nat \ {0}
    BY ClockAssumption DEF Base, TypeOK, StoreNeverFails, StoreFails
  <1> DEFINE Released == \A i \in ScheduleIds : released'[i] \in {released[i], 0}
  <1> USE DEF StickInv, Covers, budget
  (* nothing written: later promises only shrink *)
  <1>1. ASSUME UNCHANGED <<suppressed, saved>>, now' \in {now, now + 1}, Released,
               pc' = "down" \/ pc # "down",
               pc' \notin {"stop_update", "stop_delete", "delete_stop"}
        PROVE  StickInv'
    BY <1>0, <1>1
  (* a step that forgets the schedule of a stop that is no client's *)
  <1>2. ASSUME NEW k, k \in ScheduleIds => released[k] = 0, now' = now,
               suppressed' = Forget(suppressed, k), saved' \in {saved, suppressed'}, Released,
               pc # "down",
               pc' \notin {"stop_update", "stop_delete", "delete_stop"}
        PROVE  StickInv'
    BY <1>0, <1>2 DEF Forget
  <1>3. CASE StopSession
    <2>1. /\ pc = "idle" /\ pc' = "stop" /\ now' = now /\ active # NoSession
          /\ IF active.sched = 0 THEN UNCHANGED <<suppressed, saved>>
             ELSE /\ suppressed' = [suppressed EXCEPT ![active.sched] = Deadline(active)]
                  /\ saved' = suppressed'
      BY <1>0, <1>3 DEF StopSession, ClearAndSuppress, Persist
    <2>2. /\ active \in Session /\ Deadline(active) \in Nat /\ StoppedWindowEnd(active) \in Nat
          /\ StoppedWindowEnd(active) <= Deadline(active) + PerSec - 1
      BY <2>1, WindowEndRoundsUp, DeadlineIsWhole DEF Base, TypeOK
    <2>3. CASE active.sched = 0
      <3>1. Released
        BY <2>3, OnlyStopsPromise DEF Promises
      <3>. QED BY <1>1, <2>1, <2>3, <3>1
    <2>4. CASE active.sched # 0
      <3>1. released' = [released EXCEPT ![active.sched] = StoppedWindowEnd(active)]
        BY <2>1, <2>2, <2>4, ReleasedNext DEF Promises
      <3>. QED BY <1>0, <2>1, <2>2, <2>4, <3>1
    <2>. QED BY <2>3, <2>4
  <1>4. ASSUME ~StopSession, Next PROVE ~Promises /\ Released
    <2>1. pc' # "stop" \/ pc # "idle"
      BY <1>4 DEF Next, Request, Continue, Tick, CompleteExpired, TakeOver, EndActive,
           StartSession, CreateSchedule, UpdateSchedule, DeleteSchedule, EditTargets,
           EditSites, ClearHistory, Apply, PurgeSuppressions, NothingDue, Activate,
           EvaluateFails, StopSave, ResyncSession, StopUpdated, StopDeleted, DeleteRow,
           SyncTargets, SyncSites, Crash, Recover, Advance
    <2>. QED BY <2>1, OnlyStopsPromise DEF Promises
  <1>5. CASE PurgeSuppressions
    <2>1. /\ suppressed' = Pending(suppressed) /\ saved' \in {saved, suppressed'}
          /\ pc = "evaluate" /\ pc' = "pick" /\ now' = now
      BY <1>0, <1>5 DEF PurgeSuppressions, Persist
    <2>2. released' = released
      BY <2>1, ReleasedNext DEF Promises, Revokes
    <2>. QED BY <1>0, <2>1, <2>2 DEF Pending
  <1>6. CASE StopSave
    <2>1. /\ pc \in {"stop", "stop_update", "stop_delete"} /\ pc' \in {"idle", "delete_row"}
          /\ now' = now /\ saved' = saved
          /\ suppressed' = IF pc = "stop" THEN suppressed ELSE Forget(suppressed, active.sched)
      BY <1>6 DEF StopSave
    <2>2. Released
      BY <2>1, <1>4, <1>6 DEF StopSave, StopSession, Next, Continue
    <2>. QED BY <1>1, <1>2, <2>1, <2>2
  <1>7. CASE StopUpdated
    <2>1. pc = "updated" /\ active.sched # 0 /\ active \in Session
      BY <1>7, NoSessionFields DEF StopUpdated, Base, HandlerInv, TypeOK
    <2>2. /\ released' = [released EXCEPT ![active.sched] = 0] /\ active.sched \in ScheduleIds
      BY <2>1, ReleasedNext DEF Session
    <2>3. CASE ClearAndSuppress("stop_update")
      <3>1. /\ suppressed' = [suppressed EXCEPT ![active.sched] = Deadline(active)]
            /\ saved' = suppressed' /\ now' = now /\ active' = active /\ pc' = "stop_update"
        BY <1>0, <2>1, <2>3 DEF ClearAndSuppress, Persist
      <3>2. Deadline(active) \in Nat
        BY <2>1, DeadlineIsWhole
      <3>. QED BY <1>0, <2>1, <2>2, <3>1, <3>2
    <2>4. CASE suppressed' = Forget(suppressed, active.sched) /\ pc' = "idle"
               /\ UNCHANGED <<now, saved>>
      BY <1>0, <2>1, <2>2, <2>4 DEF Forget
    <2>. QED BY <1>7, <2>3, <2>4 DEF StopUpdated
  <1>8. ASSUME NEW i \in ScheduleIds, DeleteSchedule(i) PROVE StickInv'
    <2>1. /\ suppressed' = Forget(suppressed, i) /\ saved' = suppressed' /\ now' = now
          /\ pc = "idle" /\ subject' = i /\ active' = active
          /\ pc' = IF active.sched = i THEN "delete_stop" ELSE "delete_row"
      BY <1>0, <1>8 DEF DeleteSchedule, Persist
    <2>2. released' = [released EXCEPT ![i] = 0]
      BY <2>1, ReleasedNext DEF Revokes
    <2>. QED BY <1>0, <2>1, <2>2 DEF Forget
  <1>9. CASE StopDeleted
    <2>1. pc = "delete_stop" /\ active.sched # 0 /\ active \in Session
      BY <1>9, NoSessionFields DEF StopDeleted, Base, HandlerInv, TypeOK
    <2>2. released' = released /\ active.sched \in ScheduleIds
      BY <2>1, ReleasedNext DEF Promises, Revokes, Session
    <2>3. CASE ClearAndSuppress("stop_delete")
      <3>1. /\ suppressed' = [suppressed EXCEPT ![active.sched] = Deadline(active)]
            /\ saved' = suppressed' /\ now' = now /\ active' = active /\ pc' = "stop_delete"
        BY <1>0, <2>1, <2>3 DEF ClearAndSuppress, Persist
      <3>2. Deadline(active) \in Nat
        BY <2>1, DeadlineIsWhole
      <3>. QED BY <1>0, <2>1, <2>2, <3>1, <3>2
    <2>4. CASE pc' = "idle" /\ UNCHANGED <<now, saved, suppressed>>
      BY <1>0, <2>1, <2>2, <2>4
    <2>. QED BY <1>9, <2>3, <2>4 DEF StopDeleted
  <1>10. CASE Recover
    <2>1. /\ suppressed' = Pending(saved) /\ pc = "down" /\ pc' = "idle"
          /\ UNCHANGED <<now, saved>>
      BY <1>0, <1>10 DEF Recover
    <2>2. released' = released
      BY <2>1, ReleasedNext DEF Promises, Revokes
    <2>. QED BY <1>0, <2>1, <2>2 DEF Pending
  <1>11. CASE Crash
    <2>1. pc' = "down" /\ UNCHANGED <<now, saved>>
      BY <1>11 DEF Crash
    <2>2. Released
      BY <2>1, OnlyStopsPromise DEF Promises
    <2>. QED BY <1>0, <2>1, <2>2
  <1>12. CASE Advance
    <2>1. /\ UNCHANGED <<pc, saved, suppressed>> /\ now' = now + 1
          /\ pc \in {"idle", "down", "evaluate", "updated"}
      BY <1>12 DEF Advance
    <2>2. Released
      BY <2>1, OnlyStopsPromise DEF Promises
    <2>. QED BY <1>0, <2>1, <2>2
  <1>13. ASSUME NEW i \in ScheduleIds, NEW p \in Plans,
                CreateSchedule(i, p) \/ UpdateSchedule(i, p)
         PROVE  StickInv'
    <2>1. /\ UNCHANGED <<suppressed, saved, now>> /\ pc = "idle"
          /\ pc' \in {"evaluate", "idle", "updated"}
      BY <1>13 DEF CreateSchedule, UpdateSchedule
    <2>2. Released
      BY <2>1, OnlyStopsPromise DEF Promises
    <2>. QED BY <1>1, <2>1, <2>2
  <1>14. CASE \/ \E m \in Modes, d \in Durations : StartSession(m, d)
              \/ \E t \in Targets : EditTargets(t)
              \/ \E e \in Sites : EditSites(e)
              \/ ClearHistory \/ Tick \/ CompleteExpired \/ Apply \/ NothingDue
              \/ TakeOver \/ Activate \/ EvaluateFails \/ ResyncSession \/ DeleteRow
              \/ SyncTargets \/ SyncSites
    <2>1. /\ UNCHANGED <<suppressed, saved, now>> /\ pc # "down"
          /\ pc' \notin {"down", "stop", "stop_update", "stop_delete", "delete_stop"}
      BY <1>14 DEF StartSession, EditTargets, EditSites, ClearHistory, Tick, CompleteExpired,
                   Apply, NothingDue, TakeOver, Activate, EvaluateFails, ResyncSession,
                   DeleteRow, SyncTargets, SyncSites, EndActive
    <2>2. Released
      BY <2>1, OnlyStopsPromise DEF Promises
    <2>. QED BY <1>1, <2>1, <2>2
  <1>. QED
    BY <1>3, <1>5, <1>6, <1>7, <1>8, <1>9, <1>10, <1>11, <1>12, <1>13, <1>14
    DEF HNext, Next, Request, Continue

(* with a working store, what was promised stays covered for ever *)
LEMMA StickAlways == ASSUME MaxStoreFaults = 0 PROVE HSpec => [](Base /\ StickInv)
  <1>1. HInit => StickInv
    BY ClockAssumption DEF HInit, Init, StickInv, Covers, NoSuppression
  <1>. QED BY <1>1, BaseAlways, StickNext, PTL DEF HSpec

(* a schedule starts a session only while nothing in memory keeps it quiet *)
LEMMA StartsAreDue ==
  ASSUME TypeOK, HandlerInv, [HNext]_hvars, NEW i \in ScheduleIds,
         starting = NoSession, starting'.sched = i
  PROVE  pc # "down" /\ ~(now < suppressed[i])
  <1>0. NoSession.sched = 0 /\ i # 0
    BY IdsAssumption DEF NoSession
  <1>1. CASE Activate
    <2>1. PICK s \in Wanted :
            starting' = NewSession(s.id, s.mode, Seconds(now, WindowEnd(s)), siteList)
      BY <1>1 DEF Activate
    <2>2. s.id = i
      BY <2>1 DEF NewSession
    <2>. QED BY <1>1, <2>1, <2>2 DEF Activate, Wanted, FirstDue, Due
  <1>2. ASSUME NEW m \in Modes, NEW d \in Durations, StartSession(m, d) PROVE FALSE
    <2>1. starting'.sched = 0
      BY <1>2 DEF StartSession, NewSession
    <2>. QED BY <1>0, <2>1
  <1>3. CASE UNCHANGED hvars
    BY <1>0, <1>3 DEF hvars, vars
  <1>4. ASSUME starting' \in {starting, NoSession} PROVE FALSE
    BY <1>0, <1>4
  <1>5. CASE Crash \/ Recover \/ Advance \/ Tick \/ CompleteExpired \/ Apply
             \/ PurgeSuppressions \/ NothingDue \/ TakeOver \/ EvaluateFails \/ StopSave
             \/ ResyncSession \/ DeleteRow \/ SyncTargets \/ SyncSites
    BY <1>4, <1>5 DEF Crash, Recover, Advance, Tick, CompleteExpired, Apply,
         PurgeSuppressions, NothingDue, TakeOver, EvaluateFails, StopSave, ResyncSession,
         DeleteRow, SyncTargets, SyncSites
  <1>6. CASE StopSession \/ StopUpdated \/ StopDeleted \/ ClearHistory
    BY <1>4, <1>6 DEF StopSession, StopUpdated, StopDeleted, ClearAndSuppress, ClearHistory
  <1>7. ASSUME NEW k \in ScheduleIds, NEW p \in Plans,
               CreateSchedule(k, p) \/ UpdateSchedule(k, p)
        PROVE  FALSE
    BY <1>4, <1>7 DEF CreateSchedule, UpdateSchedule
  <1>8. ASSUME \/ \E k \in ScheduleIds : DeleteSchedule(k)
               \/ \E t \in Targets : EditTargets(t)
               \/ \E e \in Sites : EditSites(e)
        PROVE  FALSE
    BY <1>4, <1>8 DEF DeleteSchedule, EditTargets, EditSites
  <1>9. CASE Request
    BY <1>2, <1>6, <1>7, <1>8, <1>9 DEF Request
  <1>10. CASE Continue
    BY <1>1, <1>5, <1>6, <1>10 DEF Continue
  <1>. QED BY <1>3, <1>5, <1>9, <1>10 DEF HNext, Next

(* While the store works, a schedule a client stopped starts no session     *)
(* before the last fraction of a second of the window it was stopped in,    *)
(* whatever crashes and whichever enforcement calls fail.                   *)
THEOREM StopSticksToTheSecond ==
  ASSUME MaxStoreFaults = 0
  PROVE  HSpec => [][\A i \in ScheduleIds : starting = NoSession /\ starting'.sched = i =>
                       now + PerSec - 1 >= released[i]]_hvars
  <1> DEFINE Late == \A i \in ScheduleIds : starting = NoSession /\ starting'.sched = i =>
                       now + PerSec - 1 >= released[i]
  <1>1. Base /\ StickInv /\ [HNext]_hvars => [Late]_hvars
    <2> SUFFICES ASSUME Base, StickInv, [HNext]_hvars, NEW i \in ScheduleIds,
                        starting = NoSession, starting'.sched = i
                 PROVE  now + PerSec - 1 >= released[i]
      OBVIOUS
    <2>1. pc # "down" /\ ~(now < suppressed[i])
      BY StartsAreDue DEF Base
    <2>2. now \in Nat /\ suppressed[i] \in Nat /\ released[i] \in Nat /\ PerSec \in Nat \ {0}
      BY ClockAssumption DEF Base, TypeOK
    <2>. QED BY <2>1, <2>2 DEF StickInv, Covers
  <1> HIDE DEF Late
  <1>2. HSpec => [][Late]_hvars
    BY <1>1, StickAlways, PTL DEF HSpec
  <1>. QED BY <1>2 DEF Late

(* On a clock of whole seconds that is the end of the window: the property  *)
(* the runs check. With a finer clock it fails in the last fraction.        *)
THEOREM UserStopIsKept ==
  ASSUME MaxStoreFaults = 0, PerSec = 1
  PROVE  HSpec => UserStopSticks
  <1> DEFINE Quiet == \A i \in ScheduleIds : starting = NoSession /\ starting'.sched = i =>
                        now >= released[i]
  <1>1. Base /\ StickInv /\ [HNext]_hvars => [Quiet]_hvars
    <2> SUFFICES ASSUME Base, StickInv, [HNext]_hvars, NEW i \in ScheduleIds,
                        starting = NoSession, starting'.sched = i
                 PROVE  now >= released[i]
      OBVIOUS
    <2>1. pc # "down" /\ ~(now < suppressed[i])
      BY StartsAreDue DEF Base
    <2>2. now \in Nat /\ suppressed[i] \in Nat /\ released[i] \in Nat
      BY DEF Base, TypeOK
    <2>. QED BY <2>1, <2>2 DEF StickInv, Covers
  <1> HIDE DEF Quiet
  <1>2. HSpec => [][Quiet]_hvars
    BY <1>1, StickAlways, PTL DEF HSpec
  <1>. QED BY <1>2 DEF Quiet, UserStopSticks

-----------------------------------------------------------------------------
(* Nothing but a client's stop keeps a schedule quiet                       *)

(* stop_session on behalf of an edit or a deletion, between its two writes:  *)
(* the schedule is suppressed until the second write forgets it again        *)
BorrowedStop == pc \in {"stop_update", "stop_delete"}

(* Until the first restart: the service comes up with an empty table and no *)
(* saved suppression; what is kept quiet was promised, unless a borrowed    *)
(* stop is under way; and no session runs or starts for a quiet schedule,   *)
(* unless it is just being stopped, so that an edit revokes no promise.     *)
OnlyInv ==
  /\ restarts <= MaxRestarts
  /\ restarts = MaxRestarts =>
       /\ pc = "down" => live = {} /\ saved = NoSuppression
       /\ \A i \in ScheduleIds : now < suppressed[i] =>
            /\ suppressed[i] <= released[i] \/ (BorrowedStop /\ active.sched = i)
            /\ starting.sched # i
            /\ active.sched = i => pc = "stop" \/ BorrowedStop

(* every step of the first run keeps that *)
LEMMA OnlyNext == Base /\ OnlyInv /\ [HNext]_hvars => OnlyInv'
  <1> SUFFICES ASSUME Base, OnlyInv, HNext PROVE OnlyInv'
    BY DEF hvars, vars, OnlyInv, BorrowedStop
  <1>0. /\ now \in Nat /\ saved \in [ScheduleIds -> Nat] /\ restarts \in Nat
        /\ suppressed \in [ScheduleIds -> Nat] /\ released \in [ScheduleIds -> Nat]
        /\ active.sched \in ScheduleIds \cup {0} /\ starting.sched \in ScheduleIds \cup {0}
        /\ ~StoreFails /\ 0 \notin ScheduleIds /\ NoSession.sched = 0
        /\ pc # "apply" => starting.sched = 0
    BY IdsAssumption, NoSessionFields
    DEF Base, TypeOK, HandlerInv, Session, NoSession, StoreNeverFails, StoreFails
  <1> DEFINE Quiet(i) == now < suppressed[i]
             Kept == released' \in [ScheduleIds -> Nat] /\ \A i \in ScheduleIds :
                       Quiet(i) => released'[i] = released[i]
             Stops == {"stop", "stop_update", "stop_delete"}
  <1> USE DEF OnlyInv, BorrowedStop, budget
  (* a step that writes no promise and forgets none that is pending *)
  <1>1. ASSUME suppressed' = suppressed, now' \in {now, now + 1}, Kept, restarts' = restarts,
               pc # "down", pc' # "down", pc \notin Stops, pc' \notin Stops,
               active'.sched \in {active.sched, starting.sched, 0},
               starting'.sched \in {starting.sched, 0}
        PROVE  OnlyInv'
    BY <1>0, <1>1
  (* what an edit revokes is not pending *)
  <1>2. ASSUME ~Promises, ~Revokes, restarts = MaxRestarts PROVE Kept
    <2>1. CASE pc = "updated"
      <3>1. active.sched \in ScheduleIds
        BY <1>0, <2>1 DEF Base, HandlerInv
      <3>2. released' = [released EXCEPT ![active.sched] = 0]
        BY <2>1, ReleasedNext
      <3>. QED BY <1>0, <1>2, <2>1, <3>1, <3>2
    <2>2. CASE pc # "updated"
      BY <1>0, <1>2, <2>2, ReleasedNext
    <2>. QED BY <2>1, <2>2
  <1>3. CASE restarts' # MaxRestarts
    <2>1. restarts' \in {restarts, restarts - 1}
      BY DEF HNext, Next, Request, Continue, Tick, CompleteExpired, TakeOver, EndActive,
           Clear, StoreWorks, StartSession, StopSession, ClearAndSuppress, Persist,
           CreateSchedule, UpdateSchedule, DeleteSchedule, EditTargets, EditSites,
           ClearHistory, Apply, PurgeSuppressions, NothingDue, Activate, EvaluateFails,
           StopSave, ResyncSession, StopUpdated, StopDeleted, DeleteRow, SyncTargets,
           SyncSites, Crash, Recover, Advance
    <2>. QED BY <1>0, <1>3, <2>1, BoundsAssumption
  <1> SUFFICES ASSUME restarts' = MaxRestarts PROVE OnlyInv'
    BY <1>3
  <1>4. CASE StopSession
    <2>1. /\ pc = "idle" /\ pc' = "stop" /\ now' = now /\ active # NoSession
          /\ active' = active /\ starting' = starting /\ restarts' = restarts
          /\ suppressed' = IF active.sched = 0 THEN suppressed
                           ELSE [suppressed EXCEPT ![active.sched] = Deadline(active)]
      BY <1>4 DEF StopSession, ClearAndSuppress
    <2>2. /\ Deadline(active) \in Nat /\ StoppedWindowEnd(active) \in Nat
          /\ Deadline(active) <= StoppedWindowEnd(active)
      BY <2>1, WindowEndRoundsUp, DeadlineIsWhole DEF Base, TypeOK
    <2>3. CASE active.sched = 0
      <3>1. released' = released
        BY <2>1, <2>3, ReleasedNext DEF Promises, Revokes
      <3>. QED BY <1>0, <2>1, <2>3, <3>1
    <2>4. CASE active.sched # 0
      <3>1. released' = [released EXCEPT ![active.sched] = StoppedWindowEnd(active)]
        BY <2>1, <2>4, ReleasedNext DEF Promises
      <3>. QED BY <1>0, <2>1, <2>2, <2>4, <3>1
    <2>. QED BY <2>3, <2>4
  <1>5. CASE PurgeSuppressions
    <2>1. /\ suppressed' = Pending(suppressed) /\ pc = "evaluate" /\ pc' = "pick"
          /\ UNCHANGED <<now, active, starting, restarts>>
      BY <1>5 DEF PurgeSuppressions
    <2>2. released' = released
      BY <2>1, ReleasedNext DEF Promises, Revokes
    <2>. QED BY <1>0, <2>1, <2>2 DEF Pending
  <1>6. CASE StopSave
    <2>1. /\ pc \in Stops /\ pc' \in {"idle", "delete_row"}
          /\ UNCHANGED <<now, starting, restarts>> /\ active' = NoSession
          /\ suppressed' = IF pc = "stop" THEN suppressed ELSE Forget(suppressed, active.sched)
      BY <1>0, <1>6 DEF StopSave
    <2>2. released' = released
      BY <2>1, ReleasedNext DEF Promises, Revokes
    <2>. QED BY <1>0, <2>1, <2>2 DEF Forget
  <1>7. CASE StopUpdated
    <2>1. pc = "updated" /\ active.sched \in ScheduleIds /\ active \in Session
      BY <1>0, <1>7, NoSessionFields DEF StopUpdated, Base, HandlerInv, TypeOK
    <2>2. released' = [released EXCEPT ![active.sched] = 0]
      BY <2>1, ReleasedNext
    <2>3. Deadline(active) \in Nat
      BY <2>1, DeadlineIsWhole
    <2>4. UNCHANGED <<now, active, starting, restarts>>
      BY <1>7 DEF StopUpdated, ClearAndSuppress
    <2>5. CASE /\ suppressed' = [suppressed EXCEPT ![active.sched] = Deadline(active)]
               /\ pc' = "stop_update"
      BY <1>0, <2>1, <2>2, <2>3, <2>4, <2>5
    <2>6. CASE suppressed' = Forget(suppressed, active.sched) /\ pc' = "idle"
      BY <1>0, <2>1, <2>2, <2>4, <2>6 DEF Forget
    <2>. QED BY <1>7, <2>1, <1>0, <2>5, <2>6 DEF StopUpdated, ClearAndSuppress
  <1>8. ASSUME NEW i \in ScheduleIds, DeleteSchedule(i) PROVE OnlyInv'
    <2>1. /\ suppressed' = Forget(suppressed, i) /\ pc = "idle" /\ subject' = i
          /\ UNCHANGED <<now, active, starting, restarts>>
          /\ pc' = IF active.sched = i THEN "delete_stop" ELSE "delete_row"
      BY <1>8 DEF DeleteSchedule
    <2>2. released' = [released EXCEPT ![i] = 0]
      BY <2>1, ReleasedNext DEF Revokes
    <2>. QED BY <1>0, <2>1, <2>2 DEF Forget
  <1>9. CASE StopDeleted
    <2>1. /\ pc = "delete_stop" /\ active.sched \in ScheduleIds /\ active \in Session
          /\ UNCHANGED <<now, active, starting, restarts>>
      BY <1>0, <1>9, NoSessionFields
      DEF StopDeleted, ClearAndSuppress, Base, HandlerInv, TypeOK
    <2>2. released' = released
      BY <2>1, ReleasedNext DEF Promises, Revokes
    <2>3. Deadline(active) \in Nat
      BY <2>1, DeadlineIsWhole
    <2>4. CASE /\ suppressed' = [suppressed EXCEPT ![active.sched] = Deadline(active)]
               /\ pc' = "stop_delete"
      BY <1>0, <2>1, <2>2, <2>3, <2>4
    <2>5. CASE suppressed' = suppressed /\ pc' = "idle"
      BY <1>0, <2>1, <2>2, <2>5
    <2>. QED BY <1>9, <2>1, <1>0, <2>4, <2>5 DEF StopDeleted, ClearAndSuppress
  <1>10. CASE Recover
    <2>1. /\ suppressed' = Pending(saved) /\ pc = "down" /\ pc' = "idle"
          /\ UNCHANGED <<now, starting, restarts>>
      BY <1>0, <1>10 DEF Recover
    <2>2. live = {} /\ saved = NoSuppression
      BY <2>1
    <2>3. \A i \in ScheduleIds : suppressed'[i] = 0
      BY <1>0, <2>1, <2>2 DEF Pending, NoSuppression
    <2>. QED BY <1>0, <2>1, <2>3
  <1>11. CASE Crash
    BY <1>0, <1>11 DEF Crash
  <1>12. CASE Advance
    <2>1. /\ UNCHANGED <<pc, saved, suppressed, live, active, starting, restarts>>
          /\ now' = now + 1 /\ pc \notin Stops
      BY <1>12 DEF Advance, table
    <2>2. Kept
      BY <1>2, <2>1 DEF Promises, Revokes
    <2>. QED BY <1>0, <2>1, <2>2
  <1>13. CASE Activate
    <2>1. PICK s \in Wanted :
            starting' = NewSession(s.id, s.mode, Seconds(now, WindowEnd(s)), siteList)
      BY <1>13 DEF Activate
    <2>2. ~(now < suppressed[s.id]) /\ starting'.sched = s.id
      BY <2>1 DEF Wanted, FirstDue, Due, NewSession
    <2>3. pc = "pick" /\ pc' = "apply" /\ UNCHANGED <<now, active, suppressed, restarts>>
      BY <1>13 DEF Activate
    <2>4. released' = released
      BY <2>3, ReleasedNext DEF Promises, Revokes
    <2>. QED BY <1>0, <2>2, <2>3, <2>4
  <1>14. ASSUME NEW i \in ScheduleIds, NEW p \in Plans,
                CreateSchedule(i, p) \/ UpdateSchedule(i, p)
         PROVE  OnlyInv'
    <2>1. /\ UNCHANGED <<suppressed, now, active, starting, restarts>> /\ pc = "idle"
          /\ pc' \in {"evaluate", "idle", "updated"}
      BY <1>14 DEF CreateSchedule, UpdateSchedule
    <2>2. Kept
      BY <1>2, <2>1 DEF Promises, Revokes
    <2>. QED BY <1>1, <2>1, <2>2
  <1>15. ASSUME NEW m \in Modes, NEW d \in Durations, StartSession(m, d) PROVE OnlyInv'
    <2>1. /\ UNCHANGED <<suppressed, now, active, restarts>> /\ pc = "idle" /\ pc' = "apply"
          /\ starting'.sched = 0
      BY <1>15 DEF StartSession, NewSession
    <2>2. Kept
      BY <1>2, <2>1 DEF Promises, Revokes
    <2>. QED BY <1>1, <2>1, <2>2
  <1>16. CASE \/ \E t \in Targets : EditTargets(t)
              \/ \E e \in Sites : EditSites(e)
              \/ ClearHistory \/ Tick \/ CompleteExpired \/ Apply \/ NothingDue
              \/ TakeOver \/ EvaluateFails \/ ResyncSession \/ DeleteRow
              \/ SyncTargets \/ SyncSites
    <2>1. /\ UNCHANGED <<suppressed, now, restarts>> /\ pc # "down" /\ pc \notin Stops
          /\ pc' \notin Stops \cup {"down", "delete_stop"}
          /\ pc = "idle" => pc' # "delete_row"
          /\ starting' \in {starting, NoSession}
      BY <1>16 DEF EditTargets, EditSites, ClearHistory, Tick, CompleteExpired, Apply,
                   NothingDue, TakeOver, EvaluateFails, ResyncSession, DeleteRow,
                   SyncTargets, SyncSites, EndActive
    <2>2. active'.sched \in {active.sched, starting.sched, 0}
      <3>1. active' \in {active, starting, NoSession}
            \/ ResyncSession \/ SyncTargets \/ SyncSites
        BY <1>16 DEF EditTargets, EditSites, ClearHistory, Tick, CompleteExpired, Apply,
                     NothingDue, TakeOver, EvaluateFails, DeleteRow, EndActive
      <3>2. ASSUME ResyncSession \/ SyncTargets \/ SyncSites PROVE active'.sched = active.sched
        <4>1. active \in Session
          BY <3>2, NoSessionFields DEF ResyncSession, SyncTargets, SyncSites, Base, TypeOK,
               HandlerInv
        <4>. QED BY <3>2, <4>1 DEF ResyncSession, SyncTargets, SyncSites, Follow, Install,
                      Session
      <3>. QED BY <1>0, <3>1, <3>2
    <2>3. Kept
      BY <1>2, <2>1 DEF Promises, Revokes
    <2>. QED BY <1>0, <1>1, <2>1, <2>2, <2>3
  <1>17. CASE Request
    BY <1>4, <1>8, <1>14, <1>15, <1>16, <1>17 DEF Request
  <1>18. CASE Continue
    BY <1>5, <1>6, <1>7, <1>9, <1>13, <1>16, <1>18 DEF Continue
  <1>. QED BY <1>10, <1>11, <1>12, <1>16, <1>17, <1>18 DEF HNext, Next

(* While the store works and until the first restart, whatever enforcement  *)
(* calls fail: no edit and no deletion leaves a schedule suppressed.        *)
THEOREM OnlyStopsKeepQuiet ==
  ASSUME MaxStoreFaults = 0
  PROVE  HSpec => []OnlyUserStopsSuppressInMemory
  <1>1. HInit => OnlyInv
    BY BoundsAssumption, ClockAssumption DEF HInit, Init, OnlyInv, NoSuppression
  <1>2. OnlyInv => OnlyUserStopsSuppressInMemory
    BY DEF OnlyInv, OnlyUserStopsSuppressInMemory, OnlyUserStopsSuppress, BorrowedStop
  <1>. QED BY <1>1, <1>2, OnlyNext, BaseAlways, PTL DEF HSpec
=============================================================================
