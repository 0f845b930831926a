------------------------ MODULE ServiceWorkerProofs ------------------------
(***************************************************************************)
(* ServiceWorker, for all stored lists, plans, popups and restarts: its    *)
(* types, that no two stored schedules run at one time, that no session is *)
(* lost on its way into the history, and that a schedule the user stopped  *)
(* rests until its window ends.                                            *)
(***************************************************************************)
EXTENDS ServiceWorker, FiniteSetTheorems, SequenceTheorems,
        WellFoundedInduction, TLAPS

-----------------------------------------------------------------------------
(* Schedules that do not conflict never run at one time.                    *)

(* a later time is not on an earlier day                                   *)
LEMMA DayIsMonotone ==
  ASSUME NEW t \in Nat, NEW u \in Nat, t <= u
  PROVE  Day(t) <= Day(u) /\ Day(t) \in Nat
BY WeekSchedulesAssumption DEF Day

(* Whoever runs at t, today or later, shares a weekday and the time of day  *)
(* with what runs at t too, and neither has ended by today.                 *)
LEMMA ConflictFree ==
  ASSUME NEW s \in Schedules, NEW o \in Schedules, s.days # {}, o.days # {},
         NEW t0 \in Nat, NEW t \in Nat, t0 <= t, Running(s, t), Running(o, t)
  PROVE  Conflict(s, o, Day(t0))
<1>1. Day(t0) <= Day(t) /\ Day(t0) \in Nat /\ Day(t) \in Nat
  BY DayIsMonotone
<1>2. DayTime(t) \in Int
  BY WeekSchedulesAssumption DEF DayTime
<1>3. /\ Day(t) % WeekLen \in s.days \cap o.days
      /\ s.endsOn # NoEnd => Day(t) <= s.endsOn
      /\ o.endsOn # NoEnd => Day(t) <= o.endsOn
  BY DEF Running, ScheduleRunsOn, ScheduleDays
<1>4. DateRangesOverlap(o, s, Day(t0))
  BY <1>1, <1>3 DEF DateRangesOverlap, Schedules
<1>5. s.start < o.end /\ s.end > o.start
  BY <1>2 DEF Running, Schedules
<1> QED
  BY <1>3, <1>4, <1>5 DEF Conflict

ApartFrom(list, t0) ==
  \A s, o \in list : s.id # o.id =>
    \A t \in t0..MaxTime : ~(Running(s, t) /\ Running(o, t))
Normal(s) == [s EXCEPT !.days = ScheduleDays(s)]

(* A schedule with its weekdays spelled out runs when it ran before.        *)
LEMMA NormalRuns ==
  ASSUME NEW s \in Schedules
  PROVE  /\ Normal(s) \in Schedules /\ Normal(s).id = s.id
         /\ Normal(s).days # {}
         /\ \A t : Running(Normal(s), t) <=> Running(s, t)
<1>1. 0 \in 0..(WeekLen - 1)
  BY WeekSchedulesAssumption
<1>2. ScheduleDays(s) \subseteq 0..(WeekLen - 1) /\ ScheduleDays(s) # {}
  BY <1>1 DEF ScheduleDays, Schedules
<1>3. /\ Normal(s) \in Schedules /\ Normal(s).id = s.id
      /\ Normal(s).days = ScheduleDays(s) /\ Normal(s).start = s.start
      /\ Normal(s).end = s.end /\ Normal(s).endsOn = s.endsOn
  BY <1>2 DEF Normal, Schedules
<1>4. ScheduleDays(Normal(s)) = ScheduleDays(s)
  BY <1>2, <1>3 DEF ScheduleDays
<1> QED
  BY <1>2, <1>3, <1>4 DEF Running, ScheduleRunsOn

(* spelling out the weekdays of a list makes no two schedules run at one   *)
(* time                                                                    *)
LEMMA NormalizedApart ==
  ASSUME schedules \subseteq Schedules, ApartFrom(schedules, now)
  PROVE  /\ Normalized \subseteq Schedules /\ ApartFrom(Normalized, now)
         /\ \A o \in Normalized : o.days # {}
<1>1. Normalized = {Normal(s) : s \in schedules}
  BY DEF Normalized, Normal
<1>2. Normalized \subseteq Schedules /\ \A o \in Normalized : o.days # {}
  BY <1>1, NormalRuns
<1>3. ApartFrom(Normalized, now)
  <2> SUFFICES ASSUME NEW s \in schedules, NEW o \in schedules,
                      Normal(s).id # Normal(o).id, NEW t \in now..MaxTime
               PROVE  ~(Running(Normal(s), t) /\ Running(Normal(o), t))
    BY <1>1 DEF ApartFrom
  <2> QED
    BY NormalRuns DEF ApartFrom
<1> QED
  BY <1>2, <1>3

(* A list and a schedule it accepts, in the place of the one of its id.     *)
LEMMA ValidKeepsApart ==
  ASSUME schedules \subseteq Schedules, ApartFrom(schedules, now),
         now \in Nat, NEW s \in Schedules,
         ValidSchedule(s, Normalized, Day(now)),
         NEW kept \in SUBSET Normalized
  PROVE  kept \cup {s} \subseteq Schedules /\ ApartFrom(kept \cup {s}, now)
<1>1. /\ Normalized \subseteq Schedules /\ ApartFrom(Normalized, now)
      /\ \A o \in Normalized : o.days # {}
  BY NormalizedApart
<1>2. \A o \in kept : o.id # s.id =>
        \A t \in now..MaxTime : ~(Running(s, t) /\ Running(o, t))
  <2> SUFFICES ASSUME NEW o \in kept, o.id # s.id, NEW t \in now..MaxTime,
                      Running(s, t), Running(o, t)
               PROVE  FALSE
    OBVIOUS
  <2>1. t \in Nat /\ now <= t
    BY ServiceWorkerAssumption
  <2>2. s.days # {} /\ ~Conflict(s, o, Day(now))
    BY DEF ValidSchedule
  <2> QED
    BY <1>1, <2>1, <2>2, ConflictFree
<1> QED
  BY <1>1, <1>2 DEF ApartFrom

-----------------------------------------------------------------------------
(* The stored lists and the writes under way.                               *)

Keys  == {"blocklist", "whitelist", "temporary", "schedules"}
Lists == SUBSET (Entries \cup Allows \cup Schedules)
AllowLists == SUBSET Allows
Write == [key : Keys, values : Seq(Lists), gives : Lists, takes : Lists]

(* What a popup will store is of the type of its key, and schedules are     *)
(* already without overlaps.                                                *)
ListOK(list) == list \subseteq Schedules /\ ApartFrom(list, now)
ValueOK(key, value) ==
  /\ key \in {"blocklist", "whitelist"} => value \subseteq Accepted
  /\ key = "temporary" => value \subseteq Allows
  /\ key = "schedules" => ListOK(value)
WriteOK(w) ==
  w.values # <<>> /\ \A j \in DOMAIN w.values : ValueOK(w.key, w.values[j])

IsTask(t) ==
  t \in [pc : {t.pc}, kind : {t.kind}, schedules : {t.schedules},
         allows : {t.allows}, cur : {t.cur}, outcome : {t.outcome},
         seen : {t.seen}, then : {t.then}]

StoredOK ==
  /\ blocklist \subseteq Accepted /\ whitelist \subseteq Accepted
  /\ temporary \subseteq Allows /\ ListOK(schedules)
  /\ now \in Nat /\ nextSchedule \in Nat
TaskReads ==
  /\ IsTask(task) /\ task.allows \subseteq Allows
  /\ \A a \in task.allows : a.expires > 0
WritesOK == writes \in Seq(Write) /\ \A i \in DOMAIN writes : WriteOK(writes[i])
ListInv == StoredOK /\ TaskReads /\ WritesOK

(* stored lists were validated                                             *)
LEMMA ListInit == Init => ListInv
<1> SUFFICES ASSUME Init PROVE ListInv
  OBVIOUS
<1>1. PICK s \in Stored :
        /\ blocklist = s.blocklist /\ whitelist = s.whitelist
        /\ schedules = s.schedules /\ nextSchedule = 1 + Cardinality(s.schedules)
  BY DEF Init
<1>2. nextSchedule \in Nat
  BY <1>1, ServiceWorkerAssumption, FS_CardinalityType
<1>3. ListOK(schedules)
  BY <1>1, ServiceWorkerAssumption DEF Init, ListOK, ApartFrom
<1>4. StoredOK
  BY <1>1, <1>2, <1>3, ServiceWorkerAssumption DEF Init, StoredOK
<1>5. TaskReads
  BY DEF Init, TaskReads, IsTask, Idle
<1>6. WritesOK
  BY DEF Init, WritesOK
<1> QED
  BY <1>4, <1>5, <1>6 DEF ListInv

(* The worker's steps leave the lists alone but for the pruned allows.      *)
LEMMA WorkerLists ==
  ASSUME ListInv, WorkerStep PROVE ListInv'
<1>. USE DEF ListInv
<1>1. \/ PruneAllows
      \/ UNCHANGED <<blocklist, whitelist, temporary, schedules, writes, now,
                     nextSchedule>>
  BY DEF WorkerStep, RunReconcile, StartSession, StopSession, ExpireSession,
         EndTask, WriteHistory, ResetActive, ResetChallenge, ClearAllRules,
         ReadState, SelectSchedule, MigrateStray, Supersede, WindowOver,
         LeaveWindow, ManualDue, EndsHere, ActivateScheduled, Enforce,
         lists, bounds
<1>2. CASE PruneAllows
  <2>1. StoredOK'
    BY <1>2 DEF PruneAllows, StoredOK, TaskReads, bounds, ListOK
  <2>2. TaskReads'
    BY <1>2 DEF PruneAllows, Goto, TaskReads, IsTask
  <2>3. WritesOK'
    BY <1>2 DEF PruneAllows, WritesOK, WriteOK, ValueOK, ListOK, bounds
  <2> QED BY <2>1, <2>2, <2>3
<1>3. CASE UNCHANGED <<blocklist, whitelist, temporary, schedules, writes, now,
                       nextSchedule>>
  <2>1. StoredOK' /\ WritesOK'
    BY <1>3 DEF StoredOK, WritesOK, WriteOK, ValueOK, ListOK
  <2>2. TaskReads'
    <3>1. CASE ReadState
      <4> DEFINE allows == Unexpired(temporary, now)
      <4>1. allows \subseteq Allows /\ \A a \in allows : a.expires > 0
        BY DEF Unexpired, StoredOK, Allows
      <4> HIDE DEF allows
      <4>2. task'.allows = allows /\ IsTask(task')
        BY <3>1 DEF ReadState, TaskReads, IsTask, allows
      <4> QED
        BY <4>1, <4>2 DEF TaskReads
    <3>2. CASE RunReconcile \/ EndTask
      <4> DEFINE pass == [Idle EXCEPT !.pc = "pass", !.kind = "reconcile"]
                 next == [task EXCEPT !.pc = "pass", !.kind = "reconcile"]
      <4>1. IsTask(Idle) /\ Idle.allows = {}
        BY DEF Idle, IsTask
      <4>2. IsTask(pass) /\ pass.allows = {}
        BY <4>1 DEF IsTask
      <4>3. IsTask(next) /\ next.allows = task.allows
        BY DEF TaskReads, IsTask
      <4>4. task' = Idle \/ task' = pass \/ task' = next
        BY <3>2 DEF RunReconcile, EndTask
      <4> QED
        BY <4>1, <4>2, <4>3, <4>4 DEF TaskReads
    <3>3. CASE StartSession \/ StopSession \/ ExpireSession
      BY <3>3 DEF StartSession, StopSession, ExpireSession, Finalize, TaskReads,
                  IsTask
    <3>4. CASE WriteHistory \/ ResetActive \/ ResetChallenge \/ PruneAllows
                 \/ ActivateScheduled
      BY <3>4 DEF WriteHistory, ResetActive, ResetChallenge, PruneAllows,
                  ActivateScheduled, Goto, TaskReads, IsTask
    <3>5. CASE ClearAllRules \/ Enforce
      BY <3>5 DEF ClearAllRules, Enforce, RejectRules, Goto, TaskReads, IsTask
    <3>6. CASE SelectSchedule
      BY <3>6 DEF SelectSchedule, TaskReads, IsTask
    <3>7. CASE MigrateStray \/ Supersede \/ WindowOver \/ LeaveWindow \/ ManualDue
      BY <3>7 DEF MigrateStray, Supersede, WindowOver, LeaveWindow, ManualDue,
                  EndsHere, Finalize, TaskReads, IsTask
    <3> QED
      BY <3>1, <3>2, <3>3, <3>4, <3>5, <3>6, <3>7 DEF WorkerStep
  <2> QED BY <2>1, <2>2
<1> QED
  BY <1>1, <1>2, <1>3

(* a sequence appended to is not empty                                     *)
LEMMA AppendedTo ==
  ASSUME NEW S, NEW q \in Seq(S), NEW x \in S
  PROVE  Append(q, x) \in Seq(S) /\ Append(q, x) # <<>>
<1>1. Append(q, x) \in Seq(S) /\ Len(Append(q, x)) = Len(q) + 1 /\ Len(q) \in Nat
  OBVIOUS
<1>2. Len(Append(q, x)) # 0
  BY <1>1
<1> QED
  BY <1>1, <1>2

(* an element appended leaves the others in their places *)
LEMMA AppendedLast ==
  ASSUME NEW S, NEW q \in Seq(S), NEW m \in S
  PROVE  /\ Append(q, m) \in Seq(S) /\ Len(Append(q, m)) = Len(q) + 1
         /\ DOMAIN Append(q, m) = 1..(Len(q) + 1) /\ Append(q, m)[Len(q) + 1] = m
         /\ \A i \in DOMAIN q : i \in DOMAIN Append(q, m) /\ Append(q, m)[i] = q[i]
         /\ \A i \in DOMAIN Append(q, m) : i \in DOMAIN q \/ i = Len(q) + 1
         /\ Len(q) + 1 \in DOMAIN Append(q, m)
OBVIOUS

(* the rest of a sequence, one place to the front                          *)
LEMMA TailOf ==
  ASSUME NEW S, NEW q \in Seq(S), q # <<>>, Len(q) # 1
  PROVE  /\ Tail(q) \in Seq(S) /\ Tail(q) # <<>>
         /\ \A j \in DOMAIN Tail(q) :
              j + 1 \in DOMAIN q /\ Tail(q)[j] = q[j + 1]
<1>1. Len(q) \in Nat /\ Len(q) > 1 /\ DOMAIN q = 1..Len(q)
  BY EmptySeq
<1>2. Tail(q) \in Seq(S) /\ Len(Tail(q)) = Len(q) - 1
  BY <1>1
<1>3. Tail(q) # <<>> /\ DOMAIN Tail(q) = 1..(Len(q) - 1)
  BY <1>1, <1>2
<1>4. \A j \in 1..(Len(q) - 1) : Tail(q)[j] = q[j + 1]
  BY <1>1
<1> QED
  BY <1>1, <1>2, <1>3, <1>4

(* A popup that starts to write: each value it will store.                  *)
LEMMA EditLists ==
  ASSUME ListInv, NEW key \in Keys, NEW values \in Seq(Lists),
         NEW gives \in Lists, NEW takes \in Lists,
         Edit(key, values, gives, takes), values # <<>>,
         nextSchedule' = nextSchedule \/ nextSchedule' = nextSchedule + 1,
         \A j \in DOMAIN values : ValueOK(key, values[j])
  PROVE  ListInv'
<1> DEFINE new == [key |-> key, values |-> values, gives |-> gives,
                   takes |-> takes]
<1>1. new \in Write /\ new.key = key /\ new.values = values
  BY DEF Write
<1>2. WriteOK(new)
  BY <1>1 DEF WriteOK
<1>3. /\ writes' = Append(writes, new)
      /\ UNCHANGED <<blocklist, whitelist, temporary, schedules, now, task>>
  BY DEF Edit, lists, worker
<1> HIDE DEF new
<1>4. writes' \in Seq(Write) /\ \A i \in DOMAIN writes' : WriteOK(writes'[i])
  BY <1>1, <1>2, <1>3 DEF ListInv, WritesOK
<1>5. WritesOK'
  BY <1>3, <1>4 DEF WritesOK, WriteOK, ValueOK, ListOK
<1> QED
  BY <1>3, <1>5 DEF ListInv, StoredOK, TaskReads, ListOK

(* a list of schedules that runs apart, and the list before it if its      *)
(* weekdays are spelled out first                                          *)
LEMMA ScheduleEdits ==
  ASSUME ListInv, NEW value, ListOK(value), WriteSchedules(value),
         nextSchedule' = nextSchedule \/ nextSchedule' = nextSchedule + 1
  PROVE  ListInv'
<1>1. ListOK(Normalized)
  BY NormalizedApart DEF ListInv, StoredOK, ListOK
<1>2. Normalized \in Lists /\ value \in Lists /\ {} \in Lists
  BY <1>1 DEF ListOK, Lists
<1>3. CASE Normalized = schedules
  <2>1. /\ <<value>> \in Seq(Lists)
        /\ \A j \in DOMAIN <<value>> : ValueOK("schedules", <<value>>[j])
    BY <1>2 DEF ValueOK
  <2>2. Edit("schedules", <<value>>, {}, {})
    BY <1>3 DEF WriteSchedules
  <2> QED BY <1>2, <2>1, <2>2, EditLists DEF Keys
<1>4. CASE Normalized # schedules
  <2> DEFINE two == <<Normalized, value>>
  <2>1. /\ two \in Seq(Lists)
        /\ \A j \in DOMAIN two : ValueOK("schedules", two[j])
    BY <1>1, <1>2 DEF ValueOK
  <2>2. Edit("schedules", two, {}, {})
    BY <1>4 DEF WriteSchedules
  <2> QED BY <1>2, <2>1, <2>2, EditLists DEF Keys
<1> QED
  BY <1>3, <1>4

(* what the schedule page stores was validated against the stored list     *)
LEMMA SchedulePageLists ==
  ASSUME ListInv, SchedulePage PROVE ListInv'
<1>1. /\ schedules \subseteq Schedules /\ ApartFrom(schedules, now)
      /\ now \in Nat /\ nextSchedule \in Nat
  BY DEF ListInv, StoredOK, ListOK
<1>2. \A plan \in Plans, id \in Nat : Numbered(plan, id) \in Schedules
  BY ServiceWorkerAssumption DEF Numbered, Schedules
<1>3. ASSUME NEW plan \in Plans, CreateSchedule(plan) PROVE ListInv'
  <2> DEFINE s == Numbered(plan, nextSchedule)
  <2>1. s \in Schedules
    BY <1>1, <1>2
  <2>2. /\ ValidSchedule(s, Normalized, Day(now))
        /\ WriteSchedules(Normalized \cup {s}) /\ nextSchedule' = nextSchedule + 1
    BY <1>3 DEF CreateSchedule
  <2> HIDE DEF s
  <2>3. ListOK(Normalized \cup {s})
    BY <1>1, <2>1, <2>2, ValidKeepsApart DEF ListOK
  <2> QED BY <2>2, <2>3, ScheduleEdits
<1>4. ASSUME NEW old \in schedules, NEW plan \in Plans, UpdateSchedule(old, plan)
      PROVE  ListInv'
  <2> DEFINE s    == Numbered(plan, old.id)
             kept == {o \in Normalized : o.id # old.id}
  <2>1. s \in Schedules
    BY <1>1, <1>2 DEF Schedules
  <2>2. /\ ValidSchedule(s, Normalized, Day(now))
        /\ WriteSchedules(kept \cup {s}) /\ nextSchedule' = nextSchedule
    BY <1>4 DEF UpdateSchedule
  <2>3. kept \in SUBSET Normalized
    OBVIOUS
  <2> HIDE DEF s, kept
  <2>4. ListOK(kept \cup {s})
    BY <1>1, <2>1, <2>2, <2>3, ValidKeepsApart DEF ListOK
  <2> QED BY <2>2, <2>4, ScheduleEdits
<1>5. ASSUME NEW old \in schedules, DeleteSchedule(old) PROVE ListInv'
  <2> DEFINE kept == {o \in Normalized : o.id # old.id}
  <2>1. WriteSchedules(kept) /\ nextSchedule' = nextSchedule
    BY <1>5 DEF DeleteSchedule
  <2>2. kept \subseteq Normalized
    OBVIOUS
  <2>3. ListOK(kept)
    BY <1>1, <2>2, NormalizedApart DEF ListOK, ApartFrom
  <2> HIDE DEF kept
  <2> QED BY <2>1, <2>3, ScheduleEdits
<1> QED
  BY <1>3, <1>4, <1>5 DEF SchedulePage

(* what the other pages store is of the type of its key                    *)
LEMMA ListPages ==
  ASSUME ListInv, BlocklistPage \/ AllowlistPage PROVE ListInv'
<1>0. /\ blocklist \subseteq Accepted /\ whitelist \subseteq Accepted
      /\ temporary \subseteq Allows /\ {} \in Lists /\ {} \in AllowLists
      /\ now \in Nat
  BY DEF ListInv, StoredOK, Lists, AllowLists
<1>1. ASSUME NEW key \in {"blocklist", "whitelist"}, NEW list \in SUBSET Accepted,
             EditList(key, list)
      PROVE  ListInv'
  <2>1. list \in Lists /\ key \in Keys
    BY BlockingRulesAssumption DEF Keys, Lists
  <2>2. <<list>> \in Seq(Lists) /\ \A j \in DOMAIN <<list>> : ValueOK(key, <<list>>[j])
    BY <2>1 DEF ValueOK
  <2> QED BY <1>0, <1>1, <2>1, <2>2, EditLists DEF EditList
<1>2. CASE BlocklistPage
  <2> PICK e \in Entries : AddBlocklist(e) \/ RemoveBlocklist(e)
    BY <1>2 DEF BlocklistPage
  <2>1. CASE AddBlocklist(e)
    BY <1>0, <1>1, <2>1 DEF AddBlocklist, IsValidStoredDomain
  <2>2. CASE RemoveBlocklist(e)
    BY <1>0, <1>1, <2>2 DEF RemoveBlocklist
  <2> QED BY <2>1, <2>2
<1>3. ASSUME NEW e \in Entries, AddWhitelist(e) \/ RemoveWhitelist(e)
      PROVE  ListInv'
  <2>1. CASE AddWhitelist(e)
    BY <1>0, <1>1, <2>1 DEF AddWhitelist, IsValidStoredDomain
  <2>2. CASE RemoveWhitelist(e)
    BY <1>0, <1>1, <2>2 DEF RemoveWhitelist
  <2> QED BY <1>3, <2>1, <2>2
<1>4. AllowLists \subseteq Lists /\ Unexpired(temporary, now) \in AllowLists
  BY <1>0 DEF Unexpired, Lists, AllowLists
<1>5. Pruned \in Seq(AllowLists)
  BY <1>4 DEF Pruned
<1>6. ASSUME NEW values \in Seq(AllowLists), values # <<>>,
             NEW gives \in AllowLists, NEW takes \in AllowLists,
             Edit("temporary", values, gives, takes), UNCHANGED nextSchedule
      PROVE  ListInv'
  <2>1. values \in Seq(Lists)
    BY <1>4
  <2>2. \A j \in DOMAIN values : ValueOK("temporary", values[j])
    BY DEF ValueOK, AllowLists
  <2> QED BY <1>4, <1>6, <2>1, <2>2, EditLists DEF Keys
<1>7. CASE ListTemporaryAllows
  BY <1>0, <1>5, <1>6, <1>7 DEF ListTemporaryAllows
<1>8. ASSUME NEW e \in Entries, NEW d \in AllowTimes, AddTemporaryAllow(e, d)
      PROVE  ListInv'
  <2> DEFINE entry == [domain |-> e, expires |-> now + d]
             kept  == Unexpired(temporary, now) \cup {entry}
  <2>1. entry \in Allows
    BY <1>0, ServiceWorkerAssumption DEF Allows
  <2>2. Edit("temporary", Append(Pruned, kept), {entry}, {})
        /\ UNCHANGED nextSchedule
    BY <1>8 DEF AddTemporaryAllow
  <2> HIDE DEF entry
  <2>3. kept \in AllowLists /\ {entry} \in AllowLists
    BY <1>4, <2>1 DEF AllowLists
  <2> HIDE DEF kept
  <2>4. Append(Pruned, kept) \in Seq(AllowLists) /\ Append(Pruned, kept) # <<>>
    BY <1>5, <2>3, AppendedTo
  <2> QED BY <1>0, <1>6, <2>2, <2>3, <2>4
<1>9. ASSUME NEW entry \in temporary, RemoveTemporaryAllow(entry)
      PROVE  ListInv'
  <2>1. temporary \ {entry} \in AllowLists /\ {entry} \in AllowLists
    BY <1>0 DEF AllowLists
  <2>2. <<temporary \ {entry}>> \in Seq(AllowLists)
    BY <2>1
  <2> QED BY <1>0, <1>6, <1>9, <2>1, <2>2 DEF RemoveTemporaryAllow
<1> QED
  BY <1>2, <1>3, <1>7, <1>8, <1>9 DEF AllowlistPage

(* A write leaves the other writers, and itself with the rest of its values. *)
LEMMA WritersLeft ==
  ASSUME writes \in Seq(Write), NEW i \in DOMAIN writes, WriteStep(i)
  PROVE  /\ Len(writes[i].values) = 1 => writes' \in Seq(Write)
         /\ \A j \in DOMAIN writes' :
              \/ \E k \in DOMAIN writes \ {i} : writes'[j] = writes[k]
              \/ /\ Len(writes[i].values) # 1
                 /\ writes'[j] = [writes[i] EXCEPT !.values = Tail(@)]
<1> DEFINE w      == writes[i]
           before == SubSeq(writes, 1, i - 1)
           after  == SubSeq(writes, i + 1, Len(writes))
<1>0. writes' = IF Len(w.values) = 1 THEN before \o after
                ELSE [writes EXCEPT ![i].values = Tail(w.values)]
  BY DEF WriteStep
<1>1. writes \in Seq(Write) /\ i \in 1..Len(writes) /\ Len(writes) \in Nat
      /\ DOMAIN writes = 1..Len(writes)
  OBVIOUS
<1>2. CASE Len(w.values) = 1
  <2>1. /\ before \in Seq(Write) /\ Len(before) = i - 1
        /\ \A j \in 1..(i - 1) : before[j] = writes[j]
    BY <1>1
  <2>2. /\ after \in Seq(Write) /\ Len(after) = Len(writes) - i
        /\ \A j \in 1..(Len(writes) - i) : after[j] = writes[i + j]
    BY <1>1
  <2>3. writes' = before \o after
    BY <1>0, <1>2
  <2> HIDE DEF before, after
  <2>4. /\ writes' \in Seq(Write) /\ Len(writes') = Len(writes) - 1
        /\ \A j \in 1..Len(writes') :
             writes'[j] = IF j <= i - 1 THEN before[j] ELSE after[j - (i - 1)]
    <3>1. /\ before \o after \in Seq(Write)
          /\ Len(before \o after) = Len(before) + Len(after)
          /\ \A j \in 1..(Len(before) + Len(after)) :
               (before \o after)[j] = IF j <= Len(before) THEN before[j]
                                      ELSE after[j - Len(before)]
      BY <2>1, <2>2, ConcatProperties
    <3>2. i \in Nat /\ (i - 1) + (Len(writes) - i) = Len(writes) - 1
      BY <1>1
    <3> QED BY <2>1, <2>2, <2>3, <3>1, <3>2
  <2>5. ASSUME NEW j \in 1..Len(writes')
        PROVE  \E k \in 1..Len(writes) : k # i /\ writes'[j] = writes[k]
    <3>1. CASE j <= i - 1
      BY <1>1, <2>1, <2>4, <3>1
    <3>2. CASE ~(j <= i - 1)
      <4>1. j - (i - 1) \in 1..(Len(writes) - i)
        BY <1>1, <2>4, <3>2
      <4>2. writes'[j] = writes[i + (j - (i - 1))]
        BY <2>2, <2>4, <3>2, <4>1
      <4>3. i + (j - (i - 1)) \in 1..Len(writes) /\ i + (j - (i - 1)) # i
        BY <1>1, <4>1
      <4> QED BY <4>2, <4>3
    <3> QED BY <3>1, <3>2
  <2>6. DOMAIN writes' = 1..Len(writes')
    BY <2>4
  <2> QED BY <1>1, <1>2, <2>4, <2>5, <2>6
<1>3. CASE Len(w.values) # 1
  <2>1. /\ DOMAIN writes' = DOMAIN writes
        /\ \A j \in DOMAIN writes :
             writes'[j] = IF j = i THEN [w EXCEPT !.values = Tail(@)] ELSE writes[j]
    BY <1>0, <1>3
  <2> QED BY <1>3, <2>1
<1> QED
  BY <1>2, <1>3

(* The write itself: the first value is stored, the rest remains.           *)
LEMMA FinishLists ==
  ASSUME ListInv, NEW i \in DOMAIN writes, WriteStep(i) PROVE ListInv'
<1> DEFINE w    == writes[i]
           rest == [w EXCEPT !.values = Tail(w.values)]
<1>1. writes \in Seq(Write) /\ w \in Write /\ WriteOK(w) /\ i \in 1..Len(writes)
  BY DEF ListInv, WritesOK
<1>2. /\ w.values \in Seq(Lists) /\ w.values # <<>>
      /\ Head(w.values) \in Lists /\ Head(w.values) = w.values[1]
      /\ 1 \in DOMAIN w.values /\ Len(w.values) \in Nat
  BY <1>1 DEF Write, WriteOK
<1>3. /\ blocklist' = IF w.key = "blocklist" THEN Head(w.values) ELSE blocklist
      /\ whitelist' = IF w.key = "whitelist" THEN Head(w.values) ELSE whitelist
      /\ temporary' = IF w.key = "temporary" THEN Head(w.values) ELSE temporary
      /\ schedules' = IF w.key = "schedules" THEN Head(w.values) ELSE schedules
      /\ writes' = IF Len(w.values) = 1
                   THEN SubSeq(writes, 1, i - 1)
                          \o SubSeq(writes, i + 1, Len(writes))
                   ELSE [writes EXCEPT ![i].values = Tail(w.values)]
      /\ UNCHANGED <<task, now, nextSchedule>>
  BY DEF WriteStep, worker, bounds
<1>4. ListOK(schedules) /\ ValueOK(w.key, Head(w.values))
  BY <1>1, <1>2 DEF ListInv, StoredOK, WriteOK
<1>5. StoredOK'
  BY <1>3, <1>4 DEF ListInv, StoredOK, ValueOK, ListOK
<1>6. TaskReads'
  BY <1>3 DEF ListInv, TaskReads
<1>7. writes' \in Seq(Write) /\ \A j \in DOMAIN writes' : WriteOK(writes'[j])
  <2>1. CASE Len(w.values) = 1
    BY <1>1, <1>2, <2>1, WritersLeft DEF ListInv, WritesOK
  <2>2. CASE Len(w.values) # 1
    <3>1. /\ Tail(w.values) \in Seq(Lists) /\ Tail(w.values) # <<>>
          /\ \A j \in DOMAIN Tail(w.values) :
               j + 1 \in DOMAIN w.values /\ Tail(w.values)[j] = w.values[j + 1]
      BY <1>2, <2>2, TailOf
    <3>2. rest \in Write /\ rest.key = w.key /\ rest.values = Tail(w.values)
      BY <1>1, <3>1 DEF Write
    <3>3. WriteOK(rest)
      BY <1>1, <3>1, <3>2 DEF WriteOK
    <3>4. writes' = [writes EXCEPT ![i] = rest]
      BY <1>3, <2>2
    <3> HIDE DEF rest
    <3> QED
      BY <1>1, <3>2, <3>3, <3>4 DEF ListInv, WritesOK
  <2> QED
    BY <2>1, <2>2
<1>8. WritesOK'
  <2>1. now' = now
    BY <1>3
  <2> QED
    BY <1>7, <2>1 DEF WritesOK, WriteOK, ValueOK, ListOK
<1> QED
  BY <1>5, <1>6, <1>8 DEF ListInv

(* the lists under way stay valid while time passes                        *)
LEMMA ListStep == ListInv /\ [Next]_vars => ListInv'
<1> SUFFICES ASSUME ListInv, [Next]_vars PROVE ListInv'
  OBVIOUS
<1>1. CASE UNCHANGED <<lists, writes, now, nextSchedule, task>>
  BY <1>1 DEF lists, ListInv, StoredOK, TaskReads, WritesOK, WriteOK, ValueOK, ListOK
<1>2. CASE Tick
  <2>1. now' = now + 1 /\ UNCHANGED <<lists, writes, nextSchedule, task>>
    BY <1>2 DEF Tick, worker
  <2>2. \A list : ListOK(list) => list \subseteq Schedules /\ ApartFrom(list, now')
    BY <2>1, ServiceWorkerAssumption DEF ListOK, ApartFrom, ListInv, StoredOK
  <2> QED
    BY <2>1, <2>2 DEF lists, ListInv, StoredOK, TaskReads, WritesOK, WriteOK, ValueOK, ListOK
<1>3. CASE Restart
  <2>1. /\ writes' = <<>> /\ task' = Idle
        /\ UNCHANGED <<lists, now, nextSchedule>>
    BY <1>3 DEF Restart
  <2>2. IsTask(Idle) /\ Idle.allows = {}
    BY DEF Idle, IsTask
  <2>3. WritesOK'
    BY <2>1 DEF WritesOK
  <2> QED
    BY <2>1, <2>2, <2>3 DEF lists, ListInv, StoredOK, TaskReads, ListOK
<1>4. StorageChanged \/ Alarm \/ Sleep
        => UNCHANGED <<lists, writes, now, nextSchedule, task>>
  BY DEF StorageChanged, Alarm, AlarmFires, Sleep, bounds, worker
<1>5. PopupStep => \/ UNCHANGED <<lists, writes, now, nextSchedule, task>>
                   \/ BlocklistPage \/ AllowlistPage \/ SchedulePage
  BY DEF PopupStep, SendStart, SendStop, GetStatus, SendToBackground,
         ClearHistory, worker
<1>6. UNCHANGED vars => UNCHANGED <<lists, writes, now, nextSchedule, task>>
  BY DEF vars, bounds, worker
<1> QED
  BY <1>1, <1>2, <1>3, <1>4, <1>5, <1>6, WorkerLists, ListPages,
     SchedulePageLists, FinishLists DEF Next, Finishes

(* Whatever several popups validate against what each of them read, and     *)
(* however their writes interleave with the worker, with time and with      *)
(* restarts: no two stored schedules run at one time, now or later.         *)
THEOREM NeverOverlapping == Spec => []SchedulesNeverOverlap
<1>1. ListInv => SchedulesNeverOverlap
  BY DEF ListInv, StoredOK, ListOK, ApartFrom, SchedulesNeverOverlap, Apart
<1> QED
  BY <1>1, ListInit, ListStep, PTL DEF Spec

-----------------------------------------------------------------------------
(* Readers: the earliest time, the first schedule, alarms and suppressions. *)

(* numbers have a least one                                                *)
LEMMA Least ==
  ASSUME NEW T \in SUBSET Nat, T # {}
  PROVE  \E x \in T : \A y \in T : x <= y
<1> DEFINE R == OpToRel(<, Nat)
<1>1. IsWellFoundedOn(R, Nat)
  BY NatLessThanWellFounded
<1>2. \A x, y \in Nat : y < x => <<y, x>> \in R
  BY DEF OpToRel
<1> HIDE DEF R
<1>3. PICK x \in T : \A y \in T : <<y, x>> \notin R
  BY <1>1, WFMin
<1>4. \A y \in T : y \in Nat /\ x \in Nat /\ ~(y < x)
  BY <1>2, <1>3
<1>5. ASSUME NEW y \in T PROVE x <= y
  <2>1. y \in Nat /\ x \in Nat /\ ~(y < x)
    BY <1>4
  <2> QED BY <2>1
<1> QED
  BY <1>5

AlarmTimes == (Nat \ {0}) \cup {None}

(* an alarm that is set is set for a time after the start                  *)
LEMMA EarliestOK ==
  ASSUME NEW times \in SUBSET (Nat \ {0}) PROVE Earliest(times) \in AlarmTimes
<1>1. CASE times = {}
  BY <1>1 DEF Earliest, AlarmTimes
<1>2. CASE times # {}
  <2>1. \E t \in times : \A u \in times : t <= u
    BY <1>2, Least
  <2> QED
    BY <1>2, <2>1 DEF Earliest, AlarmTimes
<1> QED
  BY <1>1, <1>2

(* an alarm set for the earliest of some times is not after any of them     *)
LEMMA EarliestIsFirst ==
  ASSUME NEW times \in SUBSET Nat, NEW time \in times
  PROVE  Earliest(times) \in times /\ Earliest(times) <= time
<1>1. \E t \in times : \A u \in times : t <= u
  BY Least
<1> QED
  BY <1>1 DEF Earliest

(* the schedule of the moment runs, and there is none only if none runs     *)
LEMMA CurrentOK ==
  ASSUME NEW all \in SUBSET Schedules, NEW t
  PROVE  /\ GetCurrentSchedule(all, t) \in Schedules \cup {None}
         /\ \/ /\ GetCurrentSchedule(all, t) \in all
               /\ Running(GetCurrentSchedule(all, t), t)
            \/ /\ GetCurrentSchedule(all, t) = None
               /\ \A s \in all : ~Running(s, t)
<1> DEFINE running == {s \in all : Running(s, t)}
           ids     == {s.id : s \in running}
<1>1. CASE running = {}
  <2>1. \A s \in all : ~Running(s, t)
    BY <1>1
  <2> QED BY <1>1, <2>1 DEF GetCurrentSchedule
<1>2. CASE running # {}
  <2>1. ids \in SUBSET Nat /\ ids # {}
    BY <1>2 DEF Schedules
  <2>2. PICK x \in ids : \A y \in ids : x <= y
    <3> HIDE DEF ids
    <3> QED BY <2>1, Least
  <2>3. \E s \in running : \A o \in running : s.id <= o.id
    BY <2>2
  <2> HIDE DEF running
  <2>4. (CHOOSE s \in running : \A o \in running : s.id <= o.id) \in running
    BY <2>3
  <2>5. GetCurrentSchedule(all, t) \in running
    BY <1>2, <2>4 DEF GetCurrentSchedule, running
  <2> QED
    BY <2>5 DEF running
<1> QED
  BY <1>1, <1>2

(* the boundary of a window is a time                                      *)
LEMMA BoundaryOK ==
  ASSUME NEW t \in Nat, NEW time \in 0..DayLen
  PROVE  ScheduleBoundary(time, t) \in Nat
<1>1. Day(t) \in Nat /\ DayLen \in Nat
  BY DayIsMonotone, WeekSchedulesAssumption
<1>2. \A a, b \in Nat : a * b \in Nat
  OBVIOUS
<1>3. Day(t) * DayLen \in Nat
  BY <1>1, <1>2
<1> QED
  BY <1>1, <1>3 DEF ScheduleBoundary

(* the boundaries ahead are times after the start, with an alarm or without *)
LEMMA BoundariesOK ==
  ASSUME NEW all \in SUBSET Schedules, NEW t \in Nat
  PROVE  /\ Boundaries(all, t) \subseteq BoundariesAhead(all, t)
         /\ BoundariesAhead(all, t) \in SUBSET (Nat \ {0})
         /\ Boundaries(all, t) \in SUBSET (Nat \ {0})
<1>1. Day(t) \in Nat /\ DayLen \in Nat
  BY DayIsMonotone, WeekSchedulesAssumption
<1>2. \A a, b \in Nat : a * b \in Nat
  OBVIOUS
<1>3. \A offset \in 0..7 : (Day(t) + offset) * DayLen \in Nat
  BY <1>1, <1>2
<1>4. UNION {{s.start, s.end} : s \in all} \subseteq 0..DayLen
  BY DEF Schedules
<1>0. Boundaries(all, t) \subseteq BoundariesAhead(all, t)
  BY DEF Boundaries
<1> SUFFICES ASSUME NEW b \in BoundariesAhead(all, t) PROVE b \in Nat \ {0}
  BY <1>0
<1>5. PICK offset \in 0..7, time \in UNION {{s.start, s.end} : s \in all} :
        b = (Day(t) + offset) * DayLen + time
  BY DEF BoundariesAhead
<1>6. b > t
  BY DEF BoundariesAhead
<1>7. b \in Nat
  <2> DEFINE midnight == (Day(t) + offset) * DayLen
  <2>1. midnight \in Nat /\ b = midnight + time
    BY <1>3, <1>5
  <2>2. time \in Nat
    BY <1>1, <1>4
  <2> HIDE DEF midnight
  <2> QED BY <2>1, <2>2
<1> QED
  BY <1>6, <1>7

(* the day and the time of the day are the time *)
LEMMA DayAndTime ==
  ASSUME NEW t \in Nat
  PROVE  /\ Day(t) \in Nat /\ DayTime(t) \in Nat /\ DayTime(t) < DayLen
         /\ t = Day(t) * DayLen + DayTime(t)
BY WeekSchedulesAssumption DEF Day, DayTime

(* a later midnight is a whole day later *)
LEMMA Midnights ==
  ASSUME NEW d \in Nat, NEW e \in Nat, d < e
  PROVE  /\ d * DayLen \in Nat /\ e * DayLen \in Nat
         /\ d * DayLen + DayLen <= e * DayLen
<1>1. DayLen \in Nat
  BY WeekSchedulesAssumption
<1>2. PICK k \in Nat : e = d + 1 + k
  BY SMT
<1>3. e * DayLen = d * DayLen + DayLen + k * DayLen
  BY <1>1, <1>2
<1>4. d * DayLen \in Nat /\ k * DayLen \in Nat
  BY <1>1
<1> QED
  BY <1>1, <1>3, <1>4

(* seven days have every weekday *)
LEMMA SameWeekday ==
  ASSUME NEW from \in Nat, NEW day \in Nat, from + 7 < day
  PROVE  \E d \in from + 1..from + 7 : d % WeekLen = day % WeekLen
<1> DEFINE d == from + 1 + ((day - from - 1) % WeekLen)
<1>1. /\ d \in from + 1..from + 7 /\ d % WeekLen = day % WeekLen
  <2>1. WeekLen = 1 \/ WeekLen = 2 \/ WeekLen = 3 \/ WeekLen = 4 \/ WeekLen = 5
        \/ WeekLen = 6 \/ WeekLen = 7
    BY WeekSchedulesAssumption
  <2>2. CASE WeekLen = 1
    BY <2>2
  <2>3. CASE WeekLen = 2
    BY <2>3
  <2>4. CASE WeekLen = 3
    BY <2>4
  <2>5. CASE WeekLen = 4
    BY <2>5
  <2>6. CASE WeekLen = 5
    BY <2>6
  <2>7. CASE WeekLen = 6
    BY <2>7
  <2>8. CASE WeekLen = 7
    BY <2>8
  <2> QED BY <2>1, <2>2, <2>3, <2>4, <2>5, <2>6, <2>7, <2>8
<1> QED BY <1>1

(* a start or an end on a day a schedule runs, in the days that are looked at *)
LEMMA BoundaryOfDay ==
  ASSUME NEW all \in SUBSET Schedules, NEW s \in all, NEW t \in Nat,
         NEW d \in Day(t)..Day(t) + 7, NEW time \in {s.start, s.end},
         ScheduleRunsOn(s, d), d * DayLen + time > t
  PROVE  d * DayLen + time \in BoundariesAhead(all, t)
<1> DEFINE b == d * DayLen + time
<1>0. Day(t) \in Nat /\ DayLen \in Nat
  BY DayAndTime, WeekSchedulesAssumption
<1>1. /\ d \in Nat /\ d - Day(t) \in 0..7 /\ Day(t) + (d - Day(t)) = d
      /\ DayLen \in Nat /\ time \in Nat
  <2>1. time \in Nat
    BY <1>0 DEF Schedules
  <2> QED BY <1>0, <2>1
<1>2. d * DayLen \in Nat
  BY <1>1
<1>3. b = (Day(t) + (d - Day(t))) * DayLen + time
  BY <1>1
<1>4. b - d * DayLen = time
  BY <1>1, <1>2
<1>5. time \in UNION {{o.start, o.end} : o \in all}
  OBVIOUS
<1> HIDE DEF b
<1>6. b > t
  BY DEF b
<1> QED
  BY <1>1, <1>3, <1>4, <1>5, <1>6 DEF BoundariesAhead, b

(* Between a time and the next boundary seen from it, no schedule begins or *)
(* ends to run.                                                             *)
LEMMA BoundariesForesee ==
  ASSUME NEW all \in SUBSET Schedules, NEW s \in all, NEW t \in Nat, NEW u \in Nat,
         t <= u, \A b \in BoundariesAhead(all, t) : u < b
  PROVE  Running(s, u) <=> Running(s, t)
<1>0. /\ s \in Schedules /\ DayLen \in Nat
      /\ s.start \in 0..DayLen /\ s.end \in 0..DayLen
  BY WeekSchedulesAssumption DEF Schedules
<1>1. /\ Day(t) \in Nat /\ DayTime(t) \in Nat /\ DayTime(t) < DayLen
      /\ t = Day(t) * DayLen + DayTime(t)
      /\ Day(u) \in Nat /\ DayTime(u) \in Nat /\ DayTime(u) < DayLen
      /\ u = Day(u) * DayLen + DayTime(u)
      /\ Day(t) * DayLen \in Nat /\ Day(u) * DayLen \in Nat
      /\ Day(t) <= Day(u)
  <2>1. \A a, b \in Nat : a * b \in Nat
    OBVIOUS
  <2> QED BY <1>0, <2>1, DayAndTime, DayIsMonotone
<1>2. Day(t) < Day(u) => Day(t) * DayLen + DayLen <= Day(u) * DayLen
  BY <1>1, Midnights
<1>3. ASSUME Running(s, t), ~Running(s, u) PROVE FALSE
  <2>1. /\ ScheduleRunsOn(s, Day(t)) /\ s.start <= DayTime(t) /\ DayTime(t) < s.end
        /\ s.start < s.end
    BY <1>3 DEF Running
  <2>2. Day(t) * DayLen + s.end > t
    BY <1>0, <1>1, <2>1
  <2>3. Day(t) * DayLen + s.end \in BoundariesAhead(all, t)
    BY <1>1, <2>1, <2>2, BoundaryOfDay
  <2>4. u < Day(t) * DayLen + s.end
    BY <2>3
  <2>5. CASE Day(t) = Day(u)
    <3>1. DayTime(u) < s.end /\ s.start <= DayTime(u)
      BY <1>0, <1>1, <2>1, <2>4, <2>5
    <3> QED BY <1>3, <2>1, <2>5, <3>1 DEF Running
  <2>6. CASE Day(t) < Day(u)
    BY <1>0, <1>1, <1>2, <2>4, <2>6
  <2> QED BY <1>1, <2>5, <2>6
<1>4. ASSUME ~Running(s, t), Running(s, u) PROVE FALSE
  <2>1. /\ ScheduleRunsOn(s, Day(u)) /\ s.start <= DayTime(u) /\ DayTime(u) < s.end
        /\ s.start < s.end
    BY <1>4 DEF Running
  <2>2. PICK d \in Day(t)..Day(t) + 7 :
          ScheduleRunsOn(s, d) /\ d <= Day(u) /\ (d = Day(t) => d = Day(u))
    <3>1. CASE Day(u) <= Day(t) + 7
      BY <1>1, <2>1, <3>1
    <3>2. CASE Day(t) + 7 < Day(u)
      <4>1. PICK d \in Day(t) + 1..Day(t) + 7 : d % WeekLen = Day(u) % WeekLen
        BY <1>1, <3>2, SameWeekday
      <4>2. d \in Day(t)..Day(t) + 7 /\ d <= Day(u) /\ d # Day(t)
        BY <1>1, <3>2
      <4>3. ScheduleRunsOn(s, d)
        BY <1>0, <1>1, <2>1, <4>1, <4>2 DEF ScheduleRunsOn, Schedules
      <4> QED BY <4>2, <4>3
    <3> QED BY <1>1, <3>1, <3>2
  <2>3. d \in Nat /\ d * DayLen \in Nat
    BY <1>0, <1>1
  <2>4. d * DayLen + s.start > t
    <3>1. CASE d = Day(t)
      <4>1. DayTime(t) < s.start \/ s.end <= DayTime(t)
        BY <1>0, <1>1, <1>4, <2>1, <2>2, <3>1 DEF Running
      <4>2. DayTime(t) <= DayTime(u)
        BY <1>1, <2>2, <3>1
      <4> QED BY <1>0, <1>1, <2>1, <3>1, <4>1, <4>2
    <3>2. CASE Day(t) < d
      <4>1. Day(t) * DayLen + DayLen <= d * DayLen
        BY <1>1, <2>3, <3>2, Midnights
      <4> QED BY <1>0, <1>1, <2>3, <4>1
    <3> QED BY <1>1, <2>3, <3>1, <3>2
  <2>5. d * DayLen + s.start \in BoundariesAhead(all, t)
    BY <2>2, <2>4, BoundaryOfDay
  <2>6. u < d * DayLen + s.start
    BY <2>5
  <2>7. CASE d = Day(u)
    BY <1>0, <1>1, <2>1, <2>6, <2>7
  <2>8. CASE d < Day(u)
    <3>1. d * DayLen + DayLen <= Day(u) * DayLen
      BY <1>1, <2>3, <2>8, Midnights
    <3> QED BY <1>0, <1>1, <2>3, <2>6, <3>1
  <2> QED BY <1>1, <2>2, <2>3, <2>7, <2>8
<1> QED
  BY <1>3, <1>4

(* schedules are suppressed until a time                                   *)
LEMMA SuppressionOK ==
  ASSUME NEW ends \in SUBSET (0..DayLen), NEW planned \in Nat, NEW t \in Nat
  PROVE  ScheduleSuppression(ends, planned, t) \in Nat
<1> DEFINE scheduledEnd == {ScheduleBoundary(e, t) : e \in ends}
<1>1. scheduledEnd \subseteq Nat
  BY BoundaryOK
<1> HIDE DEF scheduledEnd
<1>2. CASE \E e \in scheduledEnd : e > t
  <2>1. (CHOOSE e \in scheduledEnd : e > t) \in scheduledEnd
    BY <1>2
  <2> QED BY <1>1, <1>2, <2>1 DEF ScheduleSuppression, scheduledEnd
<1>3. CASE ~ \E e \in scheduledEnd : e > t
  <2>1. planned * PerSec \in Nat
    BY WeekSchedulesAssumption
  <2> QED BY <1>3, <2>1 DEF ScheduleSuppression, scheduledEnd
<1> QED
  BY <1>2, <1>3

(* seconds are whole numbers, and there is at least one to wait for         *)
LEMMA SecondsOK ==
  /\ \A until, t \in Nat : SecondsUntil(until, t) \in Int
  /\ \A t, u \in Nat : (t - u) \div PerSec \in Int
  /\ \A n \in Int : Later(1, n) \in Nat /\ PerSec * Later(1, n) \in Nat \ {0}
<1>1. PerSec \in Nat \ {0}
  BY WeekSchedulesAssumption
<1>2. \A k \in Int : k \div PerSec \in Int
  BY <1>1
<1>3. ASSUME NEW n \in Int
      PROVE  Later(1, n) \in Nat /\ PerSec * Later(1, n) \in Nat \ {0}
  <2>1. Later(1, n) \in Nat /\ Later(1, n) >= 1
    BY DEF Later
  <2>2. \A a, b \in Nat : a > 0 /\ b > 0 => a * b \in Nat /\ a * b > 0
    OBVIOUS
  <2> QED BY <1>1, <2>1, <2>2
<1>4. ASSUME NEW until \in Nat, NEW t \in Nat PROVE SecondsUntil(until, t) \in Int
  <2>1. until - t + PerSec - 1 \in Int
    BY <1>1
  <2> QED BY <1>2, <2>1 DEF SecondsUntil
<1>5. \A t, u \in Nat : (t - u) \div PerSec \in Int
  BY <1>2
<1> QED
  BY <1>3, <1>4, <1>5

(* the expiry alarm lies ahead of the start of time                        *)
LEMMA ExpiryOK ==
  ASSUME NEW s \in Sessions, NEW cur \in Schedules \cup {None}, now \in Nat
  PROVE  Expiry(s, cur) \in Nat \ {0}
<1>1. s.planned \in Nat /\ (now - s.started) \div PerSec \in Int
  BY SecondsOK DEF Sessions
<1>2. cur # None => SecondsUntil(ScheduleBoundary(cur.end, now), now) \in Int
  BY BoundaryOK, SecondsOK DEF Schedules
<1>3. RemainingSec(s, cur) \in Int
  BY <1>1, <1>2 DEF RemainingSec
<1>4. PerSec * Later(1, RemainingSec(s, cur)) \in Nat \ {0}
  BY <1>3, SecondsOK
<1> QED
  BY <1>4 DEF Expiry

-----------------------------------------------------------------------------
(* The session, the task, the queue and the alarms.                         *)

Entry   == [id : Nat, sched : Times, outcome : Outcomes]
Message == [type : {"reconcile", "stop", "expire"}]
             \cup [type : {"start"}, mode : Modes, planned : Nat \ {0}]

(* What is archived is there until it is reset, and a schedule is selected  *)
(* before it is activated.                                                  *)
TaskOK ==
  /\ task.seen \in Seq(Entry) /\ task.schedules \subseteq Schedules
  /\ task.cur \in Schedules \cup {None}
  /\ At("archive") => task.outcome \in Outcomes
  /\ At("archive") \/ At("reset") \/ At("enforce") => active # None
  /\ At("activate") => task.cur # None
  /\ (At("archive") \/ At("reset")) /\ task.then = "activate" => task.cur # None
SessionOK ==
  /\ active \in Sessions \cup {None} /\ history \in Seq(Entry)
  /\ nextSession \in Nat /\ suppressed \in Times
QueueOK  == queue \in Seq(Message)
FlagsOK  == challenge \in BOOLEAN /\ changed \in BOOLEAN /\ reconcile \in BOOLEAN
AlarmsOK == alarms \in [{"expiry", "boundary", "allow"} -> AlarmTimes]
Types == ListInv /\ TaskOK /\ SessionOK /\ QueueOK /\ FlagsOK /\ AlarmsOK

(* a browser that starts has its types                                     *)
LEMMA TypesInit == Init => Types
<1> SUFFICES ASSUME Init PROVE Types
  OBVIOUS
<1>1. PICK s \in Stored :
        active = s.active /\ nextSession = IF s.active = None THEN 1 ELSE 2
  BY DEF Init
<1>2. SessionOK
  BY <1>1, ServiceWorkerAssumption DEF Init, SessionOK, Times
<1>3. TaskOK
  BY DEF Init, TaskOK, Idle, At
<1>4. QueueOK
  <2>1. [type |-> "reconcile"] \in Message
    BY DEF Message
  <2> QED BY <2>1 DEF Init, QueueOK
<1>5. FlagsOK
  BY DEF Init, FlagsOK
<1>6. AlarmsOK
  <2>1. NoAlarms \in [{"expiry", "boundary", "allow"} -> AlarmTimes]
    BY DEF NoAlarms, AlarmTimes
  <2> QED BY <2>1 DEF Init, AlarmsOK
<1> QED
  BY <1>2, <1>3, <1>4, <1>5, <1>6, ListInit DEF Types

(* A request appends a message, a task takes one.                           *)
LEMMA QueueStep ==
  ASSUME QueueOK, [Next]_vars PROVE QueueOK'
<1>. USE DEF QueueOK
<1>0. [type |-> "reconcile"] \in Message /\ [type |-> "stop"] \in Message
      /\ [type |-> "expire"] \in Message
  BY DEF Message
<1>1. RequestReconcile => QueueOK'
  BY <1>0, AppendedTo DEF RequestReconcile
<1>2. \A type : Take(type) => QueueOK'
  BY HeadTailProperties DEF Take
<1>3. ASSUME NEW message \in Message, SendToBackground(message) PROVE QueueOK'
  BY <1>3, AppendedTo DEF SendToBackground
<1>4. WorkerStep => UNCHANGED queue \/ \E type : Take(type)
  BY DEF WorkerStep, RunReconcile, StartSession, StopSession, ExpireSession,
         EndTask, WriteHistory, ResetActive, ResetChallenge, ClearAllRules,
         ReadState, PruneAllows, SelectSchedule, MigrateStray, Supersede,
         WindowOver, LeaveWindow, ManualDue, EndsHere, ActivateScheduled,
         Enforce
<1>5. StorageChanged \/ Alarm => RequestReconcile
  BY DEF StorageChanged, Alarm, AlarmFires
<1>6. Restart => QueueOK'
  BY <1>0 DEF Restart
<1>7. Tick \/ Sleep \/ Finishes \/ UNCHANGED vars => UNCHANGED queue
  BY DEF Tick, Sleep, Finishes, WriteStep, vars, worker
<1>8. ASSUME NEW start \in Starts, SendStart(start) PROVE QueueOK'
  <2> DEFINE message == [type |-> "start", mode |-> start.mode,
                         planned |-> start.planned]
  <2>1. message \in Message
    BY ServiceWorkerAssumption DEF Message
  <2> QED BY <1>3, <1>8, <2>1 DEF SendStart
<1>9. PopupStep => UNCHANGED queue \/ QueueOK'
  <2>1. SendStop \/ GetStatus => QueueOK'
    BY <1>0, <1>3 DEF SendStop, GetStatus
  <2>2. ClearHistory \/ BlocklistPage \/ AllowlistPage \/ SchedulePage
          => UNCHANGED queue
    BY DEF ClearHistory, BlocklistPage, AllowlistPage, SchedulePage,
           AddBlocklist, RemoveBlocklist, AddWhitelist, RemoveWhitelist,
           EditList, ListTemporaryAllows, AddTemporaryAllow,
           RemoveTemporaryAllow, CreateSchedule, UpdateSchedule,
           DeleteSchedule, WriteSchedules, Edit, worker
  <2> QED BY <1>8, <2>1, <2>2 DEF PopupStep
<1> QED
  BY <1>1, <1>2, <1>4, <1>5, <1>6, <1>7, <1>9 DEF Next

(* What the popup's pages and their writes leave alone.                     *)
LEMMA PagesFrame ==
  ASSUME BlocklistPage \/ AllowlistPage \/ SchedulePage
  PROVE  UNCHANGED <<session, browser, worker, changed, nextSession, forgotten>>
BY DEF BlocklistPage, AllowlistPage, SchedulePage, AddBlocklist,
       RemoveBlocklist, AddWhitelist, RemoveWhitelist, EditList,
       ListTemporaryAllows, AddTemporaryAllow, RemoveTemporaryAllow,
       CreateSchedule, UpdateSchedule, DeleteSchedule, WriteSchedules, Edit,
       observed

(* alarms are set for times after the start                                *)
LEMMA AlarmsStep ==
  ASSUME Types, [Next]_vars PROVE AlarmsOK'
<1>. USE DEF AlarmsOK
<1>0. /\ alarms \in [{"expiry", "boundary", "allow"} -> AlarmTimes]
      /\ now \in Nat /\ schedules \subseteq Schedules
      /\ None \in AlarmTimes /\ Nat \ {0} \subseteq AlarmTimes
  BY DEF Types, ListInv, StoredOK, ListOK, AlarmTimes
<1>1. ASSUME NEW allows \in SUBSET Allows, \A a \in allows : a.expires > 0
      PROVE  AllowAlarm(allows) \in AlarmTimes
  <2> DEFINE times == {a.expires : a \in allows}
  <2>1. times \in SUBSET (Nat \ {0})
    BY <1>1 DEF Allows
  <2> HIDE DEF times
  <2>2. Earliest(times) \in AlarmTimes
    BY <2>1, EarliestOK
  <2> QED BY <2>2 DEF AllowAlarm, times
<1>2. CASE ReadState
  <2> DEFINE allows == Unexpired(temporary, now)
  <2>1. allows \in SUBSET Allows /\ \A a \in allows : a.expires > 0
    BY DEF Types, ListInv, StoredOK, Unexpired, Allows
  <2>2. BoundaryAlarm(schedules) \in AlarmTimes
    BY <1>0, BoundariesOK, EarliestOK DEF BoundaryAlarm
  <2> HIDE DEF allows
  <2>3. AllowAlarm(allows) \in AlarmTimes
    BY <1>1, <2>1
  <2> QED
    BY <1>0, <1>2, <2>2, <2>3 DEF ReadState, allows
<1>3. CASE PruneAllows
  BY <1>0, <1>1, <1>3 DEF PruneAllows, Types, ListInv, TaskReads
<1>4. CASE ClearAllRules
  BY <1>0, <1>4 DEF ClearAllRules, RejectRules
<1>5. CASE Enforce
  <2>1. active \in Sessions /\ task.cur \in Schedules \cup {None}
    BY <1>5 DEF Enforce, Types, TaskOK, SessionOK, Live, At
  <2>2. Expiry(active, task.cur) \in AlarmTimes
    BY <1>0, <2>1, ExpiryOK
  <2> QED
    BY <1>0, <1>5, <2>2 DEF Enforce, RejectRules
<1>6. CASE Alarm
  BY <1>0, <1>6 DEF Alarm, AlarmFires
<1>7. CASE Restart
  <2>1. NoAlarms \in [{"expiry", "boundary", "allow"} -> AlarmTimes]
    BY <1>0 DEF NoAlarms
  <2> QED BY <1>0, <1>7, <2>1 DEF Restart
<1>8. WorkerStep =>
        \/ ReadState \/ PruneAllows \/ ClearAllRules \/ Enforce
        \/ UNCHANGED alarms
  BY DEF WorkerStep, RunReconcile, StartSession, StopSession, ExpireSession,
         EndTask, WriteHistory, ResetActive, ResetChallenge, SelectSchedule,
         MigrateStray, Supersede, WindowOver, LeaveWindow, ManualDue, EndsHere,
         ActivateScheduled, browser
<1>9. StorageChanged \/ Tick \/ Sleep \/ Finishes \/ PopupStep \/ UNCHANGED vars
        => UNCHANGED alarms
  BY PagesFrame DEF StorageChanged, Tick, Sleep, Finishes, WriteStep, PopupStep,
     SendStart, SendStop, GetStatus, SendToBackground, ClearHistory, vars, browser
<1> QED
  BY <1>0, <1>2, <1>3, <1>4, <1>5, <1>6, <1>7, <1>8, <1>9 DEF Next

(* the flags stay flags                                                    *)
LEMMA FlagsStep ==
  ASSUME FlagsOK, [Next]_vars PROVE FlagsOK'
<1>. USE DEF FlagsOK
<1>1. WorkerStep => FlagsOK'
  BY DEF WorkerStep, RunReconcile, StartSession, StopSession, ExpireSession,
         EndTask, WriteHistory, ResetActive, ResetChallenge, ClearAllRules,
         ReadState, PruneAllows, SelectSchedule, MigrateStray, Supersede,
         WindowOver, LeaveWindow, ManualDue, EndsHere, ActivateScheduled,
         Enforce, session
<1>2. StorageChanged \/ Alarm \/ Tick \/ Sleep \/ Restart \/ Finishes => FlagsOK'
  BY DEF StorageChanged, Alarm, AlarmFires, RequestReconcile, Tick, Sleep,
         Restart, Finishes, WriteStep, session, worker
<1>3. PopupStep => FlagsOK'
  BY PagesFrame DEF PopupStep, SendStart, SendStop, GetStatus,
     SendToBackground, ClearHistory, session, worker
<1>4. UNCHANGED vars => FlagsOK'
  BY DEF vars, session, worker
<1> QED
  BY <1>1, <1>2, <1>3, <1>4 DEF Next

(* A new session and a record of the history have their fields.             *)
LEMMA ActiveSessionOK ==
  ASSUME Types, NEW sched \in Times, NEW mode \in Modes, NEW planned \in Nat
  PROVE  ActiveSession(sched, mode, planned) \in Sessions
BY BlockingRulesAssumption
   DEF ActiveSession, Sessions, Types, SessionOK, ListInv, StoredOK

(* a scheduled session is completed or cancelled                           *)
LEMMA OutcomeOK == \A s : ScheduledOutcome(s) \in Outcomes
BY DEF ScheduledOutcome, Outcomes

(* the entry that is put before the history as it was read                 *)
LEMMA ArchivedEntry ==
  ASSUME Types, WriteHistory
  PROVE  \E entry \in Entry :
           entry.id = active.id /\ history' = <<entry>> \o task.seen
<1> DEFINE entry == [id |-> active.id, sched |-> active.sched,
                     outcome |-> task.outcome]
<1>1. active \in Sessions /\ task.outcome \in Outcomes
  BY DEF WriteHistory, Types, SessionOK, TaskOK
<1>2. entry \in Entry /\ entry.id = active.id
  BY <1>1 DEF Sessions, Entry
<1>3. history' = <<entry>> \o task.seen
  BY DEF WriteHistory
<1> HIDE DEF entry
<1> QED
  BY <1>2, <1>3

(* the session of a schedule has its fields                                *)
LEMMA ActivatedOK ==
  ASSUME Types, ActivateScheduled PROVE active' \in Sessions
<1>1. task.cur \in Schedules /\ now \in Nat
  BY DEF ActivateScheduled, Types, TaskOK, ListInv, StoredOK
<1>2. ScheduleBoundary(task.cur.end, now) \in Nat
  BY <1>1, BoundaryOK DEF Schedules
<1>3. Later(1, SecondsUntil(ScheduleBoundary(task.cur.end, now), now)) \in Nat
  BY <1>1, <1>2, SecondsOK
<1>4. task.cur.id \in Times /\ task.cur.mode \in Modes
  BY <1>1 DEF Schedules, Times
<1> QED
  BY <1>3, <1>4, ActiveSessionOK DEF ActivateScheduled

(* the session of a message has its fields                                 *)
LEMMA StartedOK ==
  ASSUME Types, StartSession, active = None PROVE active' \in Sessions
<1>1. Head(queue) \in Message /\ Head(queue).type = "start"
  BY HeadTailProperties DEF StartSession, Take, Types, QueueOK
<1>2. Head(queue).mode \in Modes /\ Head(queue).planned \in Nat
  BY <1>1 DEF Message
<1> QED
  BY <1>2, ActiveSessionOK DEF StartSession, Times

(* The steps that write the session.                                        *)
SessionWrites ==
  StartSession \/ StopSession \/ WriteHistory \/ ResetActive
    \/ SelectSchedule \/ ActivateScheduled \/ ClearHistory

(* no other step writes it                                                 *)
LEMMA SessionFrame ==
  [Next]_vars /\ ~SessionWrites
    => UNCHANGED <<active, history, suppressed, nextSession, forgotten>>
<1> SUFFICES ASSUME [Next]_vars, ~SessionWrites
             PROVE  UNCHANGED <<active, history, suppressed, nextSession,
                                forgotten>>
  OBVIOUS
<1>1. WorkerStep /\ ~SessionWrites
        => UNCHANGED <<active, history, suppressed, nextSession, forgotten>>
  BY DEF SessionWrites, WorkerStep, RunReconcile, ExpireSession, EndTask,
         ResetChallenge, ClearAllRules, ReadState, PruneAllows, MigrateStray,
         Supersede, WindowOver, LeaveWindow, ManualDue, EndsHere, Enforce,
         session, bounds, observed
<1>2. StorageChanged \/ Alarm \/ Tick \/ Sleep \/ Restart \/ Finishes
        => UNCHANGED <<active, history, suppressed, nextSession, forgotten>>
  BY DEF StorageChanged, Alarm, AlarmFires, Tick, Sleep, Restart, Finishes,
         WriteStep, session, bounds, observed
<1>3. PopupStep /\ ~ClearHistory
        => UNCHANGED <<active, history, suppressed, nextSession, forgotten>>
  BY PagesFrame DEF PopupStep, SendStart, SendStop, GetStatus,
     SendToBackground, session, observed
<1>4. UNCHANGED vars
        => UNCHANGED <<active, history, suppressed, nextSession, forgotten>>
  BY DEF vars, session, bounds, observed
<1> QED
  BY <1>1, <1>2, <1>3, <1>4 DEF Next, SessionWrites

(* the session and the history keep their types                            *)
LEMMA SessionStep ==
  ASSUME Types, [Next]_vars PROVE SessionOK'
<1>0. SessionOK /\ now \in Nat /\ schedules \subseteq Schedules
  BY DEF Types, ListInv, StoredOK, ListOK
<1>1. CASE StartSession
  <2>1. CASE active # None
    BY <1>0, <1>1, <2>1 DEF StartSession, SessionOK
  <2>2. CASE active = None
    BY <1>0, <1>1, <2>2, StartedOK DEF StartSession, SessionOK
  <2> QED BY <2>1, <2>2
<1>2. CASE StopSession
  <2>1. CASE active = None \/ active.sched = None
    BY <1>0, <1>2, <2>1 DEF StopSession, SessionOK, bounds
  <2>2. CASE active # None /\ active.sched # None
    <3> DEFINE ends == {o.end : o \in {p \in schedules : p.id = active.sched}}
    <3>1. ends \in SUBSET (0..DayLen)
      BY <1>0 DEF Schedules
    <3>2. active.planned \in Nat
      BY <1>0, <2>2 DEF SessionOK, Sessions
    <3> HIDE DEF ends
    <3>3. ScheduleSuppression(ends, active.planned, now) \in Nat
      BY <1>0, <3>1, <3>2, SuppressionOK
    <3>4. suppressed' \in Times
      BY <1>2, <2>2, <3>3 DEF StopSession, Times, ends
    <3> QED
      BY <1>0, <1>2, <3>4 DEF StopSession, SessionOK, bounds
  <2> QED BY <2>1, <2>2
<1>3. CASE WriteHistory
  <2>1. PICK entry \in Entry : history' = <<entry>> \o task.seen
    BY <1>3, ArchivedEntry
  <2>2. task.seen \in Seq(Entry)
    BY DEF Types, TaskOK
  <2>3. history' \in Seq(Entry)
    BY <2>1, <2>2, ConcatProperties
  <2> QED
    BY <1>0, <1>3, <2>3 DEF WriteHistory, SessionOK, bounds
<1>4. CASE ResetActive
  BY <1>0, <1>4 DEF ResetActive, SessionOK, bounds
<1>5. CASE SelectSchedule
  BY <1>0, <1>5 DEF SelectSchedule, SessionOK, Times, bounds
<1>6. CASE ActivateScheduled
  BY <1>0, <1>6, ActivatedOK DEF ActivateScheduled, SessionOK
<1>7. CASE ClearHistory
  BY <1>0, <1>7 DEF ClearHistory, SessionOK
<1>8. CASE ~SessionWrites
  BY <1>0, <1>8, SessionFrame DEF SessionOK
<1> QED
  BY <1>1, <1>2, <1>3, <1>4, <1>5, <1>6, <1>7, <1>8 DEF SessionWrites

NextPass == [Idle EXCEPT !.pc = "pass", !.kind = "reconcile"]

(* the fields of a task that is none, and of one that begins the next      *)
(* pass                                                                    *)
LEMMA IdleFields ==
  /\ Idle.pc = "idle" /\ Idle.seen = <<>> /\ Idle.schedules = {} /\ Idle.cur = None
  /\ NextPass.pc = "pass" /\ NextPass.seen = <<>> /\ NextPass.schedules = {}
  /\ NextPass.cur = None
<1>1. /\ Idle.pc = "idle" /\ Idle.seen = <<>> /\ Idle.schedules = {}
      /\ Idle.cur = None /\ IsTask(Idle)
  BY DEF Idle, IsTask
<1>2. /\ NextPass.pc = "pass" /\ NextPass.seen = Idle.seen
      /\ NextPass.schedules = Idle.schedules /\ NextPass.cur = Idle.cur
  BY <1>1 DEF NextPass, IsTask
<1> QED
  BY <1>1, <1>2

(* The task: what it has read, and what its place presupposes.              *)
LEMMA TaskStep ==
  ASSUME Types, [Next]_vars PROVE TaskOK'
<1>0. /\ TaskOK /\ IsTask(task) /\ active \in Sessions \cup {None}
      /\ history \in Seq(Entry) /\ schedules \subseteq Schedules
      /\ None \notin Sessions /\ None \notin Schedules
  BY ServiceWorkerAssumption DEF Types, SessionOK, ListInv, StoredOK, ListOK, TaskReads
<1>. USE DEF At
<1>1. ASSUME NEW kind, NEW outcome \in Outcomes, NEW then,
             active # None, then = "activate" => task.cur # None,
             Finalize(kind, outcome, then), UNCHANGED active
      PROVE  TaskOK'
  <2>1. /\ task'.pc = "archive" /\ task'.outcome = outcome
        /\ task'.then = then /\ task'.seen = history
        /\ task'.schedules = task.schedules /\ task'.cur = task.cur
    BY <1>0, <1>1 DEF Finalize, IsTask
  <2> QED
    BY <1>0, <1>1, <2>1 DEF TaskOK
<1>2. ASSUME NEW pc \in {"pass", "select", "decide", "end"}, Goto(pc)
      PROVE  TaskOK'
  <2>1. /\ task'.pc = pc /\ task'.seen = task.seen
        /\ task'.schedules = task.schedules /\ task'.cur = task.cur
    BY <1>0, <1>2 DEF Goto, IsTask
  <2> QED
    BY <1>0, <1>2, <2>1 DEF TaskOK
<1>3. ASSUME task' = Idle \/ task' = NextPass
      PROVE  TaskOK'
  <2>1. /\ task'.pc \in {"idle", "pass"} /\ task'.seen = <<>>
        /\ task'.schedules = {} /\ task'.cur = None
    BY <1>3, IdleFields
  <2>2. task'.seen \in Seq(Entry)
    BY <2>1
  <2> QED
    BY <2>1, <2>2 DEF TaskOK
<1>4. ASSUME NEW kind, task' = [task EXCEPT !.pc = "pass", !.kind = kind]
      PROVE  TaskOK'
  <2>1. /\ task'.pc = "pass" /\ task'.seen = task.seen
        /\ task'.schedules = task.schedules /\ task'.cur = task.cur
    BY <1>0, <1>4 DEF IsTask
  <2> QED
    BY <1>0, <2>1 DEF TaskOK
<1>5. CASE task' = task /\ active' = active
  BY <1>0, <1>5 DEF TaskOK
<1>6. CASE RunReconcile \/ EndTask \/ Restart
  BY <1>3, <1>4, <1>6 DEF RunReconcile, EndTask, Restart, NextPass
<1>7. CASE StartSession
  <2>1. CASE active # None
    BY <1>5, <1>7, <2>1 DEF StartSession
  <2>2. CASE active = None
    BY <1>4, <1>7, <2>2 DEF StartSession
  <2> QED BY <2>1, <2>2
<1>8. CASE StopSession \/ ExpireSession
  <2>1. "stopped" \in Outcomes /\ (\A s : ScheduledOutcome(s) \in Outcomes)
    BY OutcomeOK DEF Outcomes
  <2>2. UNCHANGED active
    BY <1>8 DEF StopSession, ExpireSession, session
  <2>3. \/ task' = task
        \/ active # None /\ Finalize("stop", "stopped", "unchallenge")
        \/ active # None /\ Finalize("expire", ScheduledOutcome(active), "done")
    BY <1>8 DEF StopSession, ExpireSession
  <2> QED
    BY <1>1, <1>5, <2>1, <2>2, <2>3
<1>9. CASE WriteHistory
  <2>1. /\ task'.pc = "reset" /\ task'.seen = task.seen /\ task'.then = task.then
        /\ task'.schedules = task.schedules /\ task'.cur = task.cur
    BY <1>0, <1>9 DEF WriteHistory, Goto, IsTask
  <2> QED
    BY <1>0, <1>9, <2>1 DEF WriteHistory, TaskOK
<1>10. CASE ResetActive
  <2>1. /\ task'.pc \in {"activate", "unchallenge", "clear"}
        /\ task'.pc = "activate" => task.then = "activate"
        /\ task'.seen = <<>> /\ task'.schedules = task.schedules
        /\ task'.cur = task.cur
    BY <1>0, <1>10 DEF ResetActive, IsTask
  <2> QED
    BY <1>0, <1>10, <2>1 DEF ResetActive, TaskOK
<1>11. CASE ResetChallenge \/ PruneAllows
  <2>1. Goto("pass") \/ Goto("select")
    BY <1>11 DEF ResetChallenge, PruneAllows
  <2> QED BY <1>2, <2>1
<1>12. CASE ClearAllRules
  <2>1. Goto("decide") \/ Goto("end")
    BY <1>12 DEF ClearAllRules, RejectRules
  <2> QED BY <1>2, <2>1
<1>13. CASE Enforce
  <2>1. Goto("end")
    BY <1>13 DEF Enforce, RejectRules
  <2> QED BY <1>2, <2>1
<1>14. CASE ReadState
  <2>1. /\ task'.pc \in {"select", "prune"} /\ task'.seen = task.seen
        /\ task'.schedules = schedules /\ task'.cur = task.cur
    BY <1>0, <1>14 DEF ReadState, IsTask
  <2> QED
    BY <1>0, <2>1 DEF TaskOK
<1>15. CASE SelectSchedule
  <2>1. GetCurrentSchedule(task.schedules, now) \in Schedules \cup {None}
    BY <1>0, CurrentOK DEF TaskOK
  <2>2. /\ task'.pc = "decide" /\ task'.seen = task.seen /\ task'.schedules = {}
        /\ task'.cur \in {None, GetCurrentSchedule(task.schedules, now)}
    BY <1>0, <1>15 DEF SelectSchedule, IsTask
  <2> QED
    BY <1>0, <2>1, <2>2 DEF TaskOK
<1>16. CASE MigrateStray
  <2>1. active.status \in Outcomes
    BY <1>0, <1>16 DEF MigrateStray, EndsHere, Sessions
  <2> QED
    BY <1>1, <1>16, <2>1 DEF MigrateStray, EndsHere, session
<1>17. CASE Supersede
  <2>1. "stopped" \in Outcomes
    BY DEF Outcomes
  <2> QED
    BY <1>1, <1>17, <2>1 DEF Supersede, EndsHere, Live, session
<1>18. CASE WindowOver \/ LeaveWindow \/ ManualDue
  <2>1. "completed" \in Outcomes
    BY DEF Outcomes
  <2> QED
    BY <1>1, <1>18, <2>1, OutcomeOK
       DEF WindowOver, LeaveWindow, ManualDue, EndsHere, Scheduled, Live, session
<1>19. CASE ActivateScheduled
  <2>1. /\ task'.pc = "enforce" /\ task'.seen = task.seen
        /\ task'.schedules = task.schedules /\ task'.cur = task.cur
    BY <1>0, <1>19 DEF ActivateScheduled, Goto, IsTask
  <2>2. active' \in Sessions
    BY <1>19, ActivatedOK
  <2> QED
    BY <1>0, <2>1, <2>2 DEF TaskOK
<1>20. StorageChanged \/ Alarm \/ Tick \/ Sleep \/ Finishes \/ PopupStep
         \/ UNCHANGED vars => task' = task /\ active' = active
  BY PagesFrame DEF StorageChanged, Alarm, AlarmFires, Tick, Sleep, Finishes,
     WriteStep, PopupStep, SendStart, SendStop, GetStatus, SendToBackground,
     ClearHistory, vars, session, worker
<1> QED
  BY <1>5, <1>6, <1>7, <1>8, <1>9, <1>10, <1>11, <1>12, <1>13, <1>14, <1>15,
     <1>16, <1>17, <1>18, <1>19, <1>20 DEF Next, WorkerStep

(* every part of the types is kept by every action                         *)
LEMMA TypesStep == Types /\ [Next]_vars => Types'
BY ListStep, QueueStep, FlagsStep, AlarmsStep, SessionStep, TaskStep DEF Types

(* what the run checks of the types follows                                *)
LEMMA TypesImplyTypeOK == Types => TypeOK
<1> SUFFICES ASSUME Types PROVE TypeOK
  OBVIOUS
<1>1. \A i \in DOMAIN history : history[i] \in Entry
  BY DEF Types, SessionOK
<1>2. \A i \in DOMAIN history : history[i].outcome \in Outcomes
  BY <1>1 DEF Entry
<1>3. \A a \in DOMAIN alarms : alarms[a] \in (Nat \ {0}) \cup {None}
  BY DEF Types, AlarmsOK, AlarmTimes
<1> QED
  BY <1>2, <1>3 DEF Types, ListInv, StoredOK, ListOK, TaskReads, TaskOK,
     SessionOK, FlagsOK, TypeOK

(* Type correctness of the worker: its storage, its task and its alarms.    *)
THEOREM TypeCorrect == Spec => []TypeOK
BY TypesInit, TypesStep, TypesImplyTypeOK, PTL DEF Spec

-----------------------------------------------------------------------------
(* No session is lost.                                                      *)

IdsOf(q) == {q[i].id : i \in DOMAIN q}

(* an entry put before a history adds its id                               *)
LEMMA IdsOfLonger ==
  ASSUME NEW entry \in Entry, NEW q \in Seq(Entry)
  PROVE  IdsOf(<<entry>> \o q) = {entry.id} \cup IdsOf(q)
<1> DEFINE long == <<entry>> \o q
<1>1. /\ <<entry>> \in Seq(Entry) /\ Len(<<entry>>) = 1 /\ <<entry>>[1] = entry
      /\ Len(q) \in Nat /\ DOMAIN q = 1..Len(q)
  OBVIOUS
<1>2. /\ long \in Seq(Entry) /\ Len(long) = Len(q) + 1
      /\ \A i \in 1..(Len(q) + 1) : long[i] = IF i <= 1 THEN entry ELSE q[i - 1]
  <2> DEFINE one == <<entry>>
  <2>1. one \in Seq(Entry) /\ Len(one) = 1 /\ one[1] = entry
    BY <1>1
  <2> HIDE DEF one
  <2>2. /\ one \o q \in Seq(Entry) /\ Len(one \o q) = Len(one) + Len(q)
        /\ \A i \in 1..(Len(one) + Len(q)) :
             (one \o q)[i] = IF i <= Len(one) THEN one[i] ELSE q[i - Len(one)]
    BY <2>1, ConcatProperties
  <2>3. \A i \in 1..(Len(q) + 1) : i <= 1 => one[i] = entry
    BY <2>1
  <2>4. Len(one) + Len(q) = Len(q) + 1
    BY <1>1, <2>1
  <2>5. /\ one \o q \in Seq(Entry) /\ Len(one \o q) = Len(q) + 1
        /\ \A i \in 1..(Len(q) + 1) :
             (one \o q)[i] = IF i <= 1 THEN entry ELSE q[i - 1]
    BY <2>1, <2>2, <2>3, <2>4
  <2> QED
    BY <2>5 DEF one
<1> HIDE DEF long
<1>3. DOMAIN long = 1..(Len(q) + 1)
  BY <1>1, <1>2
<1>4. long[1] = entry /\ \A i \in 1..Len(q) : i + 1 \in DOMAIN long /\ long[i + 1] = q[i]
  BY <1>1, <1>2, <1>3
<1>5. \A i \in DOMAIN long : i = 1 \/ (i - 1 \in 1..Len(q) /\ long[i] = q[i - 1])
  BY <1>1, <1>2, <1>3
<1>6. IdsOf(long) \subseteq {entry.id} \cup IdsOf(q)
  BY <1>1, <1>4, <1>5 DEF IdsOf
<1>7. {entry.id} \cup IdsOf(q) \subseteq IdsOf(long)
  BY <1>1, <1>3, <1>4 DEF IdsOf
<1> QED
  BY <1>6, <1>7 DEF long

(* The history as it was read is still all there is, but for what the user  *)
(* cleared; a session is reset after it was archived, and activated into an *)
(* empty slot.                                                              *)
Kept ==
  /\ At("archive") => Archived \subseteq IdsOf(task.seen) \cup forgotten
  /\ At("reset") => active.id \in Archived \cup forgotten
  /\ At("activate") => active = None
  /\ SessionsAreKept

(* no action loses a session                                               *)
LEMMA KeptStep ==
  ASSUME Types, Kept, [Next]_vars PROVE Kept'
<1>0. /\ IsTask(task) /\ TaskOK /\ SessionOK
      /\ None \notin Sessions /\ Archived = IdsOf(history)
  BY ServiceWorkerAssumption DEF Types, ListInv, TaskReads, Archived, IdsOf
<1>. USE DEF At
<1>1. CASE UNCHANGED <<active, history, nextSession, forgotten>>
           /\ (task' = task \/ task'.pc \notin {"archive", "reset", "activate"})
  BY <1>1 DEF Kept, SessionsAreKept, Archived
<1>2. ASSUME UNCHANGED <<active, history, nextSession, forgotten>>,
             NEW kind, NEW outcome, NEW then, Finalize(kind, outcome, then)
      PROVE  Kept'
  <2>1. task'.pc = "archive" /\ task'.seen = history
    BY <1>0, <1>2 DEF Finalize, IsTask
  <2> QED
    BY <1>0, <1>2, <2>1 DEF Kept, SessionsAreKept, Archived
<1>3. CASE StartSession
  <2>1. CASE active # None
    BY <1>1, <1>3, <2>1 DEF StartSession, session, observed
  <2>2. CASE active = None
    <3>1. task'.pc = "pass"
      BY <1>0, <1>3, <2>2 DEF StartSession, IsTask
    <3>2. active' # None /\ active'.id = nextSession
      BY <1>0, <1>3, <2>2, StartedOK DEF StartSession, ActiveSession
    <3>3. /\ nextSession' = nextSession + 1 /\ nextSession \in Nat
          /\ UNCHANGED <<history, forgotten>>
      BY <1>0, <1>3, <2>2 DEF StartSession, SessionOK, observed
    <3> QED
      BY <2>2, <3>1, <3>2, <3>3 DEF Kept, SessionsAreKept, Archived
  <2> QED BY <2>1, <2>2
<1>4. CASE StopSession
  <2>1. UNCHANGED <<active, history, nextSession, forgotten>>
    BY <1>4 DEF StopSession, bounds
  <2>2. task' = task \/ Finalize("stop", "stopped", "unchallenge")
    BY <1>4 DEF StopSession
  <2> QED BY <1>1, <1>2, <2>1, <2>2
<1>5. CASE WriteHistory
  <2>1. /\ task.pc = "archive" /\ task'.pc = "reset"
        /\ UNCHANGED <<active, nextSession, forgotten>>
    BY <1>0, <1>5 DEF WriteHistory, Goto, IsTask, bounds, observed
  <2>2. PICK entry \in Entry : entry.id = active.id /\ history' = <<entry>> \o task.seen
    BY <1>5, ArchivedEntry
  <2>3. IdsOf(history') = {active.id} \cup IdsOf(task.seen)
    BY <1>0, <2>2, IdsOfLonger DEF TaskOK
  <2>4. Archived' = {active.id} \cup IdsOf(task.seen)
    BY <2>3 DEF Archived, IdsOf
  <2>5. Archived \subseteq Archived' \cup forgotten
    BY <2>1, <2>4 DEF Kept
  <2> QED
    BY <2>1, <2>4, <2>5 DEF Kept, SessionsAreKept
<1>6. CASE ResetActive
  <2>1. /\ task.pc = "reset" /\ task'.pc \notin {"archive", "reset"}
        /\ active' = None /\ UNCHANGED <<history, nextSession, forgotten>>
    BY <1>0, <1>6 DEF ResetActive, IsTask, bounds, observed
  <2>2. Archived' = Archived
    BY <2>1 DEF Archived
  <2> QED
    BY <2>1, <2>2 DEF Kept, SessionsAreKept
<1>7. CASE SelectSchedule
  <2>1. task'.pc = "decide"
    BY <1>0, <1>7 DEF SelectSchedule, IsTask
  <2> QED
    BY <1>1, <1>7, <2>1 DEF SelectSchedule, bounds, observed
<1>8. CASE ActivateScheduled
  <2>1. active = None /\ task'.pc = "enforce"
    BY <1>0, <1>8 DEF ActivateScheduled, Goto, IsTask, Kept
  <2>2. active' # None /\ active'.id = nextSession
    BY <1>0, <1>8, ActivatedOK DEF ActivateScheduled, ActiveSession
  <2>3. /\ nextSession' = nextSession + 1 /\ nextSession \in Nat
        /\ UNCHANGED <<history, forgotten>>
    BY <1>0, <1>8 DEF ActivateScheduled, SessionOK, observed
  <2> QED
    BY <2>1, <2>2, <2>3 DEF Kept, SessionsAreKept, Archived
<1>9. CASE ClearHistory
  <2>1. /\ history' = <<>> /\ forgotten' = forgotten \cup Archived
        /\ UNCHANGED <<active, task, nextSession>>
    BY <1>9 DEF ClearHistory, worker, Archived
  <2>2. Archived' = {}
    BY <2>1 DEF Archived
  <2> QED
    BY <2>1, <2>2 DEF Kept, SessionsAreKept
<1>10. CASE ~SessionWrites
  <2>1. UNCHANGED <<active, history, nextSession, forgotten>>
    BY <1>10, SessionFrame
  <2>2. CASE MigrateStray \/ Supersede \/ WindowOver \/ LeaveWindow \/ ManualDue
    <3>1. \E kind, outcome, then : Finalize(kind, outcome, then)
      BY <2>2 DEF MigrateStray, Supersede, WindowOver, LeaveWindow, ManualDue,
                  EndsHere
    <3> QED BY <1>2, <2>1, <3>1
  <2>3. CASE ExpireSession
    <3>1. task' = task \/ \E kind, outcome, then : Finalize(kind, outcome, then)
      BY <2>3 DEF ExpireSession
    <3> QED BY <1>1, <1>2, <2>1, <3>1
  <2>4. CASE RunReconcile \/ EndTask \/ Restart
    <3>1. \/ task' = Idle
          \/ task' = NextPass
          \/ task' = [task EXCEPT !.pc = "pass", !.kind = "reconcile"]
      BY <2>4 DEF RunReconcile, EndTask, Restart, NextPass
    <3>2. task' = [task EXCEPT !.pc = "pass", !.kind = "reconcile"]
            => task'.pc = "pass"
      BY <1>0 DEF IsTask
    <3>3. task'.pc \in {"idle", "pass"}
      BY <3>1, <3>2, IdleFields
    <3> QED BY <1>1, <2>1, <3>3
  <2>5. CASE ResetChallenge \/ PruneAllows \/ ClearAllRules \/ Enforce
    <3>1. \E pc \in {"pass", "select", "decide", "end"} : Goto(pc)
      BY <2>5 DEF ResetChallenge, PruneAllows, ClearAllRules, Enforce, RejectRules
    <3>2. task'.pc \in {"pass", "select", "decide", "end"}
      BY <1>0, <3>1 DEF Goto, IsTask
    <3> QED BY <1>1, <2>1, <3>2
  <2>6. CASE ReadState
    <3>1. task'.pc \in {"select", "prune"}
      BY <1>0, <2>6 DEF ReadState, IsTask
    <3> QED BY <1>1, <2>1, <3>1
  <2>7. StorageChanged \/ Alarm \/ Tick \/ Sleep \/ Finishes \/ PopupStep
          \/ UNCHANGED vars => task' = task
    BY PagesFrame DEF StorageChanged, Alarm, AlarmFires, Tick, Sleep, Finishes,
       WriteStep, PopupStep, SendStart, SendStop, GetStatus, SendToBackground,
       ClearHistory, vars, worker
  <2> QED
    BY <1>1, <1>10, <2>1, <2>2, <2>3, <2>4, <2>5, <2>6, <2>7
       DEF Next, WorkerStep, SessionWrites
<1> QED
  BY <1>3, <1>4, <1>5, <1>6, <1>7, <1>8, <1>9, <1>10 DEF SessionWrites

(* before anything was archived *)
LEMMA KeptInit == Init => Kept
<1> SUFFICES ASSUME Init PROVE Kept
  OBVIOUS
<1>1. PICK s \in Stored :
        active = s.active /\ nextSession = IF s.active = None THEN 1 ELSE 2
  BY DEF Init
<1>2. SessionsAreKept
  BY <1>1, ServiceWorkerAssumption DEF SessionsAreKept
<1>3. task.pc = "idle"
  BY DEF Init, Idle
<1> QED
  BY <1>2, <1>3 DEF Kept, At

(* Every session ever started is in the active slot or in the history, or   *)
(* was there when the user cleared it, in whatever order stops, alarms,     *)
(* takeovers and a closing browser meet.                                    *)
THEOREM NoSessionLost == Spec => []SessionsAreKept
<1>1. Types /\ Kept /\ [Next]_vars => Kept'
  BY KeptStep
<1>2. Kept => SessionsAreKept
  BY DEF Kept
<1> QED
  BY <1>1, <1>2, TypesInit, TypesStep, KeptInit, PTL DEF Spec

-----------------------------------------------------------------------------
(* The numbers of the schedules.                                            *)

(* the ids of a list are its own, and were given out before n               *)
Numbers(list, n) ==
  /\ \A s, o \in list : s.id = o.id => s = o
  /\ \A s \in list : s.id < n
WriteNumbers(w, n) ==
  w.key = "schedules" => \A j \in DOMAIN w.values : Numbers(w.values[j], n)
IdsInv ==
  /\ Numbers(schedules, nextSchedule)
  /\ \A i \in DOMAIN writes : WriteNumbers(writes[i], nextSchedule)

(* what has its numbers keeps them when one more is given out *)
LEMMA NumbersLast ==
  ASSUME NEW list \in SUBSET Schedules, NEW n \in Nat, Numbers(list, n)
  PROVE  Numbers(list, n + 1)
BY DEF Numbers, Schedules

(* spelling out the weekdays changes no id *)
LEMMA NormalizedNumbers ==
  ASSUME schedules \subseteq Schedules, Numbers(schedules, nextSchedule)
  PROVE  Normalized \subseteq Schedules /\ Numbers(Normalized, nextSchedule)
<1>1. Normalized = {Normal(s) : s \in schedules}
  BY DEF Normalized, Normal
<1> QED
  BY <1>1, NormalRuns DEF Numbers

(* a popup that starts to write numbered lists *)
LEMMA EditNumbers ==
  ASSUME ListInv, IdsInv, NEW key \in Keys, NEW values \in Seq(Lists),
         NEW gives \in Lists, NEW takes \in Lists, Edit(key, values, gives, takes),
         nextSchedule' = nextSchedule \/ nextSchedule' = nextSchedule + 1,
         key = "schedules" =>
           \A j \in DOMAIN values : Numbers(values[j], nextSchedule')
  PROVE  IdsInv'
<1> DEFINE new == [key |-> key, values |-> values, gives |-> gives, takes |-> takes]
<1>1. new \in Write /\ WriteNumbers(new, nextSchedule')
  BY DEF Write, WriteNumbers
<1>2. writes' = Append(writes, new) /\ UNCHANGED schedules /\ writes \in Seq(Write)
  BY DEF Edit, lists, ListInv, WritesOK
<1> HIDE DEF new
<1>3. nextSchedule \in Nat /\ schedules \in SUBSET Schedules
  BY DEF ListInv, StoredOK, ListOK
<1>4. Numbers(schedules, nextSchedule')
  BY <1>3, NumbersLast DEF IdsInv
<1>5. ASSUME NEW i \in DOMAIN writes PROVE WriteNumbers(writes[i], nextSchedule')
  <2>1. WriteNumbers(writes[i], nextSchedule) /\ WriteOK(writes[i])
    BY DEF IdsInv, ListInv, WritesOK
  <2> QED BY <1>3, <2>1, NumbersLast DEF WriteNumbers, WriteOK, ValueOK, ListOK
<1>6. \A i \in DOMAIN writes' : WriteNumbers(writes'[i], nextSchedule')
  BY <1>1, <1>2, <1>5, AppendedLast
<1> QED
  BY <1>2, <1>4, <1>6 DEF IdsInv

(* the lists the schedule page stores *)
LEMMA SchedulePageNumbers ==
  ASSUME ListInv, IdsInv, SchedulePage PROVE IdsInv'
<1>0. /\ schedules \in SUBSET Schedules /\ nextSchedule \in Nat
      /\ Numbers(schedules, nextSchedule)
  BY DEF ListInv, StoredOK, ListOK, IdsInv
<1>1. Normalized \in SUBSET Schedules /\ Numbers(Normalized, nextSchedule)
  BY <1>0, NormalizedNumbers
<1>2. \A plan \in Plans, id \in Nat :
        Numbered(plan, id) \in Schedules /\ Numbered(plan, id).id = id
  BY ServiceWorkerAssumption DEF Numbered, Schedules
<1>3. ASSUME NEW value \in SUBSET Schedules, WriteSchedules(value),
             nextSchedule' = nextSchedule \/ nextSchedule' = nextSchedule + 1,
             Numbers(value, nextSchedule')
      PROVE  IdsInv'
  <2>1. Normalized \in Lists /\ value \in Lists /\ {} \in Lists
    BY <1>1 DEF Lists
  <2>2. Numbers(Normalized, nextSchedule')
    BY <1>0, <1>1, <1>3, NumbersLast
  <2>3. CASE Normalized = schedules
    <3> DEFINE one == <<value>>
    <3>1. one \in Seq(Lists) /\ \A j \in DOMAIN one : Numbers(one[j], nextSchedule')
      BY <1>3, <2>1
    <3>2. Edit("schedules", one, {}, {})
      BY <1>3, <2>3 DEF WriteSchedules
    <3> HIDE DEF one
    <3> QED BY <1>3, <2>1, <3>1, <3>2, EditNumbers DEF Keys
  <2>4. CASE Normalized # schedules
    <3> DEFINE two == <<Normalized, value>>
    <3>1. two \in Seq(Lists) /\ \A j \in DOMAIN two : Numbers(two[j], nextSchedule')
      BY <1>3, <2>1, <2>2
    <3>2. Edit("schedules", two, {}, {})
      BY <1>3, <2>4 DEF WriteSchedules
    <3> HIDE DEF two
    <3> QED BY <1>3, <2>1, <3>1, <3>2, EditNumbers DEF Keys
  <2> QED BY <2>3, <2>4
<1>4. ASSUME NEW plan \in Plans, CreateSchedule(plan) PROVE IdsInv'
  <2> DEFINE s == Numbered(plan, nextSchedule)
  <2>1. s \in Schedules /\ s.id = nextSchedule
    BY <1>0, <1>2
  <2>2. /\ WriteSchedules(Normalized \cup {s}) /\ nextSchedule' = nextSchedule + 1
    BY <1>4 DEF CreateSchedule
  <2> HIDE DEF s
  <2>3. Numbers(Normalized \cup {s}, nextSchedule')
    <3>1. \A o \in Normalized : o.id \in Nat /\ o.id < nextSchedule
      BY <1>1 DEF Numbers, Schedules
    <3>2. \A o \in Normalized : o.id # s.id /\ o.id < nextSchedule + 1
      BY <1>0, <2>1, <3>1
    <3>3. s.id < nextSchedule + 1
      BY <1>0, <2>1
    <3> QED BY <1>1, <2>2, <3>2, <3>3 DEF Numbers
  <2> QED BY <1>1, <1>3, <2>1, <2>2, <2>3
<1>5. ASSUME NEW old \in schedules, NEW plan \in Plans, UpdateSchedule(old, plan)
      PROVE  IdsInv'
  <2> DEFINE s    == Numbered(plan, old.id)
             kept == {o \in Normalized : o.id # old.id}
  <2>1. s \in Schedules /\ s.id = old.id /\ old.id < nextSchedule
    BY <1>0, <1>2 DEF Schedules, Numbers
  <2>2. WriteSchedules(kept \cup {s}) /\ nextSchedule' = nextSchedule
    BY <1>5 DEF UpdateSchedule
  <2>3. kept \subseteq Normalized /\ \A o \in kept : o.id # old.id
    OBVIOUS
  <2> HIDE DEF s, kept
  <2>4. Numbers(kept \cup {s}, nextSchedule')
    BY <1>1, <2>1, <2>2, <2>3 DEF Numbers
  <2> QED BY <1>1, <1>3, <2>1, <2>2, <2>3, <2>4
<1>6. ASSUME NEW old \in schedules, DeleteSchedule(old) PROVE IdsInv'
  <2> DEFINE kept == {o \in Normalized : o.id # old.id}
  <2>1. WriteSchedules(kept) /\ nextSchedule' = nextSchedule
    BY <1>6 DEF DeleteSchedule
  <2>2. kept \in SUBSET Schedules /\ Numbers(kept, nextSchedule')
    BY <1>1, <2>1 DEF Numbers
  <2> HIDE DEF kept
  <2> QED BY <1>3, <2>1, <2>2
<1> QED
  BY <1>4, <1>5, <1>6 DEF SchedulePage

(* what the other pages store holds no schedules *)
LEMMA OtherPagesNumbers ==
  ASSUME IdsInv, writes \in Seq(Write), BlocklistPage \/ AllowlistPage
  PROVE  IdsInv'
<1>1. ASSUME NEW key, NEW values, NEW gives, NEW takes, key # "schedules",
             Edit(key, values, gives, takes), UNCHANGED nextSchedule
      PROVE  IdsInv'
  <2> DEFINE new == [key |-> key, values |-> values, gives |-> gives,
                     takes |-> takes]
  <2>1. writes' = Append(writes, new) /\ UNCHANGED schedules
    BY <1>1 DEF Edit, lists
  <2>2. WriteNumbers(new, nextSchedule)
    BY <1>1 DEF WriteNumbers
  <2> HIDE DEF new
  <2>3. \A i \in DOMAIN writes' : (i \in DOMAIN writes /\ writes'[i] = writes[i])
                                    \/ writes'[i] = new
    <3> DEFINE all == Write \cup {new}
    <3>1. writes \in Seq(all) /\ new \in all
      OBVIOUS
    <3> HIDE DEF all
    <3> QED BY <2>1, <3>1, AppendedLast
  <2> QED BY <1>1, <2>1, <2>2, <2>3 DEF IdsInv
<1>2. BlocklistPage \/ AllowlistPage =>
        \E key, values, gives, takes :
          key # "schedules" /\ Edit(key, values, gives, takes) /\ UNCHANGED nextSchedule
  <2>1. \A e : AddBlocklist(e) \/ RemoveBlocklist(e) \/ AddWhitelist(e)
                 \/ RemoveWhitelist(e)
          => \E key, list : key # "schedules" /\ EditList(key, list)
    BY DEF AddBlocklist, RemoveBlocklist, AddWhitelist, RemoveWhitelist
  <2>2. \A e, d : ListTemporaryAllows \/ AddTemporaryAllow(e, d)
                    \/ RemoveTemporaryAllow(e)
          => \E values, gives, takes :
               Edit("temporary", values, gives, takes) /\ UNCHANGED nextSchedule
    BY DEF ListTemporaryAllows, AddTemporaryAllow, RemoveTemporaryAllow
  <2> QED BY <2>1, <2>2 DEF BlocklistPage, AllowlistPage, EditList
<1> QED
  BY <1>1, <1>2

(* a write that stores a list and leaves the rest *)
LEMMA FinishNumbers ==
  ASSUME ListInv, IdsInv, NEW i \in DOMAIN writes, WriteStep(i) PROVE IdsInv'
<1> DEFINE w == writes[i]
<1>1. writes \in Seq(Write) /\ w \in Write /\ WriteOK(w) /\ WriteNumbers(w, nextSchedule)
  BY DEF ListInv, WritesOK, IdsInv
<1>2. /\ w.values \in Seq(Lists) /\ w.values # <<>>
      /\ Head(w.values) = w.values[1] /\ 1 \in DOMAIN w.values
  BY <1>1 DEF Write, WriteOK
<1>3. /\ schedules' = IF w.key = "schedules" THEN Head(w.values) ELSE schedules
      /\ UNCHANGED nextSchedule
  BY DEF WriteStep, bounds
<1>4. Numbers(schedules, nextSchedule)'
  BY <1>1, <1>2, <1>3 DEF IdsInv, WriteNumbers
<1>5. ASSUME NEW j \in DOMAIN writes' PROVE WriteNumbers(writes'[j], nextSchedule)
  <2>1. CASE \E k \in DOMAIN writes \ {i} : writes'[j] = writes[k]
    BY <2>1 DEF IdsInv
  <2>2. CASE /\ Len(w.values) # 1
             /\ writes'[j] = [w EXCEPT !.values = Tail(@)]
    <3>1. writes'[j].key = w.key /\ writes'[j].values = Tail(w.values)
      BY <1>1, <2>2 DEF Write
    <3>2. \A k \in DOMAIN Tail(w.values) :
            k + 1 \in DOMAIN w.values /\ Tail(w.values)[k] = w.values[k + 1]
      BY <1>2, <2>2, TailOf
    <3> QED BY <1>1, <3>1, <3>2 DEF WriteNumbers
  <2> QED BY <1>1, <2>1, <2>2, WritersLeft
<1> QED
  BY <1>3, <1>4, <1>5 DEF IdsInv

(* The ids of every stored list of schedules are its own, for ever. *)
LEMMA IdsStep ==
  ASSUME ListInv, IdsInv, [Next]_vars PROVE IdsInv'
<1>1. CASE UNCHANGED <<schedules, writes, nextSchedule>>
  BY <1>1 DEF IdsInv
<1>2. CASE Restart
  BY <1>2 DEF Restart, IdsInv, lists
<1>3. WorkerStep => UNCHANGED <<schedules, writes, nextSchedule>>
  BY DEF WorkerStep, RunReconcile, StartSession, StopSession, ExpireSession,
         EndTask, WriteHistory, ResetActive, ResetChallenge, ClearAllRules,
         ReadState, PruneAllows, SelectSchedule, MigrateStray, Supersede, WindowOver,
         LeaveWindow, ManualDue, EndsHere, ActivateScheduled, Enforce, lists, bounds
<1>4. StorageChanged \/ Alarm \/ Tick \/ Sleep \/ UNCHANGED vars
        => UNCHANGED <<schedules, writes, nextSchedule>>
  BY DEF StorageChanged, Alarm, AlarmFires, Tick, Sleep, vars, lists, bounds
<1>5. PopupStep => \/ UNCHANGED <<schedules, writes, nextSchedule>>
                   \/ BlocklistPage \/ AllowlistPage \/ SchedulePage
  BY DEF PopupStep, SendStart, SendStop, GetStatus, SendToBackground, ClearHistory, lists
<1>6. writes \in Seq(Write)
  BY DEF ListInv, WritesOK
<1> QED
  BY <1>1, <1>2, <1>3, <1>4, <1>5, <1>6, FinishNumbers, OtherPagesNumbers,
     SchedulePageNumbers DEF Next, Finishes

(* stored schedules are numbered from one *)
LEMMA IdsInit == Init => IdsInv
<1> SUFFICES ASSUME Init PROVE IdsInv
  OBVIOUS
<1>1. PICK s \in Stored :
        schedules = s.schedules /\ nextSchedule = 1 + Cardinality(s.schedules)
  BY DEF Init
<1>2. Cardinality(s.schedules) \in Nat /\ writes = <<>>
  BY <1>1, ServiceWorkerAssumption, FS_CardinalityType DEF Init
<1>3. \A o \in schedules : o.id \in Nat /\ o.id <= Cardinality(s.schedules)
  BY <1>1, ServiceWorkerAssumption DEF Schedules
<1>4. \A o \in schedules : o.id < nextSchedule
  BY <1>1, <1>2, <1>3
<1> QED
  BY <1>1, <1>2, <1>4, ServiceWorkerAssumption DEF IdsInv, Numbers

-----------------------------------------------------------------------------
(* A stopped schedule and the end of its window.                            *)

(* the window of a stopped session is still open *)
Pending == quiet # None /\ now < quiet.until

(* the session of a stopped schedule is on its way out, or a pass that will *)
(* end it is                                                                *)
Ending ==
  \/ task.pc \in {"archive", "reset", "pass", "prune", "select"}
  \/ task.pc = "decide" /\ task.cur = None
  \/ task.pc = "idle" /\ reconcile /\ queue # <<>> /\ Head(queue).type = "reconcile"

(* until that window ends, schedules are suppressed, no pass has selected   *)
(* one, and none has a session but the one on its way out                   *)
Resting ==
  /\ suppressed \in Nat /\ suppressed >= quiet.until
  /\ task.cur = None
  /\ active = None \/ active.sched = None \/ Ending
QuietInv ==
  /\ quiet # None => quiet.until \in Nat /\ quiet.sched # None
  /\ At("idle") => task.cur = None
  /\ Pending => Resting

(* the end of the stopped window is the time schedules are suppressed until *)
LEMMA SuppressedUntilRest ==
  ASSUME IdsInv, schedules \in SUBSET Schedules, now \in Nat,
         NEW s, s.sched # None, quiet # None => quiet.until \in Nat /\ quiet.sched # None,
         NEW planned
  PROVE  \/ Rest(s) = quiet
         \/ /\ Rest(s).until \in Nat /\ Rest(s).sched # None
            /\ ScheduleSuppression({o.end : o \in {p \in schedules : p.id = s.sched}},
                                   planned, now) = Rest(s).until
<1>1. CASE ~ \E o \in schedules : o.id = s.sched /\ Running(o, now)
  BY <1>1 DEF Rest
<1>2. CASE \E o \in schedules : o.id = s.sched /\ Running(o, now)
  <2>1. PICK o \in schedules : o.id = s.sched /\ Running(o, now)
    BY <1>2
  <2>2. \A p \in schedules : p.id = s.sched => p = o
    BY <2>1 DEF IdsInv, Numbers
  <2>3. (CHOOSE p \in schedules : p.id = s.sched) = o
    BY <2>1, <2>2
  <2> DEFINE until == ScheduleBoundary(o.end, now)
             ends  == {p.end : p \in {q \in schedules : q.id = s.sched}}
             all   == {ScheduleBoundary(e, now) : e \in ends}
  <2>4. Rest(s) = [sched |-> s.sched, until |-> until]
    BY <1>2, <2>3 DEF Rest
  <2>5. ends = {o.end}
    BY <2>1, <2>2
  <2>6. all = {until}
    BY <2>5
  <2>7. until \in Nat /\ until > now
    <3>1. /\ Day(now) \in Nat /\ DayTime(now) \in Nat
          /\ now = Day(now) * DayLen + DayTime(now)
      BY DayAndTime
    <3>2. o.end \in 0..DayLen /\ DayTime(now) < o.end /\ DayLen \in Nat
      BY <2>1, WeekSchedulesAssumption DEF Schedules, Running
    <3>3. Day(now) * DayLen \in Nat
      <4>1. \A a, b \in Nat : a * b \in Nat
        OBVIOUS
      <4> QED BY <3>1, <3>2, <4>1
    <3> QED BY <3>1, <3>2, <3>3 DEF ScheduleBoundary
  <2>8. ScheduleSuppression(ends, planned, now) = until
    <3>1. ScheduleSuppression(ends, planned, now) =
            IF \E e \in all : e > now THEN CHOOSE e \in all : e > now
                 ELSE now + planned * PerSec
      BY DEF ScheduleSuppression
    <3> HIDE DEF all, until, ends
    <3> QED BY <2>6, <2>7, <3>1
  <2> HIDE DEF until, ends, all
  <2> QED BY <2>4, <2>7, <2>8 DEF ends
<1> QED
  BY <1>1, <1>2

(* one step per action *)
LEMMA QuietStep ==
  ASSUME Types, IdsInv, QuietInv, [Next]_vars PROVE QuietInv'
<1>0. /\ IsTask(task) /\ TaskOK /\ QuietInv /\ now \in Nat
      /\ schedules \in SUBSET Schedules /\ queue \in Seq(Message)
      /\ None \notin Nat
  BY ServiceWorkerAssumption
  DEF Types, ListInv, TaskReads, StoredOK, ListOK, QueueOK
<1>. USE DEF At
<1>1. ASSUME UNCHANGED <<quiet, now, suppressed>>,
             task'.pc = "idle" => task'.cur = None,
             Pending /\ Resting => task'.cur = None,
             Pending /\ Resting => active' = None \/ active'.sched = None \/ Ending'
      PROVE  QuietInv'
  BY <1>0, <1>1 DEF QuietInv, Pending, Resting
<1>2. ASSUME UNCHANGED <<task, active, quiet, suppressed>>,
             now' = now \/ now' = now + 1, Ending => Ending'
      PROVE  QuietInv'
  <2>1. Pending' => Pending
    BY <1>0, <1>2 DEF Pending, QuietInv
  <2> QED BY <1>0, <1>2, <2>1 DEF QuietInv, Resting
<1>3. [type |-> "reconcile"] \in Message
  BY DEF Message
<1>4. ASSUME NEW m \in Message, queue' = Append(queue, m), reconcile => reconcile',
             UNCHANGED task
      PROVE  Ending => Ending'
  <2>1. queue # <<>> => queue' # <<>> /\ Head(queue') = Head(queue)
    <3>1. queue # <<>> => /\ Len(queue) >= 1 /\ Len(queue) \in Nat
                          /\ 1 \in DOMAIN queue /\ Head(queue) = queue[1]
      BY <1>0, EmptySeq
    <3>2. queue' \in Seq(Message) /\ queue' # <<>> /\ Head(queue') = queue'[1]
      BY <1>0, <1>4, AppendedTo
    <3>3. \A i \in DOMAIN queue : queue'[i] = queue[i]
      BY <1>0, <1>4, AppendedLast
    <3> QED BY <3>1, <3>2, <3>3
  <2> QED BY <1>4, <2>1 DEF Ending
<1>5. ASSUME RequestReconcile, UNCHANGED <<task, active, quiet, suppressed, now>>
      PROVE  QuietInv'
  <2>1. reconcile'
    BY <1>5 DEF RequestReconcile
  <2>2. queue' = queue \/ queue' = Append(queue, [type |-> "reconcile"])
    BY <1>5 DEF RequestReconcile
  <2>3. queue' = queue => (Ending => Ending')
    BY <1>5, <2>1 DEF Ending
  <2>4. Ending => Ending'
    BY <1>3, <1>4, <1>5, <2>1, <2>2, <2>3
  <2> QED BY <1>2, <1>5, <2>4
<1>6. CASE StorageChanged \/ Alarm
  BY <1>5, <1>6 DEF StorageChanged, Alarm, AlarmFires, session, bounds, observed
<1>7. CASE Tick \/ Sleep \/ Finishes \/ ClearHistory \/ BlocklistPage
             \/ AllowlistPage \/ SchedulePage \/ UNCHANGED vars
  <2>1. /\ UNCHANGED <<task, active, quiet, suppressed, queue, reconcile>>
        /\ now' = now \/ now' = now + 1
    BY <1>7, PagesFrame
    DEF Tick, Sleep, Finishes, WriteStep, ClearHistory, BlocklistPage,
        AllowlistPage, SchedulePage, AddBlocklist, RemoveBlocklist, AddWhitelist,
        RemoveWhitelist, EditList, ListTemporaryAllows, AddTemporaryAllow,
        RemoveTemporaryAllow, CreateSchedule, UpdateSchedule, DeleteSchedule,
        WriteSchedules, Edit, vars, session, worker, bounds, observed
  <2> QED BY <1>2, <2>1 DEF Ending
<1>8. ASSUME NEW m \in Message, SendToBackground(m) PROVE QuietInv'
  <2>1. /\ queue' = Append(queue, m)
        /\ UNCHANGED <<task, active, quiet, suppressed, reconcile, now>>
    BY <1>8 DEF SendToBackground, session, observed
  <2> QED BY <1>2, <1>4, <2>1
<1>9. ASSUME NEW start \in Starts, SendStart(start) PROVE QuietInv'
  <2> DEFINE m == [type |-> "start", mode |-> start.mode, planned |-> start.planned]
  <2>1. m \in Message
    BY ServiceWorkerAssumption DEF Message
  <2> QED BY <1>8, <1>9, <2>1 DEF SendStart
<1>10. CASE SendStop \/ GetStatus
  <2>1. [type |-> "stop"] \in Message /\ [type |-> "expire"] \in Message
    BY DEF Message
  <2> QED BY <1>8, <1>10, <2>1 DEF SendStop, GetStatus
<1>11. CASE Restart
  <2>1. /\ task'.pc = "idle" /\ task'.cur = None /\ reconcile'
        /\ UNCHANGED <<active, quiet, suppressed, now>>
    BY <1>11, IdleFields DEF Restart, session, observed
  <2>2. queue' = <<[type |-> "reconcile"]>>
    BY <1>11 DEF Restart
  <2>3. queue' # <<>> /\ Head(queue').type = "reconcile"
    BY <2>2
  <2> QED BY <1>1, <2>1, <2>3 DEF Ending
<1>12. ASSUME Ending', task'.pc # "idle", task'.cur = task.cur \/ task'.cur = None,
              UNCHANGED <<quiet, now, suppressed>>
       PROVE  QuietInv'
  BY <1>1, <1>12 DEF Resting
<1>13. ASSUME active' = None \/ active'.sched = None, task'.pc # "idle",
              task'.cur = task.cur, UNCHANGED <<quiet, now, suppressed>>
       PROVE  QuietInv'
  BY <1>1, <1>13 DEF Resting
<1>14. ASSUME NEW kind, NEW outcome, NEW then, Finalize(kind, outcome, then)
       PROVE  Ending' /\ task'.pc = "archive" /\ task'.cur = task.cur
  <2>1. task'.pc = "archive" /\ task'.cur = task.cur
    BY <1>0, <1>14 DEF Finalize, IsTask
  <2> QED BY <2>1 DEF Ending
<1>15. CASE RunReconcile
  <2>0. UNCHANGED <<active, quiet, suppressed, now>>
    BY <1>15 DEF RunReconcile, session, bounds, observed
  <2>1. CASE reconcile
    <3>1. task'.pc = "pass" /\ task'.cur = task.cur
      BY <1>0, <1>15, <2>1 DEF RunReconcile, IsTask
    <3> QED BY <1>12, <2>0, <3>1 DEF Ending
  <2>2. CASE ~reconcile
    <3>1. task'.pc = "idle" /\ task'.cur = None /\ task.pc = "idle"
      BY <1>15, <2>2, IdleFields DEF RunReconcile, Take
    <3>2. Resting => active = None \/ active.sched = None
      BY <2>2, <3>1 DEF Resting, Ending
    <3> QED BY <1>1, <2>0, <3>1, <3>2
  <2> QED BY <2>1, <2>2
<1>16. CASE StartSession
  <2>0. UNCHANGED <<quiet, suppressed, now>> /\ task.pc = "idle" /\ task.cur = None
    BY <1>0, <1>16 DEF StartSession, Take, observed, QuietInv
  <2>1. CASE active # None
    <3>1. UNCHANGED <<task, active>> /\ ~Ending
      BY <1>16, <2>0, <2>1 DEF StartSession, Take, Ending
    <3> QED BY <1>2, <2>0, <3>1
  <2>2. CASE active = None
    <3>1. task'.pc = "pass" /\ task'.cur = task.cur
      BY <1>0, <1>16, <2>2 DEF StartSession, IsTask
    <3> QED BY <1>12, <2>0, <3>1 DEF Ending
  <2> QED BY <2>1, <2>2
<1>17. CASE StopSession
  <2>0. /\ UNCHANGED <<active, now>> /\ task.pc = "idle" /\ task.cur = None /\ ~Ending
    BY <1>0, <1>17 DEF StopSession, Take, bounds, QuietInv, Ending
  <2>1. CASE active = None
    BY <1>2, <1>17, <2>0, <2>1 DEF StopSession
  <2>2. CASE active # None
    <3>1. Ending' /\ task'.pc = "archive" /\ task'.cur = None
      BY <1>14, <1>17, <2>0, <2>2 DEF StopSession
    <3>2. CASE active.sched = None
      BY <1>12, <1>17, <2>0, <2>2, <3>1, <3>2 DEF StopSession
    <3>3. CASE active.sched # None
      <4> DEFINE ends == {o.end : o \in {p \in schedules : p.id = active.sched}}
      <4>1. suppressed' = ScheduleSuppression(ends, active.planned, now)
            /\ quiet' = Rest(active)
        BY <1>17, <2>2, <3>3 DEF StopSession
      <4>2. ~Pending
        BY <1>0, <2>0, <2>2, <3>3 DEF QuietInv, Resting
      <4>3. \/ quiet' = quiet
            \/ /\ quiet'.until \in Nat /\ quiet'.sched # None
               /\ suppressed' = quiet'.until
        BY <1>0, <3>3, <4>1, SuppressedUntilRest DEF QuietInv
      <4> HIDE DEF ends
      <4>4. CASE quiet' = quiet
        BY <1>0, <2>0, <3>1, <4>2, <4>4 DEF QuietInv, Pending
      <4>5. CASE quiet'.until \in Nat /\ quiet'.sched # None
                 /\ suppressed' = quiet'.until
        BY <1>0, <2>0, <3>1, <4>5 DEF QuietInv, Resting
      <4> QED BY <4>3, <4>4, <4>5
    <3> QED BY <3>2, <3>3
  <2> QED BY <2>1, <2>2
<1>18. CASE ExpireSession
  <2>1. /\ UNCHANGED <<active, quiet, suppressed, now>> /\ ~Ending
        /\ task' = task \/ Finalize("expire", ScheduledOutcome(active), "done")
    BY <1>18 DEF ExpireSession, Take, Ending, session, bounds, observed
  <2> QED BY <1>2, <1>12, <1>14, <2>1
<1>19. CASE EndTask
  <2>0. UNCHANGED <<active, quiet, suppressed, now>> /\ ~Ending
    BY <1>19 DEF EndTask, session, bounds, observed, Ending
  <2>1. task' = NextPass \/ task' = Idle
    BY <1>19 DEF EndTask, NextPass
  <2>2. task'.cur = None
    BY <2>1, IdleFields
  <2>3. Resting => active = None \/ active.sched = None
    BY <2>0 DEF Resting
  <2> QED BY <1>1, <2>0, <2>2, <2>3
<1>20. CASE WriteHistory
  <2>1. task'.pc = "reset" /\ task'.cur = task.cur /\ UNCHANGED <<quiet, suppressed, now>>
    BY <1>0, <1>20 DEF WriteHistory, Goto, IsTask, bounds, observed
  <2> QED BY <1>12, <2>1 DEF Ending
<1>21. CASE ResetActive
  <2>1. /\ active' = None /\ task'.cur = task.cur /\ task'.pc # "idle"
        /\ UNCHANGED <<quiet, suppressed, now>>
    BY <1>0, <1>21 DEF ResetActive, IsTask, bounds, observed
  <2> QED BY <1>13, <2>1
<1>22. CASE ResetChallenge
  <2>1. /\ task'.pc = "pass" /\ task'.cur = task.cur
        /\ UNCHANGED <<quiet, suppressed, now>>
    BY <1>0, <1>22 DEF ResetChallenge, Goto, IsTask, bounds, observed
  <2> QED BY <1>12, <2>1 DEF Ending
<1>23. ASSUME task'.pc = "end" \/ task'.pc = "decide", task'.cur = task.cur,
              UNCHANGED <<active, quiet, suppressed, now>>,
              task.cur = None => active = None \/ active.sched = None
       PROVE  QuietInv'
  BY <1>1, <1>23 DEF Resting
<1>24. CASE ClearAllRules
  <2>1. /\ task'.pc = "end" \/ task'.pc = "decide"
        /\ task'.cur = task.cur /\ UNCHANGED <<active, quiet, suppressed, now>>
    BY <1>0, <1>24 DEF ClearAllRules, RejectRules, Goto, IsTask, session, bounds, observed
  <2>2. CASE task.pc = "clear"
    <3>1. Pending /\ Resting => active = None \/ active.sched = None
      BY <2>2 DEF Resting, Ending
    <3> QED BY <1>1, <2>1, <3>1 DEF Resting
  <2>3. CASE task.pc # "clear"
    BY <1>23, <1>24, <2>1, <2>3 DEF ClearAllRules
  <2> QED BY <2>2, <2>3
<1>25. CASE Enforce
  <2>1. /\ task'.pc = "end" /\ task'.cur = task.cur
        /\ UNCHANGED <<active, quiet, suppressed, now>>
    BY <1>0, <1>25 DEF Enforce, RejectRules, Goto, IsTask, session, bounds, observed
  <2>2. CASE task.pc = "enforce"
    <3>1. Pending /\ Resting => active = None \/ active.sched = None
      BY <2>2 DEF Resting, Ending
    <3> QED BY <1>1, <2>1, <3>1 DEF Resting
  <2>3. CASE task.pc # "enforce"
    BY <1>23, <1>25, <2>1, <2>3 DEF Enforce, Current
  <2> QED BY <2>2, <2>3
<1>26. CASE ReadState
  <2>1. /\ task'.pc \in {"select", "prune"} /\ task'.cur = task.cur
        /\ UNCHANGED <<quiet, suppressed, now>>
    BY <1>0, <1>26 DEF ReadState, IsTask, session, bounds, observed
  <2> QED BY <1>12, <2>1 DEF Ending
<1>27. CASE PruneAllows
  <2>1. /\ task'.pc = "select" /\ task'.cur = task.cur
        /\ UNCHANGED <<quiet, suppressed, now>>
    BY <1>0, <1>27 DEF PruneAllows, Goto, IsTask, session, bounds
  <2> QED BY <1>12, <2>1 DEF Ending
<1>28. CASE SelectSchedule
  <2>1. /\ task'.pc = "decide" /\ UNCHANGED <<active, quiet, now>>
        /\ suppressed # None /\ suppressed > now =>
             task'.cur = None /\ suppressed' = suppressed
    BY <1>0, <1>28 DEF SelectSchedule, IsTask, bounds, observed
  <2>2. Pending => suppressed \in Nat /\ suppressed >= quiet.until /\ quiet.until \in Nat
                   /\ now < quiet.until
    BY <1>0 DEF QuietInv, Resting, Pending
  <2>3. Pending => suppressed # None /\ suppressed > now
    BY <1>0, <2>2
  <2> QED BY <1>0, <2>1, <2>2, <2>3 DEF QuietInv, Pending, Resting, Ending
<1>29. CASE MigrateStray \/ Supersede \/ WindowOver \/ LeaveWindow \/ ManualDue
  <2>1. /\ UNCHANGED <<quiet, suppressed, now>>
        /\ \E kind, outcome, then : Finalize(kind, outcome, then)
    BY <1>29 DEF MigrateStray, Supersede, WindowOver, LeaveWindow, ManualDue, EndsHere,
                 session, bounds, observed
  <2> QED BY <1>12, <1>14, <2>1
<1>30. CASE ActivateScheduled
  <2>1. /\ task.cur # None /\ task'.pc = "enforce" /\ task'.cur = task.cur
        /\ UNCHANGED <<quiet, suppressed, now>>
    BY <1>0, <1>30 DEF ActivateScheduled, Goto, IsTask, TaskOK, observed
  <2> QED BY <1>1, <2>1 DEF Resting
<1> QED
  BY <1>6, <1>7, <1>9, <1>10, <1>11, <1>15, <1>16, <1>17, <1>18, <1>19, <1>20, <1>21,
     <1>22, <1>24, <1>25, <1>26, <1>27, <1>28, <1>29, <1>30
  DEF Next, WorkerStep, PopupStep

(* A user who stops a scheduled session in its window is not met by the     *)
(* same schedule before that window ends, across any edits, passes and      *)
(* restarts.                                                                *)
THEOREM StoppedStaysQuiet == Spec => StoppedScheduleStaysQuiet
<1> DEFINE NotAgain == active' # active /\ active' # None /\ quiet # None =>
                         active'.sched # quiet.sched \/ now >= quiet.until
<1>1. Types /\ QuietInv /\ [Next]_vars => [NotAgain]_vars
  <2> SUFFICES ASSUME Types, QuietInv, [Next]_vars, active' # active, active' # None,
                      quiet # None, ~(now >= quiet.until)
               PROVE  active'.sched # quiet.sched
    OBVIOUS
  <2>1. now \in Nat /\ quiet.until \in Nat /\ quiet.sched # None
    BY DEF Types, ListInv, StoredOK, QuietInv
  <2>2. task.cur = None /\ Pending
    BY <2>1 DEF QuietInv, Pending, Resting
  <2>3. CASE StartSession
    BY <2>1, <2>3 DEF StartSession, ActiveSession
  <2>4. ~ActivateScheduled
    BY <2>2 DEF ActivateScheduled, Types, TaskOK, At
  <2>5. ~StopSession /\ ~WriteHistory /\ ~ResetActive /\ ~SelectSchedule /\ ~ClearHistory
    BY DEF StopSession, WriteHistory, ResetActive, SelectSchedule, ClearHistory
  <2> QED BY <2>3, <2>4, <2>5, SessionFrame DEF SessionWrites
<1>2. Init => QuietInv
  BY IdleFields DEF Init, QuietInv, Pending, At
<1>3. Types => ListInv
  BY DEF Types
<1> HIDE DEF NotAgain
<1>4. Spec => [][NotAgain]_vars
  BY <1>1, <1>2, <1>3, TypesInit, TypesStep, IdsInit, IdsStep,
     QuietStep, PTL DEF Spec
<1> QED
  BY <1>4 DEF NotAgain, StoppedScheduleStaysQuiet
=============================================================================
