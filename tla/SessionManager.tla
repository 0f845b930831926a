---------------------------- MODULE SessionManager ----------------------------
(***************************************************************************)
(* The session manager of the FocusBlock Windows service                   *)
(* (service/focus-service/src/session_manager.rs) with the tables of       *)
(* focus-store it writes and the Enforcement seam it drives.               *)
(*                                                                         *)
(* Grain of atomicity.  One tokio Mutex serialises IPC requests and the    *)
(* one-second tick, so a handler runs alone; but every SQL statement       *)
(* commits by itself, so the process can die between two of them.  An      *)
(* action is therefore one durable write with the volatile effects around  *)
(* it, pc says which write of which handler comes next, and Crash may      *)
(* strike at every pc.  A handler whose first write or read fails returns  *)
(* having changed nothing: that is a stuttering step and has no action.    *)
(*                                                                         *)
(* The sessions table is split by its status column: live holds the rows   *)
(* with status 'active', history the others (what an ended row still says  *)
(* apart from its outcome is never read by the service).                   *)
(***************************************************************************)
EXTENDS Integers, FiniteSets

CONSTANTS
  ScheduleIds,      \* schedule ids, positive numbers (ORDER BY start_time, id)
  Plans,            \* schedule contents clients submit, valid or not
  Modes,            \* blocklist, lockdown
  Targets,          \* application block targets
  BlockSites,       \* entries of the blocklist table
  AllowSites,       \* entries of the whitelist table
  Durations,        \* requested durations in seconds, 0 = no end
  PerSec,           \* clock ticks per second
  DayLen,           \* clock ticks per day
  WeekLen,          \* days per week
  NoEnd,            \* a schedule without ends_on
  MaxTime,          \* bound: the clock stops here
  MaxSessions,      \* bound: clients open no session past this number
  MaxRestarts,      \* bound: crashes or service stops
  MaxStoreFaults,   \* bound: SQL statements that fail
  MaxEnforcerFaults \* bound: enforcement calls that fail

ASSUME IdsAssumption == ScheduleIds \subseteq Nat \ {0}
ASSUME ClockAssumption ==
  /\ PerSec \in Nat \ {0}
  /\ DayLen \in Nat \ {0}
  /\ WeekLen \in Nat \ {0}
  /\ NoEnd \notin Nat
ASSUME PlansAssumption ==
  Plans \subseteq [start : Nat, end : 0..DayLen, mode : Modes,
                   days : SUBSET Nat, endsOn : Nat \cup {NoEnd}]
ASSUME DurationsAssumption == Durations \subseteq Nat
ASSUME BoundsAssumption ==
  /\ MaxTime \in Nat /\ MaxSessions \in Nat /\ MaxRestarts \in Nat
  /\ MaxStoreFaults \in Nat /\ MaxEnforcerFaults \in Nat

VARIABLES
  now,            \* the wall clock, local = UTC
  pc,             \* which write of which handler comes next; "idle": mutex free
  subject,        \* the id delete_schedule was called with
  live,           \* sessions rows with status 'active'
  history,        \* the other sessions rows
  nextId,         \* the next fresh session id (Uuid::new_v4)
  schedules,      \* schedules table
  saved,          \* settings row "scheduled_suppressions"
  appTargets,     \* app_block_targets table
  siteList,       \* blocklist and whitelist tables
  active,         \* active_session
  starting,       \* the session saved but not yet enforced
  suppressed,     \* schedule_suppressed_until, 0 = absent
  enforced,       \* targets the enforcer terminates
  restarts, storeFaults, enforcerFaults    \* what is left of the bounds

requests == <<schedules, appTargets, siteList>>
table    == <<live, history>>
budget   == <<restarts, storeFaults, enforcerFaults>>
vars == <<now, pc, subject, live, history, nextId, schedules, saved, appTargets,
          siteList, active, starting, suppressed, enforced,
          restarts, storeFaults, enforcerFaults>>

-----------------------------------------------------------------------------
(* Sessions, schedules and the clock *)

Sites    == BlockSites \cup AllowSites
Session  == [id : Nat \ {0}, sched : ScheduleIds \cup {0}, mode : Modes,
             started : Nat, planned : Nat,
             targets : SUBSET Targets, sites : SUBSET Sites]
Schedule == [id : ScheduleIds, start : Nat, end : 0..DayLen, mode : Modes,
             days : SUBSET Nat, endsOn : Nat \cup {NoEnd}]
Outcomes == {"completed", "stopped"}

(* None: no session has id 0, no manual session has a schedule *)
NoSession == [id |-> 0, sched |-> 0, mode |-> CHOOSE m \in Modes : TRUE,
              started |-> 0, planned |-> 0, targets |-> {}, sites |-> {}]
NoSuppression == [i \in ScheduleIds |-> 0]

NewSession(sched, mode, planned, sites) ==
  [id |-> nextId, sched |-> sched, mode |-> mode, started |-> now,
   planned |-> planned, targets |-> appTargets, sites |-> sites]

(* num_seconds() truncates, so whole elapsed seconds reach the plan exactly *)
(* when the deadline has passed.                                            *)
Deadline(s) == s.started + s.planned * PerSec
ExpiredEndless(s) == now >= Deadline(s)
Expired(s)  == s.planned > 0 /\ now >= Deadline(s)

Day     == now \div DayLen
DayTime == now % DayLen

EndedBefore(s, day) == s.endsOn # NoEnd /\ s.endsOn < day

ActiveNow(s) ==
  /\ ~EndedBefore(s, Day)
  /\ Day % WeekLen \in s.days
  /\ s.start <= DayTime /\ DayTime < s.end

WindowEnd(s) == Day * DayLen + s.end

(* (end - from).num_seconds().max(1) *)
SecondsUnclamped(from, end) == (end - from) \div PerSec
Seconds(from, end) ==
  LET whole == (end - from) \div PerSec IN IF whole >= 1 THEN whole ELSE 1

(* two schedules on shared days; one that has ended conflicts with none *)
ConflictUndated(s, other) ==
  /\ other.id # s.id /\ other.endsOn = NoEnd
  /\ s.days \cap other.days # {}
  /\ s.start < other.end /\ s.end > other.start
Conflict(s, other) ==
  /\ other.id # s.id /\ ~EndedBefore(other, Day)
  /\ s.days \cap other.days # {}
  /\ s.start < other.end /\ s.end > other.start

(* validate_schedule *)
Valid(s) ==
  /\ s.start < s.end
  /\ s.days # {} /\ s.days \subseteq 0..(WeekLen - 1)
  /\ ~EndedBefore(s, Day)
  /\ \A other \in schedules : ~Conflict(s, other)

WithId(i, p) == [id |-> i, start |-> p.start, end |-> p.end, mode |-> p.mode,
                 days |-> p.days, endsOn |-> p.endsOn]

(* what a scan at the present time retains *)
Pending(map) == [i \in ScheduleIds |-> IF now < map[i] THEN map[i] ELSE 0]

-----------------------------------------------------------------------------
(* The store and the enforcer, either of which may fail *)

StoreFails    == storeFaults > 0 /\ storeFaults' = storeFaults - 1
StoreWorks    == UNCHANGED storeFaults
EnforcerFails == enforcerFaults > 0 /\ enforcerFaults' = enforcerFaults - 1
EnforcerWorks == UNCHANGED enforcerFaults

(* INSERT OR REPLACE INTO sessions, of an active and of an ended session *)
SaveLive(s) ==
  /\ live' = {r \in live : r.id # s.id} \cup {s}
  /\ history' = {h \in history : h.id # s.id}
SaveEnded(s, outcome) ==
  /\ live' = {r \in live : r.id # s.id}
  /\ history' = {h \in history : h.id # s.id} \cup {[id |-> s.id, outcome |-> outcome]}

(* schedule_suppressed_until.remove *)
ForgetNothing(map, i) == map
Forget(map, i) == [map EXCEPT ![i] = 0]

(* persist_suppressions ignores a failing write *)
PersistNothing(map) == StoreWorks /\ UNCHANGED saved
Persist(map) == \/ StoreWorks /\ saved' = map
                \/ StoreFails /\ UNCHANGED saved

(* app_enforcer.clear() *)
ClearUnchecked == \/ EnforcerWorks /\ enforced' = {}
                  \/ EnforcerFails /\ UNCHANGED enforced
Clear == EnforcerWorks /\ enforced' = {}

(* Clear, then save the running session as ended; the caller goes on at     *)
(* next, and gives up at the first failure.                                 *)
EndActiveSavingFirst(outcome, next) ==
  \/ StoreFails /\ EnforcerWorks /\ pc' = "idle" /\ UNCHANGED <<table, active, enforced>>
  \/ /\ StoreWorks /\ SaveEnded(active, outcome)
     /\ \/ EnforcerFails /\ pc' = "idle" /\ UNCHANGED <<active, enforced>>
        \/ Clear /\ active' = NoSession /\ pc' = next
EndActiveRegardless(outcome, next) ==
  \/ EnforcerFails /\ StoreWorks /\ pc' = "idle" /\ UNCHANGED <<table, active, enforced>>
  \/ Clear /\ StoreFails /\ active' = NoSession /\ pc' = next /\ UNCHANGED table
  \/ /\ Clear /\ StoreWorks
     /\ SaveEnded(active, outcome)
     /\ active' = NoSession /\ pc' = next
EndActive(outcome, next) ==
  \/ EnforcerFails /\ StoreWorks /\ pc' = "idle" /\ UNCHANGED <<table, active, enforced>>
  \/ Clear /\ StoreFails /\ pc' = "idle" /\ UNCHANGED <<table, active>>
  \/ /\ Clear /\ StoreWorks
     /\ SaveEnded(active, outcome)
     /\ active' = NoSession /\ pc' = next

-----------------------------------------------------------------------------
(* start_session, and the end of evaluate_schedules_at it shares *)

StartSession(mode, planned) ==
  /\ pc = "idle" /\ active = NoSession
  /\ nextId <= MaxSessions
  /\ \E lost \in {{}, BlockSites, AllowSites, Sites} :
       /\ IF lost = {} THEN StoreWorks ELSE StoreFails
       /\ starting' = NewSession(0, mode, planned, siteList \ lost)
  /\ SaveLive(starting')
  /\ nextId' = nextId + 1
  /\ pc' = "apply"
  /\ UNCHANGED <<now, subject, requests, saved, active, suppressed, enforced,
                 restarts, enforcerFaults>>

Apply ==
  /\ pc = "apply"
  /\ \/ /\ EnforcerWorks /\ StoreWorks
        /\ active' = starting
        /\ enforced' = starting.targets
        /\ UNCHANGED table
     \/ /\ EnforcerFails
        /\ \/ StoreWorks /\ SaveEnded(starting, "stopped")
           \/ StoreFails /\ UNCHANGED table
        /\ UNCHANGED <<active, enforced>>
  /\ starting' = NoSession
  /\ pc' = "idle"
  /\ UNCHANGED <<now, subject, nextId, requests, saved, suppressed, restarts>>

-----------------------------------------------------------------------------
(* tick and evaluate_schedules_at *)

Tick ==
  /\ pc = "idle" /\ ~(active # NoSession /\ Expired(active))
  /\ pc' = "evaluate"
  /\ UNCHANGED <<now, subject, table, nextId, requests, saved, active, starting,
                 suppressed, enforced, budget>>

(* complete_expired_session; a failure ends the tick *)
CompleteExpired ==
  /\ pc = "idle" /\ active # NoSession /\ Expired(active)
  /\ EndActive("completed", "evaluate")
  /\ UNCHANGED <<now, subject, nextId, requests, saved, starting, suppressed, restarts>>

PurgeSuppressions ==
  /\ pc = "evaluate"
  /\ suppressed' = Pending(suppressed)
  /\ IF suppressed' = suppressed THEN StoreWorks /\ UNCHANGED saved
                                 ELSE Persist(suppressed')
  /\ pc' = "pick"
  /\ UNCHANGED <<now, subject, table, nextId, requests, active, starting, enforced,
                 restarts, enforcerFaults>>

Due == {s \in schedules : ~(now < suppressed[s.id]) /\ ActiveNow(s)}

(* the first of them in ORDER BY start_time, id *)
FirstDue == {s \in Due : \A o \in Due :
               s.start < o.start \/ (s.start = o.start /\ s.id <= o.id)}

(* unless it is the schedule of the running session *)
WantedWhenFree == {s \in FirstDue : active = NoSession}
Wanted == {s \in FirstDue : s.id # active.sched}

NothingDue ==
  /\ pc = "pick" /\ Wanted = {}
  /\ pc' = "idle"
  /\ UNCHANGED <<now, subject, table, nextId, requests, saved, active, starting,
                 suppressed, enforced, budget>>

TakeOver ==
  /\ pc = "pick" /\ Wanted # {} /\ active # NoSession
  /\ EndActive("stopped", "pick")
  /\ UNCHANGED <<now, subject, nextId, requests, saved, starting, suppressed, restarts>>

Activate ==
  /\ pc = "pick" /\ active = NoSession
  /\ \E s \in Wanted :
       starting' = NewSession(s.id, s.mode, Seconds(now, WindowEnd(s)), siteList)
  /\ SaveLive(starting')
  /\ nextId' = nextId + 1
  /\ pc' = "apply"
  /\ UNCHANGED <<now, subject, requests, saved, active, suppressed, enforced, budget>>

(* list_schedules, the list reads or the first save failed *)
EvaluateFails ==
  /\ pc = "pick" /\ StoreFails
  /\ pc' = "idle"
  /\ UNCHANGED <<now, subject, table, nextId, requests, saved, active, starting,
                 suppressed, enforced, restarts, enforcerFaults>>

-----------------------------------------------------------------------------
(* stop_session, called by the client, by UpdateSchedule and by            *)
(* delete_schedule; its second write is StopSave.                          *)

ClearAndSuppress(next) ==
  /\ Clear
  /\ IF active.sched = 0
       THEN StoreWorks /\ UNCHANGED <<suppressed, saved>>
       ELSE /\ suppressed' = [suppressed EXCEPT ![active.sched] = Deadline(active)]
            /\ Persist(suppressed')
  /\ pc' = next
  /\ UNCHANGED <<now, subject, table, nextId, requests, active, starting, restarts>>

(* a failing clear leaves a client's stop without effect (no action) *)
StopSession == pc = "idle" /\ active # NoSession /\ ClearAndSuppress("stop")

StopSave ==
  /\ pc \in {"stop", "stop_update", "stop_delete"}
  /\ \/ /\ StoreWorks
        /\ SaveEnded(active, "stopped")
        /\ active' = NoSession
        /\ pc' = IF pc = "stop_delete" THEN "delete_row" ELSE "idle"
     \/ /\ StoreFails
        /\ pc' = "idle"
        /\ UNCHANGED <<table, active>>
  /\ suppressed' = IF pc = "stop" THEN suppressed ELSE Forget(suppressed, active.sched)
  /\ UNCHANGED <<now, subject, nextId, requests, saved, starting, enforced,
                 restarts, enforcerFaults>>

-----------------------------------------------------------------------------
(* schedule requests *)

CreateSchedule(i, p) ==
  /\ pc = "idle" /\ nextId <= MaxSessions
  /\ Valid(WithId(i, p))
  /\ \A s \in schedules : s.id # i
  /\ schedules' = schedules \cup {WithId(i, p)}
  /\ pc' = "evaluate"
  /\ UNCHANGED <<now, subject, table, nextId, saved, appTargets, siteList, active,
                 starting, suppressed, enforced, budget>>

UpdateSchedule(i, p) ==
  /\ pc = "idle" /\ nextId <= MaxSessions
  /\ Valid(WithId(i, p))
  /\ \E s \in schedules : s.id = i
  /\ schedules' = {s \in schedules : s.id # i} \cup {WithId(i, p)}
  /\ pc' = IF active.sched = i THEN "updated" ELSE "idle"
  /\ UNCHANGED <<now, subject, table, nextId, saved, appTargets, siteList, active,
                 starting, suppressed, enforced, budget>>

UpdatedRow == CHOOSE s \in schedules : s.id = active.sched

(* The edited schedule is still in its window: the session follows it, with *)
(* the plan counted from its start.                                         *)
FollowFromNow(session, s) ==
  [session EXCEPT !.mode = s.mode, !.planned = Seconds(now, WindowEnd(s))]
Follow(session, s) ==
  [session EXCEPT !.mode = s.mode, !.planned = Seconds(session.started, WindowEnd(s))]

(* Both results are dropped. *)
ResyncSession ==
  /\ pc = "updated" /\ ActiveNow(UpdatedRow)
  /\ active' = Follow(active, UpdatedRow)
  /\ \/ StoreWorks /\ SaveLive(active')
     \/ StoreFails /\ UNCHANGED table
  /\ \/ EnforcerWorks /\ enforced' = active.targets
     \/ EnforcerFails /\ UNCHANGED enforced
  /\ pc' = "idle"
  /\ UNCHANGED <<now, subject, nextId, requests, saved, starting, suppressed, restarts>>

(* it is not: the session is stopped, whatever stop_session answers *)
StopUpdated ==
  /\ pc = "updated" /\ ~ActiveNow(UpdatedRow)
  /\ \/ ClearAndSuppress("stop_update")
     \/ /\ EnforcerFails /\ StoreWorks
        /\ suppressed' = Forget(suppressed, active.sched)
        /\ pc' = "idle"
        /\ UNCHANGED <<now, subject, table, nextId, requests, saved, active, starting,
                       enforced, restarts>>

DeleteSchedule(i) ==
  /\ pc = "idle"
  /\ suppressed' = Forget(suppressed, i)
  /\ Persist(suppressed')
  /\ subject' = i
  /\ pc' = IF active.sched = i THEN "delete_stop" ELSE "delete_row"
  /\ UNCHANGED <<now, table, nextId, requests, active, starting, enforced,
                 restarts, enforcerFaults>>

StopDeleted ==
  /\ pc = "delete_stop"
  /\ \/ ClearAndSuppress("stop_delete")
     \/ /\ EnforcerFails /\ StoreWorks
        /\ pc' = "idle"
        /\ UNCHANGED <<now, subject, table, nextId, requests, saved, active, starting,
                       suppressed, enforced, restarts>>

DeleteRow ==
  /\ pc = "delete_row"
  /\ \/ StoreWorks /\ schedules' = {s \in schedules : s.id # subject}
     \/ StoreFails /\ UNCHANGED schedules
  /\ subject' = 0
  /\ pc' = "idle"
  /\ UNCHANGED <<now, table, nextId, appTargets, siteList, saved, active, starting,
                 suppressed, enforced, restarts, enforcerFaults>>

-----------------------------------------------------------------------------
(* list requests and the snapshot of the running session *)

(* {Add,Remove}AppBlockTarget *)
EditTargets(t) ==
  /\ pc = "idle"
  /\ appTargets' \in {appTargets \cup {t}, appTargets \ {t}}
  /\ pc' = IF active = NoSession THEN "idle" ELSE "sync_targets"
  /\ UNCHANGED <<now, subject, table, nextId, schedules, saved, siteList, active,
                 starting, suppressed, enforced, budget>>

InstallUnsaved(candidate) ==
  enforced' = candidate.targets /\ active' = candidate /\ UNCHANGED table
InstallUnapplied(candidate) ==
  SaveLive(candidate) /\ active' = candidate /\ UNCHANGED enforced
Install(candidate) ==
  enforced' = candidate.targets /\ SaveLive(candidate) /\ active' = candidate

(* sync_active_app_targets: apply, save, and on a failing save apply the   *)
(* previous targets again; a failing read of the list leaves all as it was *)
SyncTargetsUnrolled ==
  /\ pc = "sync_targets"
  /\ LET candidate == [active EXCEPT !.targets = appTargets] IN
     \/ EnforcerWorks /\ StoreWorks /\ Install(candidate)
     \/ EnforcerFails /\ StoreWorks /\ UNCHANGED <<table, active, enforced>>
     \/ /\ StoreFails /\ EnforcerWorks
        /\ enforced' \in {candidate.targets, enforced}
        /\ UNCHANGED <<table, active>>
  /\ pc' = "idle"
  /\ UNCHANGED <<now, subject, nextId, requests, saved, starting, suppressed, restarts>>
SyncTargets ==
  /\ pc = "sync_targets"
  /\ LET candidate == [active EXCEPT !.targets = appTargets] IN
     \/ EnforcerWorks /\ StoreWorks /\ Install(candidate)
     \/ /\ EnforcerFails /\ StoreWorks
        /\ UNCHANGED <<table, active, enforced>>
     \/ /\ StoreFails
        /\ \/ EnforcerWorks /\ enforced' \in {active.targets, enforced}
           \/ EnforcerFails /\ enforced' = candidate.targets
        /\ UNCHANGED <<table, active>>
  /\ pc' = "idle"
  /\ UNCHANGED <<now, subject, nextId, requests, saved, starting, suppressed, restarts>>

(* {Add,Remove}{Blocklist,Whitelist} *)
EditSitesUnsynced(e) ==
  /\ pc = "idle"
  /\ siteList' \in {siteList \cup {e}, siteList \ {e}}
  /\ UNCHANGED <<now, pc, subject, table, nextId, schedules, saved, appTargets, active,
                 starting, suppressed, enforced, budget>>
EditSites(e) ==
  /\ pc = "idle"
  /\ siteList' \in {siteList \cup {e}, siteList \ {e}}
  /\ pc' = IF active = NoSession THEN "idle" ELSE "sync_sites"
  /\ UNCHANGED <<now, subject, table, nextId, schedules, saved, appTargets, active,
                 starting, suppressed, enforced, budget>>

(* sync_active_site_lists *)
SyncSites ==
  /\ pc = "sync_sites"
  /\ \/ /\ StoreWorks
        /\ active' = [active EXCEPT !.sites = siteList]
        /\ SaveLive(active')
     \/ StoreFails /\ UNCHANGED <<table, active>>
  /\ pc' = "idle"
  /\ UNCHANGED <<now, subject, nextId, requests, saved, starting, suppressed, enforced,
                 restarts, enforcerFaults>>

ClearHistory ==
  /\ pc = "idle" /\ history # {}
  /\ history' = {}
  /\ UNCHANGED <<now, pc, subject, live, nextId, requests, saved, active, starting,
                 suppressed, enforced, budget>>

-----------------------------------------------------------------------------
(* the process and the clock *)

(* A service stop waits for the mutex and finalises nothing, a crash does  *)
(* not wait: both lose the memory and the watcher thread.                  *)
Crash ==
  /\ pc # "down" /\ restarts > 0
  /\ restarts' = restarts - 1
  /\ pc' = "down"
  /\ subject' = 0
  /\ active' = NoSession /\ starting' = NoSession
  /\ suppressed' = NoSuppression
  /\ enforced' = {}
  /\ UNCHANGED <<now, table, nextId, requests, saved, storeFaults, enforcerFaults>>

(* ORDER BY started_at DESC LIMIT 1 *)
Latest == {s \in live : \A o \in live : o.started <= s.started}

(* with_enforcement *)
Recover ==
  /\ pc = "down"
  /\ \/ StoreWorks /\ suppressed' = Pending(saved)
     \/ StoreFails /\ suppressed' = NoSuppression
  /\ \/ /\ live = {} /\ EnforcerWorks
        /\ UNCHANGED <<table, active, enforced>>
     \/ \E s \in Latest :
          /\ Expired(s) /\ EnforcerWorks
          /\ SaveEnded(s, "completed")
          /\ UNCHANGED <<active, enforced>>
     \/ \E s \in Latest :
          /\ ~Expired(s)
          /\ active' = s
          /\ \/ EnforcerWorks /\ enforced' = s.targets
             \/ EnforcerFails /\ UNCHANGED enforced
          /\ UNCHANGED table
  /\ pc' = "idle"
  /\ UNCHANGED <<now, subject, nextId, requests, saved, starting, restarts>>

(* Where the rest of a handler reads no clock, a tick of it there is the   *)
(* same as one before its next read, so the clock moves only at the reads. *)
Advance ==
  /\ pc \in {"idle", "down", "evaluate", "updated"}
  /\ now < MaxTime
  /\ now' = now + 1
  /\ UNCHANGED <<pc, subject, table, nextId, requests, saved, active, starting,
                 suppressed, enforced, budget>>

-----------------------------------------------------------------------------
Init ==
  /\ now = 0 /\ pc = "down" /\ subject = 0
  /\ live = {} /\ history = {} /\ nextId = 1
  /\ schedules = {} /\ saved = NoSuppression
  /\ appTargets = {} /\ siteList = {}
  /\ active = NoSession /\ starting = NoSession
  /\ suppressed = NoSuppression /\ enforced = {}
  /\ restarts = MaxRestarts
  /\ storeFaults = MaxStoreFaults /\ enforcerFaults = MaxEnforcerFaults

(* a request of a client *)
Request ==
  \/ \E m \in Modes, d \in Durations : StartSession(m, d)
  \/ StopSession
  \/ \E i \in ScheduleIds, p \in Plans : CreateSchedule(i, p) \/ UpdateSchedule(i, p)
  \/ \E i \in ScheduleIds : DeleteSchedule(i)
  \/ \E t \in Targets : EditTargets(t)
  \/ \E e \in Sites : EditSites(e)
  \/ ClearHistory

(* the rest of a handler that holds the mutex *)
Continue ==
  \/ Apply \/ PurgeSuppressions \/ NothingDue \/ TakeOver \/ Activate \/ EvaluateFails
  \/ StopSave \/ ResyncSession \/ StopUpdated \/ StopDeleted \/ DeleteRow
  \/ SyncTargets \/ SyncSites

Next == Request \/ Tick \/ CompleteExpired \/ Continue \/ Crash \/ Recover \/ Advance

Spec == Init /\ [][Next]_vars

(* Fairness.  tokio's Mutex hands itself over in arrival order, so neither  *)
(* the tick nor a handler waiting for it is passed over for ever (SF for    *)
(* the tick, which requests disable again and again); handlers do not wait  *)
(* for anything, the interval timer fires for ever, no handler holds up the *)
(* time (SF, for the model moves it at some pcs only), and the service      *)
(* manager or the next boot starts a service that is down.                  *)
Fairness ==
  /\ SF_vars(Tick) /\ SF_vars(CompleteExpired)
  /\ WF_vars(Continue) /\ WF_vars(Recover) /\ SF_vars(Advance)

FairSpec == Spec /\ Fairness

-----------------------------------------------------------------------------
(* Properties *)

(* Types of the variables; and a session started by a schedule always has   *)
(* an end (a plan of 0 would run for ever).                                 *)
PCs == {"down", "idle", "apply", "evaluate", "pick", "stop", "stop_update",
        "stop_delete", "updated", "delete_stop", "delete_row",
        "sync_targets", "sync_sites"}
TypeOK ==
  /\ now \in Nat /\ pc \in PCs /\ subject \in ScheduleIds \cup {0}
  /\ live \subseteq Session
  /\ history \subseteq [id : Nat \ {0}, outcome : Outcomes]
  /\ nextId \in Nat \ {0}
  /\ schedules \subseteq Schedule
  /\ saved \in [ScheduleIds -> Nat] /\ suppressed \in [ScheduleIds -> Nat]
  /\ appTargets \subseteq Targets /\ siteList \subseteq Sites
  /\ active \in Session \cup {NoSession} /\ starting \in Session \cup {NoSession}
  /\ enforced \subseteq Targets
  /\ restarts \in Nat /\ storeFaults \in Nat /\ enforcerFaults \in Nat
  /\ \A s \in live \cup {active, starting} : s.sched # 0 => s.planned > 0

(* Whatever fails and wherever the process dies, no application is          *)
(* terminated while the service holds no session: every path that gives up  *)
(* a session releases enforcement first, and no failed start leaves it on.  *)
NothingEnforcedWithoutSession == active = NoSession => enforced = {}

(* Whatever fails, a session the service runs has an active row on disk, so *)
(* a restart at any moment finds a session to restore ("Persist policy      *)
(* before applying app enforcement", start_session); and no session both    *)
(* runs and is recorded as ended.                                           *)
RunningSessionIsOnDisk ==
  /\ active # NoSession => \E r \in live : r.id = active.id
  /\ \A r \in live, h \in history : r.id # h.id

(* "If persistence then fails, restore previous policy so disk snapshot and *)
(* active enforcement never diverge across a restart"                       *)
(* (sync_active_app_targets): what is enforced, if anything is, is what the *)
(* row of the running session would restore, whichever write or call fails; *)
(* only if one of each failed may it not be, as when the rollback fails too.*)
BothFailed == storeFaults < MaxStoreFaults /\ enforcerFaults < MaxEnforcerFaults
EnforcedIsOnDisk ==
  active # NoSession /\ enforced # {} =>
    BothFailed \/ \E r \in live : r.id = active.id /\ r.targets = enforced

(* Between requests the sessions table holds exactly the session in memory  *)
(* as its active row: at most one, with the same plan and snapshots, so     *)
(* that a restart continues the policy it interrupted (shutdown: "A Windows *)
(* service stop/restart must preserve active policy").                      *)
DiskMatchesMemory ==
  pc = "idle" => live = {active} \ {NoSession}

(* Between requests the enforcer terminates exactly the targets in the      *)
(* snapshot of the running session.                                         *)
EnforcementMatchesSnapshot ==
  pc = "idle" /\ active # NoSession => enforced = active.targets

(* Between requests the snapshots of the running session are the permanent  *)
(* lists ("Keep that snapshot current when either permanent site list       *)
(* changes", sync_active_site_lists).                                       *)
SnapshotIsCurrent ==
  pc = "idle" /\ active # NoSession =>
    active.targets = appTargets /\ active.sites = siteList

(* No two schedules are ever in their window together: what validate_schedule *)
(* checks against the date of the request stays true on every later date,   *)
(* although it skips schedules whose end date has passed.                   *)
SchedulesDisjoint ==
  \A a, b \in schedules : a.id # b.id => ~(ActiveNow(a) /\ ActiveNow(b))

(* Between requests a session run by a schedule has the mode of that        *)
(* schedule and ends within a second of the end of one of its windows, also *)
(* after edits of the running schedule; deleting the schedule ends it.      *)
SessionFollowsSchedule ==
  pc = "idle" /\ active.sched # 0 =>
    \E s \in schedules :
      /\ s.id = active.sched /\ s.mode = active.mode
      /\ \E end \in (Deadline(active) - PerSec + 1)..(Deadline(active) + PerSec - 1) :
           end % DayLen = s.end % DayLen

(* The sessions table keeps the promise of SessionLifecycle, across crashes *)
(* at every write and failing enforcement calls.                            *)
Entry(s) == [id |-> s.id, due |-> IF s.planned = 0 THEN 0 ELSE Deadline(s)]
Lifecycle == INSTANCE SessionLifecycle WITH
  clock <- now, open <- {Entry(s) : s \in live}, closed <- history, fresh <- nextId
ImplementsLifecycle == Lifecycle!Spec

(* A session with a planned end leaves the active rows: it completes, is    *)
(* stopped or taken over, across crashes and failing calls; only if an SQL  *)
(* statement and an enforcement call failed may it stay, as the row of a    *)
(* start that failed and could not be recorded as stopped.                  *)
Ends(s)     == s.planned > 0 /\ Deadline(s) <= MaxTime
Planned(i)  == /\ \E s \in live : s.id = i /\ Ends(s)
               /\ active.id = i => Ends(active)
SessionsEnd == \A i \in 1..(MaxSessions + 1) : Planned(i) ~> ~Planned(i) \/ BothFailed

(* A schedule in its window that no stop suppresses gets its session, or    *)
(* the window closes, or a request suppresses, moves or deletes it.         *)
Waiting(i) == /\ \E s \in schedules : s.id = i /\ ActiveNow(s)
              /\ ~(now < suppressed[i])
              /\ active.sched # i
ScheduleIsHonoured == \A i \in ScheduleIds : Waiting(i) ~> ~Waiting(i)

(* "Keep state if enforcement restore fails; the 1s service tick retries"   *)
(* (with_enforcement): a restored session is eventually enforced again.     *)
Unenforced == active # NoSession /\ enforced # active.targets
RestoreIsRetried == Unenforced ~> ~Unenforced
=============================================================================
