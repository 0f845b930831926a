---------------------------- MODULE ServiceWorker ----------------------------
(***************************************************************************)
(* The background worker of the Chrome extension: one lock for reconcile   *)
(* passes and session messages, storage written one key at a time, rules   *)
(* and alarms kept by the browser, and the popup, which writes the lists   *)
(* without the lock.  The browser may close between any two writes.        *)
(*                                                                         *)
(* A task of the lock is split where it awaits something that another      *)
(* party can change or a restart can separate; reads that commute with     *)
(* every other step are joined to the write that follows them.  Events and *)
(* messages arrive between tasks, for only the end of a task reads what    *)
(* they leave, and time passes between tasks and while a pass, its         *)
(* schedule selected, waits for the session it reads.                      *)
(***************************************************************************)
EXTENDS BlockingRules, WeekSchedules, FiniteSets, Sequences

CONSTANTS
  Plans,         \* what the schedule form may submit
  Starts,        \* modes and planned durations a start may ask for
  AllowTimes,    \* durations of temporary allows
  Stored,        \* storages a browser may start with
  MaxTime, MaxEvents, MaxWriters,
  None

Outcomes == {"completed", "stopped", "cancelled"}
Times     == Nat \cup {None}
Modes     == {"blocklist", "lockdown"}
Schedules ==
  [id : Nat, start : 0..DayLen, end : 0..DayLen, mode : Modes,
   days : SUBSET (0..(WeekLen - 1)), endsOn : Nat \cup {NoEnd}]
Sessions ==
  [id : Nat, sched : Times, mode : Modes, started : Nat, planned : Nat,
   status : {"active"} \cup Outcomes, block : SUBSET Entries,
   white : SUBSET Entries]
Allows == [domain : Entries, expires : Nat]

(* stored schedules were validated and numbered when they were stored; None  *)
(* is no number, no record and no list of rules                              *)
ASSUME ServiceWorkerAssumption ==
  /\ Plans \subseteq [start : 0..DayLen, end : 0..DayLen, mode : Modes,
                      days : SUBSET (0..(WeekLen - 1)),
                      endsOn : Nat \cup {NoEnd}]
  /\ Starts \subseteq [mode : Modes, planned : Nat \ {0}]
  /\ AllowTimes \subseteq Nat \ {0} /\ MaxTime \in Nat
  /\ None \notin Nat \cup Sessions \cup Schedules
  /\ \A b, w, a \in SUBSET Entries :
       None \notin {{}, BuildRules(b, w, a), BuildLockdownRules(w, a)}
  /\ \A s \in Stored :
       /\ s.blocklist \subseteq Accepted /\ s.whitelist \subseteq Accepted
       /\ s.schedules \subseteq Schedules /\ IsFiniteSet(s.schedules)
       /\ \A p, o \in s.schedules : p.id # o.id =>
            \A t \in 0..MaxTime : ~(Running(p, t) /\ Running(o, t))
       /\ \A p, o \in s.schedules : p.id = o.id => p = o
       /\ \A p \in s.schedules : p.id <= Cardinality(s.schedules)
       /\ s.active # None => s.active \in Sessions /\ s.active.id = 1

VARIABLES
  blocklist, whitelist, temporary, schedules,        \* chrome.storage.local
  active, history, suppressed, challenge,
  rules, alarms,                                     \* kept by the browser
  queue, task, reconcile, lastRules,                 \* memory of the worker
  writes,                                            \* popup writes under way
  changed,                                           \* onChanged undelivered
  now, nextSession, nextSchedule, requests, restarts, ruleFaults,
  failed, quiet, granted, raced, forgotten, unmarked \* observed, never read

lists    == <<blocklist, whitelist, temporary, schedules>>
session  == <<active, history, suppressed, challenge>>
browser  == <<rules, alarms, lastRules, ruleFaults, failed>>
worker   == <<queue, task, reconcile>>
bounds   == <<now, nextSession, nextSchedule, requests, restarts>>
observed == <<quiet, granted, raced, forgotten, unmarked>>
vars == <<lists, session, browser, worker, writes, changed, bounds, observed>>

(* A session as activateScheduledSession and startSessionLocked store it.  *)
ActiveSession(sched, mode, planned) ==
  [id |-> nextSession, sched |-> sched, mode |-> mode, started |-> now,
   planned |-> planned, status |-> "active",
   block |-> blocklist, white |-> whitelist]

Idle == [pc |-> "idle", kind |-> None, schedules |-> {}, allows |-> {},
         cur |-> None, outcome |-> None, seen |-> <<>>, then |-> None]
NoAlarms == [expiry |-> None, boundary |-> None, allow |-> None]

Init ==
  /\ \E s \in Stored :
       /\ blocklist = s.blocklist /\ whitelist = s.whitelist
       /\ temporary = {} /\ schedules = s.schedules /\ active = s.active
       /\ nextSchedule = 1 + Cardinality(s.schedules)
       /\ nextSession = IF s.active = None THEN 1 ELSE 2
  /\ history = <<>> /\ suppressed = None /\ challenge = TRUE
  /\ rules = {} /\ alarms = NoAlarms /\ lastRules = None
  /\ queue = <<[type |-> "reconcile"]>> /\ reconcile = TRUE /\ task = Idle
  /\ writes = <<>> /\ changed = FALSE
  /\ now = 0 /\ requests = 0 /\ restarts = 0 /\ ruleFaults = 0
  /\ failed = FALSE /\ quiet = None /\ granted = {} /\ raced = FALSE
  /\ forgotten = {} /\ unmarked = {}

-----------------------------------------------------------------------------
(* Readers.                                                                *)

(* requests, restarts and refused updates together are bounded              *)
MoreEvents == requests + restarts + ruleFaults < MaxEvents

UnexpiredEarly(entries, t) == {e \in entries : e.expires > t + 1}
Unexpired(entries, t) == {e \in entries : e.expires > t}
DomainsOf(entries)    == {e.domain : e \in entries}
EarliestOrEpoch(times) ==
  IF times = {} THEN 0 ELSE CHOOSE t \in times : \A u \in times : t <= u
Earliest(times) ==
  IF times = {} THEN None ELSE CHOOSE t \in times : \A u \in times : t <= u
Later(t, u) == IF t < u THEN u ELSE t

(* new schedules are appended, so the first in the list has the least id    *)
GetCurrentSchedule(all, t) ==
  LET running == {s \in all : Running(s, t)}
  IN  IF running = {} THEN None
      ELSE CHOOSE s \in running : \A o \in running : s.id <= o.id

BoundaryAlarmWhenFree(all) ==
  IF active = None THEN Earliest(Boundaries(all, now)) ELSE None
BoundaryAlarm(all)    == Earliest(Boundaries(all, now))
AllowAlarm(allows)    == Earliest({a.expires : a \in allows})
ScheduledOutcome(s) ==
  IF s.sched # None /\ \A o \in schedules : o.id # s.sched
  THEN "cancelled" ELSE "completed"
Due(s)  == s.sched = None /\ (now - s.started) \div PerSec >= s.planned
Live    == active # None /\ active.status = "active"

(* the expiry alarm follows the live window of a scheduled session          *)
RemainingSec(s, cur) ==
  IF cur # None /\ cur.id = s.sched
  THEN SecondsUntil(ScheduleBoundary(cur.end, now), now)
  ELSE s.planned - (now - s.started) \div PerSec
ExpiryOfSchedules(s, cur) ==
  IF cur # None THEN now + PerSec * Later(1, RemainingSec(s, cur)) ELSE None
Expiry(s, cur) == now + PerSec * Later(1, RemainingSec(s, cur))

SessionRulesOfLists(s, allows) ==
  IF s.mode = "lockdown" THEN BuildLockdownRules(whitelist, DomainsOf(allows))
  ELSE BuildRules(blocklist, whitelist, DomainsOf(allows))
SessionRules(s, allows) ==
  IF s.mode = "lockdown"
  THEN BuildLockdownRules(s.white, DomainsOf(allows))
  ELSE BuildRules(s.block, s.white, DomainsOf(allows))

-----------------------------------------------------------------------------
(* The lock.  A reconcile request that waits already is not repeated: the   *)
(* flag makes the tasks behind it empty.                                    *)

RequestReconcile ==
  /\ reconcile' = TRUE
  /\ queue' = IF \E i \in DOMAIN queue : queue[i].type = "reconcile" THEN queue
              ELSE Append(queue, [type |-> "reconcile"])

Take(type) ==
  /\ task.pc = "idle" /\ queue # <<>> /\ Head(queue).type = type
  /\ queue' = Tail(queue)
At(pc)  == task.pc = pc
Between == At("idle") \/ At("end")
Goto(pc) == task' = [task EXCEPT !.pc = pc]

(* finalizeActiveSession up to its first write: it has read the history     *)
Finalize(kind, outcome, then) ==
  task' = [task EXCEPT !.pc = "archive", !.kind = kind, !.outcome = outcome,
                       !.seen = history, !.then = then]

RunReconcile ==
  /\ Take("reconcile")
  /\ reconcile' = FALSE
  /\ task' = IF reconcile THEN [task EXCEPT !.pc = "pass", !.kind = "reconcile"]
             ELSE Idle
  /\ UNCHANGED <<lists, session, browser, writes, changed, bounds, observed>>

StartSession ==
  /\ Take("start")
  /\ IF active # None
     THEN UNCHANGED <<active, task, changed, nextSession>>
     ELSE /\ active' = ActiveSession(None, Head(queue).mode, Head(queue).planned)
          /\ task' = [task EXCEPT !.pc = "pass", !.kind = "start"]
          /\ changed' = TRUE /\ nextSession' = nextSession + 1
  /\ UNCHANGED <<lists, history, suppressed, challenge, browser, reconcile,
                 writes, now, nextSchedule, requests, restarts, observed>>

(* until when the user may expect the stopped session's schedule to rest    *)
Rest(s) ==
  IF \E o \in schedules : o.id = s.sched /\ Running(o, now)
  THEN [sched |-> s.sched,
        until |-> ScheduleBoundary((CHOOSE o \in schedules : o.id = s.sched).end, now)]
  ELSE quiet

StopSession ==
  /\ Take("stop")
  /\ IF active = None
     THEN UNCHANGED <<task, suppressed, quiet>>
     ELSE /\ Finalize("stop", "stopped", "unchallenge")
          /\ IF active.sched = None THEN UNCHANGED <<suppressed, quiet>>
             ELSE /\ suppressed' = ScheduleSuppression(
                       {o.end : o \in {p \in schedules : p.id = active.sched}},
                       active.planned, now)
                  /\ quiet' = Rest(active)
  /\ UNCHANGED <<lists, active, history, challenge, browser, reconcile, writes,
                 changed, bounds, granted, raced, forgotten, unmarked>>

(* session:expire: a manual session must be due, a scheduled one need not   *)
ExpireSession ==
  /\ Take("expire")
  /\ IF active = None \/ (active.sched = None /\ ~Due(active))
     THEN UNCHANGED task
     ELSE Finalize("expire", ScheduledOutcome(active), "done")
  /\ UNCHANGED <<lists, session, browser, reconcile, writes, changed, bounds,
                 observed>>

EndTask ==
  /\ At("end")
  /\ IF task.kind = "reconcile" /\ reconcile
     THEN task' = [Idle EXCEPT !.pc = "pass", !.kind = "reconcile"]
     ELSE task' = Idle
  /\ reconcile' = (reconcile /\ task.kind # "reconcile")
  /\ UNCHANGED <<lists, session, browser, queue, writes, changed, bounds,
                 observed>>

-----------------------------------------------------------------------------
(* The end of a session: history first, then the active slot.               *)

WriteHistoryOver ==
  /\ At("archive")
  /\ history' = <<[id |-> active.id, sched |-> active.sched,
                   outcome |-> task.outcome]>>
  /\ Goto("reset")
  /\ UNCHANGED <<lists, active, suppressed, challenge, browser, queue, reconcile,
                 writes, changed, bounds, observed>>
WriteHistory ==
  /\ At("archive")
  /\ history' = <<[id |-> active.id, sched |-> active.sched,
                   outcome |-> task.outcome]>> \o task.seen
  /\ Goto("reset")
  /\ UNCHANGED <<lists, active, suppressed, challenge, browser, queue, reconcile,
                 writes, changed, bounds, observed>>

ResetActiveIfStopped ==
  /\ At("reset")
  /\ active' = (IF task.outcome = "completed" THEN active ELSE None)
  /\ changed' = TRUE
  /\ task' = [task EXCEPT !.seen = <<>>, !.outcome = None,
                !.pc = IF task.then \in {"activate", "unchallenge"}
                       THEN task.then ELSE "clear"]
  /\ UNCHANGED <<lists, history, suppressed, challenge, browser, queue,
                 reconcile, writes, bounds, observed>>
ResetActive ==
  /\ At("reset")
  /\ active' = None /\ changed' = TRUE
  /\ task' = [task EXCEPT !.seen = <<>>, !.outcome = None,
                !.pc = IF task.then \in {"activate", "unchallenge"}
                       THEN task.then ELSE "clear"]
  /\ UNCHANGED <<lists, history, suppressed, challenge, browser, queue,
                 reconcile, writes, bounds, observed>>

ResetChallenge ==
  /\ At("unchallenge")
  /\ challenge' = FALSE
  /\ Goto("pass")
  /\ UNCHANGED <<lists, active, history, suppressed, browser, queue, reconcile,
                 writes, changed, bounds, observed>>

-----------------------------------------------------------------------------
(* Rules.                                                                   *)

UpdateBlockingRules(new) ==
  /\ IF new = lastRules THEN UNCHANGED <<rules, lastRules>>
     ELSE rules' = new /\ lastRules' = new
  /\ failed' = FALSE
  /\ UNCHANGED ruleFaults

RejectRulesRemembered(new) ==
  /\ new # lastRules /\ MoreEvents
  /\ ruleFaults' = ruleFaults + 1 /\ failed' = TRUE /\ lastRules' = new
  /\ UNCHANGED <<rules, alarms>>
  /\ Goto("end")
RejectRules(new) ==
  /\ new # lastRules /\ MoreEvents
  /\ ruleFaults' = ruleFaults + 1 /\ failed' = TRUE
  /\ UNCHANGED <<rules, lastRules, alarms>>
  /\ Goto("end")

ClearAllRules ==
  /\ \/ At("clear")
     \/ At("decide") /\ active = None /\ task.cur = None
  /\ \/ /\ UpdateBlockingRules({})
        /\ alarms' = [alarms EXCEPT !.expiry = None]
        /\ Goto(IF At("clear") /\ task.then = "decide" THEN "decide" ELSE "end")
     \/ RejectRules({})
  /\ UNCHANGED <<lists, session, queue, reconcile, writes, changed, bounds,
                 observed>>

-----------------------------------------------------------------------------
(* applyBlockingState.                                                      *)

(* what lies ahead and gets no alarm: a boundary within half a second, the   *)
(* end of the suppression unless a window starts or ends then               *)
Unmarked ==
  {b \in BoundariesAhead(schedules, now) : 2 * (b - now) <= PerSec}
    \cup {u \in {suppressed} \ BoundariesAhead(schedules, now) : u # None /\ u > now}

ReadState ==
  /\ At("pass")
  /\ LET allows == Unexpired(temporary, now)
         pruned == allows = temporary
     IN  /\ task' = [task EXCEPT !.pc = IF pruned THEN "select" ELSE "prune",
                       !.schedules = schedules, !.allows = allows]
         /\ alarms' = [alarms EXCEPT !.boundary = BoundaryAlarm(schedules),
                         !.allow = IF pruned THEN AllowAlarm(allows) ELSE @]
  /\ unmarked' = Unmarked
  /\ UNCHANGED <<lists, session, rules, lastRules, ruleFaults, failed, queue,
                 reconcile, writes, changed, bounds, quiet, granted, raced,
                 forgotten>>

(* the list as it was read, over whatever was stored since                  *)
PruneAllows ==
  /\ At("prune")
  /\ temporary' = task.allows
  /\ changed' = (changed \/ temporary' # temporary)
  /\ alarms' = [alarms EXCEPT !.allow = AllowAlarm(task.allows)]
  /\ raced' = (raced \/ \E i \in DOMAIN writes : writes[i].key = "temporary")
  /\ Goto("select")
  /\ UNCHANGED <<blocklist, whitelist, schedules, session, rules, lastRules,
                 ruleFaults, failed, queue, reconcile, writes, bounds, quiet,
                 granted, forgotten, unmarked>>

SelectScheduleOnce ==
  /\ At("select")
  /\ suppressed' = None
  /\ task' = [task EXCEPT !.pc = "decide", !.schedules = {},
                !.cur = IF suppressed # None /\ suppressed > now THEN None
                        ELSE GetCurrentSchedule(task.schedules, now)]
  /\ UNCHANGED <<lists, active, history, challenge, browser, queue, reconcile,
                 writes, changed, bounds, observed>>
SelectSchedule ==
  /\ At("select")
  /\ LET quietNow == suppressed # None /\ suppressed > now
     IN  /\ suppressed' = IF quietNow THEN suppressed ELSE None
         /\ task' = [task EXCEPT !.pc = "decide", !.schedules = {},
                       !.cur = IF quietNow THEN None
                               ELSE GetCurrentSchedule(task.schedules, now)]
  /\ UNCHANGED <<lists, active, history, challenge, browser, queue, reconcile,
                 writes, changed, bounds, observed>>

EndsHere(guard, outcome, then) ==
  /\ At("decide") /\ guard
  /\ Finalize(task.kind, outcome, then)
  /\ UNCHANGED <<lists, session, browser, queue, reconcile, writes, changed,
                 bounds, observed>>

Scheduled == Live /\ active.sched # None
Current   == task.cur # None /\ active.sched = task.cur.id

(* a terminal record in the active slot; nothing writes a cancelled one,    *)
(* which would be discarded                                                 *)
MigrateStray ==
  /\ active # None
  /\ EndsHere(active.status # "active", active.status, "decide")
Supersede ==
  EndsHere(Live /\ task.cur # None /\ ~Current, "stopped", "activate")
WindowOver ==
  EndsHere(Scheduled /\ Current /\ ScheduleBoundary(task.cur.end, now) <= now,
           ScheduledOutcome(active), "done")
LeaveWindow ==
  EndsHere(Scheduled /\ task.cur = None, ScheduledOutcome(active), "done")
ManualDue ==
  EndsHere(Live /\ task.cur = None /\ Due(active), "completed", "done")

ActivateScheduled ==
  /\ \/ At("activate")
     \/ At("decide") /\ task.cur # None /\ active = None
  /\ active' = ActiveSession(task.cur.id, task.cur.mode,
                 Later(1, SecondsUntil(ScheduleBoundary(task.cur.end, now), now)))
  /\ nextSession' = nextSession + 1 /\ changed' = TRUE
  /\ Goto("enforce")
  /\ UNCHANGED <<lists, history, suppressed, challenge, browser, queue,
                 reconcile, writes, now, nextSchedule, requests, restarts,
                 observed>>

Enforce ==
  /\ \/ At("enforce")
     \/ /\ At("decide") /\ Live
        /\ \/ Scheduled /\ Current /\ ScheduleBoundary(task.cur.end, now) > now
           \/ active.sched = None /\ task.cur = None /\ ~Due(active)
  /\ LET new == SessionRules(active, task.allows)
     IN  \/ /\ UpdateBlockingRules(new)
            /\ alarms' = [alarms EXCEPT !.expiry = Expiry(active, task.cur)]
            /\ Goto("end")
         \/ RejectRules(new)
  /\ UNCHANGED <<lists, session, queue, reconcile, writes, changed, bounds,
                 observed>>

WorkerStep ==
  \/ RunReconcile \/ StartSession \/ StopSession \/ ExpireSession \/ EndTask
  \/ WriteHistory \/ ResetActive \/ ResetChallenge \/ ClearAllRules
  \/ ReadState \/ PruneAllows \/ SelectSchedule \/ MigrateStray \/ Supersede
  \/ WindowOver \/ LeaveWindow \/ ManualDue \/ ActivateScheduled \/ Enforce

-----------------------------------------------------------------------------
(* Events, time, and the worker's two ways to lose its memory.              *)

StorageChanged ==
  /\ Between /\ changed /\ changed' = FALSE
  /\ RequestReconcile
  /\ UNCHANGED <<lists, session, browser, task, writes, bounds, observed>>

AlarmFires(a) ==
  /\ Between /\ alarms[a] # None /\ alarms[a] <= now
  /\ alarms' = [alarms EXCEPT ![a] = None]
  /\ RequestReconcile
  /\ UNCHANGED <<lists, session, rules, lastRules, ruleFaults, failed, task,
                 writes, changed, bounds, observed>>

Tick ==
  /\ At("idle") \/ At("decide")
  /\ now < MaxTime /\ now' = now + 1
  /\ UNCHANGED <<lists, session, browser, worker, writes, changed, nextSession,
                 nextSchedule, requests, restarts, observed>>

Sleep ==
  /\ task.pc = "idle" /\ queue = <<>> /\ lastRules # None
  /\ lastRules' = None
  /\ UNCHANGED <<lists, session, rules, alarms, ruleFaults, failed, worker,
                 writes, changed, bounds, observed>>

(* rules and storage stay, alarms may not; onStartup asks for a pass        *)
Restart ==
  /\ MoreEvents /\ restarts' = restarts + 1
  /\ lastRules' = None /\ task' = Idle /\ reconcile' = TRUE
  /\ queue' = <<[type |-> "reconcile"]>>
  /\ writes' = <<>> /\ changed' = FALSE
  /\ alarms' \in {alarms, NoAlarms}
  /\ UNCHANGED <<lists, session, rules, ruleFaults, failed, now, nextSession,
                 nextSchedule, requests, observed>>

-----------------------------------------------------------------------------
(* The popup.  Messages go through the lock; lists are read, changed and    *)
(* written back without it.                                                 *)

Ask == MoreEvents /\ requests' = requests + 1

SendToBackground(message) ==
  /\ Between /\ Ask
  /\ queue' = Append(queue, message)
  /\ UNCHANGED <<lists, session, browser, task, reconcile, writes, changed, now,
                 nextSession, nextSchedule, restarts, observed>>

SendStart(start) ==
  SendToBackground([type |-> "start", mode |-> start.mode, planned |-> start.planned])
SendStop  == SendToBackground([type |-> "stop"])
GetStatus == SendToBackground([type |-> "expire"])

Edit(key, values, gives, takes) ==
  /\ Ask /\ Len(writes) < MaxWriters
  /\ writes' = Append(writes, [key |-> key, values |-> values,
                               gives |-> gives, takes |-> takes])
  /\ UNCHANGED <<lists, session, browser, worker, changed, now, nextSession,
                 restarts, observed>>
EditList(key, values) ==
  Edit(key, <<values>>, {}, {}) /\ UNCHANGED nextSchedule

AddBlocklist(e) ==
  /\ IsValidStoredDomain(e) /\ e \notin blocklist
  /\ EditList("blocklist", blocklist \cup {e})
RemoveBlocklist(e) ==
  e \in blocklist /\ EditList("blocklist", blocklist \ {e})
AddWhitelist(e) ==
  /\ IsValidStoredDomain(e) /\ e \notin whitelist
  /\ EditList("whitelist", whitelist \cup {e})
RemoveWhitelist(e) ==
  e \in whitelist /\ EditList("whitelist", whitelist \ {e})

(* listTemporaryAllows writes what it read without the expired entries      *)
Pruned == LET kept == Unexpired(temporary, now)
          IN  IF kept = temporary THEN <<>> ELSE <<kept>>
ListTemporaryAllows ==
  /\ Pruned # <<>>
  /\ Edit("temporary", Pruned, {}, {}) /\ UNCHANGED nextSchedule
AddTemporaryAllow(e, minutes) ==
  LET entry == [domain |-> e, expires |-> now + minutes]
  IN  /\ IsValidStoredDomain(e)
      /\ Edit("temporary",
              Append(Pruned, Unexpired(temporary, now) \cup {entry}), {entry}, {})
      /\ UNCHANGED nextSchedule
RemoveTemporaryAllow(entry) ==
  /\ entry \in temporary
  /\ Edit("temporary", <<temporary \ {entry}>>, {}, {entry})
  /\ UNCHANGED nextSchedule

(* what the popup reads: schedules with weekdays, stored that way at once   *)
Normalized == {[s EXCEPT !.days = ScheduleDays(s)] : s \in schedules}
WriteSchedules(value) ==
  Edit("schedules", IF Normalized = schedules THEN <<value>>
                    ELSE <<Normalized, value>>, {}, {})
Numbered(plan, id) ==
  [id |-> id, start |-> plan.start, end |-> plan.end, mode |-> plan.mode,
   days |-> plan.days, endsOn |-> plan.endsOn]
CreateSchedule(plan) ==
  LET s == Numbered(plan, nextSchedule)
  IN  /\ ValidSchedule(s, Normalized, Day(now))
      /\ WriteSchedules(Normalized \cup {s})
      /\ nextSchedule' = nextSchedule + 1
UpdateSchedule(old, plan) ==
  LET s == Numbered(plan, old.id)
  IN  /\ ValidSchedule(s, Normalized, Day(now))
      /\ WriteSchedules({o \in Normalized : o.id # old.id} \cup {s})
      /\ UNCHANGED nextSchedule
DeleteSchedule(old) ==
  /\ WriteSchedules({o \in Normalized : o.id # old.id})
  /\ UNCHANGED nextSchedule

(* another writer has read the temporary allows and not written them yet    *)
Overlapped(i) ==
  At("prune") \/ \E j \in DOMAIN writes \ {i} : writes[j].key = "temporary"

WriteStep(i) ==
  LET w    == writes[i]
      last == Len(w.values) = 1
      Put(key, list) == list' = IF w.key = key THEN Head(w.values) ELSE list
  IN  /\ Put("blocklist", blocklist) /\ Put("whitelist", whitelist)
      /\ Put("temporary", temporary) /\ Put("schedules", schedules)
      /\ changed' = (changed \/ lists' # lists)
      /\ writes' = IF last THEN SubSeq(writes, 1, i - 1)
                                  \o SubSeq(writes, i + 1, Len(writes))
                   ELSE [writes EXCEPT ![i].values = Tail(w.values)]
      /\ granted' = IF last THEN (granted \cup w.gives) \ w.takes ELSE granted
      /\ raced' = (raced \/ (w.key = "temporary" /\ Overlapped(i)))
      /\ UNCHANGED <<session, browser, worker, bounds, quiet, forgotten,
                      unmarked>>

ClearHistory ==
  /\ Ask /\ history # <<>> /\ history' = <<>>
  /\ forgotten' = forgotten \cup {history[i].id : i \in DOMAIN history}
  /\ UNCHANGED <<lists, active, suppressed, challenge, browser, worker, writes,
                 changed, now, nextSession, nextSchedule, restarts, quiet,
                 granted, raced, unmarked>>

(* The pages of the popup that edit the lists.                              *)
BlocklistPage == \E e \in Entries : AddBlocklist(e) \/ RemoveBlocklist(e)
AllowlistPage ==
  \/ ListTemporaryAllows
  \/ \E e \in Entries : AddWhitelist(e) \/ RemoveWhitelist(e)
  \/ \E e \in Entries, d \in AllowTimes : AddTemporaryAllow(e, d)
  \/ \E entry \in temporary : RemoveTemporaryAllow(entry)
SchedulePage ==
  \/ \E plan \in Plans : CreateSchedule(plan)
  \/ \E old \in schedules, plan \in Plans : UpdateSchedule(old, plan)
  \/ \E old \in schedules : DeleteSchedule(old)

PopupStep ==
  \/ \E start \in Starts : SendStart(start)
  \/ SendStop \/ GetStatus \/ ClearHistory
  \/ BlocklistPage \/ AllowlistPage \/ SchedulePage

Finishes == \E i \in DOMAIN writes : WriteStep(i)
Alarm    == \E a \in {"expiry", "boundary", "allow"} : AlarmFires(a)

Next ==
  WorkerStep \/ StorageChanged \/ Alarm \/ Tick \/ Sleep \/ Restart
    \/ PopupStep \/ Finishes

Spec == Init /\ [][Next]_vars

(* the event loop turns, and Chrome delivers events and alarms              *)
FairSpec ==
  Spec /\ WF_vars(WorkerStep) /\ WF_vars(StorageChanged) /\ WF_vars(Alarm)
       /\ WF_vars(Finishes)
-----------------------------------------------------------------------------
(* Properties.                                                              *)

(* The types of stored values, rules, alarms and of the task under way; an  *)
(* alarm that is set lies after the start of time.                          *)
TypeOK ==
  /\ blocklist \subseteq Accepted /\ whitelist \subseteq Accepted
  /\ temporary \subseteq Allows /\ schedules \subseteq Schedules
  /\ active \in Sessions \cup {None} /\ suppressed \in Times
  /\ challenge \in BOOLEAN /\ changed \in BOOLEAN /\ reconcile \in BOOLEAN
  /\ \A a \in DOMAIN alarms : alarms[a] \in (Nat \ {0}) \cup {None}
  /\ task.allows \subseteq Allows /\ task.schedules \subseteq Schedules
  /\ task.cur \in Schedules \cup {None}
  /\ \A i \in DOMAIN history : history[i].outcome \in Outcomes

Archived == {history[i].id : i \in DOMAIN history}

(* "There is exactly one way to move a record from the active slot into     *)
(* history" (service-worker.ts:471): no session is lost on the way, however *)
(* alarms, stops, takeovers and a closing browser meet, unless the user     *)
(* clears the history.                                                      *)
SessionsAreKept ==
  \A id \in 1..(nextSession - 1) :
    (active # None /\ active.id = id) \/ id \in Archived \/ id \in forgotten

(* A session is archived twice only if the browser closed between its two   *)
(* writes.                                                                  *)
ArchivedOnce == Len(history) <= Cardinality(Archived) + restarts

(* Nothing waits for the worker, and its last update of the rules worked.   *)
Settled ==
  /\ At("idle") /\ queue = <<>> /\ ~changed /\ ~failed
  /\ \A a \in DOMAIN alarms : alarms[a] = None \/ alarms[a] > now

(* Whatever passes failed, met or were cut short before: a worker that rests *)
(* leaves exactly the rules the session and the temporary allows ask for,   *)
(* and none without a session.                                              *)
SettledRulesMatch ==
  Settled => \A p \in Pages :
    Blocked(rules, p) <=>
      /\ active # None
      /\ Wanted(active.mode, active.block, active.white,
                DomainsOf({a \in temporary : a.expires > now}), p)

SessionIsRight ==
  IF \E s \in schedules : Running(s, now)
  THEN active # None /\ \E s \in schedules : Running(s, now) /\ active.sched = s.id
  ELSE active = None \/ active.sched = None
Quiet  == suppressed # None /\ suppressed > now
Missed == \E b \in unmarked : b <= now

(* A worker that rests has woken for every start and end of a window, and   *)
(* for the end of every suppression: the running schedule, unless it is     *)
(* suppressed now, has its session and no other schedule has one.  Only a   *)
(* time the last pass set no alarm for (Unmarked) may go by unnoticed.      *)
SettledSessionIsRight == Settled /\ ~Quiet /\ ~Missed => SessionIsRight

(* The snapshots are locked when a session starts: while it lasts, no edit  *)
(* of the lists opens a page; only a temporary allow does.                  *)
OpenedOnlyByAllow ==
  [][active # None /\ active' = active =>
       \A p \in Pages :
         /\ Wanted(active.mode, active.block, active.white, {}, p)
         /\ Blocked(rules, p) /\ ~Blocked(rules', p)
         => CoveredBy(DomainsOf(task.allows), p)]_vars

(* A user who stops a scheduled session in its window is not met by the     *)
(* same schedule before that window ends, across any edits, passes and      *)
(* restarts.                                                                *)
StoppedScheduleStaysQuiet ==
  [][active' # active /\ active' # None /\ quiet # None =>
       active'.sched # quiet.sched \/ now >= quiet.until]_vars

(* Two popups validate against the list each of them read: no list they     *)
(* store has two schedules that run at one time, now or later.              *)
Apart(list) ==
  \A s, o \in list : s.id # o.id =>
    \A t \in now..MaxTime : ~(Running(s, t) /\ Running(o, t))
SchedulesNeverOverlap == Apart(schedules)

(* A temporary allow lasts until it expires or is removed, unless two       *)
(* writers of the list overlapped: the popup writes it without the lock.    *)
AllowsSurviveSerialUse == raced \/ {a \in granted : a.expires > now} \subseteq temporary

(* A manual session whose time is up ends, unless the browser refused a     *)
(* rule update, which also leaves it without an alarm.                      *)
OverdueSessionsEnd ==
  active # None /\ Due(active) ~> active = None \/ ~Due(active) \/ failed

(* A window that is open and not suppressed gets its session, though a      *)
(* manual one runs and though nobody opens the popup, unless it opened at a *)
(* time the last pass set no alarm for.                                     *)
Starved ==
  /\ ~Quiet
  /\ LET cur == GetCurrentSchedule(schedules, now)
     IN  cur # None /\ (active = None \/ active.sched # cur.id)
WindowGetsItsSession == Starved ~> ~Starved \/ Missed

(* "A scheduled session that is no longer inside its window either ran to   *)
(* its end boundary (completed) or lost its schedule to deletion            *)
(* (cancelled)" (service-worker.ts:610): none is completed in its window.   *)
OnlyDueSessionsComplete ==
  [][history' # history /\ history' # <<>> =>
       LET h == Head(history')
       IN  h.outcome = "completed" =>
             \A s \in schedules : s.id = h.sched => ~Running(s, now)]_vars
=============================================================================
