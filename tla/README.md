# FocusBlock: specifications, model checking and proofs

FocusBlock blocks distracting web sites (a Chrome extension) and applications
(a Windows service) during focus sessions. A session is started by hand or by a
weekly schedule, runs to its planned end or is stopped early behind a challenge,
and has to survive the crash of any process involved. This directory holds TLA+
models of that program, the TLC runs that check them on small instances, and
theorems proved with TLAPS for all values of the constants. Paths below are
relative to the root of the repository.

## 1. The system

| Component | State it keeps | Operations | Talks to |
|---|---|---|---|
| **Session manager** `service/focus-service/src/session_manager.rs` | `active_session`, `schedule_suppressed_until` | some thirty IPC requests, the one-second `tick`, recovery in `with_enforcement`, `shutdown` | store (SQL), enforcer (trait calls) |
| **Store** `crates/focus-store` | SQLite tables: sessions, schedules, both site lists, app targets, presets, settings | one autocommitted statement per method | called by the session manager only |
| **Types** `crates/focus-core` | none | expiry of a session, domain normalisation, target normalisation | used by all Rust parts |
| **Application enforcer** `service/focus-service/src/app_enforcement.rs` | targets, shared matchers, watcher thread with stop flag and handle, fallback flag and poll time, last blocked application | `apply`, `tick`, `clear`, the watcher thread, the sweep of running processes | Windows process events (WMI), `TerminateProcess` |
| **Service host and IPC** `service.rs`, `crates/focus-ipc` | the tokio mutex around the manager, pipe instances, the interval timer | accept, dispatch, answer; client with a five-second budget; service start and stop | desktop application, native host |
| **Native messaging host** `native_host.rs` | none | forwards an allow-list of requests to the pipe, an inactive policy on errors | extension, service |
| **Extension worker** `apps/extension/background/service-worker.ts` | `chrome.storage.local`, a promise-chain lock, the coalesced reconcile, the text of the last rules, alarms | start, stop, expire, reconcile, history, suppression, rule updates | popup (messages, shared storage), `declarativeNetRequest` |
| **Extension popup** `apps/extension/popup` | React state, the same storage | reads and writes of lists, schedules and settings outside the worker's lock; the stop challenge | worker |
| **Desktop application** `apps/desktop` | React state, one-second poll | requests over the Tauri bridge: status, start, stop, schedules, lists | service |

What makes the system hard, and what makes each part correct:

* **Session manager.** One mutex serialises requests and ticks, but each handler
  makes several durable writes, any of which can fail or be the last one before
  a crash. Memory, disk and enforcement must agree between requests; a crash must
  not lose, duplicate or resurrect a session; a user's stop must hold until the
  end of the window and nothing else may suppress a schedule; time is cut to
  whole seconds.
* **Application enforcer.** A watcher thread starts, dies and is asked to stop
  while `apply` and `clear` wait with budgets: one watcher at a time, no
  termination after `clear`, the sweep takes over from a dead watcher.
* **Service host and IPC.** A client that gives up after five seconds does not
  take its request back; it may repeat it.
* **Extension.** The worker's lock orders its own tasks only: the popup writes the same
  storage beside it, the browser may close between any two writes, a rule update may be
  refused, alarms and storage events come later than what they announce. Whenever the worker
  rests, the rules are those of the session and the session is the one of the schedules; no
  session is lost on its way into the history; a stop holds until its window ends.
* **Popup and desktop pages.** They show what they read some time ago. Answers come late, out
  of order or never; a page is closed while its request is executed. A page must keep the
  session it knows, catch up, and a repeated save must not be stored twice.
* **Challenge gates.** Timers, clicks and submits arrive between two renders of the page; none
  of them may shorten the exercise.

`PROJECT.json` lists these behaviours line by line under `hazards`.

## 2. The modules

| # | Module | What it models |
|---|---|---|
| 1 | `SessionLifecycle` | abstract: what the sessions table promises |
| 2 | `SessionManager` (+ `SessionManagerHistory`, `MCSessionManager`, `MCSessionManagerHistory`) | the session manager, the tables it writes, the enforcement seam, crashes |
| 3 | `AppEnforcer` (+ `MCAppEnforcer`) | watcher threads, handshake, stop budget, fallback sweep, the machine's processes |
| 4 | `BlockingRules` | pure: the rules the extension builds, and what the browser makes of them |
| 5 | `WeekSchedules` | pure: windows, boundaries, suppression and validation of the extension's schedules |
| 6 | `ServiceWorker` (+ `MCServiceWorker`), extends 4 and 5 | the extension's worker, storage, browser and the popup's writes |
| 7 | `ChallengeGate` | the five exercises before a stop |
| 8 | `PopupHome`, extends 7 | the popup's Home page beside the worker |
| 9 | `DesktopApp` (+ `MCDesktopApp`) | the desktop's pages, the calls of the bridge, the service as the pages see it |

`SessionManagerProofs`, `SessionManagerHistoryProofs`, `AppEnforcerProofs`,
`BlockingRulesProofs`, `ServiceWorkerProofs`, `ServiceWorkerRulesProofs`, `PopupHomeProofs` and
`DesktopAppProofs` hold the theorems. No module declares a recursive operator.

Each of 2, 3, 6, 8 and 9 is checked on its own and keeps of its neighbours what it can see of
them: `SessionManager` sees the enforcer through the `Enforcement` trait, `PopupHome` sees the
worker as sessions that begin and end by single writes of storage, `DesktopApp` sees the
service as a session and a table of schedules. What would come next: `AppEnforcer` as an
implementation of the seam in `SessionManager`, and `ServiceWorker` as one of the worker
`PopupHome` assumes.

## 3. SessionManager

### State and actions

`active`, `suppressed` are the fields of the struct; `live` and `history` split the
sessions table by its status column; `schedules`, `appTargets`, `siteList`, `saved` are
the other tables (the two site lists as one set: their handlers are the same code);
`enforced` is what the enforcer terminates, seen through the `Enforcement` trait; `now`
is the clock. Strings, presets, settings and log lines are left out, time is a number of
ticks with `PerSec` of them per second, `DayLen` per day and `WeekLen` days per week.

**Grain.** An action is one durable write together with the volatile effects around it.
`pc` names the write that comes next while a handler holds the mutex and `"idle"` when the
mutex is free, so `Crash` can come between any two writes:

| Handler | Actions |
|---|---|
| `start_session` | `StartSession` (row), `Apply` (enforcement, or the row taken back) |
| `tick` | `Tick` or `CompleteExpired`, then `evaluate_schedules_at` |
| `evaluate_schedules_at` | `PurgeSuppressions`, `NothingDue` / `TakeOver` / `Activate` / `EvaluateFails`, `Apply` |
| `stop_session` | `StopSession` (clear, suppress, persist), `StopSave` (row) |
| `CreateSchedule` | `CreateSchedule` (row), then the evaluation |
| `UpdateSchedule` | `UpdateSchedule` (row), `ResyncSession` or `StopUpdated` with `StopSave` |
| `delete_schedule` | `DeleteSchedule` (setting), `StopDeleted` with `StopSave`, `DeleteRow` |
| list edits | `EditTargets`, `SyncTargets`; `EditSites`, `SyncSites` |
| `ClearHistory` | `ClearHistory` |
| process | `Crash` (also a service stop: `shutdown` finalises nothing), `Recover` (`with_enforcement`) |

Every SQL statement may fail (`StoreFails`) and so may every call of the enforcer
(`EnforcerFails`, which leaves the old targets in force); what the code does with the error
(return, ignore, roll back) is in the action. A handler whose first read or write fails
changes nothing and has no action. The clock moves where a handler reads it next.

`SessionManagerHistory` adds one history variable, until when a client's stop promised to
keep each schedule quiet. It restricts nothing.

`SessionLifecycle` is what a reader of the sessions table may rely on: sessions begin one
at a time under fresh ids, end once and for good, and are called completed only after their
end had come. `SessionManager!ImplementsLifecycle` maps `live` and `history` onto it.

### Runs

| Run | Instance | Shows |
|---|---|---|
| `memory` | no faults, no restart, two ticks per second, two schedules out of four plans, one target, one site | `TypeOK`, `SessionFollowsSchedule` (truncated durations stay within a second of the window), `SchedulesDisjoint`, `EnforcementMatchesSnapshot`, `SnapshotIsCurrent` over all interleavings of requests, edits and ticks |
| `crash` | whole-second clock, two crashes, one failing enforcement call | `DiskMatchesMemory`, `ImplementsLifecycle` (refinement), `UserStopSticks`, `OnlyUserStopsSuppressInMemory` |
| `faults` | fairness, one schedule, one client session, one crash, one failing statement, one failing call | `NothingEnforcedWithoutSession`, `RunningSessionIsOnDisk`, `EnforcedIsOnDisk` (what is enforced is what the next start would restore), `SessionsEnd`, `ScheduleIsHonoured` |

**Bounds.** `MaxTime`, `MaxSessions`, `MaxRestarts`, `MaxStoreFaults` and
`MaxEnforcerFaults` bound the clock, the sessions clients open, and the faults. A day of
four seconds holds two windows, so a run sees a window open, close and the next one begin,
a stop inside a window and the tick after it, and a takeover; two crashes cover a crash
during recovery from the first; a failing statement and a failing enforcement call together
cover a failure of a step and of its compensation. `memory` and `faults` take every action
of `Next` between them; only `memory` has the second session and the site lists. The
theorems hold without these bounds: every bound is an arbitrary natural number there.

**Fairness** (`FairSpec`). The tick and the expiry have strong fairness: the tokio mutex
queues waiters in order of arrival, so requests disable the tick again and again but not for
ever. A handler that holds the mutex goes on (weak), a service that is down is started again
(weak: by the service manager or at the next boot), and the clock moves (strong, since the
model moves it at some `pc` only). Failures are finite in number: with
an enforcer that fails for ever no session could end. `SessionsEnd` excepts one case that
really leaves a session behind: a start whose enforcement fails and whose row cannot be taken
back (`session_manager.rs:505`) leaves an active row that nobody ends.

### Disagreements between code and text

| Run | Text | Code |
|---|---|---|
| `phantom_suppression` | a test: "Restart service: schedule must NOT be suppressed because this was not a user stop!" | `UpdateSchedule` and `delete_schedule` remove the suppression that `stop_session` has just persisted in memory only; the next start brings it back |
| `restore_not_retried` | "Keep state if enforcement restore fails; the 1s service tick retries" | nothing applies the targets of the restored session again |

`DiskMatchesMemory` needs `MaxStoreFaults = 0`: the results of several saves are dropped
(`session_manager.rs:322`, `:505`), so one failing statement makes memory and disk differ.
`OnlyUserStopsSuppressInMemory` is what remains of the first row: until the first restart
only a client's stop keeps a schedule quiet; the run of the finding drops that condition.
`UserStopSticks` is checked with a whole-second clock: with a finer one the suppression
ends at start plus whole seconds, up to a second before the window does, and a tick in
between starts the schedule again (`session_manager.rs:382`). What failing statements do
beyond `RunningSessionIsOnDisk` and `EnforcedIsOnDisk` is not stated by any property, for
nothing in the repository says what should hold then: a suppression that was not written
(`:31`), a saved session that was not (`:322`), a row that could not be taken back
(`:505`). `EnforcedIsOnDisk` itself excepts the case where a statement and a call have both
failed, for then the rollback may have failed too.

## 4. AppEnforcer

### State and actions

The struct's fields are `targets`, `fallback` (`is_using_fallback`), `lastBlocked`, and
`handle`, which stands for `watcher_stop` and `watcher_handle` together since they are set
and taken together; `pollDue` is whether `FALLBACK_POLL_INTERVAL` has passed since
`last_fallback_poll`. `matchers` is the object every watcher shares. `watcher` holds the
threads ever started: their place in `run_process_watcher`, their stop flag and the events
the subscription has for them. `running` is the machine: the application each process id
runs. An application is the path and the package family a query of its process returns,
either of which may be missing.

The session manager calls one method at a time; `pc` is where that call is. The watchers,
the processes and the poll interval move beside it.

| Code | Actions |
|---|---|
| `apply`, `clear` | `Call` (sets the stop flag), `StopTimesOut` or `Clear` / `Install`, `Ready` (watcher reports, fails or is late), the sweep |
| `sweep_active_processes` | `StartSweep` in `Ready` and `Tick` (the snapshot, which may fail), `Inspect` (one process), `EndSweep` (the report) |
| `tick` | `Tick`, then the sweep if polling is due |
| `run_process_watcher` | `WatcherSkips`, `WatcherFails`, `WatcherSubscribes`, `WatcherLoops`, `WatcherIdles`, `WatcherHandles`; `WatcherDies`; `WatcherLoses` and `WatcherSpins` |
| `clear_last_blocked_app`, `mode` | `ClearLastBlocked`, `Mode` |
| Windows | `Launch`, `Exit` |

Inspecting and terminating one process is one step, for both users hold the read lock of
`matchers` meanwhile and the only writers wait for it. A budget of two seconds is a
nondeterministic choice: the wait ends with the answer or without. COM calls and their
errors are `WatcherFails`; Windows denying access or refusing `TerminateProcess` is
`Protected`. Events wait in a set, one per process id, for an event only says that its
process id is worth a look.

### Runs

| Run | Instance | Shows |
|---|---|---|
| `enforcer` | fairness, three calls, one process id, any process or none at the start, one launch, one death, one broken subscription, one failing snapshot; targets that match by path, name, launcher folder and package | `TypeOK`, `NoEscape`, `OnlyTargetsDie`, `SystemToolsSurvive`, `TargetsDie`, `AbandonedWatchersEnd` |

**Bounds.** `MaxCalls`, `MaxLaunches`, `MaxDeaths`, `MaxLosses` and `MaxSnapshotFaults`.
Three calls are a start, a stop that times out and what follows it. The one process id may be
taken when the service starts (`Init`), and freed by its process or by a termination; then it
is used again by the launch, before the first call, at any moment of one or between two. So a
process runs before the watcher comes up, or starts meanwhile, or a second one starts under
the process id of which an event, a snapshot or a watcher left behind still speaks. Two
processes that run at once are not in the run: every property speaks of one process, and a
process changes nothing that decides over another (`lastBlocked` is only reported).

**Fairness** (`FairSpec`). A call goes on, since it waits with budgets only (weak); the tick
comes every second while a session runs (strong, for other calls hold the mutex again and
again); the poll interval passes; a watcher that has subscribed takes its turns. Nothing
forces a watcher to subscribe: the event service may never answer, and then the fallback
has to do the work.

### A disagreement between code and text

| Run | Text | Code |
|---|---|---|
| `lost_subscription` | "A machine where the WMI subscription failed can no longer look healthy" | a watcher whose subscription breaks loops on, and `mode` stays `kernel_events` |

Three properties say less than the text they are about. "A replacement watcher is never
started while the previous subscription is alive", but `stop_watcher` takes the handle
before it waits (`app_enforcement.rs:604`): after one stop that timed out the next `apply`
starts a second watcher beside the first. `AbandonedWatchersEnd` is what remains: the first
one ends, and until then terminates targets of the moment only (`OnlyTargetsDie`).
`NoEscape` holds until a process snapshot fails: a failed one passes for an empty one, and
with kernel events active no other follows (`app_enforcement.rs:226`). `SystemToolsSurvive`
excepts tools that belong to a targeted package: "never blocked" holds for executable
targets only, for packages are compared before the guard (`app_enforcement.rs:130`).
`TargetsDie` excepts a failed snapshot and a broken subscription, which nothing notices.

## 5. The extension's worker

### BlockingRules and WeekSchedules

`BuildRules` and `BuildLockdownRules` are `buildRules` and `buildLockdownRules`; `Blocked` is
how the browser decides (the rule of the highest priority, an allow before a redirect), and
`Wanted` what the lists mean. An entry is a domain or a leading-`*` wildcard; the pages it
covers, with and without `www.`, are constants, so the text of filters is left out.

`WeekSchedules` has the schedule arithmetic: `Running` (`getCurrentSchedule`, with the local
date limit and legacy schedules without weekdays), `ScheduleBoundary`, `BoundariesAhead` (the
starts and ends of eight days), `Boundaries` (those an alarm may be set for: more than 500 ms
ahead, `service-worker.ts:460`), `SecondsUntil` (a started second counts),
`ScheduleSuppression`, and `ValidSchedule` as the popup validates. Time is a number of ticks,
`PerSec` of them per second, `DayLen` per day, `WeekLen` days per week. With `PerSec = 1` every
boundary ahead is a second away and gets its alarm; with `PerSec = 2` one may be half a second
away and get none.

### ServiceWorker: state and actions

`blocklist`, `whitelist`, `temporary`, `schedules`, `active`, `history`, `suppressed` and
`challenge` are keys of `chrome.storage.local`; `rules` and `alarms` belong to the browser;
`queue` is `mutationTail` (the tasks behind the lock), `reconcile` the flag that coalesces
requests, `lastRules` is `lastRulesJson`, `task` the task that has the lock with what it has
read. `writes` are the popup's writes under way, `changed` an undelivered `onChanged`.
`quiet`, `granted`, `raced`, `forgotten`, `unmarked` and `failed` only observe; `unmarked` are
the times ahead for which the last pass set no alarm (`Unmarked`): boundaries within half a
second, and the end of the suppression unless it is a boundary.

| Code | Actions |
|---|---|
| `requestReconcile`, `withLock` | `RequestReconcile`, `RunReconcile`, `EndTask` (another pass if one was asked for) |
| `applyBlockingState` | `ReadState` (lists, boundary alarm), `PruneAllows`, `SelectSchedule`, then one of `MigrateStray`, `Supersede`, `WindowOver`, `LeaveWindow`, `ManualDue`, `ActivateScheduled`, `Enforce`, `ClearAllRules` |
| `finalizeActiveSession` | `WriteHistory`, `ResetActive` |
| `startSessionLocked`, `stopSessionLocked`, `expireSession` | `StartSession`; `StopSession` with `ResetChallenge`; `ExpireSession` |
| `updateBlockingRules` | `UpdateBlockingRules`, or `RejectRules`, after which the pass is over |
| listeners | `StorageChanged`, `AlarmFires`, `Restart` (`onStartup`, `onInstalled`) |
| browser | `Sleep` (the idle worker loses its memory), `Tick` |
| popup | messages: `SendStart`, `SendStop`, `GetStatus`; lists: `AddBlocklist` ... `DeleteSchedule`, each a read followed by one or two `WriteStep`s; `ClearHistory` |

A task is split where it awaits something that another party can change or a restart can
separate. Reads that commute with every other step are joined to the write after them. Events
and messages arrive between tasks (`Between`), since only the end of a task reads what they
leave; time passes while the worker is idle or while a pass, its schedule selected, waits for
the session. `WriteStep` puts back the list the popup has read, whatever was stored since.

### Runs

| Run | Instance | Shows |
|---|---|---|
| `extension` | fairness; a fresh store, and one with a legacy schedule without weekdays and a terminal record in the active slot; one entry that covers a page and its `www.` page, a lockdown by hand, a plan for a window; three ticks of a day of four, one per second; two events, which are requests, restarts or refused updates in any mixture; two popup writes at a time | all properties below but the two of `wakeups` |
| `wakeups` | fairness; a fresh store, and one with a schedule; no lists; windows of one second and of two; five ticks of a day of eight, two per second; two events, one popup write at a time | `SettledSessionIsRight`, `WindowGetsItsSession` |

| Property | Says |
|---|---|
| `SessionsAreKept`, `ArchivedOnce` | every session started is active or archived, and archived twice only by a browser that closed between the two writes |
| `SettledRulesMatch` | a worker that rests, its last update accepted, has left exactly the wanted rules |
| `SettledSessionIsRight` | a worker that rests has the session of the running schedule, unless that is suppressed now (`Quiet`), or a time that got no alarm has come since the last pass (`Missed`) |
| `SchedulesNeverOverlap` | no two stored schedules run at one time |
| `AllowsSurviveSerialUse` | a temporary allow lasts until it expires or is removed, unless two writers of that list overlapped |
| `OpenedOnlyByAllow` | the snapshots are locked: no edit opens a page during a session |
| `StoppedScheduleStaysQuiet` | the schedule of a stopped session does not start again in that window |
| `OverdueSessionsEnd` | a manual session whose time is up ends, unless an update was refused |
| `WindowGetsItsSession` | an open window that is not suppressed now gets its session though nobody opens the popup, unless `Missed` |

**Bounds.** Two events are a stop and an edit, a grant and a restart, a start and a refused
update: every pair of the operations that the properties relate, at every place of the tasks
they meet. Alarms, passes, takeovers, expiries and time do not count as events, so a window
opens, is taken over and closes in each of them. In `wakeups` a window opens after a second and
closes a second or two later; passes run at every half second before and between, so alarms are
set for boundaries ahead, and boundaries are too near for one; a stop puts a suppression into
the window, an edit moves the window under it, and the suppression ends inside the new window
or at its end. Environment and time are bounded, hence the system really stops:
`CHECK_DEADLOCK FALSE`, here and in the next two runs.

**Fairness.** The worker's tasks and the popup's writes go on (the event loop), `onChanged`
is delivered and an alarm that is due fires (weak). Nobody has to open the popup, and rule
updates may be refused, which `OverdueSessionsEnd` excepts: the refusal ends the pass before
the alarm is set (`service-worker.ts:696`).

### A disagreement between code and text

| Run | Text | Code |
|---|---|---|
| `completed_early` | "A scheduled session that is no longer inside its window either ran to its end boundary (completed) or lost its schedule to deletion (cancelled)"; "Let the service worker finalize any due session" | `expireSession` asks only of manual sessions whether they are due; each status request of the popup ends a scheduled one in its window as completed, and the next pass starts another |

Four more things the code does are left out of the properties, and no run is about them:

* A pass clears the boundary alarm and then takes only boundaries more than 500 ms ahead
  (`service-worker.ts:448`, `:460`). After a pass within half a second before a window opens or
  closes, nothing wakes the worker for it. The model has this (`Boundaries`, `PerSec = 2`);
  `SettledSessionIsRight` and `WindowGetsItsSession` except it (`Missed`), and nothing more: a
  wider margin, or an alarm cleared and not set again, violates them.
* No alarm marks the end of a suppression (`:632`). A stop suppresses until the end of the
  window, so the boundary alarm serves for it, unless the schedule is moved meanwhile; then the
  suppression expires inside the new window and the worker rests without a session. `Missed`
  covers that too, and only that: when the end is a boundary the worker must wake.
* A refused rule update ends the pass before the expiry alarm is set (`:696`). If the next one
  is refused too, the session has no alarm and does not end by itself: `OverdueSessionsEnd`
  excepts a refused update (`failed`).
* Two popups add to the list of allows each of them read (`popup/lib/ipc.ts:388`); the later
  write takes the earlier allow back: `AllowsSurviveSerialUse` excepts overlapping writers.

## 6. The popup

`ChallengeGate` has the five exercises, each mounted with its initial state: the countdown
and its timer, typing and reflection with a submit button that is enabled or not, the
patterns of growing length with their phases, the arithmetic answers with the field disabled
while a wrong one is shown, and the clicks on the title that pass any of them. What is typed
or drawn is right or wrong. `effort` observes the seconds or right steps since the mount or
the last mistake; `Enough` is what each exercise asks for, summed up independently of what
the component counts.

`PopupHome` is `Home.tsx`: the phases loading, ready and unreachable, the status with its two
storage reads (`ReadSession`, then the challenge in `RecordStatus`; storage answers in the
order it is asked), the settings read beside it, the buttons, and messages with answers that a
closed popup does not get. A gate is mounted by the first render that shows it and its exercise
is replaced when the stored type changes (`Shows`). The worker is reduced to sessions that
begin and end by themselves, and to the two writes of a stop (`HandleStop`, `FinishStop`).

The run `popup` has two opens of the popup, two sessions, two status reads at a time, one
failing read, one message under way, and exercises of the smallest lengths at which a step can
be missing. It shows `StopsAreEarned` (no timer, click or submit between two renders shortens
an exercise), `SessionStaysVisible` ("Last-known-good status", `Home.tsx:27`) and
`ShowsWhatIsStored`: nothing is polled, and yet the page agrees with storage when events have
come to rest.

## 7. The desktop application

`DesktopApp` has two pages and the calls they have under way. Each call is a connection of
its own, so calls are served and answered in any order; `Lose` is a broken pipe or the five
seconds of `focus-ipc/src/client.rs`; the request may have been executed before, may be
executed later or never: calls that are `heard` and not yet `served` stay. `live` says whether the component that awaits the
answer is still mounted.

| Code | Actions |
|---|---|
| service | `ServeStatus`, `ServeStart`, `ServeStop`, `ServeList`, `ServeSave`, `ServeDelete`; `SessionBegins`, `SessionEnds` |
| Home | `HomePoll` (the interval of a second), `StatusAnswered` (`fetchStatus`), `HandleStartSession`, `StopSession`, `ActionAnswered` |
| Schedule | `BeginEdit`, `CancelEdit`, `SaveSchedule` (reads the list), `Checked` (validates and sends), `SaveAnswered`, `RemoveSchedule`, `DeleteAnswered`, `ListAnswered` |
| App | `Navigate`: unmounts a page, mounts the other |

Of a schedule the model keeps its slot and which slots overlap; error texts and the fields of
the form are left out, and a lost call that only reads counts as not handled. The service
answers a status request with the status or not at all, so the branch of Home that shows an
error the service returned is never taken.

The run `desktop` has two clicks, two polls under way, two sessions, one slot and one lost
call. It shows `SessionStaysVisible` (`Home.tsx:29`), `NoTwinSchedules` (double clicks, retries
after a lost answer and late executions store a schedule once) and `HomeCatchesUp` (the page
"reconnects automatically", `Home.tsx:155`: whatever was late or lost, it ends up showing what
the service has). Two polls under way are what it takes for an old answer to overwrite a new
one; two clicks are a save and its retry, or a save and a page left meanwhile.

**Fairness.** The interval of Home fires, calls are served and answered, status calls among
them (weak): a call ends after five seconds at the latest.

## 8. Proofs

Every invariant and every action property that a passing run checks is also a theorem: the
run shows it on a small instance, the theorem for all values of the constants. The bounds of
the runs are arbitrary natural numbers in the theorems. Where a theorem asks for
`MaxStoreFaults = 0` and the like, the run that checks the property has the same value: the
property is about a program whose calls do not fail in that way, and section 3 says how it
breaks when they do.

### The session manager

`SessionManagerProofs` proves, for all constants that satisfy the five named assumptions
(ids are positive, clock units are positive, plans have the types of their columns,
durations and bounds are natural numbers):

| Theorem | Statement | Assumes |
|---|---|---|
| `TypeCorrect` | `Spec => []TypeOK` | |
| `NothingEnforcedIdle` | `Spec => []NothingEnforcedWithoutSession` | |
| `RunningSessionIsRestorable` | `Spec => []RunningSessionIsOnDisk` | |
| `EnforcementIsRestorable` | `Spec => []EnforcedIsOnDisk` | |
| `RestartContinuesPolicy` | `Spec => []DiskMatchesMemory` | `MaxStoreFaults = 0` |
| `TableImplementsLifecycle` | `Spec => ImplementsLifecycle` | `MaxStoreFaults = 0` |
| `SchedulesNeverOverlap` | `Spec => []SchedulesDisjoint` | |
| `EnforcedAsSnapshot` | `Spec => []EnforcementMatchesSnapshot` | neither store nor enforcer fails |
| `SnapshotStaysCurrent` | `Spec => []SnapshotIsCurrent` | no failures, no restart |
| `ScheduleIsFollowed` | `Spec => []SessionFollowsSchedule` | no failures, no restart |

The arguments, from the bottom:

* `HandlerInv` says what each `pc` may rely on: a session is being started exactly at
  `"apply"`, the handlers that continue after a test of `active_session` still find it, and
  enforcement has been released before the write that gives the session up. Without it
  neither types nor `NothingEnforcedWithoutSession` are inductive. `TypeNext` and
  `HandlerNext` have one step per action.
* `TableInv` strengthens `RunningSessionIsOnDisk` with "every id in the table is older than
  `nextId`" and "the session being started has its row". Four lemmas say what the ways of
  writing the table preserve (`SavedAfresh`, `SavedUnderItsId`, `SavedAsEnded`,
  `TableUntouched`), and `TableNext` assigns each action to one of them.
* `SavedTargets` says that the row of the running session, and of the one being started, has
  its targets: memory takes new targets only after they are saved. `EnforcedTargets` says that
  the enforcer has these targets or none unless a statement and a call have both failed
  (`FaultsLeft` types the two budgets, which only shrink); a rollback that works restores the
  targets of the row. Together they are the inductive form of `EnforcedIsOnDisk`.
* `DiskInv` says what the active rows are at each `pc`: at most one while the process is
  down, the one being started at `"apply"`, the running session otherwise. It needs the store
  to work: a start that fails to take its row back breaks it, which is the hazard at
  `session_manager.rs:505`. Crashes and failing enforcement calls are unrestricted.
* The refinement uses all three: `OpensOne`, `ClosesOne` and `ReplansOne` map the ways of
  writing the table to the actions of `SessionLifecycle`.
* `KeptApart` is the inductive form of `SchedulesDisjoint`: two schedules with different ids
  share no day, do not overlap in time, or one of them has ended. Validation establishes it
  on the day of the request; `DaysPass` shows that later days only end more schedules.
* `EnforceInv`: the enforcer has the targets of the session, except between the writes of a
  stop, when it has none already. Any number of crashes is allowed, because a start without
  failures applies the restored snapshot before the first request.
* `FirstRun` says that without failures the first run of the service never meets an active row
  it did not write. `CurrentInv` adds that each edit of a list is followed by its copy into
  the snapshot before the mutex is free. A crash between the two writes breaks it, so the
  theorem excludes restarts.
* `FollowInv`: a session run by a schedule has a stored schedule of its id and mode, and its
  deadline is less than a second from an end of that schedule's window; only between an
  `UpdateSchedule` and the write that follows may it be one of the old plan. `PlanFollows`
  does the arithmetic: the duration is the distance to the end of the window rounded down to
  seconds, but one second at least, so the deadline may lie on either side of the end.

`SessionManagerHistoryProofs`, from the same assumptions (`HistoryObserves`: what holds of
`Spec` holds of the specification with the history variable):

| Theorem | Statement | Assumes |
|---|---|---|
| `StopSticksToTheSecond` | a schedule a client stopped starts no session before the last fraction of a second of its window | `MaxStoreFaults = 0` |
| `UserStopIsKept` | `HSpec => UserStopSticks` | `MaxStoreFaults = 0`, `PerSec = 1` |
| `OnlyStopsKeepQuiet` | `HSpec => []OnlyUserStopsSuppressInMemory` | `MaxStoreFaults = 0` |

* `StickInv` says where a promise is kept: in the settings table at any time, in memory while
  there is one, each up to `PerSec - 1` ticks, and that the internal stops of an edit or a
  deletion come after the promise was revoked. Crashes and failing enforcement calls are
  unrestricted. The attempt to prove `UserStopSticks` for every `PerSec` fails in the last
  fraction of a second, which is what the code does (`session_manager.rs:382`);
  `StopSticksToTheSecond` states what remains, and a clock of whole seconds makes the two one.
* `OnlyInv` covers the internal stops: what they suppress is borrowed while their handler runs
  (`BorrowedStop`) and given back before the mutex is free. It is about the steps up to the
  first restart (`restarts = MaxRestarts`: the model counts them down), since the next start
  brings a borrowed suppression back.

### The application enforcer

`AppEnforcerProofs` proves, from the three named assumptions (bounds are natural numbers,
applications and targets are built from the paths and families):

| Theorem | Statement |
|---|---|
| `TypeCorrect` | `Spec => []TypeOK` |
| `OnlyTargetsAreTerminated` | `Spec => OnlyTargetsDie` |
| `NothingEscapes` | `Spec => []NoEscape` |
| `SystemToolsAreSpared` | `Spec => SystemToolsSurvive` |

* `KeptTogether` says that `matchers` are those of `targets`. `TerminatedIsMatched` shows
  that only `WatcherHandles` and `Inspect` end a process, and that both have read the
  matchers in the same step; so any number of watchers left behind do no harm.
  `SystemToolsAreSpared` has the same argument: of the matchers only packages are compared
  before the guard for the system tools.
* `WindowInv` is the inductive form of `NoEscape`: while a sweep runs, a blocked process may
  also be one the sweep has still to inspect. `WindowKept` covers every step that starts no
  process; a launch hands its process to the watcher, and `Ready` hands to the sweep what
  ran before.

### The extension

`BlockingRulesProofs`, for all pages, entries and lists that satisfy
`BlockingRulesAssumption`:

| Theorem | Statement |
|---|---|
| `BlocklistRulesMatch` | a page is blocked by `BuildRules` exactly if the blocklist covers it and neither the allowlist nor a temporary allow does |
| `LockdownRulesMatch` | the rules of a lockdown block every page but the extension's own and the allowed ones |

Both rest on what one list contributes at its priority and on "every allow outranks every
redirect". They are the static half of `SettledRulesMatch`.

The theorems about the worker rest on `ServiceWorkerAssumption` (plans have the types of the
form; stored lists were validated when they were stored, and their schedules have distinct
ids, the numbers from one; `None` is no number, no record and no list of rules) and on
`WeekSchedulesAssumption` (a week has at most seven days, for the code looks eight days ahead;
a second has at least one tick).
`ServiceWorkerProofs`:

| Theorem | Statement |
|---|---|
| `NeverOverlapping` | `Spec => []SchedulesNeverOverlap` |
| `TypeCorrect` | `Spec => []TypeOK` |
| `NoSessionLost` | `Spec => []SessionsAreKept` |
| `StoppedStaysQuiet` | `Spec => StoppedScheduleStaysQuiet` |

* `ListInv` is the inductive form of `SchedulesNeverOverlap`: not only the stored list but
  every value a popup has still to write is free of overlaps. The write of one popup may undo
  another's, but it never mixes two lists. It also holds the stored entries to those the
  forms accept.
* `Types` adds what the task has read, what waits in the queue and the alarms, which lie after
  the start of time: the earliest of a set of later times is one of them (`Least`).
* `Kept` adds what a task that ends a session may rely on between its writes: the history it
  has read holds all that is archived and was not cleared meanwhile, and the session in the
  slot is archived, or cleared, before the slot is reset.
* `IdsInv` says that the schedules of the stored list and of every list still to be written
  have ids of their own below `nextSchedule`: the stop finds the one schedule of its session.
  `QuietInv` is the inductive form of `StoppedScheduleStaysQuiet`: until the stopped window
  ends schedules are suppressed at least that long, the pass under way has selected none, and
  no schedule has a session but one that is already on its way out (`Ending`).
* `BoundariesForesee`, a lemma about `WeekSchedules` alone: until the earliest of
  `BoundariesAhead` no schedule begins or ends to run. It holds for all plans and lengths of
  the day; a week of more than seven days would refute it, since the code looks no further than eight days ahead.

`ServiceWorkerRulesProofs` goes on from there:

| Theorem | Statement |
|---|---|
| `RestingRulesMatch` | `Spec => []SettledRulesMatch` |
| `RestingSessionIsRight` | `Spec => []SettledSessionIsRight` |
| `NoEditOpens` | `Spec => OpenedOnlyByAllow` |
| `SerialAllowsLast` | `Spec => []AllowsSurviveSerialUse` |
| `RepeatsNeedRestarts` | `Spec => []ArchivedOnce` |

* `RulesInv` is about the rules at every place of a task: `Remembered` (the cache of the last
  rules never differs from the browser's), `Cleared`, `Queued` (a request that was coalesced
  has its task in the queue), `Applied` (a pass writes what is stored, or a change is
  announced), `Rested` (between tasks the rules match unless an update was refused, a change
  is announced or a pass is asked for). A restart or a refusal at any place keeps them.
* `WindowInv` does the same for the session: a pass decides by the schedules as stored, or a
  change is announced, or the boundary alarm or a time without one has come meanwhile
  (`Passed`); between tasks the session is the right one (`Right`), no schedule begins or ends
  to run before the alarm or a time in `unmarked` (`Foreseen`, kept by `BoundariesForesee`), and
  a suppression ends no earlier than one of them (`Watched`). `ReadForesees` establishes the
  last two for the alarm of the code: what its margin leaves out is in `unmarked`. So a resting
  worker is right until a time for which no alarm was set; section 5 says which
  times these are.
* `SerialInv` says that, while no two writers of the list of allows overlapped, what a pass or
  a popup is going to store has every granted allow but the one being removed.
* `OnceInv` counts: the history repeats an id only if the browser closed between the two
  writes that end a session, hence strictly fewer times than it closed while the session still
  in the slot is archived already.

`PopupHomeProofs`, from `ChallengeGateAssumption` (lengths are positive, the last pattern is not
shorter than the first, `None` is no gate) and `PopupHomeAssumption` (the challenges are the
five exercises):

| Theorem | Statement |
|---|---|
| `TypeCorrect` | `Spec => []TypeOK` |
| `ShownIsStored` | `Spec => []ShowsWhatIsStored` |
| `EarnedStops` | `Spec => StopsAreEarned` |
| `VisibleSession` | `Spec => []SessionStaysVisible` |

* `Worked` says what the state of each exercise owes to the effort since its mount: the
  seconds left and the seconds watched make the whole, a pattern of length n has behind it all
  clicks of the shorter ones (`Before(n)`, with `BeforeNext` for the next length), the counted
  answers are right ones unless a wrong one is shown. `MountedWorked` establishes it,
  `ProgressOK` keeps it through every step of every exercise, `Earned` draws the conclusion.
* While the gate is shown no other button sends a message, so `StepInv` ties every message
  of that time to a step of `Succeeds`.
* `Informed` is the inductive form of `ShowsWhatIsStored`: while no read failed, the session
  last read (`Latest`: by the page, or by a status call still waiting for its second read) is
  the stored one, or an event or a read that has not begun will bring it. The second half says
  the same of the challenge, which is read last.

### The desktop application

`DesktopAppProofs`, from `DesktopAppAssumption` (overlap is symmetric, `None` is no id):

| Theorem | Statement |
|---|---|
| `TypeCorrect` | `Spec => []TypeOK` |
| `VisibleSession` | `Spec => []SessionStaysVisible` |
| `NoTwins` | `Spec => []NoTwinSchedules` |

`Types` types the calls under way and their answers; `NoTwins` needs nothing of the client,
only that the service validates and writes in one step.

### What is only model-checked

Liveness, for fairness and `ENABLED` are outside the prover: `SessionsEnd`,
`ScheduleIsHonoured` (session manager), `TargetsDie`, `AbandonedWatchersEnd` (enforcer),
`OverdueSessionsEnd`, `WindowGetsItsSession` (extension) and `HomeCatchesUp` (desktop). The
safety half of what they promise is proved: `RestingSessionIsRight` leaves to
`WindowGetsItsSession` only that the worker does come to rest, `NothingEscapes` to `TargetsDie`
that a sweep or a watcher gets its turn.

## 9. Not modelled

* Shifts of the local time zone and a wall clock that is set back: the clocks of the models
  are monotone and local time is UTC. The hour a clock change skips is a hazard in
  `PROJECT.json`.
* Presets, settings, the last blocked application, status and policy queries: no handler of
  the session manager reads them back to decide anything. The settings of the popup are
  constants once they are loaded.
* Corrupt rows: the store skips them; the model's tables hold well-formed rows.
* A store that fails at open or in the first read of recovery: the service does not start
  and changes nothing.
* `validate_target`, which rejects a request before anything changes, and how paths are
  normalised: an application is the path it resolves to. The same holds for domains that are
  typed: an entry is one the form has accepted.
* The native messaging host: it is stateless, and the extension of this commit does not
  connect to it.
* The stand-in that answers for the service when the desktop application runs in a browser
  (`handleMockRequest`), which is for development.
* The modal of the last blocked application, and the pages that show a list they fetched and
  send one request per click: no polling, nothing shared with another page.
* Installers, icons, scripts, generated files.
