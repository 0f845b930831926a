----------------------------- MODULE AppEnforcer -----------------------------
(***************************************************************************)
(* The application enforcer of the FocusBlock Windows service              *)
(* (service/focus-service/src/app_enforcement.rs): apply, clear and tick,  *)
(* which the session manager calls one at a time, the watcher threads they *)
(* start and stop, and the processes of the machine.                       *)
(*                                                                         *)
(* A watcher subscribes to process starts, then handles one event per turn *)
(* of its loop.  A call waits for a watcher with a budget (2 s to stop,    *)
(* 2 s to report readiness), so what it waits for can come too late: the   *)
(* thread is then left behind and goes on.  All watchers share one lock    *)
(* around matchers; inspecting and terminating one process is one step,    *)
(* for it happens under the reader's lock on matchers.                     *)
(*                                                                         *)
(* watcher_stop and watcher_handle are set and taken together: handle is   *)
(* both.  Events arrive once per subscription, in any order.  The service  *)
(* itself and the system processes it never opens are not in Pids.         *)
(***************************************************************************)
EXTENDS Integers, FiniteSets

CONSTANTS
  Pids,              \* process ids
  Apps,              \* what runs: [path, family], either may be None
  Paths,             \* paths of executables
  Families,          \* package family names
  FileName,          \* the file name of a path
  FolderExe,         \* the name of its folder with ".exe" (launchers)
  SystemNames,       \* EXCLUDED_SYSTEM_EXECUTABLES
  Protected,         \* applications TerminateProcess is refused on
  Requests,          \* sets of targets the session manager applies
  None,
  MaxCalls,          \* bound: calls of apply and clear, and so watchers
  MaxLaunches,       \* bound: processes that start
  MaxDeaths,         \* bound: watcher threads that die of themselves
  MaxLosses,         \* bound: subscriptions that break
  MaxSnapshotFaults  \* bound: process snapshots that fail

Watchers == 1..MaxCalls

ASSUME BoundsAssumption ==
  /\ MaxCalls \in Nat /\ MaxLaunches \in Nat
  /\ MaxDeaths \in Nat /\ MaxLosses \in Nat /\ MaxSnapshotFaults \in Nat
ASSUME AppsAssumption ==
  /\ Apps \subseteq [path : Paths \cup {None}, family : Families \cup {None}]
  /\ None \notin Paths /\ None \notin Families /\ None \notin Apps
ASSUME RequestsAssumption == \A T \in Requests : T \subseteq Paths \cup Families

VARIABLES
  running,      \* the application each process id runs, None: no process
  targets,      \* AppEnforcer.targets
  matchers,     \* the matchers every watcher reads
  watcher,      \* the watcher threads: phase, stop flag, undelivered events
  handle,       \* watcher_stop and watcher_handle, 0 = None
  fallback,     \* is_using_fallback
  pollDue,      \* FALSE for 2.5 s after last_fallback_poll
  lastBlocked,  \* last_blocked
  pc, call,     \* where the session manager's call is, and which it is
  snapshot,     \* process ids a sweep has still to inspect
  found,        \* the first application a sweep terminated
  calls, launches, deaths, losses, snapshotFaults    \* what is left of the bounds

threads == <<watcher, deaths, losses>>
budget  == <<calls, launches, deaths, losses, snapshotFaults>>
sweep   == <<snapshot, found>>
vars == <<running, targets, matchers, watcher, handle, fallback, pollDue, lastBlocked,
          pc, call, snapshot, found, calls, launches, deaths, losses, snapshotFaults>>

-----------------------------------------------------------------------------
(* ProcessMatchers *)

FromTargets(T) ==
  [paths    |-> T \cap Paths,
   names    |-> {FileName[p] : p \in T \cap Paths} \cup {FolderExe[p] : p \in T \cap Paths},
   families |-> T \cap Families]

MatchesPackage(m, app) == app.family \in m.families
MatchesUnguarded(m, app) ==
  \/ MatchesPackage(m, app)
  \/ /\ app.path # None
     /\ app.path \in m.paths \/ FileName[app.path] \in m.names
Matches(m, app) ==
  \/ MatchesPackage(m, app)
  \/ /\ app.path # None /\ FileName[app.path] \notin SystemNames
     /\ app.path \in m.paths \/ FileName[app.path] \in m.names

(* the app_name of the event *)
NameOfFamily(m, app) == app.family
NameOf(m, app) == IF MatchesPackage(m, app) THEN app.family ELSE FileName[app.path]

-----------------------------------------------------------------------------
(* inspect_and_terminate_process and what is reported of it *)

Victim(p) == /\ running[p] # None
             /\ Matches(matchers, running[p])
             /\ running[p] \notin Protected

Terminate(p) == running' = [running EXCEPT ![p] = None]

Event(name) == [name |-> name, count |-> 1]
Merged(name) == IF lastBlocked # None /\ lastBlocked.name = name
                  THEN [lastBlocked EXCEPT !.count = @ + 1]
                  ELSE Event(name)

-----------------------------------------------------------------------------
(* run_process_watcher: w is created, subscribes, and loops *)

Unborn == [phase |-> "unborn", stop |-> FALSE, events |-> {}]
Subscribed(w) == watcher[w].phase \in {"looping", "waiting"}
Alive(w) == watcher[w].phase \in {"starting", "lost"} \/ Subscribed(w)

(* the stop flag is set before the subscription *)
WatcherSkips(w) ==
  /\ watcher[w].phase = "starting" /\ watcher[w].stop
  /\ watcher' = [watcher EXCEPT ![w].phase = "quit"]
  /\ UNCHANGED <<running, targets, matchers, handle, fallback, pollDue, lastBlocked, pc,
                 call, sweep, budget>>

WatcherFails(w) ==
  /\ watcher[w].phase = "starting"
  /\ watcher' = [watcher EXCEPT ![w].phase = "failed"]
  /\ UNCHANGED <<running, targets, matchers, handle, fallback, pollDue, lastBlocked, pc,
                 call, sweep, budget>>

WatcherSubscribes(w) ==
  /\ watcher[w].phase = "starting"
  /\ watcher' = [watcher EXCEPT ![w].phase = "looping"]
  /\ UNCHANGED <<running, targets, matchers, handle, fallback, pollDue, lastBlocked, pc,
                 call, sweep, budget>>

(* the loop condition, then Next(500 ms), of whose empty answers only those *)
(* that end the loop are taken                                              *)
WatcherLoops(w) ==
  /\ watcher[w].phase = "looping"
  /\ watcher' = [watcher EXCEPT ![w].phase = IF watcher[w].stop THEN "quit" ELSE "waiting"]
  /\ UNCHANGED <<running, targets, matchers, handle, fallback, pollDue, lastBlocked, pc,
                 call, sweep, budget>>

WatcherIdles(w) ==
  /\ watcher[w].phase = "waiting" /\ watcher[w].events = {} /\ watcher[w].stop
  /\ watcher' = [watcher EXCEPT ![w].phase = "looping"]
  /\ UNCHANGED <<running, targets, matchers, handle, fallback, pollDue, lastBlocked, pc,
                 call, sweep, budget>>

WatcherHandles(w) ==
  /\ watcher[w].phase = "waiting"
  /\ \E p \in watcher[w].events :
       /\ watcher' = [watcher EXCEPT ![w].phase = "looping", ![w].events = @ \ {p}]
       /\ IF Victim(p)
            THEN Terminate(p) /\ lastBlocked' = Merged(NameOf(matchers, running[p]))
            ELSE UNCHANGED <<running, lastBlocked>>
  /\ UNCHANGED <<targets, matchers, handle, fallback, pollDue, pc, call, sweep, budget>>

(* a panic *)
WatcherDies(w) ==
  /\ watcher[w].phase = "waiting" /\ deaths > 0
  /\ deaths' = deaths - 1
  /\ watcher' = [watcher EXCEPT ![w].phase = "quit"]
  /\ UNCHANGED <<running, targets, matchers, handle, fallback, pollDue, lastBlocked, pc,
                 call, sweep, calls, launches, losses, snapshotFaults>>

(* the event service goes away: every Next fails from here on, which the    *)
(* loop takes for no event, so that only the stop flag ends it              *)
WatcherLoses(w) ==
  /\ watcher[w].phase = "waiting" /\ losses > 0
  /\ losses' = losses - 1
  /\ watcher' = [watcher EXCEPT ![w].phase = "lost", ![w].events = {}]
  /\ UNCHANGED <<running, targets, matchers, handle, fallback, pollDue, lastBlocked, pc,
                 call, sweep, calls, launches, deaths, snapshotFaults>>

WatcherSpins(w) ==
  /\ watcher[w].phase = "lost" /\ watcher[w].stop
  /\ watcher' = [watcher EXCEPT ![w].phase = "quit"]
  /\ UNCHANGED <<running, targets, matchers, handle, fallback, pollDue, lastBlocked, pc,
                 call, sweep, budget>>

-----------------------------------------------------------------------------
(* apply and clear: stop the watcher first *)

Held == handle # 0 /\ Alive(handle)

StopFlagForgotten == watcher
StopFlagSet == IF handle = 0 THEN watcher ELSE [watcher EXCEPT ![handle].stop = TRUE]

Call(c) ==
  /\ pc = "idle" /\ calls > 0
  /\ calls' = calls - 1
  /\ call' = c
  /\ watcher' = StopFlagSet
  /\ pc' = "stopping"
  /\ UNCHANGED <<running, targets, matchers, handle, fallback, pollDue, lastBlocked, sweep,
                 launches, deaths, losses, snapshotFaults>>

StopTimesOut ==
  /\ pc = "stopping" /\ Held
  /\ handle' = 0
  /\ fallback' = TRUE
  /\ pc' = "idle"
  /\ UNCHANGED <<running, targets, matchers, pollDue, lastBlocked, call, sweep, threads,
                 calls, launches, snapshotFaults>>

Stopped == pc = "stopping" /\ ~Held

ClearKeepingMatchers ==
  /\ Stopped /\ call.kind = "clear"
  /\ targets' = {}
  /\ handle' = 0 /\ fallback' = FALSE /\ pollDue' = TRUE
  /\ pc' = "idle"
  /\ UNCHANGED <<running, matchers, lastBlocked, call, sweep, threads,
                 calls, launches, snapshotFaults>>
Clear ==
  /\ Stopped /\ call.kind = "clear"
  /\ targets' = {} /\ matchers' = FromTargets({})
  /\ handle' = 0 /\ fallback' = FALSE /\ pollDue' = TRUE
  /\ pc' = "idle"
  /\ UNCHANGED <<running, lastBlocked, call, sweep, threads, calls, launches, snapshotFaults>>

Install ==
  /\ Stopped /\ call.kind = "apply"
  /\ targets' = call.targets /\ matchers' = FromTargets(call.targets)
  /\ IF call.targets = {}
       THEN handle' = 0 /\ fallback' = FALSE /\ pc' = "idle" /\ UNCHANGED watcher
       ELSE \E w \in Watchers :
              /\ watcher[w] = Unborn /\ \A v \in 1..(w - 1) : watcher[v] # Unborn
              /\ watcher' = [watcher EXCEPT ![w].phase = "starting"]
              /\ handle' = w /\ pc' = "ready" /\ UNCHANGED fallback
  /\ UNCHANGED <<running, pollDue, lastBlocked, call, sweep, budget>>

-----------------------------------------------------------------------------
(* sweep_active_processes *)

StartSweep ==
  /\ \/ snapshot' = {p \in Pids : running[p] # None} /\ UNCHANGED snapshotFaults
     \/ /\ snapshotFaults > 0 /\ snapshotFaults' = snapshotFaults - 1
        /\ snapshot' = {}
  /\ found' = None
  /\ pc' = "sweep"

(* recv_timeout: the watcher reports, or 2 s pass; a watcher that has ended *)
(* since has reported before                                                *)
Readiness ==
  \/ /\ watcher[handle].phase \in {"looping", "waiting", "lost", "quit"}
     /\ fallback' = FALSE /\ UNCHANGED pollDue
  \/ /\ watcher[handle].phase \in {"starting", "failed"}
     /\ fallback' = TRUE /\ pollDue' = FALSE

ReadyWithoutSweep ==
  /\ pc = "ready" /\ Readiness /\ pc' = "idle"
  /\ UNCHANGED <<running, targets, matchers, handle, lastBlocked, call, sweep, threads,
                 calls, launches, snapshotFaults>>
Ready ==
  /\ pc = "ready" /\ Readiness /\ StartSweep
  /\ UNCHANGED <<running, targets, matchers, handle, lastBlocked, call, threads,
                 calls, launches>>

Inspect ==
  /\ pc = "sweep"
  /\ \E p \in snapshot :
       /\ snapshot' = snapshot \ {p}
       /\ IF Victim(p)
            THEN /\ Terminate(p)
                 /\ found' = IF found = None THEN NameOf(matchers, running[p]) ELSE found
            ELSE UNCHANGED <<running, found>>
  /\ UNCHANGED <<targets, matchers, handle, fallback, pollDue, lastBlocked, pc, call,
                 threads, calls, launches, snapshotFaults>>

(* apply reports the first victim, tick adds it to the report *)
EndSweep ==
  /\ pc = "sweep" /\ snapshot = {}
  /\ lastBlocked' = IF found = None THEN lastBlocked
                    ELSE IF call.kind = "apply" THEN Event(found) ELSE Merged(found)
  /\ found' = None
  /\ pc' = "idle"
  /\ UNCHANGED <<running, targets, matchers, handle, fallback, pollDue, call, snapshot,
                 threads, calls, launches, snapshotFaults>>

-----------------------------------------------------------------------------
(* tick *)

Finished == handle # 0 /\ ~Alive(handle)

(* is_using_fallback once tick has looked at its watcher; it polls only     *)
(* FALLBACK_POLL_INTERVAL after it found the watcher finished               *)
FallbackRemembered == fallback
FallbackNow == fallback \/ Finished

Tick ==
  /\ pc = "idle"
  /\ call' = [kind |-> "tick", targets |-> {}]
  /\ fallback' = FallbackNow
  /\ IF fallback /\ pollDue
       THEN StartSweep
       ELSE UNCHANGED <<pc, sweep, snapshotFaults>>
  /\ pollDue' = (~fallback' /\ pollDue)
  /\ UNCHANGED <<running, targets, matchers, handle, lastBlocked, threads, calls, launches>>

(* FALLBACK_POLL_INTERVAL has passed *)
PollInterval ==
  /\ ~pollDue
  /\ pollDue' = TRUE
  /\ UNCHANGED <<running, targets, matchers, handle, fallback, lastBlocked, pc, call, sweep,
                 threads, calls, launches, snapshotFaults>>

ClearLastBlocked ==
  /\ pc = "idle"
  /\ lastBlocked' = None
  /\ UNCHANGED <<running, targets, matchers, handle, fallback, pollDue, pc, call, sweep,
                 threads, calls, launches, snapshotFaults>>

(* mode *)
Mode == CASE targets = {} -> "inactive"
          [] targets # {} /\ fallback -> "polling_fallback"
          [] targets # {} /\ ~fallback -> "kernel_events"

-----------------------------------------------------------------------------
(* the machine *)

Launch(p, app) ==
  /\ running[p] = None /\ launches > 0
  /\ launches' = launches - 1
  /\ running' = [running EXCEPT ![p] = app]
  /\ watcher' = [w \in Watchers |->
                   IF Subscribed(w)
                     THEN [watcher[w] EXCEPT !.events = @ \cup {p}] ELSE watcher[w]]
  /\ UNCHANGED <<targets, matchers, handle, fallback, pollDue, lastBlocked, pc, call, sweep,
                 calls, deaths, losses, snapshotFaults>>

Exit(p) ==
  /\ running[p] # None
  /\ running' = [running EXCEPT ![p] = None]
  /\ UNCHANGED <<targets, matchers, handle, fallback, pollDue, lastBlocked, pc, call, sweep,
                 threads, calls, launches, snapshotFaults>>

-----------------------------------------------------------------------------
(* the service starts beside whatever runs already                          *)
Init ==
  /\ running \in [Pids -> Apps \cup {None}]
  /\ targets = {} /\ matchers = FromTargets({})
  /\ watcher = [w \in Watchers |-> Unborn]
  /\ handle = 0 /\ fallback = FALSE /\ pollDue = TRUE
  /\ lastBlocked = None
  /\ pc = "idle" /\ call = [kind |-> "none", targets |-> {}]
  /\ snapshot = {} /\ found = None
  /\ calls = MaxCalls /\ launches = MaxLaunches
  /\ deaths = MaxDeaths /\ losses = MaxLosses /\ snapshotFaults = MaxSnapshotFaults

Continue == StopTimesOut \/ Clear \/ Install \/ Ready \/ Inspect \/ EndSweep

(* a watcher that has subscribed *)
Turn(w) == WatcherLoops(w) \/ WatcherIdles(w) \/ WatcherHandles(w) \/ WatcherSpins(w)

Next ==
  \/ \E T \in Requests : Call([kind |-> "apply", targets |-> T])
  \/ Call([kind |-> "clear", targets |-> {}])
  \/ Tick \/ Continue \/ PollInterval \/ ClearLastBlocked
  \/ \E w \in Watchers : \/ WatcherSkips(w) \/ WatcherFails(w) \/ WatcherSubscribes(w)
                         \/ Turn(w) \/ WatcherDies(w) \/ WatcherLoses(w)
  \/ \E p \in Pids, app \in Apps : Launch(p, app)
  \/ \E p \in Pids : Exit(p)

Spec == Init /\ [][Next]_vars

(* Fairness.  A call waits with a budget only, so it goes on; the session   *)
(* manager ticks every second while a session runs (SF, for other calls     *)
(* hold the mutex again and again); time passes; a watcher that subscribed  *)
(* keeps taking turns.  Nothing makes a watcher subscribe, for the system's *)
(* event service may never answer.                                          *)
FairSpec ==
  /\ Spec
  /\ WF_vars(Continue) /\ SF_vars(Tick) /\ WF_vars(PollInterval)
  /\ \A w \in Watchers : WF_vars(Turn(w))

-----------------------------------------------------------------------------
(* Properties *)

(* Types of the variables; and which calls are where in their course.       *)
Names  == Families \cup {FileName[p] : p \in Paths}
Calls  == [kind : {"none", "apply", "clear", "tick"}, targets : SUBSET (Paths \cup Families)]
Phases == {"unborn", "starting", "looping", "waiting", "lost", "quit", "failed"}
TypeOK ==
  /\ running \in [Pids -> Apps \cup {None}]
  /\ targets \subseteq Paths \cup Families
  /\ matchers.paths \subseteq Paths /\ matchers.families \subseteq Families
  /\ watcher \in [Watchers -> [phase : Phases, stop : BOOLEAN, events : SUBSET Pids]]
  /\ handle \in Watchers \cup {0}
  /\ fallback \in BOOLEAN /\ pollDue \in BOOLEAN
  /\ lastBlocked \in [name : Names, count : Nat \ {0}] \cup {None}
  /\ pc \in {"idle", "stopping", "ready", "sweep"} /\ call \in Calls
  /\ snapshot \subseteq Pids /\ found \in Names \cup {None}
  /\ calls \in Nat /\ launches \in Nat /\ snapshotFaults \in Nat
  /\ deaths \in Nat /\ losses \in Nat
  /\ pc = "stopping" => call.kind \in {"apply", "clear"}
  /\ pc = "ready" => handle # 0 /\ call.kind = "apply"
  /\ pc = "sweep" => call.kind \in {"apply", "tick"}
  /\ pc # "sweep" => snapshot = {}

(* Whatever thread terminates a process, also one left behind by a stop     *)
(* that timed out, it terminates an application of the targets of that very *)
(* moment: nothing is killed for a session that was cleared or replaced.    *)
Terminated(p) == /\ running[p] # None /\ running'[p] = None
                 /\ watcher' # watcher \/ snapshot' # snapshot
OnlyTargetsDie ==
  [][\A p \in Pids : Terminated(p) => Matches(FromTargets(targets), running[p])]_vars

(* "This ensures no window exists where an app launched during              *)
(* initialization escapes detection" (apply): between calls, while          *)
(* enforcement reports kernel_events and its watcher has not died since the *)
(* last tick, every blocked process that runs is one the watcher has still  *)
(* to be told of.  A failed process snapshot passes for an empty one; no    *)
(* session is free of escapes that had one.                                 *)
SnapshotsWorked == snapshotFaults = MaxSnapshotFaults
NoEscape ==
  SnapshotsWorked /\ pc = "idle" /\ Mode = "kernel_events" =>
    /\ handle # 0 /\ watcher[handle].phase \in {"looping", "waiting", "lost", "quit"}
    /\ Subscribed(handle) => \A p \in Pids : Victim(p) => p \in watcher[handle].events

(* A blocked process ends, or it stops being blocked, whichever mechanism   *)
(* enforces: watchers that fail, die, come up late or do not stop in time   *)
(* all leave one that does.  Only a failed snapshot or a broken             *)
(* subscription lets it live, for neither is noticed.                       *)
Unnoticed  == ~SnapshotsWorked \/ losses < MaxLosses
TargetsDie == \A p \in Pids : Victim(p) ~> ~Victim(p) \/ Unnoticed

(* "The thread is detached and will notice its stop flag on its own next    *)
(* iteration" (stop_watcher): a subscription nobody holds the handle of     *)
(* ends.                                                                    *)
Abandoned(w) == w # handle /\ (Subscribed(w) \/ watcher[w].phase = "lost")
AbandonedWatchersEnd == \A w \in Watchers : Abandoned(w) ~> ~Abandoned(w)

(* "A machine where the WMI subscription failed can no longer look healthy" *)
(* (docs/implementation-summary.md): a subscription that breaks is noticed. *)
LooksHealthy  == pc = "idle" /\ Mode = "kernel_events" /\ watcher[handle].phase = "lost"
LossIsNoticed == LooksHealthy ~> ~LooksHealthy

(* "System administrative tools and FocusBlock self are never blocked"      *)
(* (matches): no target that is an executable ends one of them, whatever    *)
(* its path, its name or its folder.  A target that is a package does, for  *)
(* packages are compared before that guard.                                 *)
SystemToolsSurvive ==
  [][\A p \in Pids : Terminated(p) /\ running[p].path # None =>
       \/ FileName[running[p].path] \notin SystemNames
       \/ running[p].family \in targets]_vars
=============================================================================
