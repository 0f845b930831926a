-------------------------- MODULE AppEnforcerProofs --------------------------
(***************************************************************************)
(* What holds of the application enforcer for all processes, applications  *)
(* and targets, any number of calls and any watchers that fail, die, come  *)
(* up late or do not stop in time.                                         *)
(***************************************************************************)
EXTENDS AppEnforcer, TLAPS

(* What the watchers read is what the enforcer was told to block. *)
KeptTogether == matchers = FromTargets(targets)

(* a watcher has a number, and 0 is not one *)
LEMMA WatchersAreNumbered == 0 \notin Watchers /\ Watchers \subseteq Nat
  BY BoundsAssumption DEF Watchers

(* an application is a record whose fields may be None, and never None *)
LEMMA AppFields ==
  ASSUME NEW app \in Apps
  PROVE  /\ app # None
         /\ app.path \in Paths \cup {None} /\ app.family \in Families \cup {None}
  BY AppsAssumption

(* the matchers of a set of targets *)
LEMMA MatchersFields ==
  ASSUME NEW T
  PROVE  /\ FromTargets(T).paths \subseteq Paths
         /\ FromTargets(T).families \subseteq Families
  BY DEF FromTargets

(* what a terminated process is reported as *)
LEMMA VictimHasName ==
  ASSUME TypeOK, NEW p \in Pids, Victim(p)
  PROVE  NameOf(matchers, running[p]) \in Names
  <1>1. running[p] \in Apps
    BY DEF Victim, TypeOK
  <1>2. CASE MatchesPackage(matchers, running[p])
    BY <1>2 DEF NameOf, MatchesPackage, Names, TypeOK
  <1>3. CASE ~MatchesPackage(matchers, running[p])
    <2>1. running[p].path # None
      BY <1>3 DEF Victim, Matches
    <2>2. running[p].path \in Paths
      BY <1>1, <2>1, AppFields
    <2>. QED BY <1>3, <2>2 DEF NameOf, Names
  <1>. QED BY <1>2, <1>3

(* a report counts at least one termination *)
LEMMA ReportsAreTyped ==
  ASSUME TypeOK, NEW name \in Names
  PROVE  /\ Event(name) \in [name : Names, count : Nat \ {0}]
         /\ Merged(name) \in [name : Names, count : Nat \ {0}]
  BY DEF Event, Merged, TypeOK

(* the calls there are *)
LEMMA CallsAreTyped ==
  ASSUME NEW kind \in {"none", "apply", "clear", "tick"},
         NEW T, T \subseteq Paths \cup Families
  PROVE  [kind |-> kind, targets |-> T] \in Calls
  BY DEF Calls

-----------------------------------------------------------------------------
(* Types *)

(* the default enforcer *)
LEMMA TypeInit == Init => TypeOK
  <1> SUFFICES ASSUME Init PROVE TypeOK
    OBVIOUS
  <1>1. call \in Calls
    BY CallsAreTyped DEF Init
  <1>2. watcher \in [Watchers -> [phase : Phases, stop : BOOLEAN, events : SUBSET Pids]]
    BY DEF Init, Unborn, Phases
  <1>3. matchers.paths \subseteq Paths /\ matchers.families \subseteq Families
    BY MatchersFields DEF Init
  <1>. QED BY <1>1, <1>2, <1>3, BoundsAssumption DEF Init, TypeOK

(* one step per action: what it assigns has the type of its variable *)
LEMMA TypeNext == TypeOK /\ [Next]_vars => TypeOK'
  <1> SUFFICES ASSUME TypeOK, [Next]_vars PROVE TypeOK'
    OBVIOUS
  <1> USE WatchersAreNumbered DEF threads, budget, sweep
  <1>1. ASSUME NEW T \in Requests, Call([kind |-> "apply", targets |-> T]) PROVE TypeOK'
    <2>1. call' \in Calls
      BY <1>1, RequestsAssumption, CallsAreTyped DEF Call
    <2>2. watcher' \in [Watchers -> [phase : Phases, stop : BOOLEAN, events : SUBSET Pids]]
      BY <1>1 DEF Call, StopFlagSet, TypeOK
    <2>. QED BY <1>1, <2>1, <2>2 DEF Call, TypeOK
  <1>2. CASE Call([kind |-> "clear", targets |-> {}])
    <2>1. call' \in Calls
      BY <1>2, CallsAreTyped DEF Call
    <2>2. watcher' \in [Watchers -> [phase : Phases, stop : BOOLEAN, events : SUBSET Pids]]
      BY <1>2 DEF Call, StopFlagSet, TypeOK
    <2>. QED BY <1>2, <2>1, <2>2 DEF Call, TypeOK
  <1>3. CASE Tick
    BY <1>3 DEF Tick, StartSweep, FallbackNow, Finished, TypeOK, Calls, Names
  <1>4. CASE StopTimesOut
    BY <1>4 DEF StopTimesOut, TypeOK
  <1>5. CASE Clear
    BY <1>5, MatchersFields DEF Clear, Stopped, TypeOK
  <1>6. CASE Install
    <2>1. targets' \subseteq Paths \cup Families
      BY <1>6 DEF Install, TypeOK, Calls
    <2>2. matchers'.paths \subseteq Paths /\ matchers'.families \subseteq Families
      BY <1>6, MatchersFields DEF Install
    <2>3. CASE call.targets = {}
      BY <1>6, <2>1, <2>2, <2>3 DEF Install, Stopped, TypeOK
    <2>4. CASE call.targets # {}
      <3>1. PICK w \in Watchers : /\ watcher' = [watcher EXCEPT ![w].phase = "starting"]
                                  /\ handle' = w /\ pc' = "ready" /\ UNCHANGED fallback
        BY <1>6, <2>4 DEF Install
      <3>2. watcher' \in [Watchers -> [phase : Phases, stop : BOOLEAN, events : SUBSET Pids]]
        BY <3>1 DEF TypeOK, Phases
      <3>. QED BY <1>6, <2>1, <2>2, <3>1, <3>2 DEF Install, Stopped, TypeOK
    <2>. QED BY <2>3, <2>4
  <1>7. CASE Ready
    <2>1. snapshot' \subseteq Pids /\ snapshotFaults' \in Nat /\ found' = None /\ pc' = "sweep"
      BY <1>7 DEF Ready, StartSweep, TypeOK
    <2>2. fallback' \in BOOLEAN /\ pollDue' \in BOOLEAN
      BY <1>7 DEF Ready, Readiness, TypeOK
    <2>3. call.kind = "apply"
      BY <1>7 DEF Ready, TypeOK
    <2>. QED BY <1>7, <2>1, <2>2, <2>3 DEF Ready, TypeOK
  <1>8. CASE Inspect
    <2>1. PICK p \in snapshot :
            /\ snapshot' = snapshot \ {p}
            /\ IF Victim(p)
                 THEN /\ Terminate(p)
                      /\ found' = IF found = None THEN NameOf(matchers, running[p]) ELSE found
                 ELSE UNCHANGED <<running, found>>
      BY <1>8 DEF Inspect
    <2>2. p \in Pids /\ (Victim(p) => NameOf(matchers, running[p]) \in Names)
      BY VictimHasName DEF TypeOK
    <2>3. found' \in Names \cup {None} /\ running' \in [Pids -> Apps \cup {None}]
      BY <2>1, <2>2 DEF Terminate, TypeOK
    <2>. QED BY <1>8, <2>1, <2>3 DEF Inspect, TypeOK
  <1>9. CASE EndSweep
    <2>1. found # None => /\ Event(found) \in [name : Names, count : Nat \ {0}]
                          /\ Merged(found) \in [name : Names, count : Nat \ {0}]
      BY ReportsAreTyped DEF TypeOK
    <2>2. \/ lastBlocked' = lastBlocked
          \/ found # None /\ lastBlocked' \in {Event(found), Merged(found)}
      BY <1>9 DEF EndSweep
    <2>3. lastBlocked' \in [name : Names, count : Nat \ {0}] \cup {None}
      BY <2>1, <2>2 DEF TypeOK
    <2>. QED BY <1>9, <2>3 DEF EndSweep, TypeOK
  <1>10. CASE PollInterval
    BY <1>10 DEF PollInterval, TypeOK
  <1>11. CASE ClearLastBlocked
    BY <1>11 DEF ClearLastBlocked, TypeOK
  <1>12. ASSUME NEW w \in Watchers, WatcherSkips(w) PROVE TypeOK'
    BY <1>12 DEF WatcherSkips, TypeOK, Phases
  <1>13. ASSUME NEW w \in Watchers, WatcherFails(w) PROVE TypeOK'
    BY <1>13 DEF WatcherFails, TypeOK, Phases
  <1>14. ASSUME NEW w \in Watchers, WatcherSubscribes(w) PROVE TypeOK'
    BY <1>14 DEF WatcherSubscribes, TypeOK, Phases
  <1>15. ASSUME NEW w \in Watchers, WatcherLoops(w) PROVE TypeOK'
    BY <1>15 DEF WatcherLoops, TypeOK, Phases
  <1>16. ASSUME NEW w \in Watchers, WatcherIdles(w) PROVE TypeOK'
    BY <1>16 DEF WatcherIdles, TypeOK, Phases
  <1>17. ASSUME NEW w \in Watchers, WatcherHandles(w) PROVE TypeOK'
    BY <1>17, VictimHasName, ReportsAreTyped DEF WatcherHandles, Terminate, TypeOK, Phases
  <1>18. ASSUME NEW w \in Watchers, WatcherDies(w) PROVE TypeOK'
    BY <1>18 DEF WatcherDies, TypeOK, Phases
  <1>19. ASSUME NEW w \in Watchers, WatcherLoses(w) PROVE TypeOK'
    <2>1. {} \in SUBSET Pids /\ "lost" \in Phases /\ losses' \in Nat
      BY <1>19 DEF WatcherLoses, TypeOK, Phases
    <2>2. watcher' \in [Watchers -> [phase : Phases, stop : BOOLEAN, events : SUBSET Pids]]
      BY <1>19, <2>1 DEF WatcherLoses, TypeOK
    <2>. QED BY <1>19, <2>1, <2>2 DEF WatcherLoses, TypeOK
  <1>20. ASSUME NEW w \in Watchers, WatcherSpins(w) PROVE TypeOK'
    BY <1>20 DEF WatcherSpins, TypeOK, Phases
  <1>21. ASSUME NEW p \in Pids, NEW app \in Apps, Launch(p, app) PROVE TypeOK'
    BY <1>21 DEF Launch, TypeOK, Phases
  <1>22. ASSUME NEW p \in Pids, Exit(p) PROVE TypeOK'
    BY <1>22 DEF Exit, TypeOK
  <1>23. CASE UNCHANGED vars
    BY <1>23 DEF vars, TypeOK
  <1>. QED
    BY <1>1, <1>2, <1>3, <1>4, <1>5, <1>6, <1>7, <1>8, <1>9, <1>10, <1>11, <1>12, <1>13,
       <1>14, <1>15, <1>16, <1>17, <1>18, <1>19, <1>20, <1>21, <1>22, <1>23
    DEF Next, Continue, Turn

(* Every variable keeps its type, for any processes, applications, targets  *)
(* and bounds (AppEnforcer and the calls of the session manager).           *)
THEOREM TypeCorrect == Spec => []TypeOK
  <1>1. Init => TypeOK
    BY TypeInit
  <1>2. TypeOK /\ [Next]_vars => TypeOK'
    BY TypeNext
  <1>. QED BY <1>1, <1>2, PTL DEF Spec

-----------------------------------------------------------------------------
(* Only targets die *)

(* matchers and targets are only ever written together *)
LEMMA KeptTogetherNext == KeptTogether /\ [Next]_vars => KeptTogether'
  <1> SUFFICES ASSUME KeptTogether, [Next]_vars PROVE KeptTogether'
    OBVIOUS
  <1>1. ASSUME UNCHANGED <<targets, matchers>> PROVE KeptTogether'
    BY <1>1 DEF KeptTogether
  <1>2. CASE Clear \/ Install
    BY <1>2 DEF Clear, Install, KeptTogether
  <1>3. CASE \/ \E T \in Requests : Call([kind |-> "apply", targets |-> T])
             \/ Call([kind |-> "clear", targets |-> {}])
             \/ Tick \/ StopTimesOut \/ Ready \/ Inspect \/ EndSweep
             \/ PollInterval \/ ClearLastBlocked
    BY <1>1, <1>3 DEF Call, Tick, StopTimesOut, Ready, Inspect, EndSweep, PollInterval,
                      ClearLastBlocked
  <1>4. CASE \E w \in Watchers : \/ WatcherSkips(w) \/ WatcherFails(w) \/ WatcherSubscribes(w)
                                 \/ Turn(w) \/ WatcherDies(w) \/ WatcherLoses(w)
    BY <1>1, <1>4 DEF WatcherSkips, WatcherFails, WatcherSubscribes, Turn, WatcherLoops,
                      WatcherIdles, WatcherHandles, WatcherDies, WatcherLoses, WatcherSpins
  <1>5. CASE \/ \E p \in Pids, app \in Apps : Launch(p, app)
             \/ \E p \in Pids : Exit(p)
             \/ UNCHANGED vars
    BY <1>1, <1>5 DEF Launch, Exit, vars
  <1>. QED BY <1>2, <1>3, <1>4, <1>5 DEF Next, Continue

(* a process ends by the enforcer's hand in two actions, both of which have *)
(* read the matchers in the same step                                       *)
LEMMA TerminatedIsMatched ==
  ASSUME TypeOK, KeptTogether, [Next]_vars, NEW p \in Pids, Terminated(p)
  PROVE  Matches(FromTargets(targets), running[p])
  <1> USE DEF Terminated
  <1>1. ASSUME Victim(p) PROVE Matches(FromTargets(targets), running[p])
    BY <1>1 DEF Victim, KeptTogether
  <1>2. ASSUME running' = running PROVE FALSE
    BY <1>2
  <1>3. ASSUME NEW w \in Watchers, WatcherHandles(w) PROVE Victim(p)
    BY <1>3 DEF WatcherHandles, Terminate, TypeOK
  <1>4. CASE Inspect
    <2>1. Victim(p)
      BY <1>4 DEF Inspect, Terminate, TypeOK
    <2>. QED BY <1>1, <2>1
  <1>5. ASSUME NEW q \in Pids, NEW app \in Apps, Launch(q, app) PROVE FALSE
    BY <1>5, AppFields DEF Launch, TypeOK
  <1>6. ASSUME NEW q \in Pids, Exit(q) PROVE FALSE
    BY <1>6 DEF Exit, threads, sweep
  <1>7. CASE \/ \E T \in Requests : Call([kind |-> "apply", targets |-> T])
             \/ Call([kind |-> "clear", targets |-> {}])
             \/ Tick \/ StopTimesOut \/ Clear \/ Install \/ Ready \/ EndSweep
             \/ PollInterval \/ ClearLastBlocked \/ UNCHANGED vars
    BY <1>2, <1>7 DEF Call, Tick, StopTimesOut, Clear, Install, Ready, EndSweep, PollInterval,
                      ClearLastBlocked, vars
  <1>8. ASSUME NEW w \in Watchers,
               \/ WatcherSkips(w) \/ WatcherFails(w) \/ WatcherSubscribes(w)
               \/ WatcherLoops(w) \/ WatcherIdles(w) \/ WatcherDies(w)
               \/ WatcherLoses(w) \/ WatcherSpins(w)
        PROVE  FALSE
    BY <1>2, <1>8 DEF WatcherSkips, WatcherFails, WatcherSubscribes, WatcherLoops,
                      WatcherIdles, WatcherDies, WatcherLoses, WatcherSpins
  <1>. QED
    BY <1>1, <1>3, <1>4, <1>5, <1>6, <1>7, <1>8 DEF Next, Continue, Turn

(* Whatever threads are left behind by stops that timed out, every process  *)
(* the enforcer ends is an application of the targets of that moment.       *)
THEOREM OnlyTargetsAreTerminated == Spec => OnlyTargetsDie
  <1>1. Init => KeptTogether
    BY DEF Init, KeptTogether
  <1>2. TypeOK /\ KeptTogether /\ [Next]_vars
          => [\A p \in Pids : Terminated(p) => Matches(FromTargets(targets), running[p])]_vars
    BY TerminatedIsMatched
  <1>. QED
    BY <1>1, <1>2, TypeCorrect, KeptTogetherNext, PTL DEF Spec, OnlyTargetsDie

(* No target that is an executable ends a system administrative tool,       *)
(* whatever its path, its name or its folder: only a package does.          *)
THEOREM SystemToolsAreSpared == Spec => SystemToolsSurvive
  <1>1. ASSUME NEW p, Matches(FromTargets(targets), running[p]), running[p].path # None
        PROVE  \/ FileName[running[p].path] \notin SystemNames
               \/ running[p].family \in targets
    BY <1>1 DEF Matches, MatchesPackage, FromTargets
  <1>2. Init => KeptTogether
    BY DEF Init, KeptTogether
  <1>3. TypeOK /\ KeptTogether /\ [Next]_vars =>
          [\A p \in Pids : Terminated(p) /\ running[p].path # None =>
              \/ FileName[running[p].path] \notin SystemNames
              \/ running[p].family \in targets]_vars
    BY <1>1, TerminatedIsMatched
  <1>. QED
    BY <1>2, <1>3, TypeCorrect, KeptTogetherNext, PTL DEF Spec, SystemToolsSurvive

-----------------------------------------------------------------------------
(* No window during initialization *)

(* NoEscape is not inductive: while the first sweep runs, a blocked process *)
(* may also be one the sweep has still to inspect.                          *)
Guarding == SnapshotsWorked /\ pc \in {"idle", "sweep"} /\ ~fallback /\ targets # {}
Pursued(p) == p \in watcher[handle].events \cup snapshot
WindowInv ==
  /\ snapshotFaults \in 0..MaxSnapshotFaults
  /\ Guarding =>
       /\ handle # 0 /\ watcher[handle].phase \in {"looping", "waiting", "lost", "quit"}
       /\ Subscribed(handle) => \A p \in Pids : Victim(p) => Pursued(p)

(* between calls nothing is left to inspect *)
LEMMA WindowInvSuffices == TypeOK /\ WindowInv => NoEscape
  BY DEF TypeOK, WindowInv, Guarding, Pursued, NoEscape, Mode

(* no step but a launch makes a victim *)
LEMMA VictimsRemain ==
  ASSUME matchers' = matchers, NEW p \in Pids, Victim(p)',
         running'[p] \in {running[p], None}
  PROVE  Victim(p)
  BY DEF Victim, Matches, MatchesPackage

(* a step of the watchers or the machine that starts no process *)
LEMMA WindowKept ==
  ASSUME TypeOK, WindowInv,
         UNCHANGED <<targets, matchers, handle, fallback, pc, snapshotFaults>>,
         \A p \in Pids : running'[p] \in {running[p], None},
         \A p \in snapshot : p \in snapshot' \/ ~Victim(p)',
         handle # 0 /\ watcher[handle].phase \in {"looping", "waiting", "lost", "quit"} =>
           /\ watcher'[handle].phase \in {"looping", "waiting", "lost", "quit"}
           /\ watcher'[handle].phase \in {"looping", "waiting"} =>
                /\ Subscribed(handle)
                /\ \A p \in watcher[handle].events :
                     p \in watcher'[handle].events \/ ~Victim(p)'
  PROVE  WindowInv'
  <1>1. snapshotFaults' \in 0..MaxSnapshotFaults /\ (Guarding' => Guarding)
    BY DEF WindowInv, Guarding, SnapshotsWorked
  <1>2. ASSUME Guarding
        PROVE  /\ handle' # 0
               /\ watcher'[handle'].phase \in {"looping", "waiting", "lost", "quit"}
               /\ Subscribed(handle)' => \A p \in Pids : Victim(p)' => Pursued(p)'
    <2>1. handle # 0 /\ watcher[handle].phase \in {"looping", "waiting", "lost", "quit"}
      BY <1>2 DEF WindowInv
    <2>2. ASSUME Subscribed(handle)', NEW p \in Pids, Victim(p)' PROVE Pursued(p)'
      <3>1. Victim(p)
        BY <2>2, VictimsRemain
      <3>2. Subscribed(handle) /\ Pursued(p)
        BY <1>2, <2>1, <2>2, <3>1 DEF WindowInv, Subscribed
      <3>. QED BY <2>1, <2>2, <3>2 DEF Pursued, Subscribed
    <2>. QED BY <2>1, <2>2
  <1>. QED BY <1>1, <1>2 DEF WindowInv

(* one step per action: who takes over the pursuit of each blocked process *)
LEMMA WindowNext == TypeOK /\ WindowInv /\ [Next]_vars => WindowInv'
  <1> SUFFICES ASSUME TypeOK, WindowInv, [Next]_vars PROVE WindowInv'
    OBVIOUS
  <1> USE WatchersAreNumbered DEF threads, budget, sweep
  <1>1. ASSUME NEW c, Call(c) PROVE WindowInv'
    BY <1>1 DEF Call, WindowInv, Guarding, SnapshotsWorked
  <1>2. CASE Tick
    <2>1. CASE fallback
      <3>1. fallback'
        BY <1>2, <2>1 DEF Tick, FallbackNow
      <3>2. snapshotFaults' \in 0..MaxSnapshotFaults
        BY <1>2, BoundsAssumption DEF Tick, StartSweep, WindowInv
      <3>. QED BY <3>1, <3>2 DEF WindowInv, Guarding, SnapshotsWorked
    <2>2. CASE ~fallback /\ Finished
      BY <1>2, <2>2 DEF Tick, FallbackNow, WindowInv, Guarding, SnapshotsWorked
    <2>3. CASE ~fallback /\ ~Finished
      <3>1. UNCHANGED <<targets, matchers, handle, fallback, pc, snapshotFaults, running,
                        watcher, snapshot>>
        BY <1>2, <2>3 DEF Tick, FallbackNow, TypeOK
      <3>. QED BY <3>1, WindowKept DEF Subscribed
    <2>. QED BY <2>1, <2>2, <2>3
  <1>3. CASE StopTimesOut
    BY <1>3 DEF StopTimesOut, WindowInv, Guarding, SnapshotsWorked
  <1>4. CASE Clear
    BY <1>4 DEF Clear, WindowInv, Guarding, SnapshotsWorked
  <1>5. CASE Install
    BY <1>5 DEF Install, Stopped, WindowInv, Guarding, SnapshotsWorked
  <1>6. CASE Ready
    <2>1. /\ snapshotFaults' \in 0..MaxSnapshotFaults
          /\ SnapshotsWorked' => snapshot' = {p \in Pids : running[p] # None}
      BY <1>6, BoundsAssumption DEF Ready, StartSweep, WindowInv, SnapshotsWorked
    <2>2. ~fallback' => handle # 0 /\ watcher[handle].phase \in {"looping", "waiting", "lost", "quit"}
      BY <1>6 DEF Ready, Readiness, TypeOK
    <2>3. ASSUME SnapshotsWorked', NEW p \in Pids, Victim(p)' PROVE Pursued(p)'
      BY <1>6, <2>1, <2>3 DEF Ready, Victim, Pursued
    <2>4. UNCHANGED <<watcher, handle>>
      BY <1>6 DEF Ready
    <2>. QED BY <2>1, <2>2, <2>3, <2>4 DEF WindowInv, Guarding
  <1>7. CASE Inspect
    <2>1. PICK p \in snapshot :
            /\ snapshot' = snapshot \ {p}
            /\ Victim(p) => Terminate(p)
            /\ ~Victim(p) => UNCHANGED running
      BY <1>7 DEF Inspect
    <2>2. \A q \in Pids : running'[q] \in {running[q], None}
      BY <2>1 DEF Terminate, TypeOK
    <2>3. ~Victim(p)'
      BY <1>7, <2>1 DEF Inspect, Victim, Terminate, TypeOK, Matches, MatchesPackage
    <2>4. UNCHANGED <<targets, matchers, handle, fallback, pc, snapshotFaults, watcher>>
      BY <1>7 DEF Inspect
    <2>. QED BY <2>1, <2>2, <2>3, <2>4, WindowKept DEF Subscribed
  <1>8. CASE EndSweep
    BY <1>8 DEF EndSweep, WindowInv, Guarding, SnapshotsWorked, Pursued, Subscribed, Victim
  <1>9. CASE \/ PollInterval \/ ClearLastBlocked \/ UNCHANGED vars
    <2>1. UNCHANGED <<targets, matchers, handle, fallback, pc, snapshotFaults, running,
                      watcher, snapshot>>
      BY <1>9 DEF PollInterval, ClearLastBlocked, vars
    <2>. QED BY <2>1, WindowKept DEF Subscribed
  <1>10. ASSUME NEW w \in Watchers,
                \/ WatcherSkips(w) \/ WatcherFails(w) \/ WatcherSubscribes(w)
                \/ WatcherLoops(w) \/ WatcherIdles(w) \/ WatcherDies(w)
                \/ WatcherLoses(w) \/ WatcherSpins(w)
         PROVE  WindowInv'
    <2>1. UNCHANGED <<targets, matchers, handle, fallback, pc, snapshotFaults, running,
                      snapshot>>
      BY <1>10 DEF WatcherSkips, WatcherFails, WatcherSubscribes, WatcherLoops,
                   WatcherIdles, WatcherDies, WatcherLoses, WatcherSpins
    <2>2. \/ watcher[w].phase = "starting"
          \/ /\ watcher'[w].phase \in {"looping", "waiting", "lost", "quit"}
             /\ Subscribed(w)' => Subscribed(w)
      BY <1>10 DEF WatcherSkips, WatcherFails, WatcherSubscribes, WatcherLoops,
                   WatcherIdles, WatcherDies, WatcherLoses, WatcherSpins, Subscribed, TypeOK
    <2>3. /\ \A v \in Watchers \ {w} : watcher'[v] = watcher[v]
          /\ Subscribed(w)' => watcher'[w].events = watcher[w].events
      <3>1. CASE WatcherLoses(w)
        <4>1. watcher'[w].phase = "lost"
          BY <3>1 DEF WatcherLoses, TypeOK
        <4>. QED BY <3>1, <4>1 DEF WatcherLoses, TypeOK, Subscribed
      <3>2. CASE ~WatcherLoses(w)
        BY <1>10, <3>2 DEF WatcherSkips, WatcherFails, WatcherSubscribes, WatcherLoops,
                           WatcherIdles, WatcherDies, WatcherSpins, TypeOK
      <3>. QED BY <3>1, <3>2
    <2>4. handle \in Watchers \cup {0}
      BY DEF TypeOK
    <2>. QED BY <2>1, <2>2, <2>3, <2>4, WindowKept DEF Subscribed
  <1>11. ASSUME NEW w \in Watchers, WatcherHandles(w) PROVE WindowInv'
    <2>1. PICK p \in watcher[w].events :
            /\ watcher' = [watcher EXCEPT ![w].phase = "looping", ![w].events = @ \ {p}]
            /\ Victim(p) => Terminate(p)
            /\ ~Victim(p) => UNCHANGED running
      BY <1>11 DEF WatcherHandles
    <2>2. p \in Pids /\ \A q \in Pids : running'[q] \in {running[q], None}
      BY <2>1 DEF Terminate, TypeOK
    <2>3. ~Victim(p)'
      BY <1>11, <2>1, <2>2 DEF WatcherHandles, Victim, Terminate, TypeOK, Matches, MatchesPackage
    <2>4. UNCHANGED <<targets, matchers, handle, fallback, pc, snapshotFaults, snapshot>>
      BY <1>11 DEF WatcherHandles
    <2>5. /\ Subscribed(w) /\ watcher'[w].phase = "looping"
          /\ watcher'[w].events = watcher[w].events \ {p}
          /\ \A v \in Watchers \ {w} : watcher'[v] = watcher[v]
      BY <1>11, <2>1 DEF WatcherHandles, Subscribed, TypeOK
    <2>6. handle \in Watchers \cup {0}
      BY DEF TypeOK
    <2>. QED BY <2>2, <2>3, <2>4, <2>5, <2>6, WindowKept DEF Subscribed
  <1>12. ASSUME NEW q \in Pids, NEW app \in Apps, Launch(q, app) PROVE WindowInv'
    <2>1. UNCHANGED <<targets, matchers, handle, fallback, pc, snapshotFaults, snapshot>>
      BY <1>12 DEF Launch
    <2>2. \A w \in Watchers :
            /\ watcher'[w].phase = watcher[w].phase
            /\ Subscribed(w) => watcher'[w].events = watcher[w].events \cup {q}
      BY <1>12 DEF Launch, Subscribed, TypeOK
    <2>3. \A p \in Pids \ {q} : Victim(p)' => Victim(p)
      <3>1. \A p \in Pids \ {q} : running'[p] = running[p]
        BY <1>12 DEF Launch, TypeOK
      <3>. QED BY <2>1, <3>1, VictimsRemain
    <2>4. handle \in Watchers \cup {0}
      BY DEF TypeOK
    <2>5. ASSUME Guarding'
          PROVE  /\ handle # 0
                 /\ watcher'[handle].phase \in {"looping", "waiting", "lost", "quit"}
                 /\ Subscribed(handle)' => \A p \in Pids : Victim(p)' => Pursued(p)'
      <3>1. Guarding
        BY <2>1, <2>5 DEF Guarding, SnapshotsWorked
      <3>2. /\ handle \in Watchers /\ watcher[handle].phase \in {"looping", "waiting", "lost", "quit"}
            /\ Subscribed(handle) => \A p \in Pids : Victim(p) => Pursued(p)
        BY <2>4, <3>1 DEF WindowInv
      <3>. QED BY <2>1, <2>2, <2>3, <3>2 DEF Subscribed, Pursued
    <2>. QED BY <2>1, <2>5 DEF WindowInv
  <1>13. ASSUME NEW p \in Pids, Exit(p) PROVE WindowInv'
    <2>1. UNCHANGED <<targets, matchers, handle, fallback, pc, snapshotFaults, watcher,
                      snapshot>>
      BY <1>13 DEF Exit
    <2>2. \A q \in Pids : running'[q] \in {running[q], None}
      BY <1>13 DEF Exit, TypeOK
    <2>. QED BY <2>1, <2>2, WindowKept DEF Subscribed
  <1>. QED
    BY <1>1, <1>2, <1>3, <1>4, <1>5, <1>6, <1>7, <1>8, <1>9, <1>10, <1>11, <1>12, <1>13
    DEF Next, Continue, Turn

(* Until a process snapshot fails, no blocked process escapes detection     *)
(* between the start of a watcher and its first sweep, however the launches *)
(* interleave with both.                                                    *)
THEOREM NothingEscapes == Spec => []NoEscape
  <1>1. Init => WindowInv
    BY BoundsAssumption DEF Init, WindowInv, Guarding
  <1>. QED
    BY <1>1, TypeCorrect, WindowNext, WindowInvSuffices, PTL DEF Spec
=============================================================================
