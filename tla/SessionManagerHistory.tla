------------------------ MODULE SessionManagerHistory ------------------------
(***************************************************************************)
(* SessionManager with a history variable: until when a client's own stop  *)
(* promised to keep each schedule quiet.  It only observes.  Deleting the  *)
(* schedule ends the promise, and so does editing it while it runs (a stop *)
(* that a crash cut short leaves the session running).                     *)
(***************************************************************************)
EXTENDS SessionManager

VARIABLE released    \* end of the window a client stopped the schedule in

hvars == <<vars, released>>

(* Windows end on whole seconds and a scheduled session within a second of *)
(* its window, so the window ends at the deadline rounded up.              *)
StoppedWindowEnd(s) == ((Deadline(s) + PerSec - 1) \div PerSec) * PerSec

HInit == Init /\ released = NoSuppression

HNext ==
  /\ Next
  /\ released' =
       CASE pc = "idle" /\ pc' = "stop" /\ active.sched # 0 ->
              [released EXCEPT ![active.sched] = StoppedWindowEnd(active)]
         [] pc = "idle" /\ pc' \in {"delete_stop", "delete_row"} ->
              [released EXCEPT ![subject'] = 0]
         [] pc = "updated" -> [released EXCEPT ![active.sched] = 0]
         [] OTHER -> released

HSpec == HInit /\ [][HNext]_hvars

-----------------------------------------------------------------------------
(* A schedule a client stopped does not start a session again before the   *)
(* end of the window it was stopped in, across crashes, restarts and other *)
(* requests, unless it is deleted and created anew ("Stop session manually *)
(* -> should suppress retriggering until 17:00", session_manager.rs tests).*)
UserStopSticks ==
  [][\A i \in ScheduleIds :
       starting = NoSession /\ starting'.sched = i => now >= released[i]]_hvars

(* Nothing but a client's stop keeps a schedule quiet: not an edit that    *)
(* moves the schedule out of its window, not a deletion ("schedule must    *)
(* NOT be suppressed because this was not a user stop!").                  *)
OnlyUserStopsSuppress ==
  pc = "idle" =>
    \A i \in ScheduleIds :
      now < suppressed[i] /\ active.sched # i => suppressed[i] <= released[i]

(* What of it does hold: until the process restarts, that is, as long as    *)
(* the set in memory rules and not the copy the last stop wrote, which an   *)
(* edit or a deletion leaves behind in the settings table.                  *)
OnlyUserStopsSuppressInMemory == restarts = MaxRestarts => OnlyUserStopsSuppress
=============================================================================
