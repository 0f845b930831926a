----------------------------- MODULE DesktopApp -----------------------------
(***************************************************************************)
(* The desktop application beside the service: the Home page that polls,   *)
(* the Schedule page that saves, and the calls they have under way.  Each  *)
(* call is a pipe connection of its own: calls are handled and answered in *)
(* any order, and a call that was given up may have been handled, may be   *)
(* handled later or never.  Of the service this module keeps what the      *)
(* pages see (SessionManager has the rest), of a schedule its slot and     *)
(* which slots meet.                                                       *)
(***************************************************************************)
EXTENDS Integers, FiniteSets

CONSTANTS
  Slots, Meets,  \* time, days and end of a schedule; Meets[s]: what s overlaps
  None,
  MaxClicks, MaxPolls, MaxEvents, MaxFailures

ASSUME DesktopAppAssumption ==
  /\ Meets \in [Slots -> SUBSET Slots]
  /\ \A s, o \in Slots : s \in Meets[o] => o \in Meets[s]
  /\ None \notin Nat

VARIABLES
  session, schedules,   \* the service
  calls,                         \* the bridge
  route, home, form,      \* the pages
  nextId, clicks, failures

service == <<session, schedules, nextId>>
pages   == <<route, home, form>>
vars == <<service, pages, calls, clicks, failures>>

Reply(kind, data) == [kind |-> kind, data |-> data]
Pending     == Reply("none", None)
Unavailable == Reply("unavailable", None)
Refused     == Reply("app", None)
Ok(data)    == Reply("ok", data)

(* live: the component that awaits the answer is mounted; n tells calls of  *)
(* one command apart                                                        *)
Numbered(cmd, n, arg, live) ==
  [cmd |-> cmd, n |-> n, arg |-> arg, live |-> live, served |-> FALSE,
   heard |-> FALSE, reply |-> Pending]
Free(cmd, all) ==
  CHOOSE n \in 1..(Cardinality(all) + 1) :
    /\ \A c \in all : c.cmd = cmd => c.n # n
    /\ \A k \in 1..(n - 1) : \E c \in all : c.cmd = cmd /\ c.n = k
Plus(all, cmd, arg, live) == all \cup {Numbered(cmd, Free(cmd, all), arg, live)}

(* what is typed in the form is chosen when it is saved; error texts are    *)
(* left out                                                                 *)
FreshHome == [phase |-> "loading", session |-> None, degraded |-> FALSE]
FreshForm == [editing |-> None, saving |-> FALSE, list |-> {}]
ResetForm(f) == [f EXCEPT !.editing = None]

(* what the page of a route asks for when it is mounted                     *)
MountCall(to) == IF to = "home" THEN "status" ELSE "list"

Init ==
  /\ session = None /\ schedules = {}
  /\ route \in {"home", "schedule"}
  /\ home = FreshHome /\ form = FreshForm
  /\ calls = Plus({}, MountCall(route), FALSE, TRUE)
  /\ nextId = 1 /\ clicks = 0 /\ failures = 0

Polls == {c \in calls : c.cmd = "status" /\ ~c.heard}
Now(c, new) == (calls \ {c}) \cup {new}

Overlaps(s, all) == \E o \in all : o.id # s.id /\ o.slot \in Meets[s.slot]

-----------------------------------------------------------------------------
(* The service.                                                             *)

(* Serve(c, cmd, reply): the answer to a call given up is not awaited       *)
Serve(c, cmd, reply) ==
  /\ c.cmd = cmd /\ ~c.served
  /\ calls' = IF c.heard THEN calls \ {c}
              ELSE Now(c, [c EXCEPT !.served = TRUE,
                             !.reply = IF @ = Pending THEN reply ELSE @])
  /\ UNCHANGED <<pages, clicks, failures>>

(* of a status, what the page uses                                          *)
ServeStatus(c) == Serve(c, "status", Ok(session)) /\ UNCHANGED service
ServeStart(c) ==
  /\ Serve(c, "start", IF session = None THEN Ok(None) ELSE Refused)
  /\ IF session = None THEN session' = nextId /\ nextId' = nextId + 1
     ELSE UNCHANGED <<session, nextId>>
  /\ UNCHANGED schedules
ServeStop(c) ==
  /\ Serve(c, "stop", Ok(None))
  /\ session' = None /\ UNCHANGED <<schedules, nextId>>
ServeList(c, cmd) ==
  Serve(c, cmd, Ok(schedules)) /\ UNCHANGED service
ServeDelete(c) ==
  /\ Serve(c, "delete", Ok(None))
  /\ schedules' = {s \in schedules : s.id # c.arg.id}
  /\ UNCHANGED <<session, nextId>>

AcceptsAll(s, update) == update => \E o \in schedules : o.id = s.id
Accepts(s, update) ==
  ~Overlaps(s, schedules) /\ (update => \E o \in schedules : o.id = s.id)
ServeSave(c) ==
  LET new == c.arg.schedule
      ok  == Accepts(new, c.arg.update)
  IN  /\ Serve(c, "save", IF ok THEN Ok(None) ELSE Refused)
      /\ schedules' = IF ok THEN {s \in schedules : s.id # new.id} \cup {new}
                      ELSE schedules
      /\ UNCHANGED <<session, nextId>>

Serves ==
  \E c \in calls :
    \/ ServeStart(c) \/ ServeStop(c) \/ ServeDelete(c)
    \/ ServeSave(c) \/ ServeStatus(c)
    \/ \E cmd \in {"list", "check"} : ServeList(c, cmd)

(* the pipe breaks or five seconds pass; what was sent may yet be handled,  *)
(* which for a call that only reads is the same as not                      *)
Reads == {"status", "list", "check"}
Lose(c) ==
  /\ failures < MaxFailures /\ failures' = failures + 1
  /\ c.reply # Unavailable
  /\ \E arrived \in IF c.cmd \in Reads THEN {FALSE} ELSE BOOLEAN :
       calls' = Now(c, [c EXCEPT !.reply = Unavailable,
                                 !.served = @ \/ ~arrived])
  /\ UNCHANGED <<service, pages, clicks>>

(* a session by schedule or from the browser, its end, a terminated process *)
SessionBegins ==
  /\ session = None /\ nextId <= MaxEvents
  /\ session' = nextId /\ nextId' = nextId + 1
  /\ UNCHANGED <<schedules, pages, calls, clicks, failures>>
SessionEnds ==
  /\ session # None /\ session' = None
  /\ UNCHANGED <<schedules, nextId, pages, calls, clicks, failures>>
-----------------------------------------------------------------------------
(* Answers.                                                                 *)

Hears(c, cmd) == c.cmd = cmd /\ ~c.heard /\ c.reply # Pending
Rest(c) == IF c.served THEN calls \ {c} ELSE Now(c, [c EXCEPT !.heard = TRUE])
Good(c) == c.reply.kind = "ok"
Data(c) == c.reply.data

(* fetchStatus; statusRef holds the latest status                           *)
LostAtMount(h) == [h EXCEPT !.phase = "unreachable"]
Lost(h) ==
  IF h.session # None THEN [h EXCEPT !.degraded = TRUE, !.phase = "ready"]
  ELSE [h EXCEPT !.phase = "unreachable"]
StatusAnswered(c) ==
  /\ Hears(c, "status") /\ calls' = Rest(c)
  /\ home' = IF ~c.live THEN home
             ELSE IF Good(c)
             THEN [home EXCEPT !.session = Data(c), !.phase = "ready",
                               !.degraded = FALSE]
             ELSE Lost(home)
  /\ UNCHANGED <<service, route, form, clicks, failures>>

(* a start or stop that worked asks for the status                          *)
ActionAnswered(c) ==
  /\ Hears(c, "start") \/ Hears(c, "stop")
  /\ IF Good(c) /\ c.live
     THEN calls' = Plus(Rest(c), "status", FALSE, TRUE)
     ELSE calls' = Rest(c)
  /\ UNCHANGED <<service, pages, clicks, failures>>

Sets(c, f) == form' = IF c.live THEN f ELSE form

(* loadSchedules, which a save awaits before its button works again         *)
ListAnswered(c) ==
  /\ Hears(c, "list") /\ calls' = Rest(c)
  /\ LET done == [form EXCEPT !.saving = @ /\ ~c.arg]
     IN  Sets(c, IF Good(c) THEN [done EXCEPT !.list = Data(c)] ELSE done)
  /\ UNCHANGED <<service, route, home, clicks, failures>>

(* createSchedule and updateSchedule: the list is read, then checked        *)
Checked(c) ==
  /\ Hears(c, "check")
  /\ LET arg == c.arg
         s   == arg.schedule
     IN  IF /\ Good(c) /\ ~Overlaps(s, Data(c))
            /\ arg.update => \E o \in Data(c) : o.id = s.id
         THEN /\ calls' = Plus(Rest(c), "save", arg, c.live)
              /\ UNCHANGED form
         ELSE calls' = Rest(c) /\ Sets(c, [form EXCEPT !.saving = FALSE])
  /\ UNCHANGED <<service, route, home, clicks, failures>>

SaveAnswered(c) ==
  /\ Hears(c, "save")
  /\ IF Good(c)
     THEN /\ calls' = IF c.live THEN Plus(Rest(c), "list", TRUE, TRUE)
                      ELSE Rest(c)
          /\ Sets(c, ResetForm(form))
     ELSE calls' = Rest(c) /\ Sets(c, [form EXCEPT !.saving = FALSE])
  /\ UNCHANGED <<service, route, home, clicks, failures>>

(* editing: whether the form showed this schedule when the button was hit   *)
DeleteAnswered(c) ==
  /\ Hears(c, "delete")
  /\ IF Good(c)
     THEN /\ calls' = IF c.live THEN Plus(Rest(c), "list", FALSE, TRUE)
                      ELSE Rest(c)
          /\ Sets(c, IF c.arg.editing THEN ResetForm(form) ELSE form)
     ELSE calls' = Rest(c) /\ UNCHANGED form
  /\ UNCHANGED <<service, route, home, clicks, failures>>

Answers ==
  \E c \in calls :
    \/ StatusAnswered(c) \/ ActionAnswered(c) \/ ListAnswered(c) \/ Checked(c)
    \/ SaveAnswered(c) \/ DeleteAnswered(c)

-----------------------------------------------------------------------------
(* Timers and the user.                                                     *)

Calls(cmd, arg) == calls' = Plus(calls, cmd, arg, TRUE)
Click == clicks < MaxClicks /\ clicks' = clicks + 1

HomePollUntilLost ==
  /\ route = "home" /\ Cardinality(Polls) < MaxPolls
  /\ home.phase # "unreachable"
  /\ Calls("status", FALSE) /\ UNCHANGED <<service, pages, clicks, failures>>
HomePoll ==
  /\ route = "home" /\ Cardinality(Polls) < MaxPolls
  /\ Calls("status", FALSE) /\ UNCHANGED <<service, pages, clicks, failures>>
Screen == IF home.phase # "ready" THEN home.phase
          ELSE IF home.session # None THEN "session" ELSE "idle"

StartOffered == route = "home" /\ Screen = "idle"
HandleStartSession ==
  /\ StartOffered /\ Click
  /\ Calls("start", None) /\ UNCHANGED <<service, pages, failures>>
StopOffered == route = "home" /\ Screen = "session"
StopSession ==
  /\ StopOffered /\ Click
  /\ Calls("stop", None) /\ UNCHANGED <<service, pages, failures>>

BeginEdit(s) ==
  /\ route = "schedule"
  /\ form' = [form EXCEPT !.editing = s.id]
  /\ UNCHANGED <<service, route, home, calls, clicks, failures>>
CancelEdit ==
  /\ route = "schedule" /\ form.editing # None /\ form' = ResetForm(form)
  /\ UNCHANGED <<service, route, home, calls, clicks, failures>>

FormOffered == route = "schedule" /\ ~form.saving
SaveScheduleOfForm(slot) ==
  LET update == form.editing # None
      id     == form.editing
  IN  /\ FormOffered /\ Click
      /\ form' = [form EXCEPT !.saving = TRUE]
      /\ Calls("check", [schedule |-> [id |-> id, slot |-> slot],
                         update |-> update])
      /\ nextId' = IF update THEN nextId ELSE nextId + 1
      /\ UNCHANGED <<session, schedules, route, home, failures>>
SaveSchedule(slot) ==
  LET update == form.editing # None
      id     == IF update THEN form.editing ELSE nextId
  IN  /\ FormOffered /\ Click
      /\ form' = [form EXCEPT !.saving = TRUE]
      /\ Calls("check", [schedule |-> [id |-> id, slot |-> slot],
                         update |-> update])
      /\ nextId' = IF update THEN nextId ELSE nextId + 1
      /\ UNCHANGED <<session, schedules, route, home, failures>>

RemoveSchedule(s) ==
  /\ route = "schedule" /\ Click
  /\ Calls("delete", [id |-> s.id, editing |-> form.editing = s.id])
  /\ UNCHANGED <<service, pages, failures>>

(* The page is unmounted: what it awaited goes on, its state does not.      *)
Navigate(to) ==
  /\ route # to /\ Click /\ route' = to
  /\ home' = FreshHome /\ form' = FreshForm
  /\ calls' = Plus({[c EXCEPT !.live = FALSE] : c \in calls},
                   MountCall(to), FALSE, TRUE)
  /\ UNCHANGED <<service, failures>>

User ==
  \/ HandleStartSession \/ StopSession \/ CancelEdit
  \/ \E slot \in Slots : SaveSchedule(slot)
  \/ \E s \in form.list : BeginEdit(s) \/ RemoveSchedule(s)
  \/ \E to \in {"home", "schedule"} : Navigate(to)

Next ==
  \/ Serves \/ Answers \/ HomePoll \/ User
  \/ SessionBegins \/ SessionEnds
  \/ \E c \in calls : Lose(c)

Spec == Init /\ [][Next]_vars

(* the interval fires; a call is given up after five seconds at the latest *)
FairSpec ==
  /\ Spec /\ WF_vars(HomePoll) /\ WF_vars(Serves) /\ WF_vars(Answers)
  /\ WF_vars(\E c \in calls : ServeStatus(c) \/ StatusAnswered(c))

-----------------------------------------------------------------------------
(* Properties.                                                              *)

Ids == Nat \cup {None}
Schedules == [id : Nat, slot : Slots]

(* The types of the service's state, and the pages.                         *)
TypeOK ==
  /\ session \in Ids /\ schedules \subseteq Schedules
  /\ route \in {"home", "schedule"} /\ home.session \in Ids
  /\ home.phase \in {"loading", "ready", "unreachable"}
  /\ form.editing \in Ids
  /\ form.list \subseteq Schedules

(* "Last-known-good status. Kept during transient failures so an active     *)
(* session keeps rendering instead of snapping to a fake idle state"        *)
(* (Home.tsx:29): a page whose last answer had a session shows it.          *)
SessionStaysVisible == home.session # None => Screen = "session"

(* However double clicks, retries after an answer that was lost, pages left *)
(* while they save and calls out of order meet: no two stored schedules     *)
(* overlap, so a save that is sent twice is stored once.                    *)
NoTwinSchedules == \A s \in schedules : ~Overlaps(s, schedules)

(* The page "reconnects automatically" (Home.tsx:155): once sessions and   *)
(* failures come to rest, so does the page, and shows what the service has, *)
(* whatever answers were late, lost or out of order.                        *)
HomeCatchesUp ==
  <>[](route = "home" => home.phase = "ready" /\ home.session = session)
=============================================================================
