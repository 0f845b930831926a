-------------------------- MODULE DesktopAppProofs --------------------------
(***************************************************************************)
(* Type correctness of DesktopApp, and two of its safety properties, for   *)
(* all slots, bounds and interleavings of calls, answers and losses.       *)
(***************************************************************************)
EXTENDS DesktopApp, TLAPS

(* What a call holds, by its command; only good replies are read.           *)
ArgOK(cmd, arg) ==
  /\ cmd = "list" => arg \in BOOLEAN
  /\ cmd \in {"check", "save"} => arg.schedule \in Schedules
  /\ cmd = "delete" => arg.id \in Nat
ReplyOK(cmd, reply) ==
  reply.kind = "ok" =>
    /\ cmd = "status" => reply.data \in Ids
    /\ cmd \in {"list", "check"} => reply.data \subseteq Schedules
IsCall(c) ==
  c \in [cmd : {c.cmd}, n : {c.n}, arg : {c.arg}, live : {c.live},
         served : {c.served}, heard : {c.heard}, reply : {c.reply}]
CallOK(c) == IsCall(c) /\ ArgOK(c.cmd, c.arg) /\ ReplyOK(c.cmd, c.reply)
CallsOK(all) == \A c \in all : CallOK(c)

HomeOK(h) ==
  h \in [phase : {"loading", "ready", "unreachable"}, session : Ids,
         degraded : BOOLEAN]
FormOK(f) == f \in [editing : Ids, saving : BOOLEAN, list : SUBSET Schedules]
ServiceOK == session \in Ids /\ schedules \subseteq Schedules /\ nextId \in Nat

(* The inductive invariant behind TypeOK: records have their fields, and a   *)
(* reply the data its command promises.                                     *)
Types ==
  /\ ServiceOK /\ CallsOK(calls) /\ HomeOK(home) /\ FormOK(form)
  /\ route \in {"home", "schedule"}

(* What the run checks of the types follows.                               *)
LEMMA TypesImplyTypeOK == Types => TypeOK
BY DEF Types, ServiceOK, HomeOK, FormOK, TypeOK

(* A call just made has no reply and needs only its argument.               *)
LEMMA PlusOK ==
  ASSUME NEW all, NEW cmd, NEW arg, NEW live, CallsOK(all), ArgOK(cmd, arg)
  PROVE  CallsOK(Plus(all, cmd, arg, live))
<1> DEFINE new == Numbered(cmd, Free(cmd, all), arg, live)
<1>1. new.cmd = cmd /\ new.arg = arg /\ new.reply = Pending
  BY DEF Numbered
<1>2. IsCall(new)
  BY DEF IsCall, Numbered
<1>3. ReplyOK(new.cmd, new.reply)
  BY <1>1 DEF ReplyOK, Pending, Reply
<1>4. CallOK(new)
  BY <1>1, <1>2, <1>3 DEF CallOK
<1> QED
  BY <1>4 DEF Plus, CallsOK

(* Serving, losing and leaving a call change its flags and its reply only.  *)
LEMMA ServedOK ==
  ASSUME NEW c, CallOK(c), NEW reply, ReplyOK(c.cmd, reply), NEW served
  PROVE  CallOK([c EXCEPT !.served = served, !.reply = reply])
<1> DEFINE d == [c EXCEPT !.served = served, !.reply = reply]
<1>1. d.cmd = c.cmd /\ d.arg = c.arg /\ d.reply = reply /\ IsCall(d)
  BY DEF CallOK, IsCall
<1> QED
  BY <1>1 DEF CallOK

(* an event heard changes a flag only                                      *)
LEMMA HeardOK ==
  ASSUME NEW c, CallOK(c) PROVE CallOK([c EXCEPT !.heard = TRUE])
<1> DEFINE d == [c EXCEPT !.heard = TRUE]
<1>1. d.cmd = c.cmd /\ d.arg = c.arg /\ d.reply = c.reply /\ IsCall(d)
  BY DEF CallOK, IsCall
<1> QED
  BY <1>1 DEF CallOK

(* a page that leaves a call behind changes a flag only                    *)
LEMMA LeftOK ==
  ASSUME NEW c, CallOK(c) PROVE CallOK([c EXCEPT !.live = FALSE])
<1> DEFINE d == [c EXCEPT !.live = FALSE]
<1>1. d.cmd = c.cmd /\ d.arg = c.arg /\ d.reply = c.reply /\ IsCall(d)
  BY DEF CallOK, IsCall
<1> QED
  BY <1>1 DEF CallOK

(* what remains of the calls when an answer is heard is of their types     *)
LEMMA RestOK ==
  ASSUME NEW c \in calls, CallsOK(calls) PROVE CallsOK(Rest(c))
BY HeardOK DEF Rest, Now, CallsOK

(* a service that answers keeps an earlier failure of the call, and the    *)
(* types                                                                   *)
LEMMA ServeOK ==
  ASSUME NEW c \in calls, CallsOK(calls), NEW cmd, NEW reply,
         ReplyOK(cmd, reply), Serve(c, cmd, reply)
  PROVE  CallsOK(calls')
<1> DEFINE given == IF c.reply = Pending THEN reply ELSE c.reply
<1>1. CallOK(c) /\ c.cmd = cmd
  BY DEF CallsOK, Serve
<1>2. ReplyOK(c.cmd, given)
  BY <1>1 DEF CallOK
<1>3. CallOK([c EXCEPT !.served = TRUE, !.reply = given])
  BY <1>1, <1>2, ServedOK
<1>4. [c EXCEPT !.served = TRUE, !.reply = IF @ = Pending THEN reply ELSE @]
        = [c EXCEPT !.served = TRUE, !.reply = given]
  OBVIOUS
<1> QED
  BY <1>3, <1>4 DEF Serve, Now, CallsOK

-----------------------------------------------------------------------------
(* the service and the pages start with their types                        *)
LEMMA TypesInit == Init => Types
<1> SUFFICES ASSUME Init PROVE Types
  OBVIOUS
<1>1. CallsOK({}) /\ ArgOK(MountCall(route), FALSE)
  BY DEF CallsOK, ArgOK, MountCall, Init
<1>2. CallsOK(calls)
  BY <1>1, PlusOK DEF Init
<1>3. HomeOK(home) /\ FormOK(form) /\ ServiceOK
  BY DEF Init, HomeOK, FormOK, ServiceOK, FreshHome, FreshForm, Ids
<1> QED
  BY <1>2, <1>3 DEF Types, Init

(* The service's handlers and the loss of a call.                           *)
LEMMA TypesServes ==
  ASSUME Types, Serves PROVE Types'
<1>. USE DEF Types
<1> PICK c \in calls : \/ ServeStart(c) \/ ServeStop(c) \/ ServeDelete(c)
                       \/ ServeSave(c) \/ ServeStatus(c)
                       \/ \E cmd \in {"list", "check"} : ServeList(c, cmd)
  BY DEF Serves
<1>0. CallOK(c)
  BY DEF CallsOK
<1>1. CASE ServeStart(c)
  <2>1. CallsOK(calls')
    BY <1>1, ServeOK DEF ServeStart, ReplyOK, Ok, Refused, Reply
  <2>2. ServiceOK'
    BY <1>1 DEF ServeStart, ServiceOK, Ids
  <2> QED BY <1>1, <2>1, <2>2 DEF ServeStart, Serve, pages, HomeOK, FormOK
<1>2. CASE ServeStop(c)
  <2>1. CallsOK(calls')
    BY <1>2, ServeOK DEF ServeStop, ReplyOK, Ok, Reply
  <2>2. ServiceOK'
    BY <1>2 DEF ServeStop, ServiceOK, Ids
  <2> QED BY <1>2, <2>1, <2>2 DEF ServeStop, Serve, pages, HomeOK, FormOK
<1>3. CASE ServeDelete(c)
  <2>1. CallsOK(calls')
    BY <1>3, ServeOK DEF ServeDelete, ReplyOK, Ok, Reply
  <2>2. ServiceOK'
    BY <1>3 DEF ServeDelete, ServiceOK
  <2> QED BY <1>3, <2>1, <2>2 DEF ServeDelete, Serve, pages, HomeOK, FormOK
<1>4. CASE ServeSave(c)
  <2>1. CallsOK(calls')
    BY <1>4, ServeOK DEF ServeSave, ReplyOK, Ok, Refused, Reply
  <2>2. c.arg.schedule \in Schedules
    BY <1>0, <1>4 DEF CallOK, ArgOK, ServeSave, Serve
  <2>3. ServiceOK'
    BY <1>4, <2>2 DEF ServeSave, ServiceOK
  <2> QED BY <1>4, <2>1, <2>3 DEF ServeSave, Serve, pages, HomeOK, FormOK
<1>5. CASE ServeStatus(c)
  <2>1. CallsOK(calls')
    BY <1>5, ServeOK DEF ServeStatus, ReplyOK, Ok, Reply, ServiceOK
  <2> QED BY <1>5, <2>1 DEF ServeStatus, Serve, service, pages, ServiceOK, HomeOK, FormOK
<1>6. ASSUME NEW cmd \in {"list", "check"}, ServeList(c, cmd) PROVE Types'
  <2>1. CallsOK(calls')
    BY <1>6, ServeOK DEF ServeList, ReplyOK, Ok, Reply, ServiceOK
  <2> QED BY <1>6, <2>1 DEF ServeList, Serve, service, pages, ServiceOK, HomeOK, FormOK
<1> QED
  BY <1>1, <1>2, <1>3, <1>4, <1>5, <1>6

(* a lost reply or request, and an event that may still arrive             *)
LEMMA TypesLose ==
  ASSUME Types, NEW c \in calls, Lose(c) PROVE Types'
<1>. USE DEF Types
<1>1. CallOK(c)
  BY DEF CallsOK
<1>2. PICK arrived \in BOOLEAN :
        calls' = Now(c, [c EXCEPT !.reply = Unavailable,
                                  !.served = @ \/ ~arrived])
  BY DEF Lose
<1>3. [c EXCEPT !.reply = Unavailable, !.served = @ \/ ~arrived]
        = [c EXCEPT !.served = c.served \/ ~arrived, !.reply = Unavailable]
  BY <1>1 DEF CallOK, IsCall
<1>4. ReplyOK(c.cmd, Unavailable)
  BY DEF ReplyOK, Unavailable, Reply
<1>5. CallOK([c EXCEPT !.served = c.served \/ ~arrived, !.reply = Unavailable])
  BY <1>1, <1>4, ServedOK
<1>6. CallsOK(calls')
  BY <1>2, <1>3, <1>5 DEF CallsOK, Now
<1> QED
  BY <1>6 DEF Lose, service, pages, ServiceOK, HomeOK, FormOK

(* The answers.                                                             *)
LEMMA TypesAnswers ==
  ASSUME Types, Answers PROVE Types'
<1>. USE DEF Types
<1> PICK c \in calls : \/ StatusAnswered(c) \/ ActionAnswered(c)
                       \/ ListAnswered(c) \/ Checked(c)
                       \/ SaveAnswered(c) \/ DeleteAnswered(c)
  BY DEF Answers
<1>0. CallOK(c) /\ CallsOK(Rest(c))
  BY RestOK DEF CallsOK
<1>1. CASE StatusAnswered(c)
  <2>1. Good(c) => Data(c) \in Ids
    BY <1>0, <1>1 DEF StatusAnswered, Hears, Good, Data, CallOK, ReplyOK
  <2>2. HomeOK(home')
    BY <1>1, <2>1 DEF StatusAnswered, HomeOK, Lost
  <2> QED BY <1>0, <1>1, <2>2 DEF StatusAnswered, service, ServiceOK, FormOK
<1>2. CASE ActionAnswered(c)
  <2>1. CallsOK(calls')
    BY <1>0, <1>2, PlusOK DEF ActionAnswered, ArgOK
  <2> QED BY <1>2, <2>1 DEF ActionAnswered, service, pages, ServiceOK, HomeOK, FormOK
<1>3. CASE ListAnswered(c)
  <2>1. Good(c) => Data(c) \subseteq Schedules
    BY <1>0, <1>3 DEF ListAnswered, Hears, Good, Data, CallOK, ReplyOK
  <2>2. c.arg \in BOOLEAN
    BY <1>0, <1>3 DEF ListAnswered, Hears, CallOK, ArgOK
  <2>3. FormOK(form')
    BY <1>3, <2>1, <2>2 DEF ListAnswered, Sets, FormOK
  <2> QED BY <1>0, <1>3, <2>3 DEF ListAnswered, service, ServiceOK, HomeOK
<1>4. CASE Checked(c)
  <2>1. ArgOK("save", c.arg)
    BY <1>0, <1>4 DEF Checked, Hears, CallOK, ArgOK
  <2>2. CallsOK(calls')
    BY <1>0, <1>4, <2>1, PlusOK DEF Checked
  <2>3. FormOK(form')
    BY <1>4 DEF Checked, Sets, FormOK
  <2> QED BY <1>4, <2>2, <2>3 DEF Checked, service, ServiceOK, HomeOK
<1>5. CASE SaveAnswered(c)
  <2>1. CallsOK(calls')
    BY <1>0, <1>5, PlusOK DEF SaveAnswered, ArgOK
  <2>2. FormOK(form')
    BY <1>5 DEF SaveAnswered, Sets, ResetForm, FormOK, Ids
  <2> QED BY <1>5, <2>1, <2>2 DEF SaveAnswered, service, ServiceOK, HomeOK
<1>6. CASE DeleteAnswered(c)
  <2>1. CallsOK(calls')
    BY <1>0, <1>6, PlusOK DEF DeleteAnswered, ArgOK
  <2>2. FormOK(form')
    BY <1>6 DEF DeleteAnswered, Sets, ResetForm, FormOK, Ids
  <2> QED BY <1>6, <2>1, <2>2 DEF DeleteAnswered, service, ServiceOK, HomeOK
<1> QED
  BY <1>1, <1>2, <1>3, <1>4, <1>5, <1>6

(* The user: a call with its argument, and a form or page that starts anew. *)
LEMMA TypesUser ==
  ASSUME Types, User PROVE Types'
<1>. USE DEF Types
<1>1. CASE HandleStartSession \/ StopSession
  <2>1. CallsOK(calls')
    BY <1>1, PlusOK DEF HandleStartSession, StopSession, Calls, ArgOK
  <2> QED BY <1>1, <2>1
      DEF HandleStartSession, StopSession, service, pages, ServiceOK, HomeOK, FormOK
<1>2. CASE CancelEdit
  BY <1>2 DEF CancelEdit, service, ServiceOK, HomeOK, FormOK, ResetForm, Ids
<1>3. ASSUME NEW slot \in Slots, SaveSchedule(slot) PROVE Types'
  <2>1. (IF form.editing # None THEN form.editing ELSE nextId) \in Nat
    BY DEF FormOK, ServiceOK, Ids
  <2>2. CallsOK(calls')
    BY <1>3, <2>1, PlusOK DEF SaveSchedule, Calls, ArgOK, Schedules
  <2>3. FormOK(form')
    BY <1>3 DEF SaveSchedule, FormOK
  <2>4. nextId' = nextId \/ nextId' = nextId + 1
    BY <1>3, Zenon DEF SaveSchedule
  <2>5. ServiceOK'
    BY <1>3, <2>4 DEF SaveSchedule, ServiceOK
  <2> QED BY <1>3, <2>2, <2>3, <2>5 DEF SaveSchedule, HomeOK
<1>4. ASSUME NEW s \in form.list, BeginEdit(s) PROVE Types'
  <2>1. s.id \in Ids
    BY DEF FormOK, Schedules, Ids
  <2>2. FormOK(form')
    BY <1>4, <2>1 DEF BeginEdit, FormOK
  <2> QED BY <1>4, <2>2 DEF BeginEdit, service, ServiceOK, HomeOK
<1>5. ASSUME NEW s \in form.list, RemoveSchedule(s) PROVE Types'
  <2>1. s.id \in Nat
    BY DEF FormOK, Schedules
  <2>2. CallsOK(calls')
    BY <1>5, <2>1, PlusOK DEF RemoveSchedule, Calls, ArgOK
  <2> QED BY <1>5, <2>2 DEF RemoveSchedule, service, pages, ServiceOK, HomeOK, FormOK
<1>6. ASSUME NEW to \in {"home", "schedule"}, Navigate(to) PROVE Types'
  <2>1. CallsOK({[c EXCEPT !.live = FALSE] : c \in calls})
    BY LeftOK DEF CallsOK
  <2>2. ArgOK(MountCall(to), FALSE)
    BY DEF ArgOK, MountCall
  <2>3. CallsOK(calls')
    BY <1>6, <2>1, <2>2, PlusOK DEF Navigate
  <2>4. HomeOK(home') /\ FormOK(form')
    BY <1>6 DEF Navigate, FreshHome, FreshForm, HomeOK, FormOK, Ids
  <2> QED BY <1>6, <2>3, <2>4 DEF Navigate, service, ServiceOK
<1> QED
  BY <1>1, <1>2, <1>3, <1>4, <1>5, <1>6 DEF User

(* every action keeps the types                                            *)
LEMMA TypesStep == Types /\ [Next]_vars => Types'
<1> SUFFICES ASSUME Types, [Next]_vars PROVE Types'
  OBVIOUS
<1>1. CASE HomePoll
  <2>1. CallsOK(calls')
    BY <1>1, PlusOK DEF HomePoll, Calls, ArgOK, Types
  <2> QED BY <1>1, <2>1 DEF HomePoll, service, pages, Types, ServiceOK, HomeOK, FormOK
<1>2. CASE SessionBegins \/ SessionEnds
  BY <1>2 DEF SessionBegins, SessionEnds, pages, Types, ServiceOK, HomeOK, FormOK, Ids
<1>3. CASE UNCHANGED vars
  BY <1>3 DEF vars, service, pages, Types, ServiceOK, HomeOK, FormOK, CallsOK, CallOK
<1> QED
  BY <1>1, <1>2, <1>3, TypesServes, TypesAnswers, TypesUser, TypesLose DEF Next

(* Type correctness: the service, the pages and what they show.             *)
THEOREM TypeCorrect == Spec => []TypeOK
<1>1. Spec => []Types
  BY TypesInit, TypesStep, PTL DEF Spec
<1> QED
  BY <1>1, TypesImplyTypeOK, PTL

-----------------------------------------------------------------------------
(* The screen of a page that holds a session.                               *)
Shown == home.session # None => home.phase = "ready"

(* a page that is ready shows its session                                  *)
LEMMA ShownImplies == Shown => SessionStaysVisible
BY DEF Shown, SessionStaysVisible, Screen

(* no answer, lost or late, takes the session from a ready page            *)
LEMMA ShownStep == Types /\ Shown /\ [Next]_vars => Shown'
<1> SUFFICES ASSUME Types, Shown, [Next]_vars PROVE Shown'
  OBVIOUS
<1>1. CASE home' = home
  BY <1>1 DEF Shown
<1>2. ASSUME NEW c \in calls, StatusAnswered(c) PROVE Shown'
  BY <1>2 DEF StatusAnswered, Lost, Shown, Types, HomeOK
<1>3. ASSUME NEW to \in {"home", "schedule"}, Navigate(to) PROVE Shown'
  BY <1>3 DEF Navigate, FreshHome, Shown
<1>4. Serves => home' = home
  BY DEF Serves, ServeStart, ServeStop, ServeDelete, ServeSave, ServeStatus,
         ServeList, Serve, pages
<1>5. Answers => home' = home \/ \E c \in calls : StatusAnswered(c)
  BY DEF Answers, ActionAnswered, ListAnswered, Checked, SaveAnswered,
         DeleteAnswered, pages
<1>6. User => home' = home \/ \E to \in {"home", "schedule"} : Navigate(to)
  BY DEF User, HandleStartSession, StopSession, CancelEdit, SaveSchedule,
         BeginEdit, RemoveSchedule, pages
<1>7. HomePoll \/ SessionBegins \/ SessionEnds \/ UNCHANGED vars
        \/ (\E c \in calls : Lose(c)) => home' = home
  BY DEF HomePoll, SessionBegins, SessionEnds, Lose, vars, pages
<1> QED
  BY <1>1, <1>2, <1>3, <1>4, <1>5, <1>6, <1>7 DEF Next

(* A page whose last answer had a session shows it, through lost answers,    *)
(* late ones and the seconds in which the service cannot be reached.        *)
THEOREM VisibleSession == Spec => []SessionStaysVisible
<1>1. Init => Shown
  BY DEF Init, FreshHome, Shown
<1> QED
  BY <1>1, TypesInit, TypesStep, ShownStep, ShownImplies, PTL DEF Spec

-----------------------------------------------------------------------------
(* Only a save adds to the stored schedules, and what it adds overlaps      *)
(* nothing stored; the converse needs that overlapping is symmetric.        *)
LEMMA NoTwinsStep == Types /\ NoTwinSchedules /\ [Next]_vars => NoTwinSchedules'
<1> SUFFICES ASSUME Types, NoTwinSchedules, [Next]_vars PROVE NoTwinSchedules'
  OBVIOUS
<1>1. ASSUME schedules' \subseteq schedules PROVE NoTwinSchedules'
  BY <1>1 DEF NoTwinSchedules, Overlaps
<1>2. ASSUME NEW c \in calls, ServeSave(c) PROVE NoTwinSchedules'
  <2> DEFINE new == c.arg.schedule
  <2>1. CASE schedules' = schedules
    BY <1>1, <2>1
  <2>2. CASE schedules' # schedules
    <3>1. /\ schedules' = {s \in schedules : s.id # new.id} \cup {new}
          /\ ~Overlaps(new, schedules)
      BY <1>2, <2>2 DEF ServeSave, Accepts
    <3>2. new \in Schedules /\ schedules \subseteq Schedules
      BY <1>2 DEF Types, ServiceOK, CallsOK, CallOK, ArgOK, ServeSave, Serve
    <3>3. \A s, o \in schedules' :
            o.id # s.id => o.slot \notin Meets[s.slot]
      <4> SUFFICES ASSUME NEW s \in schedules', NEW o \in schedules',
                          o.id # s.id
                   PROVE  o.slot \notin Meets[s.slot]
        OBVIOUS
      <4>1. s.slot \in Slots /\ o.slot \in Slots
        BY <3>1, <3>2 DEF Schedules
      <4>2. CASE s = new
        BY <3>1, <4>2 DEF Overlaps
      <4>3. CASE o = new
        <5>1. s \in schedules
          BY <3>1, <4>3
        <5>2. s.slot \notin Meets[o.slot]
          BY <3>1, <4>3, <5>1 DEF Overlaps
        <5> QED
          BY <4>1, <5>2, DesktopAppAssumption
      <4>4. CASE s # new /\ o # new
        BY <3>1, <4>4 DEF NoTwinSchedules, Overlaps
      <4> QED
        BY <4>2, <4>3, <4>4
    <3> QED
      BY <3>3 DEF NoTwinSchedules, Overlaps
  <2> QED
    BY <2>1, <2>2
<1>3. Serves => schedules' \subseteq schedules \/ \E c \in calls : ServeSave(c)
  BY DEF Serves, ServeStart, ServeStop, ServeDelete, ServeStatus, ServeList,
         service
<1>4. Answers => schedules' = schedules
  BY DEF Answers, StatusAnswered, ActionAnswered, ListAnswered, Checked,
         SaveAnswered, DeleteAnswered, service
<1>5. User => schedules' = schedules
  BY DEF User, HandleStartSession, StopSession, CancelEdit, SaveSchedule,
         BeginEdit, RemoveSchedule, Navigate, service
<1>6. HomePoll \/ SessionBegins \/ SessionEnds \/ UNCHANGED vars
        \/ (\E c \in calls : Lose(c)) => schedules' = schedules
  BY DEF HomePoll, SessionBegins, SessionEnds, Lose, vars, service
<1> QED
  BY <1>1, <1>2, <1>3, <1>4, <1>5, <1>6 DEF Next

(* However many saves are under way, in whatever order they are handled, no *)
(* two stored schedules overlap.                                            *)
THEOREM NoTwins == Spec => []NoTwinSchedules
<1>1. Init => NoTwinSchedules
  BY DEF Init, NoTwinSchedules
<1> QED
  BY <1>1, TypesInit, TypesStep, NoTwinsStep, PTL DEF Spec
=============================================================================
