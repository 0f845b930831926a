----------------------------- MODULE PopupHome -----------------------------
(***************************************************************************)
(* The Home page of the popup beside the worker: what it has read of the   *)
(* session and the challenge, its status reads under way, the gate it      *)
(* shows, and a popup that closes and opens at any time.  Of the worker    *)
(* this module keeps what the page can see: sessions begin and end by      *)
(* themselves or by message, one write at a time (ServiceWorker).          *)
(***************************************************************************)
EXTENDS ChallengeGate, Sequences

CONSTANTS
  Types,      \* the challenges stop_challenge may draw
  Challenged, \* the modes whose stop is challenged
  MaxSessions, MaxOpens, MaxProbes, MaxMessages, MaxFailures

ASSUME PopupHomeAssumption == Types \subseteq Exercises

VARIABLES
  session, challenge,            \* storage
  changed,                       \* onChanged undelivered
  messages, unchallenge,         \* to the worker; the second write of a stop
  opens, page,                   \* the popup's component state
  waiting, reading,              \* getStatus: before and between its reads
  nextSession, failures

storage == <<session, challenge, changed, nextSession>>
probes  == <<waiting, reading>>
view    == <<page, gate, effort, opens>>
vars == <<storage, probes, view, messages, unchallenge, failures>>

Modes == {"blocklist", "lockdown"}
Session(mode) == [id |-> nextSession, mode |-> mode]

Fresh ==
  [open |-> TRUE, phase |-> "loading", degraded |-> FALSE, session |-> None,
   challenge |-> None, settings |-> FALSE, input |-> None]
Closed == [Fresh EXCEPT !.open = FALSE]

Init ==
  /\ session = None /\ challenge = None /\ changed = FALSE /\ nextSession = 1
  /\ messages = <<>> /\ unchallenge = FALSE
  /\ opens = 0 /\ page = Closed /\ gate = None /\ effort = 0
  /\ waiting = 0 /\ reading = <<>> /\ failures = 0

(* What is on the screen.                                                   *)
Gated(p) == p.open /\ p.phase = "ready" /\ p.challenge # None /\ p.settings
Screen(p) ==
  IF ~p.open THEN "closed" ELSE IF p.phase # "ready" THEN p.phase
  ELSE IF Gated(p) THEN "gate" ELSE IF p.session # None THEN "session"
  ELSE IF p.input # None THEN "input" ELSE "idle"

(* React mounts the gate with the first render that shows it and another    *)
(* exercise when the type changes                                           *)
ShowsOver(p) ==
  /\ page' = p
  /\ IF gate = None /\ Gated(p) THEN gate' = Mounted(p.challenge) /\ effort' = 0
     ELSE UNCHANGED <<gate, effort>>
Shows(p) ==
  /\ page' = p
  /\ IF ~Gated(p) THEN gate' = None /\ effort' = 0
     ELSE IF gate = None THEN gate' = Mounted(p.challenge) /\ effort' = 0
     ELSE IF gate.type # p.challenge
          THEN /\ gate' = [Mounted(p.challenge) EXCEPT !.clicks = gate.clicks]
               /\ effort' = 0
     ELSE UNCHANGED <<gate, effort>>

Room    == waiting + Len(reading) < MaxProbes
Fetch   == Room /\ waiting' = waiting + 1 /\ UNCHANGED reading
NoFetch == UNCHANGED probes

-----------------------------------------------------------------------------
(* The popup opens and closes.                                              *)

Open ==
  /\ ~page.open /\ opens < MaxOpens /\ opens' = opens + 1
  /\ Shows(Fresh)
  /\ waiting' = 1 /\ reading' = <<>>
  /\ UNCHANGED <<storage, messages, unchallenge, failures>>

(* messages are still handled, their answers and reads are not              *)
Close ==
  /\ page.open /\ Shows(Closed)
  /\ waiting' = 0 /\ reading' = <<>>
  /\ messages' = [i \in DOMAIN messages |-> [messages[i] EXCEPT !.answered = FALSE]]
  /\ UNCHANGED <<storage, unchallenge, opens, failures>>

SettingsLoaded ==
  /\ page.open /\ ~page.settings
  /\ Shows([page EXCEPT !.settings = TRUE])
  /\ UNCHANGED <<storage, probes, messages, unchallenge, opens, failures>>

OnStorageChanged ==
  /\ changed /\ changed' = FALSE
  /\ IF page.open THEN Fetch ELSE NoFetch
  /\ UNCHANGED <<session, challenge, nextSession, view, messages, unchallenge,
                 failures>>

-----------------------------------------------------------------------------
(* getStatus: its two reads; the storage answers in the order it is asked.  *)

ReadSession ==
  /\ waiting > 0 /\ waiting' = waiting - 1
  /\ reading' = Append(reading, session)
  /\ UNCHANGED <<storage, view, messages, unchallenge, failures>>

ReadChallenge(p) ==
  [p EXCEPT !.session = Head(reading), !.challenge = challenge]

(* fetchStatus: a good answer                                               *)
RecordStatus ==
  /\ reading # <<>>
  /\ Shows([ReadChallenge(page) EXCEPT !.phase = "ready", !.degraded = FALSE])
  /\ reading' = Tail(reading)
  /\ UNCHANGED <<storage, waiting, messages, unchallenge, opens, failures>>

(* fetchStatus: a read that failed; statusRef is the latest status          *)
UnavailableAtMount(p) == [p EXCEPT !.phase = "unreachable"]
Unavailable(p) ==
  IF p.session # None THEN [p EXCEPT !.degraded = TRUE, !.phase = "ready"]
  ELSE [p EXCEPT !.phase = "unreachable"]
FetchFails ==
  /\ waiting > 0 /\ failures < MaxFailures
  /\ waiting' = waiting - 1 /\ failures' = failures + 1
  /\ Shows(Unavailable(page))
  /\ UNCHANGED <<storage, reading, messages, unchallenge, opens>>

Retry ==
  /\ Screen(page) = "unreachable"
  /\ Shows([page EXCEPT !.phase = "loading"])
  /\ Fetch
  /\ UNCHANGED <<storage, messages, unchallenge, opens, failures>>

-----------------------------------------------------------------------------
(* Buttons.                                                                 *)

Send(type, mode) ==
  messages' = Append(messages, [type |-> type, mode |-> mode, answered |-> TRUE])
Quiet == Len(messages) < MaxMessages

ChooseMode(mode) ==
  /\ Screen(page) = "idle"
  /\ Shows([page EXCEPT !.input = mode])
  /\ UNCHANGED <<storage, probes, messages, unchallenge, opens, failures>>

InputShown == Screen(page) = "input"
LeaveInput ==
  /\ InputShown /\ Shows([page EXCEPT !.input = None])
  /\ UNCHANGED <<storage, probes, messages, unchallenge, opens, failures>>

StartConfiguredSession ==
  /\ InputShown /\ Quiet
  /\ Send("start", page.input)
  /\ UNCHANGED <<storage, probes, view, unchallenge, failures>>

ShouldTriggerStopChallenge(mode) == page.settings /\ mode \in Challenged

SessionShown == Screen(page) = "session"
StopSession ==
  /\ SessionShown /\ Quiet
  /\ IF ShouldTriggerStopChallenge(page.session.mode)
     THEN /\ \E type \in Types : challenge' = type
          /\ changed' = TRUE /\ Fetch /\ UNCHANGED messages
     ELSE Send("stop", None) /\ NoFetch /\ UNCHANGED <<challenge, changed>>
  /\ UNCHANGED <<session, nextSession, view, unchallenge, failures>>

GateProgress ==
  /\ gate # None /\ Progress
  /\ UNCHANGED <<storage, probes, page, opens, messages, unchallenge, failures>>

OnSuccess ==
  /\ gate # None /\ Quiet /\ Succeeds
  /\ Send("stop", None)
  /\ UNCHANGED <<storage, probes, page, opens, unchallenge, failures>>

OnCancel ==
  /\ gate # None
  /\ challenge' = None /\ changed' = (changed \/ challenge # None)
  /\ Fetch
  /\ UNCHANGED <<session, nextSession, view, messages, unchallenge, failures>>

-----------------------------------------------------------------------------
(* The worker.                                                              *)

Answered == IF Head(messages).answered THEN Fetch ELSE NoFetch

HandleStart ==
  /\ messages # <<>> /\ Head(messages).type = "start" /\ ~unchallenge
  /\ messages' = Tail(messages)
  /\ IF session = None /\ nextSession <= MaxSessions
     THEN /\ session' = Session(Head(messages).mode)
          /\ nextSession' = nextSession + 1 /\ changed' = TRUE
          /\ Answered
          /\ IF Head(messages).answered THEN Shows([page EXCEPT !.input = None])
             ELSE UNCHANGED <<page, gate, effort>>
     ELSE NoFetch /\ UNCHANGED <<session, nextSession, changed, page, gate, effort>>
  /\ UNCHANGED <<challenge, unchallenge, opens, failures>>

HandleStop ==
  /\ messages # <<>> /\ Head(messages).type = "stop" /\ ~unchallenge
  /\ IF session # None
     THEN /\ session' = None /\ changed' = TRUE /\ unchallenge' = TRUE
          /\ NoFetch /\ UNCHANGED messages
     ELSE /\ messages' = Tail(messages) /\ Answered
          /\ UNCHANGED <<session, changed, unchallenge>>
  /\ UNCHANGED <<challenge, nextSession, view, failures>>

FinishStopUnseen ==
  /\ unchallenge /\ unchallenge' = FALSE
  /\ challenge' = None /\ messages' = Tail(messages) /\ Answered
  /\ UNCHANGED <<session, changed, nextSession, view, failures>>
FinishStop ==
  /\ unchallenge /\ unchallenge' = FALSE
  /\ challenge' = None /\ changed' = (changed \/ challenge # None)
  /\ messages' = Tail(messages) /\ Answered
  /\ UNCHANGED <<session, nextSession, view, failures>>

(* an expiry, a schedule's end, or the one a status request asks for        *)
SessionEnds ==
  /\ session # None /\ ~unchallenge
  /\ session' = None /\ changed' = TRUE
  /\ UNCHANGED <<challenge, nextSession, probes, view, messages, unchallenge,
                 failures>>
(* a schedule's start, which ends the session that runs                     *)
ScheduleStarts(mode) ==
  /\ nextSession <= MaxSessions /\ ~unchallenge
  /\ session' = Session(mode) /\ nextSession' = nextSession + 1 /\ changed' = TRUE
  /\ UNCHANGED <<challenge, probes, view, messages, unchallenge, failures>>

Next ==
  \/ Open \/ Close \/ SettingsLoaded \/ OnStorageChanged \/ ReadSession
  \/ RecordStatus \/ FetchFails \/ Retry \/ LeaveInput
  \/ StartConfiguredSession \/ StopSession
  \/ GateProgress \/ OnSuccess \/ OnCancel \/ HandleStart \/ HandleStop
  \/ FinishStop \/ SessionEnds
  \/ \E mode \in Modes : ChooseMode(mode) \/ ScheduleStarts(mode)

Spec == Init /\ [][Next]_vars

-----------------------------------------------------------------------------
(* Properties.                                                              *)

(* The types of storage, page, gate and reads.                              *)
Seen == [id : Nat, mode : Modes] \cup {None}
TypeOK ==
  /\ session \in Seen /\ challenge \in Types \cup {None}
  /\ page.session \in Seen /\ page.challenge \in Types \cup {None}
  /\ page.phase \in {"loading", "ready", "unreachable"}
  /\ page.input \in Modes \cup {None}
  /\ (gate # None) = Gated(page) /\ effort \in Nat
  /\ waiting \in Nat /\ \A i \in DOMAIN reading : reading[i] \in Seen

(* The gate grants a stop for the whole of its exercise since the popup     *)
(* opened and since the last mistake, or for the clicks on its title: no    *)
(* timer, click or submit that arrives between two renders shortens it.     *)
StopsAreEarned ==
  [][gate # None /\ Len(messages') > Len(messages) =>
       Enough(gate.type, effort') \/ gate'.clicks >= Clicks]_vars

(* "Last-known-good status. Kept during transient failures so an active     *)
(* session keeps rendering instead of snapping to a fake idle state"        *)
(* (Home.tsx:27): while the last answer had a session, it is shown.         *)
SessionStaysVisible ==
  page.open /\ page.session # None => Screen(page) \in {"session", "gate"}

(* Nothing is polled, and yet: when reads, answers and events have come to  *)
(* rest and no read has failed, the page shows the session and the          *)
(* challenge that are stored.                                               *)
AtRest ==
  /\ page.open /\ page.phase = "ready" /\ failures = 0
  /\ waiting = 0 /\ reading = <<>> /\ ~changed /\ messages = <<>>
ShowsWhatIsStored ==
  AtRest => page.session = session /\ page.challenge = challenge
=============================================================================
