--------------------------- MODULE PopupHomeProofs ---------------------------
(***************************************************************************)
(* PopupHome, for all lengths of its exercises and whatever arrives while  *)
(* the page renders: its types, that the gate lets no stop through         *)
(* unearned, that a session once seen stays visible, and that a page at    *)
(* rest shows what is stored.                                              *)
(***************************************************************************)
EXTENDS PopupHome, SequenceTheorems, TLAPS

-----------------------------------------------------------------------------
(* The right clicks of all patterns shorter than n.                         *)
Before(n) == ((FirstLength + n - 1) * (n - FirstLength)) \div 2

(* before the first pattern nothing was clicked                            *)
LEMMA BeforeFirst == Before(FirstLength) = 0
<1>1. FirstLength - FirstLength = 0 /\ FirstLength + FirstLength - 1 \in Int
  BY ChallengeGateAssumption
<1>2. \A m \in Int : (m * 0) \div 2 = 0
  OBVIOUS
<1> QED
  BY <1>1, <1>2 DEF Before

(* the next pattern adds its length                                        *)
LEMMA BeforeNext ==
  ASSUME NEW n \in Nat PROVE Before(n + 1) = Before(n) + n /\ Before(n) \in Int
<1> DEFINE f == FirstLength
           a == (f + n - 1) * (n - f)
           b == (f + (n + 1) - 1) * ((n + 1) - f)
<1>1. f \in Int /\ n \in Int
  BY ChallengeGateAssumption
<1>2. b = a + 2 * n /\ a \in Int
  BY <1>1
<1>3. \A x \in Int : (x + 2 * n) \div 2 = (x \div 2) + n /\ x \div 2 \in Int
  BY <1>1
<1>4. Before(n + 1) = b \div 2 /\ Before(n) = a \div 2
  BY DEF Before
<1> HIDE DEF a, b
<1> QED
  BY <1>2, <1>3, <1>4

(* The clicks of all patterns are what the whole exercise asks for.        *)
LEMMA EnoughPattern ==
  \A e : Enough("pattern", e) <=> e >= Before(LastLength) + LastLength
<1>1. Before(LastLength + 1) = Before(LastLength) + LastLength
  BY BeforeNext, ChallengeGateAssumption
<1>2. /\ FirstLength + (LastLength + 1) - 1 = FirstLength + LastLength
      /\ (LastLength + 1) - FirstLength = LastLength - FirstLength + 1
  BY ChallengeGateAssumption
<1>3. Before(LastLength + 1)
        = ((FirstLength + LastLength) * (LastLength - FirstLength + 1)) \div 2
  BY <1>2 DEF Before
<1> QED
  BY <1>1, <1>3 DEF Enough

-----------------------------------------------------------------------------
(* What the state of a mounted exercise says about the effort since then.   *)

Worked(type, work, right) ==
  /\ type = "countdown" => work \in [left : Nat] /\ work.left + right >= Seconds
  /\ type \in {"typing", "reflection"} =>
       work \in [valid : BOOLEAN] /\ (work.valid => right >= 1)
  /\ type = "math" =>
       work \in [solved : Nat, wrong : BOOLEAN] /\ (~work.wrong => right >= work.solved)
  /\ type = "pattern" =>
       /\ work \in [length : FirstLength..LastLength, done : Nat,
                    phase : {"playing", "input", "cleared", "wrong"}]
       /\ work.phase = "playing" => work.done = 0
       /\ work.phase = "cleared" => work.done = work.length /\ work.length < LastLength
       /\ work.phase # "wrong" => right >= Before(work.length) + work.done
IsGate(g, right) ==
  /\ g \in [type : Exercises, clicks : Nat, work : {g.work}]
  /\ Worked(g.type, g.work, right)
GateOK == gate # None => IsGate(gate, effort)

(* what is mounted is something *)
LEMMA GateIsSome == ASSUME NEW g, NEW right, IsGate(g, right) PROVE g # None
<1>1. g.work \in Works
  BY ChallengeGateAssumption DEF IsGate, Worked, Works, Exercises
<1>2. g \in Gates
  BY <1>1 DEF IsGate, Gates
<1> QED
  BY <1>2, ChallengeGateAssumption

(* an exercise just mounted asks for all of its work                       *)
LEMMA MountedWorked ==
  ASSUME NEW type \in Exercises, NEW right \in Nat
  PROVE  Worked(type, Exercise(type), right)
<1>. USE ChallengeGateAssumption
<1>1. CASE type = "countdown"
  <2>1. Exercise(type) = [left |-> Seconds]
    BY <1>1 DEF Exercise
  <2> QED BY <1>1, <2>1 DEF Worked
<1>2. CASE type \in {"typing", "reflection"}
  <2>1. Exercise(type) = [valid |-> FALSE]
    BY <1>2 DEF Exercise
  <2> QED BY <1>2, <2>1 DEF Worked
<1>3. CASE type = "pattern"
  <2> DEFINE first == [length |-> FirstLength, done |-> 0, phase |-> "playing"]
  <2>1. Exercise(type) = first
    BY <1>3 DEF Exercise
  <2>2. first \in [length : FirstLength..LastLength, done : Nat,
                   phase : {"playing", "input", "cleared", "wrong"}]
    OBVIOUS
  <2>3. first.length = FirstLength /\ first.done = 0 /\ first.phase = "playing"
    OBVIOUS
  <2>4. right >= Before(FirstLength) + 0
    BY BeforeFirst
  <2> HIDE DEF first
  <2> QED BY <1>3, <2>1, <2>2, <2>3, <2>4 DEF Worked
<1>4. CASE type = "math"
  <2> DEFINE first == [solved |-> 0, wrong |-> FALSE]
  <2>1. Exercise(type) = first
    BY <1>4 DEF Exercise
  <2>2. first \in [solved : Nat, wrong : BOOLEAN] /\ first.solved = 0
    OBVIOUS
  <2> HIDE DEF first
  <2> QED BY <1>4, <2>1, <2>2 DEF Worked
<1> QED
  BY <1>1, <1>2, <1>3, <1>4 DEF Exercises

(* An exercise that goes on: its next state and the effort it counts.       *)
LEMMA WorkOK ==
  ASSUME GateOK, gate # None, NEW work, NEW right, Work(work, right),
         Worked(gate.type, work, right)
  PROVE  IsGate(gate', effort')
<1>1. gate' = [gate EXCEPT !.work = work] /\ effort' = right
  BY DEF Work
<1>2. gate' \in [type : {gate.type}, clicks : {gate.clicks}, work : {work}]
  BY <1>1 DEF GateOK, IsGate
<1> QED
  BY <1>1, <1>2 DEF GateOK, IsGate

(* The steps of the exercises, those that end one included.                 *)
LEMMA ProgressOK ==
  ASSUME GateOK, gate # None, effort \in Nat, Progress \/ Succeeds
  PROVE  IsGate(gate', effort') /\ effort' \in Nat
<1> DEFINE work == gate.work
<1>0. /\ gate.type \in Exercises /\ gate.clicks \in Nat
      /\ Worked(gate.type, work, effort) /\ effort + 1 \in Nat
      /\ gate \in [type : Exercises, clicks : Nat, work : {work}]
  BY DEF GateOK, IsGate
<1>. USE ChallengeGateAssumption DEF At
<1>1. CASE TitleClick \/ Bypass
  <2>1. PICK n \in Nat : gate' = [gate EXCEPT !.clicks = n] /\ effort' = effort
    BY <1>0, <1>1 DEF TitleClick, Bypass
  <2>2. gate' \in [type : {gate.type}, clicks : Nat, work : {work}]
    BY <1>0, <2>1
  <2> QED
    BY <1>0, <2>1, <2>2 DEF GateOK, IsGate
<1>2. CASE UNCHANGED <<gate, effort>>
  BY <1>2 DEF GateOK, IsGate
<1>3. CASE CountdownTick
  <2> DEFINE next == [left |-> work.left - 1]
  <2>1. gate.type = "countdown" /\ Work(next, effort + 1)
    BY <1>3 DEF CountdownTick
  <2>2. work.left \in Nat /\ work.left > 0 /\ work.left + effort >= Seconds
    BY <1>0, <1>3 DEF CountdownTick, Worked
  <2>3. next \in [left : Nat] /\ next.left = work.left - 1
    BY <2>2
  <2>4. Worked(gate.type, next, effort + 1)
    BY <2>1, <2>2, <2>3 DEF Worked
  <2> QED BY <1>0, <2>1, <2>4, WorkOK DEF Work
<1>4. CASE Typing \/ Reflecting
  <2> DEFINE next  == [valid |-> ~work.valid]
             right == IF work.valid THEN 0 ELSE 1
  <2>1. gate.type \in {"typing", "reflection"} /\ Work(next, right)
    BY <1>4 DEF Typing, Reflecting, Edit
  <2>2. work.valid \in BOOLEAN
    BY <1>0, <2>1 DEF Worked
  <2>3. next \in [valid : BOOLEAN] /\ (next.valid => ~work.valid)
    BY <2>2
  <2>4. right \in Nat /\ (~work.valid => right >= 1)
    BY <2>2
  <2> HIDE DEF next, right
  <2>5. Worked(gate.type, next, right)
    BY <2>1, <2>3, <2>4 DEF Worked
  <2> QED BY <1>0, <2>1, <2>4, <2>5, WorkOK DEF Work
<1>5. CASE PatternPlayed \/ PatternRight \/ PatternWrong \/ NextPattern \/ PatternDone
  <2> DEFINE Stage == [length : FirstLength..LastLength, done : Nat,
                       phase : {"playing", "input", "cleared", "wrong"}]
  <2>1. /\ gate.type = "pattern" /\ work \in Stage
        /\ work.length \in Nat /\ Before(work.length) \in Int
        /\ work.phase # "wrong" => effort >= Before(work.length) + work.done
        /\ work.phase = "playing" => work.done = 0
        /\ work.phase = "cleared" => work.done = work.length /\ work.length < LastLength
    <3>1. gate.type = "pattern"
      BY <1>5 DEF PatternPlayed, PatternRight, PatternWrong, NextPattern, PatternDone
    <3>2. work \in Stage
      BY <1>0, <3>1 DEF Worked
    <3>3. work.length \in Nat
      BY <3>2
    <3> QED BY <1>0, <3>1, <3>2, <3>3, BeforeNext DEF Worked
  <2>2. ASSUME NEW next \in Stage, NEW right \in Nat, Work(next, right),
               next.phase = "playing" => next.done = 0,
               next.phase = "cleared" => next.done = next.length /\ next.length < LastLength,
               next.phase # "wrong" => right >= Before(next.length) + next.done
        PROVE  IsGate(gate', effort') /\ effort' \in Nat
    <3>1. Worked(gate.type, next, right)
      BY <2>1, <2>2 DEF Worked
    <3> QED BY <2>2, <3>1, WorkOK DEF Work
  <2>3. CASE PatternPlayed
    <3> DEFINE next == [work EXCEPT !.phase = "input"]
    <3>1. Work(next, effort) /\ work.phase = "playing"
      BY <2>3 DEF PatternPlayed
    <3>2. next \in Stage /\ next.phase = "input" /\ next.done = work.done
          /\ next.length = work.length
      BY <2>1
    <3> HIDE DEF next
    <3> QED BY <2>1, <2>2, <3>1, <3>2
  <2>4. CASE PatternRight
    <3> DEFINE phase == IF Completes THEN "cleared" ELSE work.phase
               more  == [work EXCEPT !.done = work.done + 1]
               next  == [more EXCEPT !.phase = phase]
    <3>1. Work(next, effort + 1) /\ work.phase = "input"
          /\ (Completes => work.length < LastLength)
      BY <2>1, <2>4, <1>0 DEF PatternRight
    <3>a. more \in Stage /\ more.done = work.done + 1 /\ more.length = work.length
      BY <2>1
    <3>b. phase \in {"cleared", "input"} /\ phase = IF Completes THEN "cleared" ELSE "input"
      BY <3>1
    <3> HIDE DEF more, phase
    <3>2. next \in Stage /\ next.done = work.done + 1 /\ next.length = work.length
          /\ next.phase = IF Completes THEN "cleared" ELSE "input"
      BY <3>a, <3>b
    <3>3. Completes => work.done + 1 = work.length
      BY DEF Completes
    <3>4. effort + 1 >= Before(work.length) + (work.done + 1) /\ work.done \in Nat
      BY <2>1, <3>1
    <3> HIDE DEF next
    <3> QED BY <1>0, <2>2, <3>1, <3>2, <3>3, <3>4
  <2>5. CASE PatternWrong
    <3> DEFINE next == [work EXCEPT !.phase = "wrong"]
    <3>1. Work(next, 0)
      BY <2>5 DEF PatternWrong
    <3>2. next \in Stage /\ next.phase = "wrong"
      BY <2>1
    <3> HIDE DEF next
    <3> QED BY <2>2, <3>1, <3>2
  <2>6. CASE NextPattern
    <3> DEFINE next == [length |-> work.length + 1, done |-> 0, phase |-> "playing"]
    <3>1. Work(next, effort) /\ work.phase = "cleared"
      BY <2>6 DEF NextPattern
    <3>2. work.length + 1 \in FirstLength..LastLength
      BY <2>1, <3>1
    <3>3. next \in Stage /\ next.phase = "playing" /\ next.done = 0
          /\ next.length = work.length + 1
      BY <3>2
    <3>4. effort >= Before(work.length + 1) + 0
      BY <2>1, <3>1, BeforeNext
    <3> HIDE DEF next
    <3> QED BY <2>2, <3>1, <3>3, <3>4
  <2>7. CASE PatternDone
    <3> DEFINE next == [work EXCEPT !.done = work.done + 1]
    <3>1. Work(next, effort + 1) /\ work.phase = "input"
      BY <2>7 DEF PatternDone
    <3>2. next \in Stage /\ next.phase = "input" /\ next.done = work.done + 1
          /\ next.length = work.length
      BY <2>1, <3>1
    <3>3. effort + 1 >= Before(work.length) + (work.done + 1)
      BY <2>1, <3>1
    <3> HIDE DEF next
    <3> QED BY <1>0, <2>2, <3>1, <3>2, <3>3
  <2> QED BY <1>5, <2>3, <2>4, <2>5, <2>6, <2>7
<1>6. CASE RestartPattern \/ MathReset
  <2>1. Work(Exercise(gate.type), effort)
    BY <1>6 DEF RestartPattern, MathReset
  <2>2. Worked(gate.type, Exercise(gate.type), effort)
    BY <1>0, MountedWorked
  <2> QED BY <2>1, <2>2, WorkOK DEF Work
<1>7. CASE MathRight \/ MathWrong
  <2>1. gate.type = "math" /\ ~work.wrong
    BY <1>7 DEF MathRight, MathWrong, Answering
  <2>2. work \in [solved : Nat, wrong : BOOLEAN] /\ effort >= work.solved
    BY <1>0, <2>1 DEF Worked
  <2>3. CASE MathRight
    <3> DEFINE next == [work EXCEPT !.solved = work.solved + 1]
    <3>1. Work(next, effort + 1)
      BY <2>3 DEF MathRight
    <3>2. next \in [solved : Nat, wrong : BOOLEAN] /\ next.solved = work.solved + 1
      BY <2>2
    <3> HIDE DEF next
    <3>3. Worked(gate.type, next, effort + 1)
      BY <2>1, <2>2, <3>2 DEF Worked
    <3> QED BY <1>0, <3>1, <3>3, WorkOK DEF Work
  <2>4. CASE MathWrong
    <3> DEFINE next == [work EXCEPT !.wrong = TRUE]
    <3>1. Work(next, 0)
      BY <2>4 DEF MathWrong
    <3>2. next \in [solved : Nat, wrong : BOOLEAN] /\ next.wrong
      BY <2>2
    <3> HIDE DEF next
    <3>3. Worked(gate.type, next, 0)
      BY <2>1, <3>2 DEF Worked
    <3> QED BY <3>1, <3>3, WorkOK DEF Work
  <2> QED BY <1>7, <2>3, <2>4
<1>8. CASE MathDone
  <2>1. gate' = gate /\ effort' \in Nat /\ effort' >= effort /\ gate.type = "math"
    BY <1>0, <1>8 DEF MathDone, Answering
  <2>2. Worked(gate.type, work, effort')
    BY <1>0, <2>1 DEF Worked
  <2> QED BY <1>0, <2>1, <2>2 DEF GateOK, IsGate
<1> QED
  BY <1>1, <1>2, <1>3, <1>4, <1>5, <1>6, <1>7, <1>8
     DEF Progress, Succeeds, EndCountdown, EndTyping, EndReflection

(* A step that calls onSuccess has earned it.                               *)
LEMMA Earned ==
  ASSUME GateOK, gate # None, effort \in Nat, Succeeds
  PROVE  Enough(gate.type, effort') \/ gate'.clicks >= Clicks
<1> DEFINE work == gate.work
<1>0. /\ gate.type \in Exercises /\ gate.clicks \in Nat
      /\ Worked(gate.type, work, effort)
      /\ gate \in [type : Exercises, clicks : Nat, work : {work}]
  BY DEF GateOK, IsGate
<1>. USE ChallengeGateAssumption DEF At
<1>1. CASE Bypass
  BY <1>0, <1>1 DEF Bypass
<1>2. CASE EndCountdown
  <2>1. gate.type = "countdown" /\ work.left = 0 /\ effort' = effort
    BY <1>2 DEF EndCountdown
  <2>2. effort >= Seconds
    BY <1>0, <2>1 DEF Worked
  <2> QED BY <2>1, <2>2 DEF Enough
<1>3. CASE EndTyping \/ EndReflection
  <2>1. gate.type \in {"typing", "reflection"} /\ work.valid /\ effort' = effort
    BY <1>3 DEF EndTyping, EndReflection
  <2>2. effort >= 1
    BY <1>0, <2>1 DEF Worked
  <2> QED BY <2>1, <2>2 DEF Enough
<1>4. CASE PatternDone
  <2>1. /\ gate.type = "pattern" /\ effort' = effort + 1 /\ work.phase = "input"
        /\ work.done + 1 = work.length /\ work.length >= LastLength
    BY <1>4 DEF PatternDone, Completes, Work
  <2>2. /\ work.length \in FirstLength..LastLength /\ work.done \in Nat
        /\ effort >= Before(work.length) + work.done
    BY <1>0, <2>1 DEF Worked
  <2>3. work.length = LastLength /\ Before(LastLength) \in Int
    BY <2>1, <2>2, BeforeNext
  <2>4. effort' >= Before(LastLength) + LastLength
    BY <2>1, <2>2, <2>3
  <2> QED BY <2>1, <2>4, EnoughPattern
<1>5. CASE MathDone
  <2>1. /\ gate.type = "math" /\ ~work.wrong /\ work.solved + 1 >= Answers
        /\ effort' = IF effort < Answers THEN effort + 1 ELSE effort
    BY <1>5 DEF MathDone, Answering
  <2>2. work.solved \in Nat /\ effort >= work.solved
    BY <1>0, <2>1 DEF Worked
  <2>3. effort' >= Answers
    BY <2>1, <2>2
  <2> QED BY <2>1, <2>3 DEF Enough
<1> QED
  BY <1>1, <1>2, <1>3, <1>4, <1>5 DEF Succeeds

-----------------------------------------------------------------------------
(* The page around the gate.                                                *)

Pages(seen) ==
  [open : BOOLEAN, phase : {"loading", "ready", "unreachable"},
   degraded : BOOLEAN, session : {seen}, challenge : Types \cup {None},
   settings : BOOLEAN, input : Modes \cup {None}]
PageOK(p) ==
  p \in Pages(p.session) /\ (p.session # None => p.phase = "ready")

Messages == [type : {"start"}, mode : Modes, answered : BOOLEAN]
              \cup [type : {"stop"}, mode : {None}, answered : BOOLEAN]

Inv ==
  /\ challenge \in Types \cup {None} /\ messages \in Seq(Messages)
  /\ unchallenge => messages # <<>>
  /\ PageOK(page)
  /\ GateOK /\ effort \in Nat /\ (gate # None <=> Gated(page))

(* A page that is shown mounts its gate whole, keeps it or drops it.        *)
LEMMA ShowsOK ==
  ASSUME NEW p, PageOK(p), GateOK, effort \in Nat, Shows(p)
  PROVE  /\ PageOK(page)' /\ GateOK' /\ effort' \in Nat
         /\ (gate # None <=> Gated(page))'
<1>1. page' = p
  BY DEF Shows
<1>2. CASE ~Gated(p)
  BY <1>1, <1>2 DEF Shows, GateOK, IsGate, Gated
<1>3. CASE Gated(p) /\ gate # None /\ gate.type = p.challenge
  BY <1>1, <1>3 DEF Shows, GateOK, IsGate
<1>4. CASE Gated(p) /\ ~(gate # None /\ gate.type = p.challenge)
  <2>1. p.challenge \in Exercises
    BY <1>4, PopupHomeAssumption DEF Gated, PageOK, Pages
  <2>2. \E n \in Nat : gate' = [Mounted(p.challenge) EXCEPT !.clicks = n] /\ effort' = 0
    <3>1. CASE gate = None
      <4>1. gate' = Mounted(p.challenge) /\ effort' = 0
        BY <1>4, <3>1 DEF Shows
      <4>2. Mounted(p.challenge) = [Mounted(p.challenge) EXCEPT !.clicks = 0]
        BY DEF Mounted
      <4> QED BY <4>1, <4>2
    <3>2. CASE gate # None
      <4>1. gate' = [Mounted(p.challenge) EXCEPT !.clicks = gate.clicks] /\ effort' = 0
        BY <1>4, <3>2 DEF Shows
      <4> QED BY <3>2, <4>1 DEF GateOK, IsGate
    <3> QED BY <3>1, <3>2
  <2>3. PICK n \in Nat : gate' = [Mounted(p.challenge) EXCEPT !.clicks = n] /\ effort' = 0
    BY <2>2
  <2>4. gate' \in [type : {p.challenge}, clicks : Nat, work : {Exercise(p.challenge)}]
    BY <2>3 DEF Mounted
  <2>5. Worked(p.challenge, Exercise(p.challenge), 0)
    BY <2>1, MountedWorked
  <2>6. IsGate(gate', effort')
    BY <2>1, <2>3, <2>4, <2>5 DEF IsGate
  <2>7. (gate # None)'
    BY <2>6, GateIsSome
  <2> QED BY <1>1, <1>4, <2>3, <2>6, <2>7 DEF GateOK
<1> QED BY <1>2, <1>3, <1>4

Typed(p) == p \in Pages(p.session)

(* One field of the page at a time.                                         *)
LEMMA PageFields ==
  ASSUME NEW p, Typed(p)
  PROVE  /\ Typed([p EXCEPT !.settings = TRUE])
         /\ [p EXCEPT !.settings = TRUE].session = p.session
         /\ [p EXCEPT !.settings = TRUE].phase = p.phase
         /\ \A x \in Modes \cup {None} :
              /\ Typed([p EXCEPT !.input = x])
              /\ [p EXCEPT !.input = x].session = p.session
              /\ [p EXCEPT !.input = x].phase = p.phase
         /\ \A x \in {"loading", "ready", "unreachable"} :
              /\ Typed([p EXCEPT !.phase = x])
              /\ [p EXCEPT !.phase = x].session = p.session
              /\ [p EXCEPT !.phase = x].phase = x
         /\ \A x \in BOOLEAN :
              /\ Typed([p EXCEPT !.degraded = x])
              /\ [p EXCEPT !.degraded = x].phase = p.phase
         /\ \A x : Typed([p EXCEPT !.session = x])
         /\ \A x \in Types \cup {None} : Typed([p EXCEPT !.challenge = x])
<1>. USE DEF Typed, Pages
<1>1. /\ Typed([p EXCEPT !.settings = TRUE])
      /\ [p EXCEPT !.settings = TRUE].session = p.session
      /\ [p EXCEPT !.settings = TRUE].phase = p.phase
  OBVIOUS
<1>2. ASSUME NEW x \in Modes \cup {None}
      PROVE  /\ Typed([p EXCEPT !.input = x])
             /\ [p EXCEPT !.input = x].session = p.session
             /\ [p EXCEPT !.input = x].phase = p.phase
  OBVIOUS
<1>3. ASSUME NEW x \in {"loading", "ready", "unreachable"}
      PROVE  /\ Typed([p EXCEPT !.phase = x])
             /\ [p EXCEPT !.phase = x].session = p.session
             /\ [p EXCEPT !.phase = x].phase = x
  OBVIOUS
<1>4. ASSUME NEW x \in BOOLEAN
      PROVE  /\ Typed([p EXCEPT !.degraded = x])
             /\ [p EXCEPT !.degraded = x].phase = p.phase
  OBVIOUS
<1>5. ASSUME NEW x PROVE Typed([p EXCEPT !.session = x])
  OBVIOUS
<1>6. ASSUME NEW x \in Types \cup {None} PROVE Typed([p EXCEPT !.challenge = x])
  OBVIOUS
<1>. HIDE DEF Typed, Pages
<1> QED BY <1>1, <1>2, <1>3, <1>4, <1>5, <1>6

(* The pages the handlers show.                                             *)
LEMMA NextPage ==
  ASSUME PageOK(page), challenge \in Types \cup {None}
  PROVE  /\ PageOK(Fresh) /\ PageOK(Closed)
         /\ PageOK([page EXCEPT !.settings = TRUE])
         /\ \A x \in Modes \cup {None} : PageOK([page EXCEPT !.input = x])
         /\ PageOK([ReadChallenge(page) EXCEPT !.phase = "ready", !.degraded = FALSE])
         /\ PageOK(Unavailable(page))
         /\ Screen(page) = "unreachable" => PageOK([page EXCEPT !.phase = "loading"])
<1>0. Typed(page) /\ (page.session # None => page.phase = "ready")
  BY DEF PageOK, Typed
<1>1. PageOK(Fresh) /\ PageOK(Closed)
  <2>1. Fresh \in Pages(None) /\ Fresh.session = None
    BY DEF Fresh, Pages
  <2>2. Closed \in Pages(None) /\ Closed.session = None
    BY <2>1 DEF Closed, Pages
  <2> QED BY <2>1, <2>2 DEF PageOK
<1>2. \A q : PageOK(q) <=> Typed(q) /\ (q.session # None => q.phase = "ready")
  BY DEF PageOK, Typed
<1>3. PageOK([page EXCEPT !.settings = TRUE])
  <2> DEFINE a == [page EXCEPT !.settings = TRUE]
  <2>1. Typed(a) /\ a.session = page.session /\ a.phase = page.phase
    BY <1>0, PageFields
  <2> HIDE DEF a
  <2> QED BY <1>0, <1>2, <2>1 DEF a
<1>4. ASSUME NEW x \in Modes \cup {None} PROVE PageOK([page EXCEPT !.input = x])
  <2> DEFINE a == [page EXCEPT !.input = x]
  <2>1. Typed(a) /\ a.session = page.session /\ a.phase = page.phase
    BY <1>0, PageFields
  <2> HIDE DEF a
  <2> QED BY <1>0, <1>2, <2>1 DEF a
<1>5. PageOK([ReadChallenge(page) EXCEPT !.phase = "ready", !.degraded = FALSE])
  <2> DEFINE a == [page EXCEPT !.session = Head(reading)]
             b == [a EXCEPT !.challenge = challenge]
             c == [b EXCEPT !.phase = "ready"]
             d == [c EXCEPT !.degraded = FALSE]
  <2>1. Typed(a)
    BY <1>0, PageFields
  <2>2. b = ReadChallenge(page)
    BY DEF ReadChallenge
  <2>3. d = [b EXCEPT !.phase = "ready", !.degraded = FALSE]
    OBVIOUS
  <2> HIDE DEF a
  <2>4. Typed(b)
    BY <2>1, PageFields
  <2> HIDE DEF b
  <2>5. Typed(c) /\ c.phase = "ready"
    BY <2>4, PageFields
  <2> HIDE DEF c
  <2>6. Typed(d) /\ d.phase = "ready"
    BY <2>5, PageFields
  <2> HIDE DEF d
  <2> QED BY <1>2, <2>2, <2>3, <2>6
<1>6. PageOK(Unavailable(page))
  <2>1. CASE page.session # None
    <3> DEFINE a == [page EXCEPT !.degraded = TRUE]
               b == [a EXCEPT !.phase = "ready"]
    <3>1. Typed(a)
      BY <1>0, PageFields
    <3>2. Unavailable(page) = b
      BY <2>1 DEF Unavailable
    <3> HIDE DEF a
    <3>3. Typed(b) /\ b.phase = "ready"
      BY <3>1, PageFields
    <3> HIDE DEF b
    <3> QED BY <1>2, <3>2, <3>3
  <2>2. CASE page.session = None
    <3> DEFINE a == [page EXCEPT !.phase = "unreachable"]
    <3>1. Typed(a) /\ a.session = None
      BY <1>0, <2>2, PageFields
    <3>2. Unavailable(page) = a
      BY <2>2 DEF Unavailable
    <3> HIDE DEF a
    <3> QED BY <1>2, <3>1, <3>2
  <2> QED BY <2>1, <2>2
<1>7. ASSUME Screen(page) = "unreachable" PROVE PageOK([page EXCEPT !.phase = "loading"])
  <2> DEFINE a == [page EXCEPT !.phase = "loading"]
  <2>1. page.phase # "ready"
    BY <1>7 DEF Screen, Gated
  <2>2. Typed(a) /\ a.session = None
    BY <1>0, <2>1, PageFields
  <2> HIDE DEF a
  <2> QED BY <1>2, <2>2 DEF a
<1> QED
  BY <1>1, <1>3, <1>4, <1>5, <1>6, <1>7

-----------------------------------------------------------------------------
(* The invariant, and what a step may do to the queue of messages.          *)

(* the popup starts closed                                                 *)
LEMMA InitInv == Init => Inv
<1> SUFFICES ASSUME Init PROVE Inv
  OBVIOUS
<1>1. Closed \in Pages(None) /\ Closed.session = None
  BY DEF Closed, Fresh, Pages
<1>2. messages \in Seq(Messages)
  BY DEF Init
<1>3. gate = None /\ ~Gated(page)
  BY DEF Init, Gated, Closed, Fresh
<1> QED BY <1>1, <1>2, <1>3 DEF Init, Inv, PageOK, GateOK

(* Of the messages that arrive while the gate is shown, all come from it.   *)
LEMMA StepInv ==
  ASSUME Inv, [Next]_vars
  PROVE  /\ Inv'
         /\ gate # None /\ Len(messages') > Len(messages) =>
              Enough(gate.type, effort') \/ gate'.clicks >= Clicks
<1> DEFINE Earns == gate # None /\ Len(messages') > Len(messages) =>
                      Enough(gate.type, effort') \/ gate'.clicks >= Clicks
           Queue == messages' \in Seq(Messages) /\ (unchallenge' => messages' # <<>>)
           Kept  == Queue /\ ~(gate # None /\ Len(messages') > Len(messages))
<1>  SUFFICES Inv' /\ Earns
  OBVIOUS
<1>0. /\ challenge \in Types \cup {None} /\ messages \in Seq(Messages)
      /\ (unchallenge => messages # <<>>)
      /\ PageOK(page)
      /\ GateOK /\ effort \in Nat /\ (gate # None <=> Gated(page))
  BY DEF Inv
<1>1. Kept => Earns
  OBVIOUS
<1>2. UNCHANGED <<messages, unchallenge>> => Kept
  BY <1>0
<1>3. messages # <<>> /\ messages' = Tail(messages) /\ ~unchallenge' => Kept
  BY <1>0
<1>4. ASSUME NEW p, PageOK(p), Shows(p), challenge' \in Types \cup {None}, Kept
      PROVE  Inv' /\ Earns
  <2>1. PageOK(page)' /\ GateOK' /\ effort' \in Nat /\ (gate # None <=> Gated(page))'
    BY <1>0, <1>4, ShowsOK
  <2>2. Inv'
    BY <1>4, <2>1 DEF Inv, Kept, Queue
  <2> QED BY <2>2, <1>1, <1>4
<1>5. ASSUME UNCHANGED <<page, gate, effort>>, challenge' \in Types \cup {None}, Kept
      PROVE  Inv' /\ Earns
  <2>1. PageOK(page)' /\ GateOK' /\ effort' \in Nat /\ (gate # None <=> Gated(page))'
    BY <1>0, <1>5 DEF GateOK, IsGate, Gated
  <2>2. Inv'
    BY <1>5, <2>1 DEF Inv, Kept, Queue
  <2> QED BY <2>2, <1>1, <1>5
<1>6. ASSUME NEW type, NEW mode, Send(type, mode),
             (type = "start" /\ mode \in Modes) \/ (type = "stop" /\ mode = None)
      PROVE  messages' \in Seq(Messages) /\ messages' # <<>>
  <2> DEFINE message == [type |-> type, mode |-> mode, answered |-> TRUE]
  <2>1. message \in Messages
    BY <1>6 DEF Messages
  <2>2. messages' = Append(messages, message)
    BY <1>6 DEF Send
  <2> HIDE DEF message
  <2> QED BY <1>0, <2>1, <2>2
<1> HIDE DEF Earns, Kept, Queue
<1>10. CASE Open
  BY <1>0, <1>2, <1>4, <1>10, NextPage DEF Open, storage
<1>11. CASE Close
  <2>1. Kept
    <3> DEFINE answers == [i \in DOMAIN messages |->
                             [messages[i] EXCEPT !.answered = FALSE]]
    <3>1. messages' = answers
      BY <1>11 DEF Close
    <3>2. DOMAIN messages = 1..Len(messages) /\ Len(messages) \in Nat
      BY <1>0
    <3>3. ASSUME NEW i \in 1..Len(messages) PROVE answers[i] \in Messages
      <4>1. messages[i] \in Messages
        BY <1>0
      <4> QED BY <4>1, <3>2 DEF Messages
    <3>4. answers \in Seq(Messages) /\ Len(answers) = Len(messages)
      BY <3>2, <3>3
    <3>5. messages # <<>> => answers # <<>>
      BY <3>2
    <3>6. UNCHANGED unchallenge
      BY <1>11 DEF Close
    <3>7. unchallenge' => answers # <<>>
      BY <1>0, <3>5, <3>6
    <3> HIDE DEF answers
    <3> QED BY <3>1, <3>2, <3>4, <3>7 DEF Kept, Queue
  <2> QED BY <1>0, <1>4, <1>11, <2>1, NextPage DEF Close, storage
<1>12. CASE SettingsLoaded
  BY <1>0, <1>2, <1>4, <1>12, NextPage DEF SettingsLoaded, storage
<1>13. CASE OnStorageChanged \/ ReadSession
  <2>1. UNCHANGED <<page, gate, effort>> /\ UNCHANGED <<challenge, messages, unchallenge>>
    BY <1>13 DEF OnStorageChanged, ReadSession, storage, view
  <2> QED BY <1>0, <1>2, <1>5, <2>1
<1>14. CASE RecordStatus
  BY <1>0, <1>2, <1>4, <1>14, NextPage DEF RecordStatus, storage
<1>15. CASE FetchFails
  BY <1>0, <1>2, <1>4, <1>15, NextPage DEF FetchFails, storage
<1>16. CASE Retry
  BY <1>0, <1>2, <1>4, <1>16, NextPage DEF Retry, storage
<1>17. CASE LeaveInput
  BY <1>0, <1>2, <1>4, <1>17, NextPage DEF LeaveInput, storage
<1>18. CASE StartConfiguredSession
  <2>1. page.input \in Modes /\ ~Gated(page)
    BY <1>0, <1>18 DEF StartConfiguredSession, InputShown, Screen, PageOK, Pages
  <2>2. Kept
    BY <1>0, <1>6, <1>18, <2>1 DEF StartConfiguredSession, Kept, Queue
  <2> QED BY <1>0, <1>5, <1>18, <2>2 DEF StartConfiguredSession, storage, view
<1>19. CASE StopSession
  <2>1. gate = None
    BY <1>0, <1>19 DEF StopSession, SessionShown, Screen, PageOK, Pages
  <2>2. Queue
    BY <1>0, <1>6, <1>19 DEF StopSession, Queue
  <2>3. challenge' \in Types \cup {None}
    BY <1>0, <1>19 DEF StopSession
  <2> QED BY <1>5, <1>19, <2>1, <2>2, <2>3 DEF StopSession, view, Kept
<1>20. CASE GateProgress
  <2>0. IsGate(gate', effort') /\ effort' \in Nat
    BY <1>0, <1>20, ProgressOK DEF GateProgress
  <2>1. GateOK' /\ (gate # None)' /\ effort' \in Nat
    BY <2>0, GateIsSome DEF GateOK
  <2>2. UNCHANGED <<page, messages, challenge>> /\ gate # None
    BY <1>20 DEF GateProgress, storage
  <2>3. PageOK(page)' /\ (gate # None <=> Gated(page))'
    BY <1>0, <2>1, <2>2 DEF Gated
  <2>4. Kept
    BY <1>2, <1>20 DEF GateProgress
  <2> QED BY <1>0, <1>1, <2>1, <2>2, <2>3, <2>4 DEF Inv, Kept, Queue
<1>21. CASE OnSuccess
  <2>0. IsGate(gate', effort') /\ effort' \in Nat
    BY <1>0, <1>21, ProgressOK DEF OnSuccess
  <2>1. GateOK' /\ (gate # None)' /\ effort' \in Nat
    BY <2>0, GateIsSome DEF GateOK
  <2>2. UNCHANGED <<page, challenge>> /\ gate # None
    BY <1>21 DEF OnSuccess, storage
  <2>3. PageOK(page)' /\ (gate # None <=> Gated(page))'
    BY <1>0, <2>1, <2>2 DEF Gated
  <2>4. Queue
    BY <1>6, <1>21 DEF OnSuccess, Queue
  <2>5. Earns
    BY <1>0, <1>21, Earned DEF OnSuccess, Earns
  <2> QED BY <1>0, <2>1, <2>2, <2>3, <2>4, <2>5 DEF Inv, Queue
<1>22. CASE OnCancel
  <2>1. /\ UNCHANGED <<page, gate, effort>> /\ UNCHANGED <<messages, unchallenge>>
        /\ challenge' = None
    BY <1>22 DEF OnCancel, view
  <2> QED BY <1>2, <1>5, <2>1
<1>23. CASE HandleStart
  <2>1. Kept /\ challenge' = challenge
    BY <1>3, <1>23 DEF HandleStart
  <2>2. Shows([page EXCEPT !.input = None]) \/ UNCHANGED <<page, gate, effort>>
    BY <1>23 DEF HandleStart
  <2> QED BY <1>0, <1>4, <1>5, <2>1, <2>2, NextPage
<1>24. CASE HandleStop
  <2>1. UNCHANGED <<page, gate, effort>> /\ challenge' = challenge
        /\ messages # <<>> /\ ~unchallenge
    BY <1>24 DEF HandleStop, view
  <2>2. CASE session # None
    <3>1. messages' = messages
      BY <1>24, <2>2 DEF HandleStop
    <3>2. Kept
      BY <1>0, <2>1, <3>1 DEF Kept, Queue
    <3> QED BY <1>0, <1>5, <2>1, <3>2
  <2>3. CASE session = None
    <3>1. messages' = Tail(messages) /\ ~unchallenge'
      BY <1>24, <2>1, <2>3 DEF HandleStop
    <3> QED BY <1>0, <1>3, <1>5, <2>1, <3>1
  <2> QED BY <2>2, <2>3
<1>25. CASE FinishStop
  <2>1. /\ UNCHANGED <<page, gate, effort>> /\ challenge' = None
        /\ messages' = Tail(messages) /\ ~unchallenge' /\ unchallenge
    BY <1>25 DEF FinishStop, view
  <2> QED BY <1>0, <1>3, <1>5, <2>1
<1>26. CASE SessionEnds
  BY <1>0, <1>2, <1>5, <1>26 DEF SessionEnds, view
<1>27. ASSUME NEW mode \in Modes, ChooseMode(mode)
       PROVE  Inv' /\ Earns
  BY <1>0, <1>2, <1>4, <1>27, NextPage DEF ChooseMode, storage
<1>28. ASSUME NEW mode \in Modes, ScheduleStarts(mode)
       PROVE  Inv' /\ Earns
  BY <1>0, <1>2, <1>5, <1>28 DEF ScheduleStarts, view
<1>29. CASE UNCHANGED vars
  BY <1>0, <1>2, <1>5, <1>29 DEF vars, storage, view
<1> QED
  BY <1>10, <1>11, <1>12, <1>13, <1>14, <1>15, <1>16, <1>17, <1>18, <1>19, <1>20, <1>21,
     <1>22, <1>23, <1>24, <1>25, <1>26, <1>27, <1>28, <1>29 DEF Next, Earns

(* the gate shown is mounted, and its exercise accounts for the work, for  *)
(* ever                                                                    *)
LEMMA Invariance == Spec => []Inv
<1>1. Inv /\ [Next]_vars => Inv'
  BY StepInv
<1> QED BY InitInv, <1>1, PTL DEF Spec

(* StopsAreEarned: a stop that leaves the gate was earned by the whole      *)
(* exercise or by the clicks, for all lengths of the exercises.             *)
THEOREM EarnedStops == Spec => StopsAreEarned
<1>1. Inv /\ [Next]_vars =>
        [gate # None /\ Len(messages') > Len(messages) =>
           Enough(gate.type, effort') \/ gate'.clicks >= Clicks]_vars
  BY StepInv
<1> QED BY Invariance, <1>1, PTL DEF Spec, StopsAreEarned

(* SessionStaysVisible: a popup that has seen a session shows it, or its    *)
(* gate, whatever read fails and whatever answer comes late.                *)
THEOREM VisibleSession == Spec => []SessionStaysVisible
<1>1. Inv => SessionStaysVisible
  BY DEF Inv, PageOK, Screen, SessionStaysVisible
<1> QED BY Invariance, <1>1, PTL

-----------------------------------------------------------------------------
(* What the page has read of the storage.                                   *)

(* the types of what it reads and of what it has read *)
Reads ==
  /\ session \in Seen /\ page.session \in Seen /\ nextSession \in Nat
  /\ waiting \in Nat /\ failures \in Nat /\ reading \in Seq(Seen)

(* the session it will have seen when the reads under way are recorded *)
Latest == IF reading = <<>> THEN page.session ELSE reading[Len(reading)]

(* while no read failed, what is stored was read, or will be: an event is on *)
(* its way or a read has not begun *)
Informed ==
  page.open /\ failures = 0 =>
    /\ changed \/ waiting > 0 \/ Latest = session
    /\ changed \/ waiting > 0 \/ reading # <<>> \/ page.challenge = challenge

(* the fields of a page that the handlers leave alone *)
Alike(p, q) == p.open = q.open /\ p.session = q.session /\ p.challenge = q.challenge

(* settings, input and phase are not among them                            *)
LEMMA AlikePages ==
  ASSUME PageOK(page)
  PROVE  /\ Alike([page EXCEPT !.settings = TRUE], page)
         /\ \A x : Alike([page EXCEPT !.input = x], page)
         /\ \A x : Alike([page EXCEPT !.phase = x], page)
         /\ Alike(Unavailable(page), page)
BY DEF PageOK, Pages, Alike, Unavailable

(* a page that opens and one that closes have seen nothing *)
LEMMA NewPages == Closed.open = FALSE /\ Closed.session = None /\ Fresh.session = None
BY DEF Closed, Fresh

(* a read that is recorded leaves the latest one *)
LEMMA LastOfTail ==
  ASSUME NEW q \in Seq(Seen), q # <<>>
  PROVE  /\ Tail(q) \in Seq(Seen) /\ Head(q) \in Seen
         /\ Tail(q) = <<>> => q[Len(q)] = Head(q)
         /\ Tail(q) # <<>> => Tail(q)[Len(Tail(q))] = q[Len(q)]
<1>1. /\ Len(q) \in Nat \ {0} /\ Head(q) = q[1] /\ Len(Tail(q)) = Len(q) - 1
      /\ Tail(q) \in Seq(Seen) /\ Head(q) \in Seen
      /\ \A j \in 1..(Len(q) - 1) : Tail(q)[j] = q[j + 1]
  BY EmptySeq
<1>2. Tail(q) = <<>> <=> Len(q) = 1
  BY <1>1, EmptySeq
<1>3. Tail(q) # <<>> => Len(q) - 1 \in 1..(Len(q) - 1) /\ (Len(q) - 1) + 1 = Len(q)
  BY <1>1, <1>2
<1> QED
  BY <1>1, <1>2, <1>3

(* one step per action                                                     *)
LEMMA InformedStep ==
  ASSUME Inv, Reads, Informed, [Next]_vars PROVE Reads' /\ Informed'
<1>0. /\ PageOK(page) /\ messages \in Seq(Messages)
      /\ session \in Seen /\ page.session \in Seen /\ nextSession \in Nat
      /\ waiting \in Nat /\ failures \in Nat /\ reading \in Seq(Seen)
      /\ None \in Seen
  BY DEF Inv, Reads, Seen
<1>1. \A p : Shows(p) => page' = p
  BY DEF Shows
<1>2. Fetch => waiting' = waiting + 1 /\ waiting' \in Nat /\ waiting' > 0 /\ reading' = reading
  BY <1>0 DEF Fetch
<1>3. NoFetch => waiting' = waiting /\ reading' = reading
  BY DEF NoFetch, probes
<1>4. Answered => Fetch \/ NoFetch
  BY DEF Answered
<1> DEFINE Same == UNCHANGED <<session, nextSession, failures>>
(* another read is asked for, or an event is on its way *)
<1>5. ASSUME Fetch, Alike(page', page), Same PROVE Reads' /\ Informed'
  BY <1>0, <1>2, <1>5 DEF Reads, Informed, Alike
<1>6. ASSUME Fetch \/ NoFetch, Alike(page', page), changed',
             session' \in Seen, nextSession' \in Nat, UNCHANGED failures
      PROVE  Reads' /\ Informed'
  BY <1>0, <1>2, <1>3, <1>6 DEF Reads, Informed, Alike
(* nothing the page depends on *)
<1>7. ASSUME NoFetch, Alike(page', page), Same, UNCHANGED challenge, changed => changed'
      PROVE  Reads' /\ Informed'
  BY <1>0, <1>3, <1>7 DEF Reads, Informed, Latest, Alike
<1>8. Alike(page, page) /\ (page' = page => Alike(page', page))
  BY DEF Alike
<1> HIDE DEF Same
<1>10. CASE Open
  <2>1. /\ waiting' = 1 /\ reading' = <<>> /\ page'.session = None
        /\ UNCHANGED <<session, nextSession, failures>>
    BY <1>1, <1>10, NewPages DEF Open, storage
  <2>2. 1 \in Nat /\ 1 > 0 /\ <<>> \in Seq(Seen)
    OBVIOUS
  <2> QED BY <1>0, <2>1, <2>2 DEF Reads, Informed
<1>11. CASE Close
  BY <1>0, <1>1, <1>11, NewPages DEF Close, storage, Reads, Informed
<1>12. CASE SettingsLoaded
  <2>1. NoFetch /\ Alike(page', page) /\ Same /\ UNCHANGED <<challenge, changed>>
    BY <1>0, <1>1, <1>12, AlikePages DEF SettingsLoaded, storage, NoFetch, Same
  <2> QED BY <1>7, <2>1
<1>13. CASE OnStorageChanged
  <2>1. page' = page /\ Same
    BY <1>13 DEF OnStorageChanged, view, Same
  <2>2. CASE page.open
    BY <1>5, <1>8, <1>13, <2>1, <2>2 DEF OnStorageChanged
  <2>3. CASE ~page.open
    BY <1>0, <1>3, <1>13, <2>1, <2>3 DEF OnStorageChanged, Reads, Informed, Same
  <2> QED BY <2>2, <2>3
<1>14. CASE ReadSession
  <2>1. /\ waiting' = waiting - 1 /\ waiting > 0 /\ reading' = Append(reading, session)
        /\ Same /\ UNCHANGED <<challenge, changed, page>>
    BY <1>14 DEF ReadSession, storage, view, Same
  <2>2. /\ Append(reading, session) \in Seq(Seen)
        /\ Len(Append(reading, session)) = Len(reading) + 1
        /\ Append(reading, session)[Len(reading) + 1] = session
        /\ Append(reading, session) # <<>>
    BY <1>0, AppendProperties
  <2>3. Latest' = session /\ reading' # <<>> /\ reading' \in Seq(Seen)
    BY <2>1, <2>2 DEF Latest
  <2>4. waiting' \in Nat
    BY <1>0, <2>1
  <2> QED BY <1>0, <2>1, <2>3, <2>4 DEF Reads, Informed, Same
<1>15. CASE RecordStatus
  <2>1. /\ reading # <<>> /\ reading' = Tail(reading) /\ Same
        /\ UNCHANGED <<challenge, changed, waiting>>
    BY <1>15 DEF RecordStatus, storage, Same
  <2>2. page'.session = Head(reading) /\ page'.challenge = challenge
    BY <1>0, <1>1, <1>15 DEF RecordStatus, ReadChallenge, PageOK, Pages
  <2>3. Latest' = Latest /\ Head(reading) \in Seen /\ Tail(reading) \in Seq(Seen)
    BY <1>0, <2>1, <2>2, LastOfTail DEF Latest
  <2>4. page'.open => page.open
    BY <1>0, <1>1, <1>15 DEF RecordStatus, ReadChallenge, PageOK, Pages
  <2> QED BY <1>0, <2>1, <2>2, <2>3, <2>4 DEF Reads, Informed, Same
<1>16. CASE FetchFails
  <2>1. /\ waiting' = waiting - 1 /\ waiting > 0 /\ failures' = failures + 1
        /\ UNCHANGED <<session, nextSession, reading>> /\ Alike(page', page)
    BY <1>0, <1>1, <1>16, AlikePages DEF FetchFails, storage
  <2>2. waiting' \in Nat /\ failures' \in Nat /\ failures' # 0
    BY <1>0, <2>1
  <2> QED BY <1>0, <2>1, <2>2 DEF Reads, Informed, Alike
<1>17. CASE Retry
  <2>1. Fetch /\ Alike(page', page) /\ Same
    BY <1>0, <1>1, <1>17, AlikePages DEF Retry, storage, Same
  <2> QED BY <1>5, <2>1
<1>18. CASE LeaveInput \/ \E mode \in Modes : ChooseMode(mode)
  <2>1. NoFetch /\ Alike(page', page) /\ Same /\ UNCHANGED <<challenge, changed>>
    BY <1>0, <1>1, <1>18, AlikePages
    DEF LeaveInput, ChooseMode, storage, NoFetch, Same
  <2> QED BY <1>7, <2>1
<1>19. CASE StartConfiguredSession \/ GateProgress \/ OnSuccess
  <2>1. NoFetch /\ page' = page /\ Same /\ UNCHANGED <<challenge, changed>>
    BY <1>19 DEF StartConfiguredSession, GateProgress, OnSuccess, storage, view,
       NoFetch, Same
  <2> QED BY <1>7, <1>8, <2>1
<1>20. CASE StopSession
  <2>1. page' = page /\ Same
    BY <1>20 DEF StopSession, view, Same
  <2>2. Fetch \/ (NoFetch /\ UNCHANGED <<challenge, changed>>)
    BY <1>20 DEF StopSession
  <2> QED BY <1>5, <1>7, <1>8, <2>1, <2>2
<1>21. CASE OnCancel
  <2>1. Fetch /\ page' = page /\ Same
    BY <1>21 DEF OnCancel, view, Same
  <2> QED BY <1>5, <1>8, <2>1
<1>22. CASE HandleStart
  <2>1. UNCHANGED <<challenge, failures>> /\ messages # <<>> /\ Head(messages).type = "start"
    BY <1>22 DEF HandleStart
  <2>2. CASE session = None /\ nextSession <= MaxSessions
    <3>1. Head(messages).mode \in Modes
      BY <1>0, <2>1, HeadTailProperties DEF Messages
    <3>2. session' \in Seen /\ nextSession' \in Nat /\ changed'
      BY <1>0, <1>22, <2>2, <3>1 DEF HandleStart, Session, Seen
    <3>3. (Fetch \/ NoFetch) /\ Alike(page', page)
      BY <1>0, <1>1, <1>4, <1>8, <1>22, <2>2, AlikePages DEF HandleStart
    <3> QED BY <1>6, <2>1, <3>2, <3>3
  <2>3. CASE ~(session = None /\ nextSession <= MaxSessions)
    BY <1>7, <1>8, <1>22, <2>1, <2>3 DEF HandleStart, Same
  <2> QED BY <2>2, <2>3
<1>23. CASE HandleStop
  <2>1. page' = page /\ UNCHANGED <<challenge, nextSession, failures>>
    BY <1>23 DEF HandleStop, view
  <2>2. CASE session # None
    BY <1>0, <1>6, <1>8, <1>23, <2>1, <2>2 DEF HandleStop
  <2>3. CASE session = None
    BY <1>4, <1>5, <1>7, <1>8, <1>23, <2>1, <2>3 DEF HandleStop, Same
  <2> QED BY <2>2, <2>3
<1>24. CASE FinishStop
  <2>1. /\ page' = page /\ Same /\ (Fetch \/ NoFetch)
        /\ challenge' = None /\ changed' = (changed \/ challenge # None)
    BY <1>4, <1>24 DEF FinishStop, view, Same
  <2>2. CASE Fetch
    BY <1>5, <1>8, <2>1, <2>2
  <2>3. CASE NoFetch /\ changed'
    BY <1>0, <1>6, <1>8, <2>1, <2>3 DEF Same
  <2>4. CASE NoFetch /\ ~changed'
    BY <1>7, <1>8, <2>1, <2>4
  <2> QED BY <2>1, <2>2, <2>3, <2>4
<1>25. CASE SessionEnds \/ \E mode \in Modes : ScheduleStarts(mode)
  <2>1. /\ NoFetch /\ page' = page /\ changed' /\ UNCHANGED failures
    BY <1>25 DEF SessionEnds, ScheduleStarts, NoFetch, view
  <2>2. session' \in Seen /\ nextSession' \in Nat
    BY <1>0, <1>25 DEF SessionEnds, ScheduleStarts, Session, Seen
  <2> QED BY <1>6, <1>8, <2>1, <2>2
<1>26. CASE UNCHANGED vars
  BY <1>7, <1>8, <1>26 DEF vars, storage, probes, view, NoFetch, Same
<1> QED
  BY <1>10, <1>11, <1>12, <1>13, <1>14, <1>15, <1>16, <1>17, <1>18, <1>19, <1>20, <1>21,
     <1>22, <1>23, <1>24, <1>25, <1>26 DEF Next

(* a closed page has nothing to show                                       *)
LEMMA InformedInit == Init => Reads /\ Informed
BY EmptySeq DEF Init, Reads, Informed, Closed, Fresh, Seen

(* The storage, the page, its gate and its reads keep their types; the gate *)
(* is mounted exactly while it is shown.                                    *)
THEOREM TypeCorrect == Spec => []TypeOK
<1>1. Inv /\ [Next]_vars => Inv'
  BY StepInv
<1>2. Inv /\ Reads => TypeOK
  <2> SUFFICES ASSUME Inv, Reads PROVE TypeOK
    OBVIOUS
  <2>1. (gate # None) = Gated(page)
    BY DEF Inv, Gated
  <2>2. \A i \in DOMAIN reading : reading[i] \in Seen
    BY DEF Reads
  <2> QED BY <2>1, <2>2 DEF Inv, Reads, TypeOK, PageOK, Pages
<1> QED
  BY InitInv, <1>1, <1>2, InformedInit, InformedStep, PTL DEF Spec

(* When reads, answers and events have come to rest and no read has failed, *)
(* the page shows the session and the challenge that are stored, though     *)
(* nothing is polled.                                                       *)
THEOREM ShownIsStored == Spec => []ShowsWhatIsStored
<1>1. Inv /\ [Next]_vars => Inv'
  BY StepInv
<1>2. Informed => ShowsWhatIsStored
  BY DEF Informed, Latest, ShowsWhatIsStored, AtRest
<1> QED
  BY InitInv, <1>1, <1>2, InformedInit, InformedStep, PTL DEF Spec
=============================================================================
