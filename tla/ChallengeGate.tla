---------------------------- MODULE ChallengeGate ----------------------------
(***************************************************************************)
(* The gate before a stop: five exercises, each a component whose state    *)
(* begins with its mount, and five clicks on the title that pass any.      *)
(* What is typed, drawn or asked is abstracted to being right or not.      *)
(***************************************************************************)
EXTENDS Integers

CONSTANTS
  Seconds,     \* challenge_countdown_duration
  FirstLength, \* clicks of the first pattern
  LastLength,  \* clicks of the last pattern
  Answers,     \* right answers in a row
  Clicks,      \* clicks on the title
  None

Exercises == {"countdown", "typing", "reflection", "pattern", "math"}
Works ==
  [left : Nat] \cup [valid : BOOLEAN] \cup [solved : Nat, wrong : BOOLEAN]
    \cup [length : Nat, done : Nat, phase : {"playing", "input", "cleared", "wrong"}]
Gates == [type : Exercises, clicks : Nat, work : Works]

(* None is no mounted exercise                                              *)
ASSUME ChallengeGateAssumption ==
  /\ Seconds \in Nat /\ Answers \in Nat \ {0} /\ Clicks \in Nat \ {0}
  /\ FirstLength \in Nat \ {0} /\ LastLength \in Nat
  /\ FirstLength <= LastLength
  /\ None \notin Gates

VARIABLES
  gate,   \* None, or what is mounted
  effort  \* observed: seconds, or right steps without a wrong one, since then

(* Exercise(type): the initial state of the component                       *)
Exercise(type) ==
  CASE type = "countdown" -> [left |-> Seconds]
    [] type \in {"typing", "reflection"} -> [valid |-> FALSE]
    [] type = "pattern" -> [length |-> FirstLength, done |-> 0, phase |-> "playing"]
    [] type = "math" -> [solved |-> 0, wrong |-> FALSE]

Mounted(type) == [type |-> type, clicks |-> 0, work |-> Exercise(type)]

At(type) == gate.type = type
Work(work, right) ==
  gate' = [gate EXCEPT !.work = work] /\ effort' = right

-----------------------------------------------------------------------------
(* Steps that leave the gate shut.                                          *)

TitleClick ==
  /\ gate.clicks + 1 < Clicks
  /\ gate' = [gate EXCEPT !.clicks = @ + 1] /\ UNCHANGED effort

CountdownTick ==
  /\ At("countdown") /\ gate.work.left > 0
  /\ Work([left |-> gate.work.left - 1], effort + 1)

Edit == Work([valid |-> ~gate.work.valid], IF gate.work.valid THEN 0 ELSE 1)
Typing     == At("typing") /\ Edit
Reflecting == At("reflection") /\ Edit

PatternPlayed ==
  /\ At("pattern") /\ gate.work.phase = "playing"
  /\ Work([gate.work EXCEPT !.phase = "input"], effort)

Completes == gate.work.done + 1 = gate.work.length

PatternRight ==
  /\ At("pattern") /\ gate.work.phase = "input"
  /\ gate.work.done < gate.work.length
  /\ ~(Completes /\ gate.work.length >= LastLength)
  /\ Work([gate.work EXCEPT !.done = @ + 1,
                            !.phase = IF Completes THEN "cleared" ELSE @],
          effort + 1)

PatternWrong ==
  /\ At("pattern") /\ gate.work.phase = "input"
  /\ Work([gate.work EXCEPT !.phase = "wrong"], 0)

NextPattern ==
  /\ At("pattern") /\ gate.work.phase = "cleared"
  /\ Work([length |-> gate.work.length + 1, done |-> 0, phase |-> "playing"], effort)

RestartPattern ==
  /\ At("pattern") /\ gate.work.phase = "wrong"
  /\ Work(Exercise("pattern"), effort)

(* the answer's field is disabled while a wrong answer is shown             *)
AnsweringAlways == At("math")
Answering == At("math") /\ ~gate.work.wrong
MathRight ==
  /\ Answering /\ gate.work.solved + 1 < Answers
  /\ Work([gate.work EXCEPT !.solved = @ + 1], effort + 1)
MathWrong == Answering /\ Work([gate.work EXCEPT !.wrong = TRUE], 0)
MathReset ==
  /\ At("math") /\ gate.work.wrong
  /\ Work(Exercise("math"), effort)

Progress ==
  \/ TitleClick \/ CountdownTick \/ Typing \/ Reflecting \/ PatternPlayed
  \/ PatternRight \/ PatternWrong \/ NextPattern \/ RestartPattern \/ MathRight \/ MathWrong
  \/ MathReset

-----------------------------------------------------------------------------
(* Steps that call onSuccess; the component stays mounted.                  *)

Bypass ==
  /\ gate.clicks + 1 >= Clicks
  /\ gate' = [gate EXCEPT !.clicks = Clicks] /\ UNCHANGED effort
EndCountdown ==
  At("countdown") /\ gate.work.left = 0 /\ UNCHANGED <<gate, effort>>
EndTyping ==
  At("typing") /\ gate.work.valid /\ UNCHANGED <<gate, effort>>
EndReflection ==
  At("reflection") /\ gate.work.valid /\ UNCHANGED <<gate, effort>>
PatternDone ==
  /\ At("pattern") /\ gate.work.phase = "input"
  /\ Completes /\ gate.work.length >= LastLength
  /\ Work([gate.work EXCEPT !.done = @ + 1], effort + 1)
MathDone ==
  /\ Answering /\ gate.work.solved + 1 >= Answers
  /\ gate' = gate /\ effort' = IF effort < Answers THEN effort + 1 ELSE effort

Succeeds ==
  Bypass \/ EndCountdown \/ EndTyping \/ EndReflection \/ PatternDone \/ MathDone

(* what each exercise asks for, whatever steps the component counted        *)
Enough(type, right) ==
  right >= CASE type = "countdown" -> Seconds
             [] type \in {"typing", "reflection"} -> 1
             [] type = "pattern" ->
                  ((FirstLength + LastLength) * (LastLength - FirstLength + 1)) \div 2
             [] type = "math" -> Answers
=============================================================================
