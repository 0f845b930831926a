-------------------------- MODULE SessionLifecycle --------------------------
(***************************************************************************)
(* What the sessions table promises to a reader of it, whatever process    *)
(* dies in between: sessions are opened one at a time under fresh ids,     *)
(* each ends once and for good, and "completed" is said only of a session  *)
(* whose planned end had come.                                             *)
(***************************************************************************)
EXTENDS Integers

VARIABLES clock,   \* the time
          open,    \* the running sessions, [id, due], due = 0: no planned end
          closed,  \* the ended sessions, [id, outcome]
          fresh    \* the first id never used

vars == <<clock, open, closed, fresh>>

Init == clock = 0 /\ open = {} /\ closed = {} /\ fresh = 1

Begin == /\ open = {}
         /\ \E s \in open' : open' = {s} /\ s.id = fresh /\ s.due \in Nat
         /\ fresh' = fresh + 1
         /\ UNCHANGED <<clock, closed>>

(* the planned end moves with the schedule of the session *)
Replan == /\ \E s \in open, r \in open' : open' = {r} /\ r.id = s.id /\ r.due \in Nat
          /\ UNCHANGED <<clock, closed, fresh>>

Close(s, outcome) ==
  /\ open' = open \ {s}
  /\ closed' = closed \cup {[id |-> s.id, outcome |-> outcome]}
  /\ UNCHANGED <<clock, fresh>>

Complete == \E s \in open : s.due # 0 /\ clock >= s.due /\ Close(s, "completed")
Stop     == \E s \in open : Close(s, "stopped")

ForgetEnded == closed' = {} /\ UNCHANGED <<clock, open, fresh>>

Pass == clock' = clock + 1 /\ UNCHANGED <<open, closed, fresh>>

Next == Begin \/ Replan \/ Complete \/ Stop \/ ForgetEnded \/ Pass

Spec == Init /\ [][Next]_vars
=============================================================================
