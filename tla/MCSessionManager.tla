--------------------------- MODULE MCSessionManager ---------------------------
(* Small instances of SessionManager                                         *)
EXTENDS SessionManager

Plan(start, end, mode, days, endsOn) ==
  [start |-> start, end |-> end, mode |-> mode, days |-> days, endsOn |-> endsOn]

(* a day of 4 seconds: one window that starts during the horizon, one that  *)
(* is open from the start, one that overlaps both, on a later day too       *)
EarlyAndLate == {Plan(0, 2, "blocklist", {0}, NoEnd), Plan(2, 4, "lockdown", {0}, NoEnd)}
Overlapping  == EarlyAndLate \cup {Plan(1, 3, "lockdown", {0, 1}, NoEnd)}

(* two ticks per second: windows of whole seconds in a day of 4 seconds, one *)
(* that ends today and leaves its place to others, a malformed one          *)
HalfSeconds == {Plan(0, 4, "blocklist", {0, 1}, 0), Plan(4, 8, "lockdown", {0}, NoEnd),
                Plan(0, 6, "blocklist", {0, 1}, NoEnd), Plan(2, 2, "lockdown", {1}, NoEnd)}
=============================================================================
