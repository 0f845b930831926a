--------------------------- MODULE MCServiceWorker ---------------------------
(* A small instance of ServiceWorker                                         *)
EXTENDS ServiceWorker

(* pages of a site and of its www subdomain, another one, and the popup      *)
AllPages  == {"a", "www.a", "b", "popup"}
AllCovers == [e \in {"a"} |-> {"a", "www.a"}]
AllWww    == [e \in {"a"} |-> {"www.a"}]

Plan(start, end, mode, days, endsOn) ==
  [start |-> start, end |-> end, mode |-> mode, days |-> days, endsOn |-> endsOn]

Today     == Plan(1, 3, "blocklist", {0}, 0)
OnlyToday == {Today}
Lockdown  == {[mode |-> "lockdown", planned |-> 2]}

Legacy == [id |-> 1, start |-> 1, end |-> 2, mode |-> "blocklist", days |-> {},
           endsOn |-> NoEnd]
Stray  == [id |-> 1, sched |-> None, mode |-> "blocklist", started |-> 0,
           planned |-> 1, status |-> "completed", block |-> {}, white |-> {}]

Store(block, white, scheds, slot) ==
  [blocklist |-> block, whitelist |-> white, schedules |-> scheds, active |-> slot]
FreshOrLegacy == {Store({"a"}, {}, {}, None), Store({"a"}, {}, {Legacy}, Stray)}

(* Two units per second, no lists: windows of one second or two, one of them *)
(* stored already, the other submitted by the form.                         *)
NoPages    == [e \in {} |-> {}]
Seconds12  == Plan(2, 4, "blocklist", {0}, NoEnd)
Seconds13  == Plan(2, 6, "lockdown", {0}, 0)
OneOrTwo   == {Seconds12, Seconds13}
OneSecond  == {[mode |-> "lockdown", planned |-> 1]}
Repeating  == [id |-> 1, start |-> 2, end |-> 4, mode |-> "blocklist", days |-> {},
               endsOn |-> NoEnd]
FreshOrRepeating == {Store({}, {}, {}, None), Store({}, {}, {Repeating}, None)}
=============================================================================
