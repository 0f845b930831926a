---------------------------- MODULE WeekSchedules ----------------------------
(***************************************************************************)
(* Weekly schedules as the extension keeps them: a window of the day, the  *)
(* weekdays it repeats on, the last day.  Times are counted in units of    *)
(* the instance, days have DayLen of them and weeks WeekLen days.          *)
(***************************************************************************)
EXTENDS Integers

CONSTANTS DayLen, WeekLen, NoEnd,
          PerSec   \* units of time per second

(* the code looks eight days ahead, and a week has seven                    *)
ASSUME WeekSchedulesAssumption ==
  DayLen \in Nat \ {0} /\ WeekLen \in 1..7 /\ PerSec \in Nat \ {0}

Day(t)     == t \div DayLen
DayTime(t) == t % DayLen

(* a schedule without weekdays, from before recurrence, repeats every day   *)
ScheduleDays(s) == IF s.days = {} THEN 0..(WeekLen - 1) ELSE s.days

ScheduleRunsOn(s, day) ==
  day % WeekLen \in ScheduleDays(s) /\ (s.endsOn # NoEnd => day <= s.endsOn)

Running(s, t) ==
  /\ ScheduleRunsOn(s, Day(t))
  /\ s.start < s.end /\ s.start <= DayTime(t) /\ DayTime(t) < s.end

ScheduleBoundary(time, t) == Day(t) * DayLen + time

(* the starts and ends of the next eight days that lie ahead                *)
BoundariesAhead(schedules, t) ==
  {b \in {(Day(t) + offset) * DayLen + time :
            offset \in 0..7, time \in UNION {{s.start, s.end} : s \in schedules}} :
     /\ b > t
     /\ \E s \in schedules, d \in Day(t)..(Day(t) + 7) :
          ScheduleRunsOn(s, d) /\ b - d * DayLen \in {s.start, s.end}}

(* those an alarm is set for lie more than half a second ahead              *)
BoundariesOfEnds(schedules, t) ==
  {b \in {ScheduleBoundary(s.end, t) : s \in schedules} : 2 * (b - t) > PerSec}
Boundaries(schedules, t) ==
  {b \in BoundariesAhead(schedules, t) : 2 * (b - t) > PerSec}

(* ceil((until - t) / 1000): whole seconds, a started one counted           *)
SecondsUntil(until, t) == (until - t + PerSec - 1) \div PerSec

(* until when a stop keeps schedules quiet: the end of the window today, or *)
(* the planned seconds once more if that is past or the schedule is gone       *)
ScheduleSuppression(ends, planned, t) ==
  LET scheduledEnd == {ScheduleBoundary(e, t) : e \in ends}
  IN  IF \E e \in scheduledEnd : e > t
      THEN CHOOSE e \in scheduledEnd : e > t
      ELSE t + planned * PerSec

DateRangesOverlapBefore(s, o, today) ==
  /\ s.endsOn # NoEnd => s.endsOn > today
  /\ o.endsOn # NoEnd => o.endsOn > today
DateRangesOverlap(s, o, today) ==
  /\ s.endsOn # NoEnd => s.endsOn >= today
  /\ o.endsOn # NoEnd => o.endsOn >= today

Conflict(s, o, today) ==
  /\ s.start < o.end /\ s.end > o.start
  /\ o.days \cap s.days # {}
  /\ DateRangesOverlap(o, s, today)

(* whether a list accepts s, beside its schedule of the same id             *)
ValidSchedule(s, existing, today) ==
  /\ s.start < s.end
  /\ s.days # {}
  /\ s.endsOn # NoEnd => s.endsOn >= today
  /\ \A o \in existing : o.id # s.id => ~Conflict(s, o, today)
=============================================================================
