------------------------------ MODULE Schedule ------------------------------
(***************************************************************************)
(* The pure part of package reminder: when a periodic event is due again.  *)
(* Times are instants counted in ticks from a Monday 00:00 in the zone in  *)
(* which the database session returns timestamps, so a day number is a     *)
(* quotient.  In the code Day = 24 * Hour; the proofs need no more than    *)
(* that both are positive, and the small instances compress the day.       *)
(***************************************************************************)
EXTENDS Integers

CONSTANTS Hour, Day

ASSUME ScheduleAssumption == Hour \in Nat \ {0} /\ Day \in Nat \ {0}

\* The nil *time.Time that CalculateNextTime returns when there is no next time.
NoTime == -1

\* Go's time.Weekday: Sunday is 0, Monday 1, ..., Saturday 6.
Weekday(t) == ((t \div Day) + 1) % 7

\* The day numbers of the keyboards and of DayName: Monday is 1, ..., Sunday 7.
DayNumber(t) == IF Weekday(t) = 0 THEN 7 ELSE Weekday(t)

\* The number calculateNextWeekday compares with the stored selection.
WeekdayIndex(t) == IF Weekday(t) = 0 THEN 7 ELSE Weekday(t) - 1

\* Faulty: the loop stops a day early.
LoopHitsShort(t, weekdays) == {i \in 1 .. 6 : WeekdayIndex(t + i * Day) \in weekdays}

\* The candidate days of the loop, in the order it tries them.
LoopHits(t, weekdays) == {i \in 1 .. 7 : WeekdayIndex(t + i * Day) \in weekdays}

\* Faulty: the last selected day of the loop and not the first.
LastWeekday(t, weekdays) ==
  LET hits == LoopHits(t, weekdays)
  IN  IF hits = {} THEN NoTime
      ELSE t + Day * (CHOOSE i \in hits : \A k \in hits : i >= k)

calculateNextWeekday(t, weekdays) ==
  LET hits == LoopHits(t, weekdays)
  IN  IF hits = {} THEN NoTime
      ELSE t + Day * (CHOOSE i \in hits : \A k \in hits : i <= k)

CalculateNextTime(t, periodicity, weekdays) ==
  CASE periodicity = "hour"     -> t + Hour
    [] periodicity = "day"      -> t + Day
    [] periodicity = "week"     -> t + 7 * Day
    [] periodicity = "weekdays" -> calculateNextWeekday(t, weekdays)
    [] OTHER                    -> NoTime
=============================================================================
