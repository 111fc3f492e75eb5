---------------------------- MODULE ScheduleWeek ----------------------------
(***************************************************************************)
(* The slots of one event, chained: the next slot is what the reminder     *)
(* manager computes from the last one.  Every period, every selection of   *)
(* weekdays and every hour of the week as first slot, for one week.        *)
(***************************************************************************)
EXTENDS Schedule, FiniteSets

VARIABLES first, slot, fired, periodicity, weekdays

chain == <<first, slot, fired, periodicity, weekdays>>

Week == 7 * Day

Init ==
  /\ first \in 0 .. Week - 1
  /\ slot = first
  /\ fired = {}
  /\ periodicity \in {"hour", "day", "week", "weekdays"}
  /\ weekdays \in IF periodicity = "weekdays" THEN SUBSET (1 .. 7) ELSE {{}}

\* slot = NoTime once the event has been deactivated.
Advance ==
  /\ slot # NoTime
  /\ slot - first < Week
  /\ slot' = CalculateNextTime(slot, periodicity, weekdays)
  /\ fired' = fired \cup ({slot'} \cap (first .. first + Week))
  /\ UNCHANGED <<first, periodicity, weekdays>>

Spec == Init /\ [][Advance]_chain

\* The reference: when the event is to fire in the week after first.  The
\* selection is read as the job reads it (WeekdayIndex).
Fires(t) ==
  CASE periodicity = "hour" -> (t - first) % Hour = 0
    [] periodicity = "day"  -> t % Day = first % Day
    [] periodicity = "week" -> t = first + Week
    [] OTHER -> t % Day = first % Day /\ WeekdayIndex(t) \in weekdays

Expected == {t \in first + 1 .. first + Week : Fires(t)}

Past == {t \in Expected : slot # NoTime /\ t <= slot}

\* Whatever has been passed over was not to fire, and the event ends only if
\* nothing in a whole week is to fire: no selected day is skipped or doubled,
\* the time of day is kept across the week boundary (calculateNextWeekday).
EverySlotOfTheWeek ==
  IF slot = NoTime THEN fired = Expected ELSE fired = Past

\* A weekly selection fires as often in a week as it has days that can match.
OncePerSelectedDay ==
  (periodicity = "weekdays" /\ slot # NoTime /\ slot - first >= Week)
    => Cardinality(fired) = Cardinality(weekdays \ {6})

\* The reminders of "по дням" come on the selected days, as the confirmation
\* says with the names of DayName (handlers.go, lines 808 to 816).
FiresOnSelectedDays ==
  periodicity = "weekdays" => \A t \in fired : DayNumber(t) \in weekdays

-----------------------------------------------------------------------------
(* The inductive invariant *)

\* The slot is one the event may fire at, or the first.
OnItsGrid ==
  /\ slot \in Int /\ first <= slot
  /\ CASE periodicity = "hour" -> (slot - first) % Hour = 0
       [] periodicity = "week" -> slot \in {first, first + Week}
       [] OTHER -> slot % Day = first % Day

WeekInv ==
  /\ first \in Nat
  /\ periodicity \in {"hour", "day", "week", "weekdays"}
  /\ weekdays \in SUBSET (1 .. 7)
  /\ slot # NoTime => OnItsGrid
  /\ EverySlotOfTheWeek
=============================================================================
