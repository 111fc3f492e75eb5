--------------------------- MODULE MCReminderBot ---------------------------
(* Instances of the whole program with one chat and one or two events.      *)
EXTENDS ReminderBot, TLC

R(sendAt, periodicity, weekdays) ==
  [userTgId |-> "chat", message |-> "text", sendAt |-> sendAt,
   statusId |-> StatusEnabled, weekdays |-> weekdays, periodicity |-> periodicity]

OneShotRow == {R(0, NoPeriod, {})}
HourlyRow == {R(0, "hour", {})}
WeekdaysRow == {R(0, "weekdays", {1})}
EndingRow == {R(0, "weekdays", {6})}
ThreeRows == OneShotRow \cup HourlyRow \cup EndingRow

OneEvent == {1}
TwoEvents == 1 .. 2

M(date, text) == [date |-> date, text |-> text]
TypedDate == {M(2, "text")}
\* Goroutines of a kind are alike.
Alike == Permutations(Jobs) \cup Permutations(Workers)
=============================================================================
