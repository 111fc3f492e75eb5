---------------------------- MODULE MCReminders ----------------------------
(* Two events of one chat, drawn from the shapes the job tells apart.  The  *)
(* day has two hours, which keeps every branch of CalculateNextTime inside  *)
(* the bound on the clock or one week beyond it.                            *)
EXTENDS Reminders

R(sendAt, periodicity, weekdays, statusId) ==
  [userTgId |-> "chat", message |-> "text", sendAt |-> sendAt,
   statusId |-> statusId, weekdays |-> weekdays, periodicity |-> periodicity]

MCSavedRows ==
  {R(0, "hour", {}, 1), R(0, "weekdays", {1}, 1), R(0, "weekdays", {6}, 1),
   R(1, NoPeriod, {}, 1), R(0, "day", {}, 3)}
MCEventIds == 1 .. 2
=============================================================================
