----------------------------- MODULE MCDialogs -----------------------------
(* Two events to come, of one user or of two.                               *)
EXTENDS Dialogs, TLC

MCSavedRows ==
  {[userTgId |-> c, message |-> "text", sendAt |-> 1, statusId |-> StatusEnabled,
    weekdays |-> {}, periodicity |-> NoPeriod] : c \in Chats}
MCEventIds == 1 .. 2

\* A date that passes, with a text; and a text that is no date and too long.
MCTyped ==
  {[date |-> 0, text |-> "text"], [date |-> Unparsable, text |-> TooLong]}

\* Each user waits for one update to be handled before sending the next.
TurnsSpec == Init /\ [][Next /\ UsersTakeTurns']_vars

\* Users are alike, and so are the goroutines.
Alike == Permutations(Chats) \cup Permutations(Workers)
=============================================================================
