------------------------------ MODULE MCViews ------------------------------
(* Up to three events of two users, and pages of one event.                 *)
EXTENDS Views

\* The saved events are for today, a new one is for tomorrow.
TodaysRow ==
  {[userTgId |-> c, message |-> "text", sendAt |-> 1, statusId |-> StatusEnabled,
    weekdays |-> {}, periodicity |-> NoPeriod] : c \in Chats}
TypedTomorrow == {[date |-> 2, text |-> "text"]}
ThreeEvents == 1 .. 3
\* Users are alike.
Alike == Permutations(Chats)
=============================================================================
