------------------------------- MODULE Digest -------------------------------
(***************************************************************************)
(* The cron job daily-events: once a day every user is sent the events of  *)
(* the day.  The users are selected by the day of an event in Moscow; the  *)
(* events of a user are then filtered by their day in the zone in which    *)
(* the database session returns them.                                      *)
(***************************************************************************)
EXTENDS Handlers

CONSTANTS
  Day,        \* length of a day; now and sendAt count from a midnight in Moscow
  Shift,      \* Moscow is ahead of the session's zone by this much
  MaxDigests  \* bound on the runs of the job

ASSUME DigestAssumption == Day \in Nat \ {0} /\ Shift \in Nat /\ MaxDigests \in Nat

VARIABLES
  digest,   \* "rest", "read" the events of the next user, or "send" them
  left,     \* users still to be served
  ready,    \* the user being served and the events found
  told,     \* what each user was sent by this run
  digests   \* runs begun

digestVars == <<digest, left, ready, told, digests>>

DigestTypeOK ==
  /\ digest \in {"rest", "read", "send"}
  /\ left \subseteq Chats
  /\ digest = "send" => ready \in [chat : Chats, ids : SUBSET EventIds]
  /\ told \in [Chats -> SUBSET EventIds]
  /\ digests \in 0 .. MaxDigests

Nobody == [chat |-> "nobody", ids |-> {}]

DigestInit ==
  /\ digest = "rest" /\ left = {} /\ ready = Nobody /\ digests = 0
  /\ told = [c \in Chats |-> {}]

MoscowDay(t) == t \div Day
SessionDay(t) == (t - Shift) \div Day

TodayInMoscow(e) == MoscowDay(events[e].sendAt) = MoscowDay(now)

\* The filter of SendDailyEvents compares the session's day of the event with the
\* day in Moscow.
ShownAsToday(e) == SessionDay(events[e].sendAt) = MoscowDay(now)

Active(e) == events[e].statusId = StatusEnabled

AllUsersWithEventsToday ==
  {events[e].userTgId : e \in {x \in DOMAIN events : Active(x) /\ TodayInMoscow(x)}}

StartsDigest ==
  /\ digest = "rest"
  /\ digests < MaxDigests
  /\ digests' = digests + 1
  /\ digest' = "read"
  /\ left' = AllUsersWithEventsToday
  /\ ready' = Nobody
  /\ told' = [c \in Chats |-> {}]

\* GetUserEvents and the filter; a user left without events gets no message.
ReadsEvents(chat) ==
  /\ digest = "read"
  /\ chat \in left
  /\ left' = left \ {chat}
  /\ LET ids == {e \in DOMAIN events :
                    events[e].userTgId = chat /\ Active(e) /\ ShownAsToday(e)}
     IN  IF ids = {} THEN UNCHANGED <<digest, ready>>
         ELSE digest' = "send" /\ ready' = [chat |-> chat, ids |-> ids]
  /\ UNCHANGED <<told, digests>>

\* Faulty: the run returns.
StopsAtFailure(chat) ==
  /\ digest = "read"
  /\ chat \in left
  /\ left' = {}
  /\ UNCHANGED <<digest, ready, told, digests>>

\* The events of one user cannot be read: the run goes on with the next.
SkipsUser(chat) ==
  /\ digest = "read"
  /\ chat \in left
  /\ left' = left \ {chat}
  /\ UNCHANGED <<digest, ready, told, digests>>

\* The send is attempted; its failure is only logged.
SendsEvents ==
  /\ digest = "send"
  /\ told' = [told EXCEPT ![ready.chat] = ready.ids]
  /\ digest' = "read"
  /\ ready' = Nobody
  /\ UNCHANGED <<left, digests>>

EndsDigest ==
  /\ digest = "read"
  /\ left = {}
  /\ digest' = "rest"
  /\ UNCHANGED <<left, ready, told, digests>>
=============================================================================
