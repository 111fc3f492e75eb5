------------------------------ MODULE Updates ------------------------------
(***************************************************************************)
(* How an update gets from a user to its handler, and what the stops of    *)
(* the process do to it.  Telegram keeps the updates until it is asked for *)
(* later ones.  One goroutine of the bot library asks for the updates      *)
(* after the last it has taken and pushes them into a channel; another     *)
(* takes them out, finds the handler and starts a goroutine with it.       *)
(*                                                                         *)
(* The offset lives in memory, and the context of the library is never     *)
(* cancelled: while Shutdown closes the database, the two goroutines go on *)
(* handing updates to handlers whose statements fail.                      *)
(***************************************************************************)
EXTENDS Routing, Functions

CONSTANTS
  Wants,        \* for each update in turn, what its sender may want
  MaxAnswer,    \* updates in one answer of the server, 100 there
  ChanCap,      \* capacity of the channel, 1024 in the source
  MaxRestarts   \* bound on the restarts of the process

\* Anything a user can send: the buttons the bot offers, commands, texts and
\* pictures.
Messages == {Does(op, None, None) : op \in {"start", "help", "add", "list", "text"}}
Anything == Buttons(Numbers, Numbers \ {0}) \cup Messages \cup {Ignored}

ASSUME UpdatesAssumption ==
  /\ Wants \in Seq(SUBSET Anything)
  /\ MaxAnswer \in Nat \ {0}
  /\ ChanCap \in Nat \ {0}

VARIABLES
  sent,          \* what was sent so far; the id of an update is its place
  confirmed,     \* Telegram has dropped the updates up to this id
  lastUpdateID,  \* of the bot library
  fetched,       \* ids of the last answer that have still to be pushed
  updates,       \* the channel
  running,       \* the goroutines: for the id of an update what it set out to do
  process        \* "up", "closing" with the database closed, or "down"

VARIABLES  \* observers
  acted,       \* how often the handler of each update ran to its end
  casualties,  \* updates lost in a stop of the process
  restarts

stages == <<lastUpdateID, fetched, updates, running>>
observers == <<acted, casualties, restarts>>
vars == <<sent, confirmed, stages, process, observers>>

Ids == 1 .. Len(Wants)

TypeOK ==
  /\ sent \in Seq(UNION ToSet(Wants)) /\ Len(sent) <= Len(Wants)
  /\ \A u \in DOMAIN sent : sent[u] \in Wants[u]
  /\ confirmed \in 0 .. Len(sent)
  /\ lastUpdateID \in 0 .. Len(sent)
  /\ fetched \in Seq(Ids) /\ Len(fetched) <= MaxAnswer
  /\ updates \in Seq(Ids) /\ Len(updates) <= ChanCap
  /\ DOMAIN running \subseteq Ids
  /\ process \in {"up", "closing", "down"}
  /\ acted \in [Ids -> Nat]
  /\ casualties \subseteq Ids
  /\ restarts \in Nat

Init ==
  /\ sent = <<>>
  /\ confirmed = 0
  /\ lastUpdateID = 0
  /\ fetched = <<>> /\ updates = <<>> /\ running = [u \in {} |-> Ignored]
  /\ process = "up"
  /\ acted = [u \in Ids |-> 0]
  /\ casualties = {}
  /\ restarts = 0

-----------------------------------------------------------------------------
(* Users and Telegram *)

\* A user presses a button, or types a message.
Sends ==
  /\ Len(sent) < Len(Wants)
  /\ \E want \in Wants[Len(sent) + 1] : sent' = Append(sent, want)
  /\ UNCHANGED <<confirmed, stages, process, observers>>

\* The update as the library sees it.
AsUpdate(want) ==
  CASE want.op = "start"  -> Message(<<"/start">>)
    [] want.op = "help"   -> Message(<<"/help">>)
    [] want.op = "add"    -> Message(<<"/add", " ", "date", " ", "time", " ", "text">>)
    [] want.op = "list"   -> Message(<<"/list">>)
    [] want.op = "text"   -> Message(<<"words">>)
    [] want = Ignored     -> Message(<<>>)  \* a picture, a sticker
    [] OTHER              -> Pressed(want)

\* What the goroutine of an update sets out to do.
Meaning == [want \in UNION {Wants[u] : u \in Ids} |-> Understood(AsUpdate(want))]

\* The updates an answer to getUpdates carries: the oldest ones from the offset.
Pending(offset) ==
  LET last == IF Len(sent) < offset + MaxAnswer THEN Len(sent) ELSE offset + MaxAnswer - 1
  IN  [i \in 1 .. last - offset + 1 |-> offset + i - 1]

-----------------------------------------------------------------------------
(* getUpdates *)

\* Faulty: the offset leaves one update out.
OffsetTooFar == lastUpdateID + 2

\* Faulty: the offset is that of the last update itself.
OffsetRepeated == IF lastUpdateID = 0 THEN 1 ELSE lastUpdateID

Offset == lastUpdateID + 1

Alive == process \in {"up", "closing"}

\* The first update the server has from the offset on.
First == IF Offset > confirmed THEN Offset ELSE confirmed + 1

\* Telegram drops what is before the offset, whether or not its answer arrives.
\* It answers when there is something to answer with.
Polls ==
  /\ Alive
  /\ fetched = <<>>
  /\ First <= Len(sent)
  /\ confirmed' = First - 1
  /\ fetched' = Pending(First)
  /\ UNCHANGED <<sent, lastUpdateID, updates, running, process, observers>>

\* The answer is lost, or is empty; the next poll has the same offset.
PollFails ==
  /\ Alive
  /\ fetched = <<>>
  /\ Offset - 1 > confirmed
  /\ confirmed' = Offset - 1
  /\ UNCHANGED <<sent, stages, process, observers>>

\* Faulty: the channel is taken to have room.
PushesAnyway ==
  /\ Alive
  /\ fetched # <<>>
  /\ lastUpdateID' = Head(fetched)
  /\ fetched' = Tail(fetched)
  /\ updates' = Append(updates, Head(fetched))
  /\ UNCHANGED <<sent, confirmed, running, process, observers>>

\* Faulty: the answer is walked from its end.
PushesLastFirst ==
  /\ Alive
  /\ fetched # <<>>
  /\ Len(updates) < ChanCap
  /\ lastUpdateID' = Last(fetched)
  /\ fetched' = Front(fetched)
  /\ updates' = Append(updates, Last(fetched))
  /\ UNCHANGED <<sent, confirmed, running, process, observers>>

\* Faulty: the last place of the channel is never used.
PushesBelowCapacity ==
  /\ Alive
  /\ fetched # <<>>
  /\ Len(updates) < ChanCap - 1
  /\ lastUpdateID' = Head(fetched)
  /\ fetched' = Tail(fetched)
  /\ updates' = Append(updates, Head(fetched))
  /\ UNCHANGED <<sent, confirmed, running, process, observers>>

\* The id is stored before the update is pushed, which waits for a place.
Pushes ==
  /\ Alive
  /\ fetched # <<>>
  /\ Len(updates) < ChanCap
  /\ lastUpdateID' = Head(fetched)
  /\ fetched' = Tail(fetched)
  /\ updates' = Append(updates, Head(fetched))
  /\ UNCHANGED <<sent, confirmed, running, process, observers>>

-----------------------------------------------------------------------------
(* waitUpdates and ProcessUpdate *)

Dispatches ==
  /\ Alive
  /\ updates # <<>>
  /\ updates' = Tail(updates)
  /\ LET u == Head(updates)  does == Meaning[sent[u]]
     IN  running' = [x \in DOMAIN running \cup {u} |-> IF x = u THEN does ELSE running[x]]
  /\ UNCHANGED <<sent, confirmed, lastUpdateID, fetched, process, observers>>

\* Operations that work without the table: fixed texts, menus, and questions.
\* A typed message needs it only when it answers a question.
WithoutTable == {"start", "help", "ignored", "snoozeCustom", "edit", "editDate",
                 "customDate", "description", "text"}
MayNeedTable(op) == op \notin WithoutTable \ {"text"}

\* The handler of u ends: what it had to do is done, or refused and the user
\* told so.
HandlerEnds(u) ==
  /\ Alive
  /\ u \in DOMAIN running
  /\ process = "up" \/ running[u].op \in WithoutTable
  /\ running' = Restrict(running, DOMAIN running \ {u})
  /\ acted' = [acted EXCEPT ![u] = @ + 1]
  /\ UNCHANGED <<sent, confirmed, lastUpdateID, fetched, updates, process,
                 casualties, restarts>>

\* With the database closed a statement fails, and the update is used up.
HandlerFails(u) ==
  /\ process = "closing"
  /\ u \in DOMAIN running
  /\ MayNeedTable(running[u].op)
  /\ running' = Restrict(running, DOMAIN running \ {u})
  /\ casualties' = casualties \cup {u}
  /\ UNCHANGED <<sent, confirmed, lastUpdateID, fetched, updates, process, acted, restarts>>

-----------------------------------------------------------------------------
(* main and Shutdown *)

\* SIGTERM: the database is closed first.
CloseDatabase ==
  /\ process = "up"
  /\ restarts < MaxRestarts
  /\ process' = "closing"
  /\ UNCHANGED <<sent, confirmed, stages, observers>>

InMemory == ToSet(fetched) \cup ToSet(updates) \cup DOMAIN running

\* main returns, or the process dies: memory is lost, and with it the updates
\* that Telegram has dropped already.
Exits ==
  /\ Alive
  /\ restarts < MaxRestarts
  /\ process' = "down"
  /\ lastUpdateID' = 0
  /\ fetched' = <<>> /\ updates' = <<>> /\ running' = [u \in {} |-> Ignored]
  /\ casualties' = casualties \cup {u \in InMemory : u <= confirmed}
  /\ restarts' = restarts + 1
  /\ UNCHANGED <<sent, confirmed, acted>>

StartsUp ==
  /\ process = "down"
  /\ process' = "up"
  /\ UNCHANGED <<sent, confirmed, stages, observers>>

-----------------------------------------------------------------------------

Next ==
  \/ Sends
  \/ Polls \/ PollFails \/ Pushes \/ Dispatches
  \/ \E u \in Ids : HandlerEnds(u) \/ HandlerFails(u)
  \/ CloseDatabase \/ Exits \/ StartsUp

(***************************************************************************)
(* Fairness.  The goroutines of the library and of the handlers go on      *)
(* while the process is up, a poll does not fail for ever, a shutdown      *)
(* comes to its end and the process is started again.                      *)
(***************************************************************************)
Fairness ==
  /\ WF_vars(Polls) /\ WF_vars(Pushes) /\ WF_vars(Dispatches)
  /\ \A u \in Ids : WF_vars(HandlerEnds(u)) /\ WF_vars(HandlerFails(u))
  /\ WF_vars(process = "closing" /\ Exits) /\ WF_vars(StartsUp)

Spec == Init /\ [][Next]_vars /\ Fairness

-----------------------------------------------------------------------------
(* Properties *)

\* An update acts once, and once more at most for each restart: what was handled
\* but not yet confirmed to Telegram is delivered to the next process again.
OncePerProcess == \A u \in Ids : acted[u] <= 1 + restarts

\* An update is lost only in a stop of the process: every other one still waits at
\* Telegram, is on its way, or has had its handler run to the end (get_updates.go,
\* lines 50 to 80).
NothingForgotten ==
  \A u \in DOMAIN sent :
    u > confirmed \/ u \in InMemory \/ acted[u] > 0 \/ u \in casualties

\* Every button and command reaches the handler its keyboard was made for, with
\* the event and the word that were put into it (RegisterHandlers).
UnderstoodAsMeant == \A u \in DOMAIN running : running[u] = sent[u]

\* Within one process updates are started once each, in the order in which they
\* were sent (their first statements may then come in any order).
StartedInOrder ==
  LET waiting == updates \o fetched
  IN  /\ \A i, k \in DOMAIN waiting : i < k => waiting[i] < waiting[k]
      /\ \A u \in DOMAIN running, i \in DOMAIN waiting : u < waiting[i]

\* Every update is acted on in the end, unless a stop of the process loses it.
EveryUpdateEnds ==
  \A u \in Ids : (u \in DOMAIN sent) ~> (acted[u] > 0 \/ u \in casualties)

-----------------------------------------------------------------------------
(* The inductive invariant *)

\* Everything up to here was taken by this process or dropped by Telegram.
Fresh == IF lastUpdateID > confirmed THEN lastUpdateID ELSE confirmed

\* What waits is a run of consecutive ids: the channel ends with the last update
\* taken, the rest of the answer goes on from there, and what runs came before.
Consecutive ==
  /\ \A i \in DOMAIN fetched : fetched[i] = Fresh + i
  /\ Fresh + Len(fetched) <= Len(sent)
  /\ Len(updates) <= lastUpdateID
  /\ \A i \in DOMAIN updates : updates[i] = lastUpdateID - Len(updates) + i
  /\ \A u \in DOMAIN running : u <= lastUpdateID - Len(updates)
  /\ lastUpdateID > 0 => confirmed <= lastUpdateID

\* What was taken or dropped is accounted for.
Accounted ==
  \A u \in DOMAIN sent :
    u <= Fresh => u \in InMemory \/ acted[u] > 0 \/ u \in casualties

\* What this process has still to handle acted in earlier ones only.
NotYet ==
  \A u \in Ids :
    u \in DOMAIN running \/ u > lastUpdateID - Len(updates) => acted[u] <= restarts

IInv == TypeOK /\ Consecutive /\ Accounted /\ NotYet /\ OncePerProcess
=============================================================================
