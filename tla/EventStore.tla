----------------------------- MODULE EventStore -----------------------------
(***************************************************************************)
(* The "events" table and the repository of package db, together with the  *)
(* two other things every part of the program looks at: the wall clock and *)
(* the inline keyboards that the bot has put into a chat.                  *)
(*                                                                         *)
(* Every operator is one SQL statement, hence atomic.  The handlers and    *)
(* the reminder job never open a transaction: they read a row with one     *)
(* statement and write some of its columns with a later one.               *)
(***************************************************************************)
EXTENDS Integers, FiniteSets

CONSTANTS
  EventIds,  \* values of the "eventId" sequence
  Chats,     \* values of "userTgId"; in a private chat also the user's id
  Texts      \* messages of at most 200 bytes

ASSUME StoreAssumption == EventIds \subseteq Nat \ {0}

\* The ids come from a serial column, which ends.
ASSUME SerialEnds == IsFiniteSet(EventIds)

VARIABLES
  events,    \* the rows ever inserted: a function from ids to Row
  now,       \* time.Now() and NOW()
  keyboards  \* for each event, the keyboards its owner has been sent

storeVars == <<events, now, keyboards>>

StatusEnabled  == 1
StatusDisabled == 2
StatusDeleted  == 3

Intervals     == {"hour", "day", "week"}
Periodicities == Intervals \cup {"weekdays"}
NoPeriod      == "nil"

\* Keyboards that only a particular message carries.  The menus reached from
\* /list need no record: they can be opened, and kept open, for any event.
KeyboardKinds == {"periodicity", "weekdays", "reminder"}

\* The order of the weekdays slice is only ever displayed, and toggling keeps
\* it free of duplicates, so it is a set.
Row ==
  [userTgId    : Chats,
   message     : Texts,
   sendAt      : Nat,
   statusId    : {StatusEnabled, StatusDisabled, StatusDeleted},
   weekdays    : SUBSET (1 .. 7),
   periodicity : Periodicities \cup {NoPeriod}]

StoreTypeOK ==
  /\ DOMAIN events \subseteq EventIds
  /\ events \in [DOMAIN events -> Row]
  /\ now \in Nat
  /\ keyboards \in [EventIds -> SUBSET KeyboardKinds]

-----------------------------------------------------------------------------
(* Queries *)

\* The rows EventByID can return: StatusFilter hides the deleted ones.
EventByID(id) ==
  {r \in {events[e] : e \in DOMAIN events \cap {id}} :
     r.statusId \in {StatusEnabled, StatusDisabled}}

\* Faulty: the filter on the status is left out.
EventsToSendOfAnyStatus ==
  [e \in {x \in DOMAIN events : events[x].sendAt <= now} |-> events[e]]

\* Faulty: the filter on the date is left out.
EventsToSendEarly ==
  [e \in {x \in DOMAIN events : events[x].statusId = StatusEnabled} |-> events[e]]

\* Faulty: a page of one row is read.
EventsToSendOne ==
  [e \in {x \in DOMAIN events : /\ events[x].statusId = StatusEnabled
                                /\ events[x].sendAt <= now
                                /\ \A y \in DOMAIN events :
                                     events[y].statusId = StatusEnabled
                                       /\ events[y].sendAt <= now => x <= y}
     |-> events[e]]

\* The result of EventsToSend, as a function from ids to the rows read.
EventsToSend ==
  [e \in {x \in DOMAIN events : /\ events[x].statusId = StatusEnabled
                                /\ events[x].sendAt <= now} |-> events[e]]

CountUserPeriodicEvents(chat) ==
  Cardinality({e \in DOMAIN events : /\ events[e].userTgId = chat
                                     /\ events[e].statusId = StatusEnabled
                                     /\ events[e].periodicity # NoPeriod})

-----------------------------------------------------------------------------
(* Statements that change the table *)

\* INSERT: the sequence gives an id no row has had before.
AddEvent(id, row) ==
  /\ id \in EventIds \ DOMAIN events
  /\ events' = [e \in DOMAIN events \cup {id} |-> IF e = id THEN row ELSE events[e]]

\* The row after SET of the columns cols to their values in the struct row.
SetColumns(old, row, cols) ==
  [old EXCEPT
    !.message     = IF "message"     \in cols THEN row.message     ELSE @,
    !.sendAt      = IF "sendAt"      \in cols THEN row.sendAt      ELSE @,
    !.statusId    = IF "statusId"    \in cols THEN row.statusId    ELSE @,
    !.weekdays    = IF "weekdays"    \in cols THEN row.weekdays    ELSE @,
    !.periodicity = IF "periodicity" \in cols THEN row.periodicity ELSE @]

\* Faulty: the whole row is written, as without WithColumns.
UpdateWholeEvent(id, row, cols) ==
  /\ id \in DOMAIN events
  /\ events' = [events EXCEPT ![id] = row]

\* UPDATE ... WHERE "eventId" = id: the status of the row is not looked at.
UpdateEvent(id, row, cols) ==
  /\ id \in DOMAIN events
  /\ events' = [events EXCEPT ![id] = SetColumns(@, row, cols)]

\* Rows are never removed: deleting is an update of the status column.
DeleteEvent(id) ==
  /\ id \in DOMAIN events
  /\ events' = [events EXCEPT ![id].statusId = StatusDeleted]

-----------------------------------------------------------------------------

CONSTANT MaxNow  \* bound of the instances on the clock

\* Time passes.
Clock ==
  /\ now < MaxNow
  /\ now' = now + 1
  /\ UNCHANGED <<events, keyboards>>
=============================================================================
