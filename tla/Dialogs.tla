------------------------------ MODULE Dialogs ------------------------------
(***************************************************************************)
(* The dialogs of the bot: it asks for a date or a description, remembers  *)
(* for the chat which event it asked about (snoozeStates, EditStates), and *)
(* takes the next typed message as the answer.  Every other button of the  *)
(* events there are may be pressed meanwhile.  The handlers run alone      *)
(* here: the job makes nothing periodic and answers nothing.  The          *)
(* variables declared here observe what was asked and answered.            *)
(***************************************************************************)
EXTENDS Handlers

CONSTANTS
  SavedRows,   \* the rows in the table
  MaxPrompts   \* bound on the questions asked about each event

ASSUME SavedRowsAssumption == SavedRows \subseteq Row
ASSUME PromptsAssumption == MaxPrompts \in Nat

VARIABLES
  asked,     \* questions asked about each event
  answered,  \* messages that were accepted as answers, for each event
  waiting    \* for each chat, the event a time was last asked for, until a
             \* message is taken as the answer

vars == <<storeVars, handlersVars, asked, answered, waiting>>

TypeOK ==
  /\ StoreTypeOK
  /\ HandlersTypeOK
  /\ asked \in [EventIds -> 0 .. MaxPrompts]
  /\ answered \in [EventIds -> Nat]
  /\ waiting \in [Chats -> EventIds \cup {NoState}]

\* The events were added before, and all their keyboards are in the chats, the one
\* that askForWeekdays sends among them.
Init ==
  /\ events \in [EventIds -> SavedRows]
  /\ now = 0
  /\ keyboards = [e \in EventIds |-> KeyboardKinds]
  /\ HandlersInit
  /\ asked = [e \in EventIds |-> 0]
  /\ answered = [e \in EventIds |-> 0]
  /\ waiting = [c \in Chats |-> NoState]

AsksTime(chat, e) ==
  /\ handleSnoozeCustom(chat, e)
  /\ waiting' = [waiting EXCEPT ![chat] = e]

AsksEdit(chat, e) ==
  /\ HandlePostponeCustom(chat, e) \/ HandleEditDescription(chat, e)
  /\ UNCHANGED waiting

Asks(chat, e) ==
  /\ AsksTime(chat, e) \/ AsksEdit(chat, e)
  /\ asked[e] < MaxPrompts
  /\ asked' = [asked EXCEPT ![e] = @ + 1]
  /\ UNCHANGED answered

Reads(w, chat, typed) ==
  /\ textHandler(w, chat, typed)
  /\ waiting' = IF snoozeStates[chat] = waiting[chat]
                THEN [waiting EXCEPT ![chat] = NoState] ELSE waiting
  /\ UNCHANGED <<asked, answered>>

Presses(w, chat, e) == Buttons(w, chat, e) /\ UNCHANGED <<asked, answered, waiting>>

\* The message passes the checks of its dialog and is going to be stored.
Answers(w) ==
  /\ SnoozeEvent(w) \/ handleCustomDateInput(w) \/ handleDescriptionInput(w)
  /\ answered' = [answered EXCEPT ![task[w].state] = @ + 1]
  /\ UNCHANGED <<asked, waiting>>

Goes(w) ==
  /\ \/ Returns(w)
     \/ CountPeriodic(w)
     \/ ClearSnoozeState(w)
     \/ ReadEditState(w)
     \/ ClearEditState(w)
     \/ Save(w)
  /\ UNCHANGED <<asked, answered, waiting>>

Passes == Clock /\ UNCHANGED <<handlersVars, asked, answered, waiting>>

Next ==
  \/ \E chat \in Chats, e \in EventIds : Asks(chat, e)
  \/ \E w \in Workers, chat \in Chats, typed \in Typed : Reads(w, chat, typed)
  \/ \E w \in Workers, chat \in Chats, e \in EventIds : Presses(w, chat, e)
  \/ \E w \in Workers : Answers(w) \/ Goes(w)
  \/ Passes

Spec == Init /\ [][Next]_vars

-----------------------------------------------------------------------------

\* Every question takes one message at most: what is typed later does not
\* change the event again (textHandler deletes the entry before it acts on it).
\* Two messages of one user handled at once may both be taken: each may read the
\* entry before the other deletes it.
OneAnswerEach == \A e \in EventIds : answered[e] <= asked[e]

\* While the bot shows "Ожидание ввода времени..." (botService/handlers.go,
\* line 402), it has the event it is waiting for.
StillWaiting ==
  \A c \in Chats : waiting[c] # NoState => snoozeStates[c] = waiting[c]

\* Of the ways to a period, only the period buttons that follow /add count; they
\* write the period alone (handlers.go, lines 649 to 702).  The selections of
\* weekdays and the edit menu do not, and write the weekdays too (lines 798, 1426
\* and 1576).
IsCounted(t) == t.at = "save" /\ t.cols = {"periodicity"}
IsUncounted(t) == t.at = "save" /\ "periodicity" \in t.cols /\ ~IsCounted(t)

\* Nothing but a period stored uncounted takes a user past the limit ("максимум 100
\* периодических напоминаний", line 664), or further past it: the period buttons of
\* /add refuse whoever has reached it, whichever way the other events became periodic.
GetsPast(c) ==
  /\ CountUserPeriodicEvents(c)' > CountUserPeriodicEvents(c)
  /\ CountUserPeriodicEvents(c)' > MaxPeriodic
OnlyUncounted ==
  \A c \in Chats : GetsPast(c) =>
    \E w \in Workers : IsUncounted(task[w]) /\ task[w].row.userTgId = c /\ Save(w)
LimitPassedUncounted == [][OnlyUncounted]_vars

-----------------------------------------------------------------------------
(* The inductive invariants.  They hold while no user has two handlers at  *)
(* work; those of different users may overlap.                             *)

ChatOf(t) == IF t.at \in {"count", "save"} THEN t.row.userTgId ELSE t.chat

\* Who writes to the bot or presses a button waits until that is handled.
UsersTakeTurns ==
  \A v, w \in Workers :
    task[v] # Idle /\ task[w] # Idle /\ ChatOf(task[v]) = ChatOf(task[w]) => v = w

Owner(e) == events[e].userTgId

Answering == {"clearSnooze", "clearEdit", "SnoozeEvent", "handleCustomDateInput",
              "handleDescriptionInput"}

OfItsOwner(t) ==
  /\ t.at \in {"count", "save"} => t.row.userTgId = Owner(t.event)
  /\ t.at \in Answering => t.chat = Owner(t.state)

\* Questions, copies and answers are about events of their chat.
Owned ==
  /\ DOMAIN events = EventIds
  /\ \A c \in Chats :
       /\ snoozeStates[c] # NoState => Owner(snoozeStates[c]) = c
       /\ EditStates[c] # NoEdit => Owner(EditStates[c].EventID) = c
  /\ \A w \in Workers : OfItsOwner(task[w])

\* A goroutine has read the entry of chat c and not deleted it yet.
Clearing(c, at) == \E w \in Workers : task[w].at = at /\ task[w].chat = c

\* Whence another answer may still be accepted for e: from either of the maps,
\* or from a goroutine that has taken the entry out.
TimeOpen(e) == snoozeStates[Owner(e)] = e /\ ~Clearing(Owner(e), "clearSnooze")
EditOpen(e) == EditStates[Owner(e)].EventID = e /\ ~Clearing(Owner(e), "clearEdit")
AnswerTo(e, t) == t.at \in Answering /\ t.state = e
Taken(e) == \E w \in Workers : AnswerTo(e, task[w])

One(p) == IF p THEN 1 ELSE 0

\* Every answer, accepted or still possible, was asked for.
Budget ==
  \A e \in EventIds :
    answered[e] + One(TimeOpen(e)) + One(EditOpen(e)) + One(Taken(e)) <= asked[e]

\* Who has counted and is about to give an event a period has room for one more.
RoomForOneMore ==
  \A w \in Workers :
    IsCounted(task[w]) => CountUserPeriodicEvents(task[w].row.userTgId) < MaxPeriodic
=============================================================================
