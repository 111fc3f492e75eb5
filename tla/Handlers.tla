------------------------------ MODULE Handlers ------------------------------
(***************************************************************************)
(* The Telegram handlers of packages botservice and event_reminder_bot     *)
(* that change something.                                                  *)
(*                                                                         *)
(* The bot library runs every update in a goroutine of its own; an element *)
(* of Workers is one such goroutine.  A handler reads a row (its first     *)
(* action here), changes its copy, and writes some columns of the copy     *)
(* back with a later statement (Save); nothing keeps other goroutines away *)
(* in between.  A handler that finds no row, or not the sender's row,      *)
(* answers and returns: that is no step here when it happens at the first  *)
(* query, and the step Returns when it happens later.                      *)
(*                                                                         *)
(* Chats are private ones: the id of the chat is the id of the user.       *)
(* Inputs are limited to what the bot offers: a button of a keyboard that  *)
(* was sent for the event, a menu of /list, or a typed message.  A message *)
(* with buttons is edited or deleted only after the handler's work, and    *)
(* that may fail, so a keyboard once sent may be pressed for ever after.   *)
(***************************************************************************)
EXTENDS EventStore

CONSTANTS
  Workers,        \* goroutines that handle updates
  Ops,            \* the operations users invoke in an instance
  Typed,          \* typed messages: the date each parses to, and its text
  Days,           \* the weekday buttons users press in an instance
  SnoozeDelays,   \* delays of the buttons of a reminder
  PostponeDelays, \* delays of the menu "Дата"
  MaxPeriodic,    \* the constant of the source, 100 there
  MaxSendAt       \* bound of the instances on postponed dates

VARIABLES
  task,          \* what each goroutine is about to do
  snoozeStates,  \* chats that were asked for a time: the event, or NoState
  EditStates     \* chats that were asked for a new date or description

handlersVars == <<task, snoozeStates, EditStates>>

TooLong == "longer than 200 bytes"
Unparsable == -1
NoState == 0
NoEdit == [EventID |-> NoState, WaitingFor |-> "nothing"]

Messages == [date : Nat \cup {Unparsable}, text : Texts \cup {TooLong}]
Columns == {"message", "sendAt", "statusId", "weekdays", "periodicity"}

ASSUME HandlersAssumption ==
  /\ Typed \subseteq Messages
  /\ Days \subseteq 1 .. 7
  /\ SnoozeDelays \subseteq Nat /\ PostponeDelays \subseteq Nat
  /\ MaxPeriodic \in Nat

Idle == [at |-> "idle"]
Tasks ==
  {Idle}
  \cup [at : {"count", "save"}, event : EventIds, row : Row, cols : SUBSET Columns]
  \cup [at : {"readEdit"}, chat : Chats, typed : Messages]
  \cup [at : {"clearSnooze", "clearEdit", "SnoozeEvent", "handleCustomDateInput",
              "handleDescriptionInput"},
        chat : Chats, typed : Messages, state : EventIds,
        waitingFor : {"snooze", "custom_date", "description"}]

HandlersTypeOK ==
  /\ task \in [Workers -> Tasks]
  /\ snoozeStates \in [Chats -> EventIds \cup {NoState}]
  /\ EditStates \in [Chats -> {NoEdit} \cup
                        [EventID : EventIds, WaitingFor : {"custom_date", "description"}]]

HandlersInit ==
  /\ task = [w \in Workers |-> Idle]
  /\ snoozeStates = [c \in Chats |-> NoState]
  /\ EditStates = [c \in Chats |-> NoEdit]

-----------------------------------------------------------------------------
(* Steps every handler is made of *)

\* An update of operation op reaches a goroutine.
Starts(w, op) == op \in Ops /\ task[w] = Idle

Becomes(w, t) == task' = [task EXCEPT ![w] = t]

\* The menus of /list are sent to the owner of the event.
Menu(chat, e) == e \in DOMAIN events /\ events[e].userTgId = chat

\* A keyboard was sent to the owner of the event.
Pressed(kind, chat, e) == kind \in keyboards[e] /\ Menu(chat, e)

\* What a handler gets past "not found" and "no access" with.
Accessible(chat, e) == {r \in EventByID(e) : r.userTgId = chat}

\* Faulty: the status of the copy is written with the columns that changed.
WillSaveStatus(w, e, row, cols) ==
  /\ Becomes(w, [at |-> "save", event |-> e, row |-> row,
                 cols |-> cols \cup {"statusId"}])
  /\ UNCHANGED <<storeVars, snoozeStates, EditStates>>

\* The handler goes on to write the columns cols of its copy, now row.
WillSave(w, e, row, cols) ==
  /\ Becomes(w, [at |-> "save", event |-> e, row |-> row, cols |-> cols])
  /\ UNCHANGED <<storeVars, snoozeStates, EditStates>>

\* UpdateEvent, or DeleteEvent, which is UpdateEvent of the column statusId.
Save(w) ==
  /\ task[w].at = "save"
  /\ UpdateEvent(task[w].event, task[w].row, task[w].cols)
  /\ Becomes(w, Idle)
  /\ UNCHANGED <<now, keyboards, snoozeStates, EditStates>>

\* The handler answers and returns: a statement failed, or its checks did.
Returns(w) ==
  /\ task[w].at \in {"count", "save", "SnoozeEvent", "handleCustomDateInput",
                     "handleDescriptionInput"}
  /\ Becomes(w, Idle)
  /\ UNCHANGED <<storeVars, snoozeStates, EditStates>>

-----------------------------------------------------------------------------
(* /add *)

\* The date is in the future, the INSERT gives the event the next id, and the
\* question for its period is sent, or fails to be.
AddHandler(chat, text, date) ==
  /\ "add" \in Ops
  /\ text # TooLong
  /\ date # Unparsable /\ date >= now
  /\ \E id \in EventIds \ DOMAIN events :
       /\ \A k \in EventIds \ DOMAIN events : id <= k
       /\ AddEvent(id, [userTgId |-> chat, message |-> text, sendAt |-> date,
                        statusId |-> StatusEnabled, weekdays |-> {},
                        periodicity |-> NoPeriod])
       /\ \E sent \in BOOLEAN :
            keyboards' = IF sent THEN [keyboards EXCEPT ![id] = @ \cup {"periodicity"}]
                                 ELSE keyboards
  /\ UNCHANGED <<now, handlersVars>>

-----------------------------------------------------------------------------
(* The buttons of a reminder *)

\* handleDoneCallback and DeleteEventByID: the owner is not checked.
handleDoneCallback(w, chat, e) ==
  /\ Starts(w, "done")
  /\ Pressed("reminder", chat, e)
  /\ \E r \in EventByID(e) :
       WillSave(w, e, [r EXCEPT !.statusId = StatusDeleted], {"statusId"})

\* SnoozeEvent up to its update: the checks and the new date.
Snoozes(w, chat, e, newTime) ==
  \E r \in Accessible(chat, e) :
    /\ r.statusId = StatusEnabled
    /\ newTime >= now
    /\ WillSave(w, e, [r EXCEPT !.sendAt = newTime], {"sendAt"})

handleSnoozeCallback(w, chat, e) ==
  /\ Starts(w, "snooze")
  /\ Pressed("reminder", chat, e)
  /\ \E minutes \in SnoozeDelays : Snoozes(w, chat, e, now + minutes)

handleSnoozeCustom(chat, e) ==
  /\ "snoozeCustom" \in Ops
  /\ Pressed("reminder", chat, e)
  /\ snoozeStates' = [snoozeStates EXCEPT ![chat] = e]
  /\ UNCHANGED <<storeVars, task, EditStates>>

-----------------------------------------------------------------------------
(* The keyboards that follow /add *)

\* "none" only answers; the other periods are counted before they are saved.
handlePeriodicityCallback(w, chat, e) ==
  /\ Starts(w, "period")
  /\ Pressed("periodicity", chat, e)
  /\ \E r \in EventByID(e), period \in Intervals :
       Becomes(w, [at |-> "count", event |-> e, cols |-> {"periodicity"},
                   row |-> [r EXCEPT !.periodicity = period]])
  /\ UNCHANGED <<storeVars, snoozeStates, EditStates>>

\* Faulty: the limit itself is let through.
CountOneMore(w) ==
  /\ task[w].at = "count"
  /\ Becomes(w, IF CountUserPeriodicEvents(task[w].row.userTgId) > MaxPeriodic
                THEN Idle ELSE [task[w] EXCEPT !.at = "save"])
  /\ UNCHANGED <<storeVars, snoozeStates, EditStates>>

CountPeriodic(w) ==
  /\ task[w].at = "count"
  /\ Becomes(w, IF CountUserPeriodicEvents(task[w].row.userTgId) >= MaxPeriodic
                THEN Idle ELSE [task[w] EXCEPT !.at = "save"])
  /\ UNCHANGED <<storeVars, snoozeStates, EditStates>>

askForWeekdays(chat, e) ==
  /\ "period" \in Ops
  /\ Pressed("periodicity", chat, e)
  /\ EventByID(e) # {}
  /\ keyboards' = [keyboards EXCEPT ![e] = @ \cup {"weekdays"}]
  /\ UNCHANGED <<events, now, handlersVars>>

toggleDayInSlice(days, day) == IF day \in days THEN days \ {day} ELSE days \cup {day}

handleWeekdayCallback(w, chat, e) ==
  /\ Starts(w, "weekday")
  /\ Pressed("weekdays", chat, e)
  /\ \E r \in EventByID(e), day \in Days :
       WillSave(w, e, [r EXCEPT !.weekdays = toggleDayInSlice(@, day)], {"weekdays"})

handleWeekdaysDoneCallback(w, chat, e) ==
  /\ Starts(w, "weekday")
  /\ Pressed("weekdays", chat, e)
  /\ \E r \in EventByID(e) :
       /\ r.weekdays # {}
       /\ WillSave(w, e, [r EXCEPT !.periodicity = "weekdays"],
                   {"periodicity", "weekdays"})

-----------------------------------------------------------------------------
(* The menus of an event *)

HandleEventDelete(w, chat, e) ==
  /\ Starts(w, "delete")
  /\ Menu(chat, e)
  /\ \E r \in Accessible(chat, e) :
       WillSave(w, e, [r EXCEPT !.statusId = StatusDeleted], {"statusId"})

HandlePostpone(w, chat, e) ==
  /\ Starts(w, "postpone")
  /\ Menu(chat, e)
  /\ \E r \in Accessible(chat, e), duration \in PostponeDelays :
       /\ r.sendAt + duration <= MaxSendAt
       /\ WillSave(w, e, [r EXCEPT !.sendAt = @ + duration], {"sendAt"})

\* These two ask for a message and do not look at the event.
HandlePostponeCustom(chat, e) ==
  /\ "customDate" \in Ops
  /\ Menu(chat, e)
  /\ EditStates' = [EditStates EXCEPT ![chat] =
                      [EventID |-> e, WaitingFor |-> "custom_date"]]
  /\ UNCHANGED <<storeVars, task, snoozeStates>>

HandleEditDescription(chat, e) ==
  /\ "description" \in Ops
  /\ Menu(chat, e)
  /\ EditStates' = [EditStates EXCEPT ![chat] =
                      [EventID |-> e, WaitingFor |-> "description"]]
  /\ UNCHANGED <<storeVars, task, snoozeStates>>

\* "none" and the intervals; "weekdays" only shows the keyboard below.
HandleEditPeriodicityCallback(w, chat, e) ==
  /\ Starts(w, "editPeriod")
  /\ Menu(chat, e)
  /\ \E r \in Accessible(chat, e), period \in Intervals \cup {NoPeriod} :
       WillSave(w, e, [r EXCEPT !.periodicity = period, !.weekdays = {}],
                {"periodicity", "weekdays"})

HandleEditWeekday(w, chat, e) ==
  /\ Starts(w, "editWeekday")
  /\ Menu(chat, e)
  /\ \E r \in Accessible(chat, e), day \in Days :
       WillSave(w, e, [r EXCEPT !.weekdays = toggleDayInSlice(@, day)], {"weekdays"})

HandleEditWeekdaysDone(w, chat, e) ==
  /\ Starts(w, "editWeekday")
  /\ Menu(chat, e)
  /\ \E r \in Accessible(chat, e) :
       /\ r.weekdays # {}
       /\ WillSave(w, e, [r EXCEPT !.periodicity = "weekdays"],
                   {"periodicity", "weekdays"})

-----------------------------------------------------------------------------
(* Typed messages: textHandler reads each of the two maps under its read   *)
(* lock, lets it go, and deletes the entry under the write lock.           *)

textHandler(w, chat, typed) ==
  /\ Starts(w, "text")
  /\ Becomes(w, IF snoozeStates[chat] # NoState
                THEN [at |-> "clearSnooze", chat |-> chat, typed |-> typed,
                      state |-> snoozeStates[chat], waitingFor |-> "snooze"]
                ELSE [at |-> "readEdit", chat |-> chat, typed |-> typed])
  /\ UNCHANGED <<storeVars, snoozeStates, EditStates>>

\* After the entry is gone the date is parsed.
ClearSnoozeState(w) ==
  /\ task[w].at = "clearSnooze"
  /\ snoozeStates' = [snoozeStates EXCEPT ![task[w].chat] = NoState]
  /\ Becomes(w, IF task[w].typed.date = Unparsable THEN Idle
                ELSE [task[w] EXCEPT !.at = "SnoozeEvent"])
  /\ UNCHANGED <<storeVars, EditStates>>

\* Without an entry the message is answered by DefaultHandler.
ReadEditState(w) ==
  /\ task[w].at = "readEdit"
  /\ LET s == EditStates[task[w].chat]
     IN  Becomes(w, IF s = NoEdit THEN Idle
                    ELSE [at |-> "clearEdit", chat |-> task[w].chat,
                          typed |-> task[w].typed, state |-> s.EventID,
                          waitingFor |-> s.WaitingFor])
  /\ UNCHANGED <<storeVars, snoozeStates, EditStates>>

\* Faulty: the entry is not deleted.
KeepEditState(w) ==
  /\ task[w].at = "clearEdit"
  /\ Becomes(w, [task[w] EXCEPT !.at = IF task[w].waitingFor = "custom_date"
                                       THEN "handleCustomDateInput"
                                       ELSE "handleDescriptionInput"])
  /\ UNCHANGED <<storeVars, snoozeStates, EditStates>>

ClearEditState(w) ==
  /\ task[w].at = "clearEdit"
  /\ EditStates' = [EditStates EXCEPT ![task[w].chat] = NoEdit]
  /\ Becomes(w, [task[w] EXCEPT !.at = IF task[w].waitingFor = "custom_date"
                                       THEN "handleCustomDateInput"
                                       ELSE "handleDescriptionInput"])
  /\ UNCHANGED <<storeVars, snoozeStates>>

SnoozeEvent(w) ==
  /\ task[w].at = "SnoozeEvent"
  /\ Snoozes(w, task[w].chat, task[w].state, task[w].typed.date)

handleCustomDateInput(w) ==
  /\ task[w].at = "handleCustomDateInput"
  /\ task[w].typed.date # Unparsable
  /\ task[w].typed.date >= now
  /\ \E r \in Accessible(task[w].chat, task[w].state) :
       WillSave(w, task[w].state, [r EXCEPT !.sendAt = task[w].typed.date], {"sendAt"})

\* Faulty: the length is not checked.
AnyDescription(w) ==
  /\ task[w].at = "handleDescriptionInput"
  /\ \E r \in Accessible(task[w].chat, task[w].state) :
       WillSave(w, task[w].state, [r EXCEPT !.message = task[w].typed.text], {"message"})

handleDescriptionInput(w) ==
  /\ task[w].at = "handleDescriptionInput"
  /\ task[w].typed.text # TooLong
  /\ \E r \in Accessible(task[w].chat, task[w].state) :
       WillSave(w, task[w].state, [r EXCEPT !.message = task[w].typed.text], {"message"})

-----------------------------------------------------------------------------

Buttons(w, chat, e) ==
  \/ handleDoneCallback(w, chat, e)
  \/ handleSnoozeCallback(w, chat, e)
  \/ handlePeriodicityCallback(w, chat, e)
  \/ handleWeekdayCallback(w, chat, e)
  \/ handleWeekdaysDoneCallback(w, chat, e)
  \/ HandleEventDelete(w, chat, e)
  \/ HandlePostpone(w, chat, e)
  \/ HandleEditPeriodicityCallback(w, chat, e)
  \/ HandleEditWeekday(w, chat, e)
  \/ HandleEditWeekdaysDone(w, chat, e)

Prompts(chat, e) ==
  \/ handleSnoozeCustom(chat, e)
  \/ askForWeekdays(chat, e)
  \/ HandlePostponeCustom(chat, e)
  \/ HandleEditDescription(chat, e)

Continues(w) ==
  \/ Returns(w)
  \/ CountPeriodic(w)
  \/ ClearSnoozeState(w)
  \/ ReadEditState(w)
  \/ ClearEditState(w)
  \/ SnoozeEvent(w)
  \/ handleCustomDateInput(w)
  \/ handleDescriptionInput(w)

\* The process dies, or is stopped, and starts again: the maps are empty.
HandlersLost ==
  /\ task' = [w \in Workers |-> Idle]
  /\ snoozeStates' = [c \in Chats |-> NoState]
  /\ EditStates' = [c \in Chats |-> NoEdit]

-----------------------------------------------------------------------------

\* A user never has more periodic events than the bot says it allows
\* ("максимум 100 периодических напоминаний", handlers.go line 664).
PeriodicLimit == \A c \in Chats : CountUserPeriodicEvents(c) <= MaxPeriodic

\* A handler that writes the status writes the deleted one.
DeletesOnly ==
  \A w \in Workers :
    task[w].at \in {"count", "save"} /\ "statusId" \in task[w].cols
      => task[w].row.statusId = StatusDeleted
=============================================================================
