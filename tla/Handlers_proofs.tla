-------------------------- MODULE Handlers_proofs --------------------------
(***************************************************************************)
(* What the steps of the handlers preserve, whatever they run beside:      *)
(* facts that the proofs about the whole program, about the dialogs and    *)
(* about the views share.                                                  *)
(***************************************************************************)
EXTENDS Handlers, TLAPS

HandlersInv == HandlersTypeOK /\ DeletesOnly

LEMMA HandlersInvSame == HandlersInv /\ UNCHANGED handlersVars => HandlersInv'
BY DEF handlersVars, HandlersInv, HandlersTypeOK, DeletesOnly

LEMMA HandlersInvLost == HandlersLost => HandlersInv'
BY DEF HandlersLost, HandlersInv, HandlersTypeOK, DeletesOnly, Tasks, Idle,
       NoEdit, NoState

(***************************************************************************)
(* A goroutine may take up any well-formed task that keeps to the rule.    *)
(***************************************************************************)
LEMMA BecomesInv ==
  ASSUME HandlersInv, NEW w \in Workers, NEW t \in Tasks, Becomes(w, t),
         t.at \in {"count", "save"} /\ "statusId" \in t.cols
           => t.row.statusId = StatusDeleted,
         snoozeStates' \in [Chats -> EventIds \cup {NoState}],
         EditStates' \in [Chats -> {NoEdit} \cup
                            [EventID : EventIds, WaitingFor : {"custom_date", "description"}]]
  PROVE  HandlersInv'
<1> USE DEF HandlersInv, HandlersTypeOK, Becomes
<1>1. HandlersTypeOK'  OBVIOUS
<1>2. DeletesOnly'
  <2> SUFFICES ASSUME NEW v \in Workers,
                      task'[v].at \in {"count", "save"}, "statusId" \in task'[v].cols
               PROVE  task'[v].row.statusId = StatusDeleted
    BY DEF DeletesOnly
  <2>1. CASE v = w  BY <2>1
  <2>2. CASE v # w  BY <2>2 DEF DeletesOnly
  <2> QED  BY <2>1, <2>2
<1> QED  BY <1>1, <1>2

LEMMA WillSaveInv ==
  ASSUME HandlersInv, NEW w \in Workers, NEW e \in EventIds, NEW row \in Row,
         NEW cols \in SUBSET Columns, WillSave(w, e, row, cols),
         "statusId" \in cols => row.statusId = StatusDeleted
  PROVE  HandlersInv' /\ UNCHANGED storeVars
<1> DEFINE t == [at |-> "save", event |-> e, row |-> row, cols |-> cols]
<1>1. t \in Tasks  BY DEF Tasks
<1>2. t.at = "save" /\ t.cols = cols /\ t.row = row  OBVIOUS
<1>3. Becomes(w, t) /\ UNCHANGED <<storeVars, snoozeStates, EditStates>>
  BY DEF WillSave
<1> HIDE DEF t
<1> QED
  BY <1>1, <1>2, <1>3, BecomesInv DEF HandlersInv, HandlersTypeOK

\* What EventByID returns is the row of an id that exists.
LEMMA RowByID ==
  ASSUME StoreTypeOK, NEW e, NEW r \in EventByID(e)
  PROVE  e \in DOMAIN events /\ e \in EventIds /\ r = events[e] /\ r \in Row
BY DEF EventByID, StoreTypeOK

\* A button takes up a copy of the event and is going to write some of its columns,
\* not the period alone; the other way on is to be counted.
SavesCopy(w, e) ==
  \E row \in Row, cols \in SUBSET Columns :
    /\ WillSave(w, e, row, cols)
    /\ row.userTgId = events[e].userTgId
    /\ cols # {"periodicity"}
    /\ "statusId" \in cols => row.statusId = StatusDeleted

LEMMA ButtonsSave ==
  ASSUME StoreTypeOK, NEW w \in Workers, NEW chat \in Chats,
         NEW e \in EventIds, Buttons(w, chat, e)
  PROVE  SavesCopy(w, e) \/ handlePeriodicityCallback(w, chat, e)
<1> USE RowByID DEF Columns, Row, Accessible
<1>0. ASSUME NEW row \in Row, NEW cols \in SUBSET Columns, WillSave(w, e, row, cols),
             row.userTgId = events[e].userTgId, cols # {"periodicity"},
             "statusId" \in cols => row.statusId = StatusDeleted
      PROVE  SavesCopy(w, e)
  BY <1>0 DEF SavesCopy
<1>1. CASE handleDoneCallback(w, chat, e) \/ HandleEventDelete(w, chat, e)
  <2>1. PICK r \in EventByID(e) :
          WillSave(w, e, [r EXCEPT !.statusId = StatusDeleted], {"statusId"})
    BY <1>1 DEF handleDoneCallback, HandleEventDelete
  <2> QED  BY <1>0, <2>1 DEF StatusDeleted
<1>2. CASE handleSnoozeCallback(w, chat, e)
  <2>1. PICK r \in EventByID(e), minutes \in SnoozeDelays :
          WillSave(w, e, [r EXCEPT !.sendAt = now + minutes], {"sendAt"})
    BY <1>2 DEF handleSnoozeCallback, Snoozes
  <2>2. now + minutes \in Nat  BY HandlersAssumption DEF StoreTypeOK
  <2> QED  BY <1>0, <2>1, <2>2
<1>3. CASE handleWeekdayCallback(w, chat, e) \/ HandleEditWeekday(w, chat, e)
  <2>1. PICK r \in EventByID(e), day \in Days :
          WillSave(w, e, [r EXCEPT !.weekdays = toggleDayInSlice(@, day)], {"weekdays"})
    BY <1>3 DEF handleWeekdayCallback, HandleEditWeekday
  <2>2. [r EXCEPT !.weekdays = toggleDayInSlice(@, day)] \in Row
    BY HandlersAssumption DEF toggleDayInSlice
  <2> QED  BY <1>0, <2>1, <2>2
<1>4. CASE handleWeekdaysDoneCallback(w, chat, e) \/ HandleEditWeekdaysDone(w, chat, e)
  <2>1. PICK r \in EventByID(e) :
          WillSave(w, e, [r EXCEPT !.periodicity = "weekdays"],
                   {"periodicity", "weekdays"})
    BY <1>4 DEF handleWeekdaysDoneCallback, HandleEditWeekdaysDone
  <2>2. [r EXCEPT !.periodicity = "weekdays"] \in Row  BY DEF Periodicities
  <2> QED  BY <1>0, <2>1, <2>2
<1>5. CASE HandlePostpone(w, chat, e)
  <2>1. PICK r \in EventByID(e), duration \in PostponeDelays :
          WillSave(w, e, [r EXCEPT !.sendAt = @ + duration], {"sendAt"})
    BY <1>5 DEF HandlePostpone
  <2>2. [r EXCEPT !.sendAt = @ + duration] \in Row  BY HandlersAssumption
  <2> QED  BY <1>0, <2>1, <2>2
<1>6. CASE HandleEditPeriodicityCallback(w, chat, e)
  <2>1. PICK r \in EventByID(e), period \in Intervals \cup {NoPeriod} :
          WillSave(w, e, [r EXCEPT !.periodicity = period, !.weekdays = {}],
                   {"periodicity", "weekdays"})
    BY <1>6 DEF HandleEditPeriodicityCallback
  <2> DEFINE row == [r EXCEPT !.periodicity = period, !.weekdays = {}]
  <2>2. row \in Row /\ row.userTgId = r.userTgId
    <3>1. [r EXCEPT !.periodicity = period] \in Row  BY DEF Periodicities
    <3>2. [[r EXCEPT !.periodicity = period] EXCEPT !.weekdays = {}] \in Row
      BY <3>1
    <3>3. row = [[r EXCEPT !.periodicity = period] EXCEPT !.weekdays = {}]
      OBVIOUS
    <3> QED  BY <3>2, <3>3
  <2>3. WillSave(w, e, row, {"periodicity", "weekdays"})  BY <2>1
  <2>4. row.userTgId = events[e].userTgId  BY <2>2, RowByID
  <2> HIDE DEF row
  <2> QED  BY <1>0, <2>2, <2>3, <2>4
<1> QED
  BY <1>1, <1>2, <1>3, <1>4, <1>5, <1>6 DEF Buttons

LEMMA ButtonsInv ==
  ASSUME StoreTypeOK, HandlersInv, NEW w \in Workers, NEW chat \in Chats,
         NEW e \in EventIds, Buttons(w, chat, e)
  PROVE  HandlersInv' /\ UNCHANGED storeVars
<1>1. CASE SavesCopy(w, e)
  BY <1>1, WillSaveInv DEF SavesCopy
<1>2. CASE handlePeriodicityCallback(w, chat, e)
  <2>1. PICK r \in EventByID(e), period \in Intervals :
          /\ Becomes(w, [at |-> "count", event |-> e, cols |-> {"periodicity"},
                         row |-> [r EXCEPT !.periodicity = period]])
          /\ UNCHANGED <<storeVars, snoozeStates, EditStates>>
    BY <1>2 DEF handlePeriodicityCallback
  <2> DEFINE t == [at |-> "count", event |-> e, cols |-> {"periodicity"},
                   row |-> [r EXCEPT !.periodicity = period]]
  <2>2. t \in Tasks
    <3>1. [r EXCEPT !.periodicity = period] \in Row
      BY RowByID DEF Row, Periodicities, Intervals
    <3> QED  BY <3>1 DEF Tasks, Columns
  <2>3. t.cols = {"periodicity"}  OBVIOUS
  <2> HIDE DEF t
  <2> QED  BY <2>1, <2>2, <2>3, BecomesInv DEF t, HandlersInv, HandlersTypeOK
<1> QED  BY <1>1, <1>2, ButtonsSave

LEMMA PromptsInv ==
  ASSUME StoreTypeOK, HandlersInv, NEW chat \in Chats, NEW e \in EventIds,
         Prompts(chat, e)
  PROVE  HandlersInv' /\ StoreTypeOK' /\ UNCHANGED events
<1> USE DEF HandlersInv, HandlersTypeOK, storeVars, handlersVars
<1>1. CASE handleSnoozeCustom(chat, e)
  BY <1>1 DEF handleSnoozeCustom, DeletesOnly, StoreTypeOK
<1>2. CASE askForWeekdays(chat, e)
  BY <1>2 DEF askForWeekdays, DeletesOnly, StoreTypeOK, KeyboardKinds
<1>3. CASE HandlePostponeCustom(chat, e)
  BY <1>3 DEF HandlePostponeCustom, DeletesOnly, StoreTypeOK
<1>4. CASE HandleEditDescription(chat, e)
  BY <1>4 DEF HandleEditDescription, DeletesOnly, StoreTypeOK
<1> QED  BY <1>1, <1>2, <1>3, <1>4 DEF Prompts

LEMMA TextInv ==
  ASSUME HandlersInv, NEW w \in Workers, NEW chat \in Chats, NEW typed \in Typed,
         textHandler(w, chat, typed)
  PROVE  HandlersInv' /\ UNCHANGED storeVars
<1> USE DEF HandlersInv, HandlersTypeOK
<1> DEFINE t1 == [at |-> "clearSnooze", chat |-> chat, typed |-> typed,
                  state |-> snoozeStates[chat], waitingFor |-> "snooze"]
           t2 == [at |-> "readEdit", chat |-> chat, typed |-> typed]
<1>1. snoozeStates[chat] # NoState => t1 \in Tasks
  BY HandlersAssumption DEF Tasks
<1>2. t2 \in Tasks  BY HandlersAssumption DEF Tasks
<1>3. t1.at = "clearSnooze" /\ t2.at = "readEdit"  OBVIOUS
<1>4. \/ snoozeStates[chat] # NoState /\ Becomes(w, t1)
      \/ Becomes(w, t2)
  BY DEF textHandler
<1>5. UNCHANGED <<storeVars, snoozeStates, EditStates>>  BY DEF textHandler
<1> HIDE DEF t1, t2
<1>6. CASE snoozeStates[chat] # NoState /\ Becomes(w, t1)
  BY <1>1, <1>3, <1>5, <1>6, BecomesInv
<1>7. CASE Becomes(w, t2)
  BY <1>2, <1>3, <1>5, <1>7, BecomesInv
<1> QED  BY <1>4, <1>5, <1>6, <1>7

LEMMA ContinuesInv ==
  ASSUME StoreTypeOK, HandlersInv, NEW w \in Workers, Continues(w)
  PROVE  HandlersInv' /\ UNCHANGED storeVars
<1> USE DEF HandlersInv, HandlersTypeOK
<1>1. Idle \in Tasks /\ Idle.at = "idle"  BY DEF Tasks, Idle
<1>2. task[w] \in Tasks  OBVIOUS
<1>3. CASE Returns(w)
  BY <1>1, <1>3, BecomesInv DEF Returns
<1>4. CASE CountPeriodic(w)
  <2> DEFINE t == [task[w] EXCEPT !.at = "save"]
  <2>1. t \in Tasks /\ t.cols = task[w].cols /\ t.row = task[w].row
    BY <1>2, <1>4 DEF CountPeriodic, Tasks, Idle
  <2>2. Becomes(w, Idle) \/ Becomes(w, t)  BY <1>4 DEF CountPeriodic
  <2>3. "statusId" \in t.cols => t.row.statusId = StatusDeleted
    BY <1>4, <2>1 DEF CountPeriodic, DeletesOnly
  <2>4. UNCHANGED <<storeVars, snoozeStates, EditStates>>
    BY <1>4 DEF CountPeriodic
  <2> HIDE DEF t
  <2> QED  BY <1>1, <2>1, <2>2, <2>3, <2>4, BecomesInv
<1>5. CASE ClearSnoozeState(w)
  <2> DEFINE t == [task[w] EXCEPT !.at = "SnoozeEvent"]
  <2>1. t \in Tasks /\ t.at = "SnoozeEvent" /\ task[w].chat \in Chats
    BY <1>2, <1>5 DEF ClearSnoozeState, Tasks, Idle
  <2>2. Becomes(w, Idle) \/ Becomes(w, t)  BY <1>5 DEF ClearSnoozeState
  <2>3. /\ UNCHANGED <<storeVars, EditStates>>
        /\ snoozeStates' \in [Chats -> EventIds \cup {NoState}]
    BY <1>5, <2>1 DEF ClearSnoozeState
  <2> HIDE DEF t
  <2> QED  BY <1>1, <2>1, <2>2, <2>3, BecomesInv
<1>6. CASE ReadEditState(w)
  <2> DEFINE s == EditStates[task[w].chat]
             t == [at |-> "clearEdit", chat |-> task[w].chat,
                   typed |-> task[w].typed, state |-> s.EventID,
                   waitingFor |-> s.WaitingFor]
  <2>1. task[w].chat \in Chats /\ task[w].typed \in Messages
    BY <1>2, <1>6 DEF ReadEditState, Tasks, Idle
  <2>2. s # NoEdit => s \in [EventID : EventIds, WaitingFor : {"custom_date", "description"}]
    BY <2>1
  <2>3. s # NoEdit => t \in Tasks
    BY <2>1, <2>2 DEF Tasks
  <2>4. t.at = "clearEdit"  OBVIOUS
  <2>5. Becomes(w, Idle) \/ (s # NoEdit /\ Becomes(w, t))
    BY <1>6 DEF ReadEditState
  <2>6. UNCHANGED <<storeVars, snoozeStates, EditStates>>
    BY <1>6 DEF ReadEditState
  <2> HIDE DEF t
  <2> QED  BY <1>1, <2>3, <2>4, <2>5, <2>6, BecomesInv
<1>7. CASE ClearEditState(w)
  <2> DEFINE t == [task[w] EXCEPT !.at = IF task[w].waitingFor = "custom_date"
                                         THEN "handleCustomDateInput"
                                         ELSE "handleDescriptionInput"]
  <2>1. /\ t \in Tasks /\ task[w].chat \in Chats
        /\ t.at \in {"handleCustomDateInput", "handleDescriptionInput"}
    BY <1>2, <1>7 DEF ClearEditState, Tasks, Idle
  <2>2. Becomes(w, t)  BY <1>7 DEF ClearEditState
  <2>3. /\ UNCHANGED <<storeVars, snoozeStates>>
        /\ EditStates' \in [Chats -> {NoEdit} \cup
             [EventID : EventIds, WaitingFor : {"custom_date", "description"}]]
    BY <1>7, <2>1 DEF ClearEditState
  <2> HIDE DEF t
  <2> QED  BY <2>1, <2>2, <2>3, BecomesInv
<1>8. CASE SnoozeEvent(w)
  <2>1. task[w].typed.date \in Nat
    BY <1>2, <1>8 DEF SnoozeEvent, Snoozes, Tasks, Idle, Messages, Unparsable, StoreTypeOK
  <2>2. PICK r \in EventByID(task[w].state) :
          WillSave(w, task[w].state, [r EXCEPT !.sendAt = task[w].typed.date], {"sendAt"})
    BY <1>8 DEF SnoozeEvent, Snoozes, Accessible
  <2>3. [r EXCEPT !.sendAt = task[w].typed.date] \in Row
    BY <2>1, RowByID DEF Row
  <2> QED  BY <2>2, <2>3, RowByID, WillSaveInv DEF Columns
<1>9. CASE handleCustomDateInput(w)
  <2>1. task[w].typed.date \in Nat
    BY <1>2, <1>9 DEF handleCustomDateInput, Tasks, Idle, Messages, Unparsable
  <2>2. PICK r \in EventByID(task[w].state) :
          WillSave(w, task[w].state, [r EXCEPT !.sendAt = task[w].typed.date], {"sendAt"})
    BY <1>9 DEF handleCustomDateInput, Accessible
  <2>3. [r EXCEPT !.sendAt = task[w].typed.date] \in Row
    BY <2>1, RowByID DEF Row
  <2> QED  BY <2>2, <2>3, RowByID, WillSaveInv DEF Columns
<1>10. CASE handleDescriptionInput(w)
  <2>1. task[w].typed.text \in Texts
    BY <1>2, <1>10 DEF handleDescriptionInput, Tasks, Idle, Messages
  <2>2. PICK r \in EventByID(task[w].state) :
          WillSave(w, task[w].state, [r EXCEPT !.message = task[w].typed.text], {"message"})
    BY <1>10 DEF handleDescriptionInput, Accessible
  <2>3. [r EXCEPT !.message = task[w].typed.text] \in Row
    BY <2>1, RowByID DEF Row
  <2> QED  BY <2>2, <2>3, RowByID, WillSaveInv DEF Columns
<1> QED
  BY <1>3, <1>4, <1>5, <1>6, <1>7, <1>8, <1>9, <1>10 DEF Continues

(***************************************************************************)
(* A save changes columns of one row; the status only to deleted.          *)
(***************************************************************************)
LEMMA SaveRows ==
  ASSUME StoreTypeOK, HandlersInv, NEW w \in Workers, Save(w)
  PROVE  /\ StoreTypeOK' /\ HandlersInv'
         /\ DOMAIN events' = DOMAIN events
         /\ \A x \in DOMAIN events :
              events'[x].statusId # events[x].statusId =>
                events'[x].statusId = StatusDeleted
<1> USE DEF HandlersInv, HandlersTypeOK
<1>1. task[w] \in Tasks /\ task[w].at = "save"  BY DEF Save
<1>2. /\ task[w].row \in Row /\ task[w].cols \in SUBSET Columns
      /\ "statusId" \in task[w].cols => task[w].row.statusId = StatusDeleted
  BY <1>1 DEF Tasks, Idle, DeletesOnly
<1>3. PICK e \in DOMAIN events : e = task[w].event  BY DEF Save, UpdateEvent
<1> DEFINE new == SetColumns(events[e], task[w].row, task[w].cols)
<1>4. events' = [events EXCEPT ![e] = new]
  BY <1>3 DEF Save, UpdateEvent
<1>5. new \in Row /\ new.statusId \in {events[e].statusId, StatusDeleted}
  <2>1. events[e] \in Row  BY DEF StoreTypeOK
  <2> QED  BY <1>2, <2>1 DEF SetColumns, Row
<1> HIDE DEF new
<1>6. StoreTypeOK'  BY <1>4, <1>5 DEF Save, StoreTypeOK
<1>7. HandlersInv'
  <2>1. Idle \in Tasks /\ Idle.at = "idle"  BY DEF Tasks, Idle
  <2> QED  BY <2>1, BecomesInv DEF Save
<1> QED  BY <1>4, <1>5, <1>6, <1>7

\* A new event has an id that no row had.
LEMMA AddRows ==
  ASSUME StoreTypeOK, HandlersInv, NEW chat \in Chats, NEW typed \in Typed,
         AddHandler(chat, typed.text, typed.date)
  PROVE  /\ StoreTypeOK' /\ HandlersInv'
         /\ DOMAIN events \subseteq DOMAIN events'
         /\ \A x \in DOMAIN events : events'[x] = events[x]
<1> DEFINE row == [userTgId |-> chat, message |-> typed.text, sendAt |-> typed.date,
                   statusId |-> StatusEnabled, weekdays |-> {},
                   periodicity |-> NoPeriod]
<1>1. PICK id \in EventIds \ DOMAIN events :
        /\ AddEvent(id, row)
        /\ \E sent \in BOOLEAN :
             keyboards' = IF sent THEN [keyboards EXCEPT ![id] = @ \cup {"periodicity"}]
                                  ELSE keyboards
  BY DEF AddHandler
<1>2. row \in Row
  <2>1. typed \in Messages  BY HandlersAssumption
  <2>2. typed.date \in Nat /\ typed.text \in Texts
    BY <2>1 DEF AddHandler, Messages, Unparsable
  <2> QED  BY <2>2 DEF Row
<1>3. keyboards' \in [EventIds -> SUBSET KeyboardKinds]
  BY <1>1 DEF StoreTypeOK, KeyboardKinds
<1>4. now' = now /\ UNCHANGED handlersVars  BY DEF AddHandler
<1> HIDE DEF row
<1>5. events' = [e \in DOMAIN events \cup {id} |-> IF e = id THEN row ELSE events[e]]
  BY <1>1 DEF AddEvent
<1>6. StoreTypeOK'  BY <1>2, <1>3, <1>4, <1>5 DEF StoreTypeOK
<1> QED  BY <1>4, <1>5, <1>6, HandlersInvSame
=============================================================================
