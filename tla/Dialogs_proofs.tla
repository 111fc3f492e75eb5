--------------------------- MODULE Dialogs_proofs ---------------------------
(***************************************************************************)
(* Proofs about the dialogs, for every set of events, chats, goroutines,   *)
(* rows and messages, and every bound.                                     *)
(***************************************************************************)
EXTENDS Dialogs, Handlers_proofs, FiniteSetTheorems

-----------------------------------------------------------------------------
(* Types, however the handlers overlap *)

TypeInv == TypeOK /\ DeletesOnly

LEMMA TypeInit == Init => TypeInv
<1> SUFFICES ASSUME Init PROVE TypeInv  OBVIOUS
<1>1. StoreTypeOK  BY SavedRowsAssumption DEF Init, StoreTypeOK
<1>2. HandlersTypeOK /\ DeletesOnly
  BY DEF Init, HandlersInit, HandlersTypeOK, DeletesOnly, Tasks, Idle, NoEdit, NoState
<1>3. 0 \in 0 .. MaxPrompts  BY PromptsAssumption
<1> QED  BY <1>1, <1>2, <1>3 DEF Init, TypeInv, TypeOK

LEMMA TypeStep == TypeInv /\ [Next]_vars => TypeInv'
<1> SUFFICES ASSUME TypeInv, [Next]_vars PROVE TypeInv'  OBVIOUS
<1> USE DEF TypeInv, TypeOK
<1>0. HandlersInv  BY DEF HandlersInv
<1>1. ASSUME NEW chat \in Chats, NEW e \in EventIds, Asks(chat, e)
      PROVE  TypeInv'
  <2>1. Prompts(chat, e)  BY <1>1 DEF Asks, AsksTime, AsksEdit, Prompts
  <2>2. StoreTypeOK' /\ HandlersInv'  BY <1>0, <2>1, PromptsInv
  <2>3. asked[e] + 1 \in 0 .. MaxPrompts
    BY <1>1, PromptsAssumption DEF Asks
  <2>4. asked' \in [EventIds -> 0 .. MaxPrompts]
    BY <1>1, <2>3 DEF Asks
  <2>5. waiting' \in [Chats -> EventIds \cup {NoState}] /\ answered' = answered
    BY <1>1 DEF Asks, AsksTime, AsksEdit
  <2> QED  BY <2>2, <2>4, <2>5 DEF HandlersInv
<1>2. ASSUME NEW w \in Workers, NEW chat \in Chats, NEW typed \in Typed,
             Reads(w, chat, typed)
      PROVE  TypeInv'
  <2>1. HandlersInv' /\ UNCHANGED storeVars  BY <1>0, <1>2, TextInv DEF Reads
  <2>2. waiting' \in [Chats -> EventIds \cup {NoState}]
        /\ UNCHANGED <<asked, answered>>
    BY <1>2 DEF Reads
  <2> QED  BY <2>1, <2>2 DEF HandlersInv, StoreTypeOK, storeVars
<1>3. ASSUME NEW w \in Workers, NEW chat \in Chats, NEW e \in EventIds,
             Presses(w, chat, e)
      PROVE  TypeInv'
  <2>1. Buttons(w, chat, e)  BY <1>3 DEF Presses, Buttons
  <2>2. HandlersInv' /\ UNCHANGED storeVars  BY <1>0, <2>1, ButtonsInv
  <2> QED  BY <1>3, <2>2 DEF HandlersInv, StoreTypeOK, storeVars, Presses
<1>4. ASSUME NEW w \in Workers, Answers(w)
      PROVE  TypeInv'
  <2>1. Continues(w)  BY <1>4 DEF Answers, Continues
  <2>2. HandlersInv' /\ UNCHANGED storeVars  BY <1>0, <2>1, ContinuesInv
  <2>3. /\ UNCHANGED <<asked, waiting>>
        /\ answered' = [answered EXCEPT ![task[w].state] = @ + 1]
    BY <1>4 DEF Answers
  <2>4. PICK q : answered' = [answered EXCEPT ![q] = @ + 1]  BY <2>3
  <2>5. answered' \in [EventIds -> Nat]
    <3>1. answered \in [EventIds -> Nat]  OBVIOUS
    <3>2. CASE q \in EventIds
      <4>1. answered[q] + 1 \in Nat  BY <3>1, <3>2
      <4> QED  BY <2>4, <3>1, <4>1
    <3>3. CASE q \notin EventIds
      BY <2>4, <3>1, <3>3
    <3> QED  BY <3>2, <3>3
  <2> QED  BY <2>2, <2>3, <2>5 DEF HandlersInv, StoreTypeOK, storeVars
<1>5. ASSUME NEW w \in Workers, Goes(w)
      PROVE  TypeInv'
  <2>1. StoreTypeOK' /\ HandlersInv'
    <3>1. CASE Save(w)  BY <1>0, <3>1, SaveRows
    <3>2. CASE Continues(w)
      BY <1>0, <3>2, ContinuesInv DEF StoreTypeOK, storeVars
    <3> QED  BY <1>5, <3>1, <3>2 DEF Goes, Continues
  <2> QED  BY <1>5, <2>1 DEF HandlersInv, Goes
<1>6. ASSUME now' \in Nat, UNCHANGED <<events, keyboards, handlersVars, asked, answered,
                                        waiting>>
      PROVE  TypeInv'
  <2>1. HandlersInv'  BY <1>0, <1>6, HandlersInvSame
  <2> QED  BY <1>6, <2>1 DEF HandlersInv, StoreTypeOK
<1>7. CASE Passes  BY <1>6, <1>7 DEF Passes, Clock, StoreTypeOK
<1>8. CASE UNCHANGED vars  BY <1>6, <1>8 DEF vars, storeVars, StoreTypeOK
<1> QED  BY <1>1, <1>2, <1>3, <1>4, <1>5, <1>7, <1>8 DEF Next

LEMMA TypeInvariance == Spec => []TypeInv
BY TypeInit, TypeStep, PTL DEF Spec

(***************************************************************************)
(* Type correctness of the dialogs, for any number of handlers at once.    *)
(***************************************************************************)
THEOREM DialogsTypeCorrect == Spec => []TypeOK
BY TypeInvariance, PTL DEF TypeInv

-----------------------------------------------------------------------------
(* Where a goroutine is after each step, and whose affairs it is about *)

Clears == {"clearSnooze", "clearEdit"}

\* A goroutine takes up t, which is its owner's and, where it counts, finds room for a
\* period.
MovesTo(w, t) ==
  /\ Becomes(w, t) /\ t \in Tasks /\ OfItsOwner(t)
  /\ t.at = "save" /\ t.cols = {"periodicity"} =>
       CountUserPeriodicEvents(t.row.userTgId) < MaxPeriodic

LEMMA TaskFields ==
  ASSUME NEW t \in Tasks
  PROVE  /\ t.at \in {"count", "save"} =>
              /\ t.event \in EventIds /\ t.row \in Row /\ t.cols \in SUBSET Columns
         /\ t.at \in Answering => t.chat \in Chats /\ t.state \in EventIds
         /\ t.at \in Answering \cup {"readEdit"} => t.chat \in Chats /\ t.typed \in Messages
         /\ t.at \notin Answering \cup {"count", "save", "readEdit"} => t = Idle
         /\ Idle.at = "idle"
BY DEF Tasks, Idle, Answering

LEMMA SaveTask ==
  ASSUME TypeInv, NEW w \in Workers, NEW e \in EventIds, NEW row \in Row,
         NEW cols \in SUBSET Columns, WillSave(w, e, row, cols),
         row.userTgId = Owner(e), cols # {"periodicity"}
  PROVE  \E t \in Tasks :
           /\ MovesTo(w, t) /\ UNCHANGED <<storeVars, snoozeStates, EditStates>>
           /\ t.at = "save" /\ t.event = e /\ t.cols = cols /\ t.row = row
<1> DEFINE t == [at |-> "save", event |-> e, row |-> row, cols |-> cols]
<1>1. t \in Tasks /\ t.at = "save" /\ t.event = e /\ t.cols = cols /\ t.row = row
  BY DEF Tasks
<1>2. Becomes(w, t) /\ UNCHANGED <<storeVars, snoozeStates, EditStates>>
  BY DEF WillSave
<1> HIDE DEF t
<1> QED  BY <1>1, <1>2 DEF MovesTo, OfItsOwner, Answering

LEMMA PressesTask ==
  ASSUME TypeInv, Owned, NEW w \in Workers, NEW chat \in Chats, NEW e \in EventIds,
         Buttons(w, chat, e)
  PROVE  /\ task[w].at = "idle"
         /\ \E t \in Tasks :
              /\ MovesTo(w, t) /\ UNCHANGED <<storeVars, snoozeStates, EditStates>>
              /\ t.at \in {"count", "save"}
              /\ \A x \in EventIds : ~AnswerTo(x, t)
<1> USE DEF TypeInv, TypeOK
<1>0. task[w].at = "idle"
  <2>1. task[w] = Idle
    BY DEF Buttons, Starts, handleDoneCallback, handleSnoozeCallback,
           handlePeriodicityCallback, handleWeekdayCallback, handleWeekdaysDoneCallback,
           HandleEventDelete, HandlePostpone, HandleEditPeriodicityCallback,
           HandleEditWeekday, HandleEditWeekdaysDone
  <2> QED  BY <2>1 DEF Idle
<1>1. CASE handlePeriodicityCallback(w, chat, e)
  <2>1. PICK r \in EventByID(e), period \in Intervals :
          /\ Becomes(w, [at |-> "count", event |-> e, cols |-> {"periodicity"},
                         row |-> [r EXCEPT !.periodicity = period]])
          /\ UNCHANGED <<storeVars, snoozeStates, EditStates>>
    BY <1>1 DEF handlePeriodicityCallback
  <2> DEFINE row == [r EXCEPT !.periodicity = period]
             t == [at |-> "count", event |-> e, cols |-> {"periodicity"}, row |-> row]
  <2>2. row \in Row /\ row.userTgId = Owner(e)
    BY RowByID DEF Row, Periodicities, Intervals, Owner
  <2> HIDE DEF row
  <2>3. t \in Tasks /\ t.at = "count" /\ t.event = e /\ t.cols = {"periodicity"}
        /\ t.row = row
    BY <2>2 DEF Tasks, Columns
  <2>4. Becomes(w, t)  BY <2>1 DEF row
  <2> HIDE DEF t
  <2> QED  BY <1>0, <2>1, <2>2, <2>3, <2>4 DEF MovesTo, OfItsOwner, AnswerTo, Answering
<1>2. CASE SavesCopy(w, e)
  <2>1. PICK row \in Row, cols \in SUBSET Columns :
          /\ WillSave(w, e, row, cols)
          /\ row.userTgId = Owner(e) /\ cols # {"periodicity"}
    BY <1>2 DEF SavesCopy, Owner
  <2>2. PICK t \in Tasks :
          /\ MovesTo(w, t) /\ UNCHANGED <<storeVars, snoozeStates, EditStates>>
          /\ t.at = "save"
    BY <2>1, SaveTask
  <2> QED  BY <1>0, <2>2 DEF AnswerTo, Answering
<1>3. SavesCopy(w, e) \/ handlePeriodicityCallback(w, chat, e)  BY ButtonsSave
<1> QED  BY <1>1, <1>2, <1>3

LEMMA ReadsTask ==
  ASSUME TypeInv, Owned, NEW w \in Workers, NEW chat \in Chats, NEW typed \in Typed,
         textHandler(w, chat, typed)
  PROVE  \E t \in Tasks :
           /\ MovesTo(w, t) /\ UNCHANGED <<storeVars, snoozeStates, EditStates>>
           /\ t.chat = chat
           /\ \/ t.at = "clearSnooze" /\ snoozeStates[chat] = t.state
              \/ t.at = "readEdit"
<1> USE DEF TypeInv, TypeOK, HandlersTypeOK
<1>1. UNCHANGED <<storeVars, snoozeStates, EditStates>> /\ typed \in Messages
  BY HandlersAssumption DEF textHandler
<1>2. CASE snoozeStates[chat] # NoState
  <2> DEFINE t == [at |-> "clearSnooze", chat |-> chat, typed |-> typed,
                   state |-> snoozeStates[chat], waitingFor |-> "snooze"]
  <2>1. t \in Tasks /\ t.at = "clearSnooze" /\ t.chat = chat
        /\ t.state = snoozeStates[chat]
    BY <1>1, <1>2 DEF Tasks
  <2>2. Becomes(w, t)  BY <1>2 DEF textHandler
  <2>3. Owner(snoozeStates[chat]) = chat  BY <1>2 DEF Owned
  <2> HIDE DEF t
  <2> QED  BY <1>1, <2>1, <2>2, <2>3 DEF MovesTo, OfItsOwner
<1>3. CASE snoozeStates[chat] = NoState
  <2> DEFINE t == [at |-> "readEdit", chat |-> chat, typed |-> typed]
  <2>1. t \in Tasks /\ t.at = "readEdit" /\ t.chat = chat
    BY <1>1 DEF Tasks
  <2>2. Becomes(w, t)  BY <1>3 DEF textHandler
  <2> HIDE DEF t
  <2> QED  BY <1>1, <2>1, <2>2 DEF MovesTo, OfItsOwner, Answering
<1> QED  BY <1>2, <1>3

\* Going on, a goroutine keeps to its chat, its event and what it may answer; it
\* takes the answered entry out of its map, or finds it in EditStates.
GoesOnAs(w, t) ==
  /\ MovesTo(w, t)
  /\ task[w] # Idle
  /\ t # Idle => ChatOf(t) = ChatOf(task[w])
  /\ \/ /\ UNCHANGED <<snoozeStates, EditStates>>
        /\ task[w].at \notin Clears /\ t.at \notin Clears
        /\ \A e \in EventIds : AnswerTo(e, t) => AnswerTo(e, task[w])
     \/ /\ task[w].at = "clearSnooze" /\ t.at \notin Clears
        /\ snoozeStates' = [snoozeStates EXCEPT ![task[w].chat] = NoState]
        /\ UNCHANGED EditStates
        /\ \A e \in EventIds : AnswerTo(e, t) => AnswerTo(e, task[w])
     \/ /\ task[w].at = "clearEdit" /\ t.at \notin Clears
        /\ EditStates' = [EditStates EXCEPT ![task[w].chat] = NoEdit]
        /\ UNCHANGED snoozeStates
        /\ \A e \in EventIds : AnswerTo(e, t) => AnswerTo(e, task[w])
     \/ /\ task[w].at = "readEdit" /\ t.at = "clearEdit"
        /\ t.state = EditStates[task[w].chat].EventID
        /\ UNCHANGED <<snoozeStates, EditStates>>

\* An answer is going to be written.
LEMMA AnswerTask ==
  ASSUME TypeInv, Owned, NEW w \in Workers, task[w].at \in Answering \ Clears,
         NEW row \in Row, NEW cols \in SUBSET {"sendAt", "message"},
         row.userTgId = Owner(task[w].state), WillSave(w, task[w].state, row, cols)
  PROVE  \E t \in Tasks : GoesOnAs(w, t) /\ t.at = "save"
<1>1. task[w] \in Tasks  BY DEF TypeInv, TypeOK, HandlersTypeOK
<1>2. task[w].state \in EventIds  BY <1>1, TaskFields
<1>3. PICK t \in Tasks :
        /\ MovesTo(w, t) /\ UNCHANGED <<storeVars, snoozeStates, EditStates>>
        /\ t.at = "save" /\ t.event = task[w].state /\ t.cols = cols /\ t.row = row
  BY <1>2, SaveTask DEF Columns
<1>4. task[w] # Idle  BY DEF Idle, Answering
<1>5. ChatOf(t) = ChatOf(task[w])
  BY <1>3 DEF ChatOf, Owned, OfItsOwner, Answering
<1>6. t.at \notin Clears /\ \A e \in EventIds : AnswerTo(e, t) => AnswerTo(e, task[w])
  BY <1>3 DEF AnswerTo, Clears, Answering
<1> QED  BY <1>3, <1>4, <1>5, <1>6 DEF GoesOnAs

LEMMA GoesTask ==
  ASSUME TypeInv, Owned, NEW w \in Workers, Goes(w)
  PROVE  \E t \in Tasks : GoesOnAs(w, t)
<1> USE DEF TypeInv, TypeOK
<1>1. Idle \in Tasks /\ Idle.at = "idle"  BY DEF Tasks, Idle
<1>2. task[w] \in Tasks  BY DEF HandlersTypeOK
<1>3. ASSUME Becomes(w, Idle), task[w].at # "idle", task[w].at \notin Clears,
             UNCHANGED <<snoozeStates, EditStates>>
      PROVE  GoesOnAs(w, Idle)
  BY <1>1, <1>3 DEF GoesOnAs, MovesTo, OfItsOwner, AnswerTo, Answering, Clears
<1>4. CASE Returns(w)
  BY <1>1, <1>3, <1>4 DEF Returns, Clears
<1>5. CASE CountPeriodic(w)
  <2>1. task[w].at = "count" /\ UNCHANGED <<storeVars, snoozeStates, EditStates>>
    BY <1>5 DEF CountPeriodic
  <2>2. CASE Becomes(w, Idle)
    BY <1>1, <1>3, <2>1, <2>2 DEF Clears
  <2>3. CASE ~Becomes(w, Idle)
    <3> DEFINE t == [task[w] EXCEPT !.at = "save"]
    <3>1. /\ t \in Tasks /\ t.at = "save" /\ t.event = task[w].event
          /\ t.row = task[w].row /\ t.cols = task[w].cols
      BY <1>2, <2>1 DEF Tasks, Idle
    <3>2. /\ Becomes(w, t)
          /\ ~(CountUserPeriodicEvents(task[w].row.userTgId) >= MaxPeriodic)
      BY <1>5, <2>3 DEF CountPeriodic
    <3>3. CountUserPeriodicEvents(task[w].row.userTgId) \in Nat
      <4>1. task[w].row.userTgId \in Chats  BY <1>2, <2>1, TaskFields DEF Row
      <4>2. IsFiniteSet(DOMAIN events)
        BY SerialEnds, FS_Subset DEF StoreTypeOK
      <4> QED  BY <4>2, FS_Subset, FS_CardinalityType DEF CountUserPeriodicEvents
    <3> HIDE DEF t
    <3>4. MovesTo(w, t)
      BY <2>1, <3>1, <3>2, <3>3, HandlersAssumption
      DEF MovesTo, OfItsOwner, Owned, Answering
    <3>5. task[w] # Idle /\ ChatOf(t) = ChatOf(task[w])
      BY <2>1, <3>1 DEF Idle, ChatOf
    <3>6. \A e \in EventIds : AnswerTo(e, t) => AnswerTo(e, task[w])
      BY <2>1, <3>1 DEF AnswerTo, Answering
    <3> QED  BY <2>1, <3>1, <3>4, <3>5, <3>6 DEF GoesOnAs, Clears
  <2> QED  BY <1>1, <2>2, <2>3
<1>6. CASE ClearSnoozeState(w)
  <2>1. /\ task[w].at = "clearSnooze" /\ UNCHANGED <<storeVars, EditStates>>
        /\ snoozeStates' = [snoozeStates EXCEPT ![task[w].chat] = NoState]
    BY <1>6 DEF ClearSnoozeState
  <2>2. task[w] # Idle  BY <2>1 DEF Idle
  <2>3. CASE Becomes(w, Idle)
    BY <1>1, <2>1, <2>2, <2>3 DEF GoesOnAs, MovesTo, OfItsOwner, AnswerTo, Answering, Clears
  <2>4. CASE ~Becomes(w, Idle)
    <3> DEFINE t == [task[w] EXCEPT !.at = "SnoozeEvent"]
    <3>1. /\ t \in Tasks /\ t.at = "SnoozeEvent" /\ t.state = task[w].state
          /\ t.chat = task[w].chat
      BY <1>2, <2>1 DEF Tasks, Idle
    <3>2. Becomes(w, t)  BY <1>6, <2>4 DEF ClearSnoozeState
    <3> HIDE DEF t
    <3>3. MovesTo(w, t)
      BY <2>1, <3>1, <3>2 DEF MovesTo, OfItsOwner, Owned, Answering
    <3>4. /\ ChatOf(t) = ChatOf(task[w])
          /\ \A e \in EventIds : AnswerTo(e, t) => AnswerTo(e, task[w])
      BY <2>1, <3>1 DEF ChatOf, AnswerTo, Answering
    <3> QED  BY <2>1, <2>2, <3>1, <3>3, <3>4 DEF GoesOnAs, Clears
  <2> QED  BY <1>1, <2>3, <2>4
<1>7. CASE ReadEditState(w)
  <2> DEFINE s == EditStates[task[w].chat]
             t == [at |-> "clearEdit", chat |-> task[w].chat, typed |-> task[w].typed,
                   state |-> s.EventID, waitingFor |-> s.WaitingFor]
  <2>1. task[w].at = "readEdit" /\ UNCHANGED <<storeVars, snoozeStates, EditStates>>
    BY <1>7 DEF ReadEditState
  <2>2. CASE Becomes(w, Idle)
    BY <1>1, <1>3, <2>1, <2>2 DEF Clears
  <2>3. CASE ~Becomes(w, Idle)
    <3>1. Becomes(w, t) /\ s # NoEdit  BY <1>7, <2>3 DEF ReadEditState
    <3>2. task[w].chat \in Chats /\ task[w].typed \in Messages
      BY <1>2, <2>1, TaskFields
    <3>3. s \in [EventID : EventIds, WaitingFor : {"custom_date", "description"}]
      BY <3>1, <3>2 DEF HandlersTypeOK
    <3>4. /\ t \in Tasks /\ t.at = "clearEdit" /\ t.chat = task[w].chat
          /\ t.state = EditStates[task[w].chat].EventID
      BY <3>2, <3>3 DEF Tasks
    <3>5. Owner(t.state) = t.chat
      BY <3>1, <3>2 DEF Owned
    <3> HIDE DEF t
    <3>6. MovesTo(w, t)
      BY <3>1, <3>4, <3>5 DEF MovesTo, OfItsOwner, Answering
    <3>7. task[w] # Idle /\ ChatOf(t) = ChatOf(task[w])
      BY <2>1, <3>4 DEF ChatOf, Idle
    <3> QED  BY <2>1, <3>4, <3>6, <3>7 DEF GoesOnAs
  <2> QED  BY <1>1, <2>2, <2>3
<1>8. CASE ClearEditState(w)
  <2> DEFINE at == IF task[w].waitingFor = "custom_date"
                   THEN "handleCustomDateInput" ELSE "handleDescriptionInput"
             t == [task[w] EXCEPT !.at = at]
  <2>1. /\ task[w].at = "clearEdit" /\ UNCHANGED <<storeVars, snoozeStates>>
        /\ EditStates' = [EditStates EXCEPT ![task[w].chat] = NoEdit]
        /\ Becomes(w, t)
    BY <1>8 DEF ClearEditState
  <2>2. at \in {"handleCustomDateInput", "handleDescriptionInput"}  OBVIOUS
  <2> HIDE DEF at
  <2>3. t \in Tasks /\ t.at = at /\ t.state = task[w].state /\ t.chat = task[w].chat
    BY <1>2, <2>1, <2>2 DEF Tasks, Idle
  <2> HIDE DEF t
  <2>4. MovesTo(w, t)
    BY <2>1, <2>2, <2>3 DEF MovesTo, OfItsOwner, Owned, Answering
  <2>5. /\ task[w] # Idle /\ ChatOf(t) = ChatOf(task[w])
        /\ \A e \in EventIds : AnswerTo(e, t) => AnswerTo(e, task[w])
    BY <2>1, <2>2, <2>3 DEF ChatOf, AnswerTo, Answering, Idle
  <2> QED  BY <2>1, <2>2, <2>3, <2>4, <2>5 DEF GoesOnAs, Clears
<1>9. CASE Save(w)
  BY <1>1, <1>3, <1>9 DEF Save, Clears
<1> QED
  BY <1>4, <1>5, <1>6, <1>7, <1>8, <1>9 DEF Goes

LEMMA AnswersTask ==
  ASSUME TypeInv, Owned, NEW w \in Workers, Answers(w)
  PROVE  /\ task[w].at \in Answering \ Clears
         /\ \E t \in Tasks : GoesOnAs(w, t) /\ t.at = "save"
<1> USE DEF TypeInv, TypeOK
<1>1. task[w] \in Tasks  BY DEF HandlersTypeOK
<1>2. CASE SnoozeEvent(w)
  <2>1. /\ task[w].at \in Answering \ Clears /\ task[w].typed \in Messages
        /\ task[w].typed.date >= now
    BY <1>1, <1>2, TaskFields DEF SnoozeEvent, Snoozes, Answering, Clears
  <2>2. PICK r \in EventByID(task[w].state) :
          WillSave(w, task[w].state, [r EXCEPT !.sendAt = task[w].typed.date], {"sendAt"})
    BY <1>2 DEF SnoozeEvent, Snoozes, Accessible
  <2> DEFINE row == [r EXCEPT !.sendAt = task[w].typed.date]
  <2>3. task[w].typed.date \in Nat
    BY <2>1 DEF Messages, StoreTypeOK, Unparsable
  <2>4. row \in Row /\ row.userTgId = Owner(task[w].state)
    BY <2>3, RowByID DEF Row, Owner
  <2> HIDE DEF row
  <2> QED  BY <2>1, <2>2, <2>4, AnswerTask DEF row
<1>3. CASE handleCustomDateInput(w)
  <2>1. /\ task[w].at \in Answering \ Clears /\ task[w].typed \in Messages
        /\ task[w].typed.date # Unparsable
    BY <1>1, <1>3, TaskFields DEF handleCustomDateInput, Answering, Clears
  <2>2. PICK r \in EventByID(task[w].state) :
          WillSave(w, task[w].state, [r EXCEPT !.sendAt = task[w].typed.date], {"sendAt"})
    BY <1>3 DEF handleCustomDateInput, Accessible
  <2> DEFINE row == [r EXCEPT !.sendAt = task[w].typed.date]
  <2>3. task[w].typed.date \in Nat  BY <2>1 DEF Messages
  <2>4. row \in Row /\ row.userTgId = Owner(task[w].state)
    BY <2>3, RowByID DEF Row, Owner
  <2> HIDE DEF row
  <2> QED  BY <2>1, <2>2, <2>4, AnswerTask DEF row
<1>4. CASE handleDescriptionInput(w)
  <2>1. /\ task[w].at \in Answering \ Clears /\ task[w].typed \in Messages
        /\ task[w].typed.text # TooLong
    BY <1>1, <1>4, TaskFields DEF handleDescriptionInput, Answering, Clears
  <2>2. PICK r \in EventByID(task[w].state) :
          WillSave(w, task[w].state, [r EXCEPT !.message = task[w].typed.text], {"message"})
    BY <1>4 DEF handleDescriptionInput, Accessible
  <2> DEFINE row == [r EXCEPT !.message = task[w].typed.text]
  <2>3. task[w].typed.text \in Texts  BY <2>1 DEF Messages
  <2>4. row \in Row /\ row.userTgId = Owner(task[w].state)
    BY <2>3, RowByID DEF Row, Owner
  <2> HIDE DEF row
  <2> QED  BY <2>1, <2>2, <2>4, AnswerTask DEF row
<1> QED
  BY <1>2, <1>3, <1>4 DEF Answers

-----------------------------------------------------------------------------
(* Dialogs, copies and answers stay with their owner *)

\* Rows change hands with no step.
OwnersKept ==
  DOMAIN events' = DOMAIN events /\ \A e \in EventIds : Owner(e)' = Owner(e)

LEMMA OwnedMoves ==
  ASSUME TypeInv, Owned, OwnersKept, NEW w \in Workers, NEW t \in Tasks,
         Becomes(w, t), OfItsOwner(t),
         \A c \in Chats : /\ snoozeStates'[c] \in {snoozeStates[c], NoState}
                         /\ EditStates'[c] \in {EditStates[c], NoEdit}
  PROVE  Owned'
<1> USE DEF TypeInv, TypeOK, HandlersTypeOK
<1>1. \A e \in EventIds : events'[e].userTgId = Owner(e)
  BY DEF OwnersKept, Owner
<1>5. \A c \in Chats :
        /\ snoozeStates'[c] # NoState => events'[snoozeStates'[c]].userTgId = c
        /\ EditStates'[c] # NoEdit => events'[EditStates'[c].EventID].userTgId = c
  BY <1>1 DEF Owned
<1>2. ASSUME NEW u \in Tasks, OfItsOwner(u) PROVE OfItsOwner(u)'
  BY <1>2, TaskFields DEF OfItsOwner, OwnersKept
<1>3. \A v \in Workers : task'[v] \in Tasks /\ OfItsOwner(task'[v])
  BY DEF Becomes, Owned
<1>4. \A v \in Workers : OfItsOwner(task[v])'
  BY <1>2, <1>3 DEF OfItsOwner, OwnersKept, Owner
<1> QED  BY <1>5, <1>4 DEF Owned, OwnersKept, Owner

LEMMA SaveKeepsOwners ==
  ASSUME TypeInv, Owned, NEW w \in Workers, Save(w)
  PROVE  OwnersKept
<1>1. task[w] \in Tasks /\ task[w].at = "save"
  BY DEF TypeInv, TypeOK, HandlersTypeOK, Save
<1>2. /\ task[w].event \in DOMAIN events
      /\ events' = [events EXCEPT ![task[w].event] =
                      SetColumns(@, task[w].row, task[w].cols)]
  BY DEF Save, UpdateEvent
<1>3. \A r \in Row : SetColumns(r, task[w].row, task[w].cols).userTgId = r.userTgId
  BY DEF SetColumns, Row
<1>4. \A e \in EventIds : events[e] \in Row
  BY DEF Owned, TypeInv, TypeOK, StoreTypeOK
<1> QED  BY <1>2, <1>3, <1>4 DEF OwnersKept, Owner, Owned

LEMMA OwnedInit == Init => Owned
BY DEF Init, HandlersInit, Owned, OfItsOwner, Idle, Answering

LEMMA OwnedStep ==
  ASSUME TypeInv, Owned, [Next]_vars
  PROVE  Owned' /\ OwnersKept
<1> USE DEF TypeInv, TypeOK
<1>1. ASSUME UNCHANGED events PROVE OwnersKept
  BY <1>1 DEF OwnersKept, Owner
<1>2. ASSUME NEW chat \in Chats, NEW e \in EventIds, Asks(chat, e)
      PROVE  Owned' /\ OwnersKept
  <2>1. Owner(e) = chat /\ UNCHANGED <<events, task>>
    BY <1>2 DEF Asks, AsksTime, AsksEdit, handleSnoozeCustom, HandlePostponeCustom,
                HandleEditDescription, Pressed, Menu, Owner, storeVars
  <2>2. \A c \in Chats :
          /\ snoozeStates'[c] = snoozeStates[c]
             \/ (c = chat /\ snoozeStates'[c] = e)
          /\ EditStates'[c] = EditStates[c]
             \/ (c = chat /\ EditStates'[c].EventID = e)
    BY <1>2 DEF Asks, AsksTime, AsksEdit, handleSnoozeCustom, HandlePostponeCustom,
                HandleEditDescription, HandlersTypeOK
  <2> QED  BY <1>1, <2>1, <2>2 DEF Owned, OfItsOwner, Owner
<1>3. ASSUME NEW w \in Workers, NEW t \in Tasks, MovesTo(w, t),
             UNCHANGED <<storeVars, snoozeStates, EditStates>>
      PROVE  Owned' /\ OwnersKept
  BY <1>1, <1>3, OwnedMoves DEF MovesTo, storeVars
<1>4. ASSUME NEW w \in Workers, NEW chat \in Chats, NEW typed \in Typed,
             Reads(w, chat, typed)
      PROVE  Owned' /\ OwnersKept
  BY <1>3, <1>4, ReadsTask DEF Reads
<1>5. ASSUME NEW w \in Workers, NEW chat \in Chats, NEW e \in EventIds,
             Presses(w, chat, e)
      PROVE  Owned' /\ OwnersKept
  BY <1>3, <1>5, PressesTask DEF Presses
<1>6. ASSUME NEW w \in Workers, NEW t \in Tasks, GoesOnAs(w, t), OwnersKept
      PROVE  Owned' /\ OwnersKept
  <2>1. \A c \in Chats : /\ snoozeStates'[c] \in {snoozeStates[c], NoState}
                        /\ EditStates'[c] \in {EditStates[c], NoEdit}
    BY <1>6 DEF GoesOnAs, HandlersTypeOK
  <2> QED  BY <1>6, <2>1, OwnedMoves DEF GoesOnAs, MovesTo
<1>7. ASSUME NEW w \in Workers, Answers(w) \/ Goes(w)
      PROVE  Owned' /\ OwnersKept
  <2>1. Save(w) => OwnersKept  BY SaveKeepsOwners
  <2>2. Continues(w) => OwnersKept
    BY <1>1, ContinuesInv DEF HandlersInv, storeVars
  <2>3. OwnersKept  BY <1>7, <2>1, <2>2 DEF Answers, Goes, Continues
  <2> QED  BY <1>6, <1>7, <2>3, AnswersTask, GoesTask
<1>8. CASE Passes \/ UNCHANGED vars
  BY <1>1, <1>8 DEF Passes, Clock, vars, storeVars, handlersVars, Owned, OfItsOwner, Owner
<1> QED  BY <1>2, <1>4, <1>5, <1>7, <1>8 DEF Next

LEMMA OwnedInvariance == Spec => [](TypeInv /\ Owned)
BY TypeInit, TypeStep, OwnedInit, OwnedStep, PTL DEF Spec

-----------------------------------------------------------------------------
(* One answer for each question, while users take turns *)

BudgetOf(e) ==
  answered[e] + One(TimeOpen(e)) + One(EditOpen(e)) + One(Taken(e)) <= asked[e]

LEMMA BudgetFewer ==
  ASSUME TypeInv, Budget, NEW e \in EventIds,
         answered'[e] = answered[e], asked'[e] = asked[e],
         TimeOpen(e)' => TimeOpen(e), EditOpen(e)' => EditOpen(e), Taken(e)' => Taken(e)
  PROVE  BudgetOf(e)'
<1>1. answered[e] \in Nat /\ asked[e] \in Nat  BY PromptsAssumption DEF TypeInv, TypeOK
<1>2. BudgetOf(e)  BY DEF Budget, BudgetOf
<1> QED  BY <1>1, <1>2 DEF BudgetOf, One

LEMMA ClearingStays ==
  ASSUME TypeInv, NEW w \in Workers, NEW t, Becomes(w, t), NEW c, NEW at, Clearing(c, at),
         task[w].at # at \/ task[w].chat # c
  PROVE  Clearing(c, at)'
<1>1. PICK v \in Workers : task[v].at = at /\ task[v].chat = c  BY DEF Clearing
<1>2. task'[v] = task[v]  BY <1>1 DEF Becomes, TypeInv, TypeOK, HandlersTypeOK
<1> QED  BY <1>1, <1>2 DEF Clearing

LEMMA TakenFewer ==
  ASSUME TypeInv, NEW w \in Workers, NEW t, Becomes(w, t), NEW e \in EventIds,
         AnswerTo(e, t) => AnswerTo(e, task[w])
  PROVE  Taken(e)' => Taken(e)
<1> SUFFICES ASSUME NEW v \in Workers, AnswerTo(e, task'[v]) PROVE Taken(e)
  BY DEF Taken, AnswerTo
<1>1. CASE v = w
  BY <1>1 DEF Becomes, TypeInv, TypeOK, HandlersTypeOK, Taken
<1>2. CASE v # w
  BY <1>2 DEF Becomes, TypeInv, TypeOK, HandlersTypeOK, Taken
<1> QED  BY <1>1, <1>2

\* An entry that is still there, and that nobody is clearing, was so before.
LEMMA OpenFewer ==
  ASSUME TypeInv, Owned, OwnersKept, NEW e \in EventIds, NEW w \in Workers, NEW t,
         Becomes(w, t),
         \/ UNCHANGED snoozeStates /\ task[w].at # "clearSnooze"
         \/ snoozeStates' = [snoozeStates EXCEPT ![task[w].chat] = NoState],
         \/ UNCHANGED EditStates /\ task[w].at # "clearEdit"
         \/ EditStates' = [EditStates EXCEPT ![task[w].chat] = NoEdit]
  PROVE  (TimeOpen(e)' => TimeOpen(e)) /\ (EditOpen(e)' => EditOpen(e))
<1>1. PICK c \in Chats : c = Owner(e) /\ Owner(e)' = c /\ e # NoState
  BY StoreAssumption DEF OwnersKept, Owner, Owned, TypeInv, TypeOK, StoreTypeOK, Row, NoState
<1>2. ASSUME TimeOpen(e)' PROVE TimeOpen(e)
  <2>1. snoozeStates'[c] = e /\ ~Clearing(c, "clearSnooze")'
    BY <1>1, <1>2 DEF TimeOpen, Clearing
  <2>2. snoozeStates[c] = e /\ (task[w].at # "clearSnooze" \/ task[w].chat # c)
    BY <1>1, <2>1 DEF TypeInv, TypeOK, HandlersTypeOK
  <2>3. ~Clearing(c, "clearSnooze")  BY <2>1, <2>2, ClearingStays
  <2> QED  BY <1>1, <2>2, <2>3 DEF TimeOpen
<1>3. ASSUME EditOpen(e)' PROVE EditOpen(e)
  <2>1. EditStates'[c].EventID = e /\ ~Clearing(c, "clearEdit")'
    BY <1>1, <1>3 DEF EditOpen, Clearing
  <2>2. EditStates[c].EventID = e /\ (task[w].at # "clearEdit" \/ task[w].chat # c)
    BY <1>1, <2>1 DEF TypeInv, TypeOK, HandlersTypeOK, NoEdit, NoState
  <2>3. ~Clearing(c, "clearEdit")  BY <2>1, <2>2, ClearingStays
  <2> QED  BY <1>1, <2>2, <2>3 DEF EditOpen
<1> QED  BY <1>2, <1>3

\* Who may answer a question about e is at work for the owner of e.
LEMMA AnswerOfOwner ==
  ASSUME NEW t \in Tasks, OfItsOwner(t), NEW e \in EventIds, AnswerTo(e, t)
  PROVE  t # Idle /\ ChatOf(t) = Owner(e)
BY DEF AnswerTo, OfItsOwner, ChatOf, Idle, Answering

LEMMA BudgetInit == Init => Budget
<1> SUFFICES ASSUME Init, NEW e \in EventIds PROVE BudgetOf(e)
  BY DEF Budget, BudgetOf
<1>1. answered[e] = 0 /\ asked[e] = 0  BY DEF Init
<1>2. Owner(e) \in Chats /\ e # NoState
  BY SavedRowsAssumption, StoreAssumption DEF Init, Owner, Row, NoState
<1>3. ~TimeOpen(e) /\ ~EditOpen(e)
  BY <1>2 DEF Init, HandlersInit, TimeOpen, EditOpen, NoEdit, NoState
<1>4. ~Taken(e)
  BY DEF Init, HandlersInit, Taken, AnswerTo, Answering, Idle
<1> QED  BY <1>1, <1>3, <1>4 DEF BudgetOf, One

\* A question about event q adds one to what may be answered about q.
LEMMA AsksBudget ==
  ASSUME TypeInv, Owned, Budget, NEW chat \in Chats, NEW q \in EventIds, Asks(chat, q)
  PROVE  Budget'
<1> SUFFICES ASSUME NEW e \in EventIds PROVE BudgetOf(e)'
  BY DEF Budget, BudgetOf
<1>0. DOMAIN EditStates = Chats  BY DEF TypeInv, TypeOK, HandlersTypeOK
<1>2. UNCHANGED answered /\ asked' = [asked EXCEPT ![q] = @ + 1]  BY DEF Asks
<1>3. /\ UNCHANGED <<events, task>>
      /\ \/ EditStates' = EditStates /\ snoozeStates' = [snoozeStates EXCEPT ![chat] = q]
         \/ /\ snoozeStates' = snoozeStates
            /\ \A x \in Chats :
                 EditStates'[x] = EditStates[x] \/ (x = chat /\ EditStates'[x].EventID = q)
  <2>1. CASE handleSnoozeCustom(chat, q)  BY <2>1 DEF handleSnoozeCustom, storeVars
  <2>2. CASE HandlePostponeCustom(chat, q) \/ HandleEditDescription(chat, q)
    <3>1. PICK for \in {"custom_date", "description"} :
            /\ EditStates' = [EditStates EXCEPT ![chat] =
                                [EventID |-> q, WaitingFor |-> for]]
            /\ UNCHANGED <<storeVars, task, snoozeStates>>
      BY <2>2 DEF HandlePostponeCustom, HandleEditDescription
    <3> QED  BY <1>0, <3>1 DEF storeVars
  <2> QED  BY <2>1, <2>2 DEF Asks, AsksTime, AsksEdit
<1> USE DEF TypeInv, TypeOK, HandlersTypeOK
<1>1. PICK c \in Chats : c = Owner(e) /\ Owner(e)' = c
  <2>1. events[e] \in Row  BY DEF Owned, StoreTypeOK
  <2> QED  BY <1>3, <2>1 DEF Owner, Row
<1>4. Taken(e)' <=> Taken(e)  BY <1>3 DEF Taken, AnswerTo
<1>5. /\ snoozeStates'[c] = snoozeStates[c] /\ TimeOpen(e)' => TimeOpen(e)
      /\ EditStates'[c] = EditStates[c] /\ EditOpen(e)' => EditOpen(e)
  BY <1>1, <1>3 DEF TimeOpen, EditOpen, Clearing
<1>6. /\ answered[e] \in Nat /\ asked[e] \in Nat /\ answered'[e] = answered[e]
      /\ asked'[e] = IF e = q THEN asked[e] + 1 ELSE asked[e]
  BY <1>2, PromptsAssumption
<1>7. BudgetOf(e)  BY DEF Budget, BudgetOf
<1>8. CASE e = q
  <2>1. (TimeOpen(e)' => TimeOpen(e)) \/ (EditOpen(e)' => EditOpen(e))
    BY <1>3, <1>5
  <2> QED  BY <1>4, <1>6, <1>7, <1>8, <2>1 DEF BudgetOf, One
<1>9. CASE e # q
  <2>1. TimeOpen(e)' => TimeOpen(e)
    <3>1. snoozeStates'[c] = e => snoozeStates[c] = e  BY <1>3, <1>9
    <3> QED  BY <1>1, <1>3, <3>1 DEF TimeOpen, Clearing
  <2>2. EditOpen(e)' => EditOpen(e)
    <3>1. EditStates'[c].EventID = e => EditStates[c].EventID = e  BY <1>3, <1>9
    <3> QED  BY <1>1, <1>3, <3>1 DEF EditOpen, Clearing
  <2> QED  BY <1>4, <1>6, <1>9, <2>1, <2>2, BudgetFewer
<1> QED  BY <1>8, <1>9

\* The message of a chat has nobody else at work for that chat.
LEMMA NobodyClears ==
  ASSUME TypeInv, UsersTakeTurns', NEW w \in Workers, NEW t \in Tasks, Becomes(w, t),
         t # Idle, task[w].at \notin Clears, NEW at \in Clears
  PROVE  ~Clearing(ChatOf(t), at)
<1> SUFFICES ASSUME NEW v \in Workers, task[v].at = at, task[v].chat = ChatOf(t)
             PROVE  FALSE
  BY DEF Clearing
<1>1. v # w  OBVIOUS
<1>2. task'[v] = task[v] /\ task'[w] = t
  BY <1>1 DEF Becomes, TypeInv, TypeOK, HandlersTypeOK
<1>3. task[v] # Idle /\ ChatOf(task[v]) = ChatOf(t)  BY DEF Idle, ChatOf, Clears
<1>4. task'[v] # Idle /\ task'[w] # Idle /\ ChatOf(task'[v]) = ChatOf(task'[w])
  BY <1>2, <1>3
<1>5. (task[v] # Idle /\ task[w] # Idle /\ ChatOf(task[v]) = ChatOf(task[w]) => v = w)'
  BY DEF UsersTakeTurns
<1>6. task'[v] # Idle /\ task'[w] # Idle /\ ChatOf(task'[v]) = ChatOf(task'[w]) => v = w
  BY <1>5 DEF ChatOf, Idle
<1> QED  BY <1>1, <1>4, <1>6

\* Taking an answer for event q out of a map moves it from the map to the goroutine.
LEMMA EntryTaken ==
  ASSUME TypeInv, Owned, Budget, UsersTakeTurns', UNCHANGED <<storeVars, asked, answered>>,
         NEW w \in Workers, NEW t \in Tasks, Becomes(w, t), OfItsOwner(t),
         t.at \in Clears, task[w].at \notin Clears,
         UNCHANGED <<snoozeStates, EditStates>>,
         t.at = "clearSnooze" => snoozeStates[t.chat] = t.state,
         t.at = "clearEdit" => EditStates[t.chat].EventID = t.state
  PROVE  Budget'
<1> SUFFICES ASSUME NEW e \in EventIds PROVE BudgetOf(e)'
  BY DEF Budget, BudgetOf
<1>1. OwnersKept  BY DEF storeVars, OwnersKept, Owner
<1>2. (TimeOpen(e)' => TimeOpen(e)) /\ (EditOpen(e)' => EditOpen(e))
  BY <1>1, OpenFewer DEF Clears
<1>3. answered'[e] = answered[e] /\ asked'[e] = asked[e]  OBVIOUS
<1>4. CASE e # t.state
  <2>1. ~AnswerTo(e, t)  BY <1>4 DEF AnswerTo, Clears
  <2> QED  BY <1>2, <1>3, <2>1, TakenFewer, BudgetFewer
<1>5. CASE e = t.state
  <2>1. PICK c \in Chats : c = t.chat /\ c = Owner(e) /\ c = ChatOf(t) /\ Owner(e)' = c
    BY <1>1, <1>5, TaskFields DEF OfItsOwner, ChatOf, Clears, Answering, OwnersKept
  <2>2. t # Idle  BY DEF Idle, Clears
  <2>3. ~Clearing(c, t.at)
    BY <2>1, <2>2, NobodyClears
  <2>4. Clearing(c, t.at)'
    BY <2>1 DEF Clearing, Becomes, TypeInv, TypeOK, HandlersTypeOK
  <2>5. \/ TimeOpen(e) /\ ~TimeOpen(e)'
        \/ EditOpen(e) /\ ~EditOpen(e)'
    <3>1. CASE t.at = "clearSnooze"
      <4>1. TimeOpen(e)  BY <1>5, <2>1, <2>3, <3>1 DEF TimeOpen
      <4>2. ~TimeOpen(e)'  BY <2>1, <2>4, <3>1 DEF TimeOpen, Clearing
      <4> QED  BY <4>1, <4>2
    <3>2. CASE t.at = "clearEdit"
      <4>1. EditOpen(e)  BY <1>5, <2>1, <2>3, <3>2 DEF EditOpen
      <4>2. ~EditOpen(e)'  BY <2>1, <2>4, <3>2 DEF EditOpen, Clearing
      <4> QED  BY <4>1, <4>2
    <3> QED  BY <3>1, <3>2 DEF Clears
  <2>6. answered[e] \in Nat /\ asked[e] \in Nat /\ BudgetOf(e)
    BY PromptsAssumption DEF TypeInv, TypeOK, Budget, BudgetOf
  <2> QED  BY <1>2, <1>3, <2>5, <2>6 DEF BudgetOf, One
<1> QED  BY <1>4, <1>5

\* An accepted answer is no longer to be accepted.
LEMMA AnswersBudget ==
  ASSUME TypeInv, Owned, Budget, UsersTakeTurns, OwnersKept, NEW w \in Workers, Answers(w)
  PROVE  Budget'
<1> SUFFICES ASSUME NEW e \in EventIds PROVE BudgetOf(e)'
  BY DEF Budget, BudgetOf
<1> DEFINE q == task[w].state
<1>1. /\ task[w].at \in Answering \ Clears
      /\ asked' = asked /\ answered' = [answered EXCEPT ![q] = @ + 1]
  BY AnswersTask DEF Answers
<1>2. PICK t \in Tasks : GoesOnAs(w, t) /\ t.at = "save"
  BY AnswersTask
<1>3. Becomes(w, t) /\ UNCHANGED <<snoozeStates, EditStates>>
  BY <1>1, <1>2 DEF GoesOnAs, MovesTo, Clears
<1>4. (TimeOpen(e)' => TimeOpen(e)) /\ (EditOpen(e)' => EditOpen(e))
  BY <1>1, <1>3, OpenFewer DEF Clears
<1>5. ~AnswerTo(e, t)  BY <1>2 DEF AnswerTo, Answering
<1>6. CASE e # q
  <2>1. answered'[e] = answered[e]  BY <1>1, <1>6 DEF TypeInv, TypeOK
  <2>2. Taken(e)' => Taken(e)  BY <1>3, <1>5, TakenFewer
  <2> QED  BY <1>1, <1>4, <2>1, <2>2, BudgetFewer
<1>7. CASE e = q
  <2>1. AnswerTo(e, task[w])  BY <1>1, <1>7 DEF AnswerTo
  <2>2. ~Taken(e)'
    <3> SUFFICES ASSUME NEW v \in Workers, AnswerTo(e, task'[v]) PROVE FALSE
      BY DEF Taken, AnswerTo
    <3>1. v # w  BY <1>3, <1>5 DEF Becomes, TypeInv, TypeOK, HandlersTypeOK
    <3>2. task'[v] = task[v]
      BY <1>3, <3>1 DEF Becomes, TypeInv, TypeOK, HandlersTypeOK
    <3>3. \A u \in {v, w} : task[u] \in Tasks /\ OfItsOwner(task[u]) /\ AnswerTo(e, task[u])
      BY <2>1, <3>2 DEF TypeInv, TypeOK, HandlersTypeOK, Owned
    <3>4. \A u \in {v, w} : task[u] # Idle /\ ChatOf(task[u]) = Owner(e)
      BY <3>3, AnswerOfOwner
    <3> QED  BY <3>1, <3>4 DEF UsersTakeTurns
  <2>3. answered'[e] = answered[e] + 1  BY <1>1, <1>7 DEF TypeInv, TypeOK
  <2>4. Taken(e)  BY <2>1 DEF Taken
  <2>5. answered[e] \in Nat /\ asked[e] \in Nat /\ BudgetOf(e)
    BY PromptsAssumption DEF TypeInv, TypeOK, Budget, BudgetOf
  <2> QED  BY <1>1, <1>4, <2>2, <2>3, <2>4, <2>5 DEF BudgetOf, One
<1> QED  BY <1>6, <1>7

LEMMA BudgetStep ==
  ASSUME TypeInv, Owned, Budget, UsersTakeTurns, UsersTakeTurns', [Next]_vars
  PROVE  Budget'
<1>0. OwnersKept  BY OwnedStep
<1>1. ASSUME NEW w \in Workers, NEW t \in Tasks, Becomes(w, t),
             \A e \in EventIds : AnswerTo(e, t) => AnswerTo(e, task[w]),
             \/ UNCHANGED snoozeStates /\ task[w].at # "clearSnooze"
             \/ snoozeStates' = [snoozeStates EXCEPT ![task[w].chat] = NoState],
             \/ UNCHANGED EditStates /\ task[w].at # "clearEdit"
             \/ EditStates' = [EditStates EXCEPT ![task[w].chat] = NoEdit],
             UNCHANGED <<asked, answered>>
      PROVE  Budget'
  <2> SUFFICES ASSUME NEW e \in EventIds PROVE BudgetOf(e)'
    BY DEF Budget, BudgetOf
  <2>1. (TimeOpen(e)' => TimeOpen(e)) /\ (EditOpen(e)' => EditOpen(e))
    BY <1>0, <1>1, OpenFewer
  <2>2. Taken(e)' => Taken(e)  BY <1>1, TakenFewer
  <2> QED  BY <1>1, <2>1, <2>2, BudgetFewer
<1>2. ASSUME NEW w \in Workers, NEW chat \in Chats, NEW typed \in Typed,
             Reads(w, chat, typed)
      PROVE  Budget'
  <2>1. PICK t \in Tasks :
          /\ MovesTo(w, t) /\ UNCHANGED <<storeVars, snoozeStates, EditStates>>
          /\ t.chat = chat
          /\ \/ t.at = "clearSnooze" /\ snoozeStates[chat] = t.state
             \/ t.at = "readEdit"
    BY <1>2, ReadsTask DEF Reads
  <2>2. task[w].at = "idle"  BY <1>2 DEF Reads, textHandler, Starts, Idle
  <2>3. UNCHANGED <<asked, answered>>  BY <1>2 DEF Reads
  <2>4. CASE t.at = "clearSnooze"
    BY <2>1, <2>2, <2>3, <2>4, EntryTaken DEF MovesTo, Clears
  <2>5. CASE t.at = "readEdit"
    <3>1. \A e \in EventIds : ~AnswerTo(e, t)  BY <2>5 DEF AnswerTo, Answering
    <3> QED  BY <1>1, <2>1, <2>2, <2>3, <3>1 DEF MovesTo
  <2> QED  BY <2>1, <2>4, <2>5
<1>3. ASSUME NEW w \in Workers, NEW chat \in Chats, NEW e \in EventIds,
             Presses(w, chat, e)
      PROVE  Budget'
  <2>1. Buttons(w, chat, e) /\ UNCHANGED <<asked, answered>>  BY <1>3 DEF Presses
  <2>2. PICK t \in Tasks :
          /\ MovesTo(w, t) /\ UNCHANGED <<storeVars, snoozeStates, EditStates>>
          /\ \A x \in EventIds : ~AnswerTo(x, t)
    BY <2>1, PressesTask
  <2>3. task[w].at = "idle"  BY <2>1, PressesTask
  <2> QED  BY <1>1, <2>1, <2>2, <2>3 DEF MovesTo
<1>4. ASSUME NEW w \in Workers, Goes(w)
      PROVE  Budget'
  <2>1. PICK t \in Tasks : GoesOnAs(w, t)  BY <1>4, GoesTask
  <2>2. task[w].at = "readEdit" => UNCHANGED storeVars
    <3>1. Continues(w) => UNCHANGED storeVars
      BY ContinuesInv DEF HandlersInv, TypeInv, TypeOK
    <3> QED  BY <1>4, <3>1 DEF Goes, Continues, Save
  <2>3. UNCHANGED <<asked, answered>>  BY <1>4 DEF Goes
  <2>4. CASE task[w].at = "readEdit" /\ t.at = "clearEdit"
    <3>1. /\ UNCHANGED <<snoozeStates, EditStates>>
          /\ t.state = EditStates[task[w].chat].EventID
      BY <2>1, <2>4 DEF GoesOnAs, Clears
    <3>2. t.chat = task[w].chat
      BY <2>1, <2>4 DEF GoesOnAs, ChatOf, Idle
    <3> QED  BY <2>1, <2>2, <2>3, <2>4, <3>1, <3>2, EntryTaken
             DEF GoesOnAs, MovesTo, Clears
  <2>5. CASE ~(task[w].at = "readEdit" /\ t.at = "clearEdit")
    <3>1. /\ Becomes(w, t)
          /\ \A e \in EventIds : AnswerTo(e, t) => AnswerTo(e, task[w])
          /\ \/ UNCHANGED snoozeStates /\ task[w].at # "clearSnooze"
             \/ snoozeStates' = [snoozeStates EXCEPT ![task[w].chat] = NoState]
          /\ \/ UNCHANGED EditStates /\ task[w].at # "clearEdit"
             \/ EditStates' = [EditStates EXCEPT ![task[w].chat] = NoEdit]
      BY <2>1, <2>5 DEF GoesOnAs, MovesTo, Clears
    <3> QED  BY <1>1, <2>3, <3>1
  <2> QED  BY <2>4, <2>5
<1>5. CASE Passes \/ UNCHANGED vars
  <2>1. UNCHANGED <<events, handlersVars, asked, answered>>
    BY <1>5 DEF Passes, Clock, vars, storeVars
  <2> SUFFICES ASSUME NEW e \in EventIds PROVE BudgetOf(e)'
    BY DEF Budget, BudgetOf
  <2>2. (TimeOpen(e)' <=> TimeOpen(e)) /\ (EditOpen(e)' <=> EditOpen(e))
    BY <2>1 DEF handlersVars, TimeOpen, EditOpen, Clearing, Owner
  <2>3. Taken(e)' <=> Taken(e)  BY <2>1 DEF handlersVars, Taken, AnswerTo
  <2> QED  BY <2>1, <2>2, <2>3, BudgetFewer
<1> QED
  BY <1>0, <1>2, <1>3, <1>4, <1>5, AsksBudget, AnswersBudget DEF Next

(***************************************************************************)
(* Every question takes one message at most, whatever the other users do   *)
(* meanwhile, if each waits for one message to be handled before the next. *)
(***************************************************************************)
THEOREM OneAnswerInTurn == Spec /\ []UsersTakeTurns => []OneAnswerEach
<1>1. TypeInv /\ Owned /\ Budget => OneAnswerEach
  <2> SUFFICES ASSUME TypeInv, Budget, NEW e \in EventIds PROVE answered[e] <= asked[e]
    BY DEF OneAnswerEach
  <2>1. answered[e] \in Nat /\ asked[e] \in Nat /\ BudgetOf(e)
    BY PromptsAssumption DEF TypeInv, TypeOK, Budget, BudgetOf
  <2> QED  BY <2>1 DEF BudgetOf, One
<1>2. (TypeInv /\ Owned /\ Budget) /\ UsersTakeTurns /\ UsersTakeTurns' /\ [Next]_vars
        => (TypeInv /\ Owned /\ Budget)'
  BY TypeStep, OwnedStep, BudgetStep
<1>3. Init => TypeInv /\ Owned /\ Budget
  BY TypeInit, OwnedInit, BudgetInit
<1> QED  BY <1>1, <1>2, <1>3, PTL DEF Spec

-----------------------------------------------------------------------------
(* The limit of periodic events, while users take turns *)

Periodic(c) == {e \in DOMAIN events : /\ events[e].userTgId = c
                                      /\ events[e].statusId = StatusEnabled
                                      /\ events[e].periodicity # NoPeriod}

LEMMA PeriodicFinite ==
  ASSUME TypeInv, NEW c
  PROVE  /\ IsFiniteSet(Periodic(c))
         /\ CountUserPeriodicEvents(c) = Cardinality(Periodic(c))
         /\ CountUserPeriodicEvents(c) \in Nat
<1>1. IsFiniteSet(DOMAIN events)
  BY SerialEnds, FS_Subset DEF TypeInv, TypeOK, StoreTypeOK
<1>2. IsFiniteSet(Periodic(c))  BY <1>1, FS_Subset DEF Periodic
<1>3. CountUserPeriodicEvents(c) = Cardinality(Periodic(c))
  BY DEF CountUserPeriodicEvents, Periodic
<1> QED  BY <1>2, <1>3, FS_CardinalityType

\* While the rows stay as they are nobody's number of periodic events changes.
LEMMA SameNumbers ==
  ASSUME TypeInv, UNCHANGED events
  PROVE  OnlyUncounted
<1>1. ASSUME NEW c \in Chats PROVE ~GetsPast(c)
  <2>1. CountUserPeriodicEvents(c)' = CountUserPeriodicEvents(c)
    BY DEF CountUserPeriodicEvents
  <2>2. CountUserPeriodicEvents(c) \in Nat  BY PeriodicFinite
  <2> QED  BY <2>1, <2>2 DEF GetsPast
<1> QED  BY <1>1 DEF OnlyUncounted

LEMMA RoomMoves ==
  ASSUME TypeInv, RoomForOneMore, UNCHANGED events, NEW w \in Workers, NEW t \in Tasks,
         MovesTo(w, t)
  PROVE  RoomForOneMore'
<1> USE DEF TypeInv, TypeOK
<1>1. \A c : CountUserPeriodicEvents(c)' = CountUserPeriodicEvents(c)
  BY DEF CountUserPeriodicEvents
<1> SUFFICES ASSUME NEW v \in Workers, task'[v].at = "save", task'[v].cols = {"periodicity"}
             PROVE  CountUserPeriodicEvents(task'[v].row.userTgId) < MaxPeriodic
  BY <1>1 DEF RoomForOneMore, IsCounted, CountUserPeriodicEvents
<1>2. CASE v = w  BY <1>2 DEF MovesTo, Becomes, HandlersTypeOK
<1>3. CASE v # w
  BY <1>3 DEF MovesTo, Becomes, HandlersTypeOK, RoomForOneMore, IsCounted
<1> QED  BY <1>2, <1>3

\* A save changes the number of its owner only: by one at most, and only upwards
\* where the period is among its columns.
LEMMA SaveNumbers ==
  ASSUME TypeInv, TypeInv', Owned, NEW w \in Workers, Save(w),
         NEW own, own = task[w].row.userTgId
  PROVE  /\ task[w].at = "save" /\ own \in Chats
         /\ \A c \in Chats : c # own =>
              CountUserPeriodicEvents(c)' = CountUserPeriodicEvents(c)
         /\ CountUserPeriodicEvents(own)' <= CountUserPeriodicEvents(own) + 1
         /\ "periodicity" \notin task[w].cols =>
              CountUserPeriodicEvents(own)' <= CountUserPeriodicEvents(own)
<1> USE DEF TypeInv, TypeOK
<1>1. task[w] \in Tasks /\ task[w].at = "save" /\ OfItsOwner(task[w])
  BY DEF HandlersTypeOK, Save, Owned
<1>2. PICK e \in EventIds :
        e = task[w].event /\ e \in DOMAIN events /\ own = events[e].userTgId
  BY <1>1, TaskFields DEF Owned, OfItsOwner, Owner
<1>3. /\ task[w].row \in Row /\ own \in Chats
      /\ "statusId" \in task[w].cols => task[w].row.statusId = StatusDeleted
  BY <1>1, TaskFields DEF DeletesOnly, Row
<1> DEFINE new == SetColumns(events[e], task[w].row, task[w].cols)
<1>4. events' = [events EXCEPT ![e] = new]
  BY <1>2 DEF Save, UpdateEvent
<1>5. /\ new.userTgId = own
      /\ new.statusId \in {events[e].statusId, StatusDeleted}
      /\ "periodicity" \notin task[w].cols => new.periodicity = events[e].periodicity
  <2>1. events[e] \in Row  BY <1>2 DEF StoreTypeOK
  <2> QED  BY <1>2, <1>3, <2>1 DEF SetColumns, Row
<1> HIDE DEF new
<1>6. /\ DOMAIN events' = DOMAIN events /\ events'[e] = new
      /\ \A x \in DOMAIN events : x # e => events'[x] = events[x]
  BY <1>2, <1>4
<1>7. ASSUME NEW c \in Chats, c # own
      PROVE  CountUserPeriodicEvents(c)' = CountUserPeriodicEvents(c)
  <2>1. Periodic(c)' = Periodic(c)  BY <1>2, <1>5, <1>6, <1>7 DEF Periodic
  <2> QED  BY <2>1, PeriodicFinite DEF Periodic, CountUserPeriodicEvents
<1>8. /\ Periodic(own)' \subseteq Periodic(own) \cup {e}
      /\ "periodicity" \notin task[w].cols => Periodic(own)' \subseteq Periodic(own)
  BY <1>2, <1>5, <1>6 DEF Periodic, StatusEnabled, StatusDeleted
<1>9. CountUserPeriodicEvents(own)' = Cardinality(Periodic(own)')
  BY DEF CountUserPeriodicEvents, Periodic
<1>10. /\ CountUserPeriodicEvents(own) = Cardinality(Periodic(own))
       /\ Cardinality(Periodic(own)) \in Nat /\ IsFiniteSet(Periodic(own))
  BY PeriodicFinite
<1>11. Cardinality(Periodic(own)') <= Cardinality(Periodic(own)) + 1
  <2> DEFINE S == Periodic(own)
             T == Periodic(own)'
  <2>1. IsFiniteSet(S) /\ Cardinality(S) \in Nat /\ T \subseteq S \cup {e}
    BY <1>8, <1>10
  <2> HIDE DEF S, T
  <2>2. /\ IsFiniteSet(S \cup {e})
        /\ Cardinality(S \cup {e})
             = IF e \in S THEN Cardinality(S) ELSE Cardinality(S) + 1
    BY <2>1, FS_AddElement, Zenon
  <2>3. IsFiniteSet(T) /\ Cardinality(T) <= Cardinality(S \cup {e})
    BY <2>1, <2>2, FS_Subset
  <2>4. Cardinality(T) \in Nat /\ Cardinality(S \cup {e}) \in Nat
    BY <2>2, <2>3, FS_CardinalityType
  <2>5. Cardinality(T) <= Cardinality(S) + 1  BY <2>1, <2>2, <2>3, <2>4
  <2> QED  BY <2>5 DEF S, T
<1>12. "periodicity" \notin task[w].cols =>
         Cardinality(Periodic(own)') <= Cardinality(Periodic(own))
  BY <1>8, <1>10, FS_Subset
<1> QED  BY <1>1, <1>3, <1>7, <1>9, <1>10, <1>11, <1>12

LEMMA SaveWithinLimit ==
  ASSUME TypeInv, TypeInv', Owned, RoomForOneMore, UsersTakeTurns, NEW w \in Workers,
         Save(w)
  PROVE  RoomForOneMore' /\ OnlyUncounted
<1> USE DEF TypeInv, TypeOK
<1>0. PICK own : own = task[w].row.userTgId  OBVIOUS
<1>1. /\ task[w].at = "save" /\ own \in Chats
      /\ \A c \in Chats : c # own =>
           CountUserPeriodicEvents(c)' = CountUserPeriodicEvents(c)
      /\ CountUserPeriodicEvents(own)' <= CountUserPeriodicEvents(own) + 1
      /\ "periodicity" \notin task[w].cols =>
           CountUserPeriodicEvents(own)' <= CountUserPeriodicEvents(own)
  BY <1>0, SaveNumbers
<1>2. RoomForOneMore'
  <2> SUFFICES ASSUME NEW v \in Workers, NEW c, c = task'[v].row.userTgId,
                      task'[v].at = "save", task'[v].cols = {"periodicity"}
               PROVE  CountUserPeriodicEvents(c)' < MaxPeriodic
    BY DEF RoomForOneMore, IsCounted, CountUserPeriodicEvents
  <2>1. v # w /\ task'[v] = task[v]
    BY DEF Save, Becomes, HandlersTypeOK, Idle
  <2>2. c \in Chats  BY <2>1, TaskFields DEF HandlersTypeOK, Row
  <2>3. ChatOf(task[v]) = c /\ ChatOf(task[w]) = own /\ task[v] # Idle /\ task[w] # Idle
    BY <1>0, <1>1, <2>1 DEF ChatOf, Idle
  <2>4. c # own  BY <2>1, <2>3 DEF UsersTakeTurns
  <2>5. CountUserPeriodicEvents(c) < MaxPeriodic
    BY <2>1 DEF RoomForOneMore, IsCounted
  <2> QED  BY <1>1, <2>2, <2>4, <2>5
<1>3. OnlyUncounted
  <2> SUFFICES ASSUME NEW c \in Chats, GetsPast(c)
               PROVE  IsUncounted(task[w]) /\ own = c
    BY <1>0 DEF OnlyUncounted
  <2> DEFINE n == CountUserPeriodicEvents(c)
             m == CountUserPeriodicEvents(c)'
  <2>1. n \in Nat /\ m \in Nat
    <3>1. IsFiniteSet(Periodic(c)')
      BY SerialEnds, FS_Subset DEF StoreTypeOK, Periodic
    <3>2. m = Cardinality(Periodic(c)')  BY DEF CountUserPeriodicEvents, Periodic
    <3> QED  BY <3>1, <3>2, PeriodicFinite, FS_CardinalityType
  <2>2. m > n /\ m > MaxPeriodic  BY DEF GetsPast
  <2>3. c = own  BY <1>1, <2>1, <2>2
  <2>4. m <= n + 1 /\ ("periodicity" \notin task[w].cols => m <= n)
    BY <1>1, <2>3
  <2>5. IsCounted(task[w]) => n < MaxPeriodic  BY <1>0, <2>3 DEF RoomForOneMore
  <2> HIDE DEF n, m
  <2>6. "periodicity" \in task[w].cols /\ ~IsCounted(task[w])
    BY <2>1, <2>2, <2>4, <2>5, HandlersAssumption
  <2> QED  BY <1>1, <2>3, <2>6 DEF IsUncounted
<1> QED  BY <1>2, <1>3

LEMMA LimitStep ==
  ASSUME TypeInv, Owned, RoomForOneMore, UsersTakeTurns, [Next]_vars
  PROVE  RoomForOneMore' /\ OnlyUncounted
<1> USE DEF TypeInv, TypeOK
<1>1. ASSUME UNCHANGED events, NEW w \in Workers, NEW t \in Tasks, MovesTo(w, t)
      PROVE  RoomForOneMore' /\ OnlyUncounted
  BY <1>1, RoomMoves, SameNumbers
<1>2. ASSUME UNCHANGED <<events, task>>
      PROVE  RoomForOneMore' /\ OnlyUncounted
  BY <1>2, SameNumbers DEF RoomForOneMore, CountUserPeriodicEvents, IsCounted
<1>3. ASSUME NEW w \in Workers, Answers(w)
      PROVE  RoomForOneMore' /\ OnlyUncounted
  <2>1. Continues(w)  BY <1>3 DEF Answers, Continues
  <2>2. UNCHANGED events  BY <2>1, ContinuesInv DEF HandlersInv, storeVars
  <2> QED  BY <1>1, <1>3, <2>2, AnswersTask DEF GoesOnAs
<1>4. ASSUME NEW chat \in Chats, NEW e \in EventIds, Asks(chat, e)
      PROVE  RoomForOneMore' /\ OnlyUncounted
  <2>1. UNCHANGED <<events, task>>
    BY <1>4 DEF Asks, AsksTime, AsksEdit, handleSnoozeCustom, HandlePostponeCustom,
                HandleEditDescription, storeVars
  <2> QED  BY <1>2, <2>1
<1>5. ASSUME NEW w \in Workers, NEW chat \in Chats, NEW typed \in Typed,
             Reads(w, chat, typed)
      PROVE  RoomForOneMore' /\ OnlyUncounted
  BY <1>1, <1>5, ReadsTask DEF Reads, storeVars
<1>6. ASSUME NEW w \in Workers, NEW chat \in Chats, NEW e \in EventIds,
             Presses(w, chat, e)
      PROVE  RoomForOneMore' /\ OnlyUncounted
  BY <1>1, <1>6, PressesTask DEF Presses, storeVars
<1>7. ASSUME NEW w \in Workers, Goes(w)
      PROVE  RoomForOneMore' /\ OnlyUncounted
  <2>1. CASE Save(w)
    <3>1. TypeInv'  BY TypeStep
    <3> QED  BY <2>1, <3>1, SaveWithinLimit
  <2>2. CASE Continues(w)
    <3>1. UNCHANGED events  BY <2>2, ContinuesInv DEF HandlersInv, storeVars
    <3> QED  BY <1>1, <1>7, <3>1, GoesTask DEF GoesOnAs
  <2> QED  BY <1>7, <2>1, <2>2 DEF Goes, Continues
<1>8. CASE Passes \/ UNCHANGED vars
  BY <1>2, <1>8 DEF Passes, Clock, vars, storeVars, handlersVars
<1> QED  BY <1>3, <1>4, <1>5, <1>6, <1>7, <1>8 DEF Next

(***************************************************************************)
(* Nothing but a period stored uncounted takes a user past the limit of    *)
(* periodic events, whatever the other users do meanwhile, if each presses *)
(* one button at a time.  MCLimitRace shows what two presses at once do.   *)
(***************************************************************************)
THEOREM LimitPassedInTurn == Spec /\ []UsersTakeTurns => LimitPassedUncounted
<1>1. Init => RoomForOneMore
  BY DEF Init, HandlersInit, RoomForOneMore, IsCounted, Idle
<1>2. TypeInv /\ Owned /\ RoomForOneMore /\ UsersTakeTurns /\ [Next]_vars
        => RoomForOneMore' /\ [OnlyUncounted]_vars
  BY LimitStep
<1> QED  BY <1>1, <1>2, OwnedInvariance, PTL DEF Spec, LimitPassedUncounted
=============================================================================
