---------------------------- MODULE ReminderBot ----------------------------
(***************************************************************************)
(* The whole program around the table: the reminder job and the handlers   *)
(* run side by side on the same rows, and both are lost when the process   *)
(* stops.  The variables declared here only observe.                       *)
(***************************************************************************)
EXTENDS ReminderJob, Handlers

CONSTANTS
  SavedRows,   \* the rows that may be in the table when the process starts
  MaxRestarts  \* bound on the restarts of the process

ASSUME SavedRowsAssumption == SavedRows \subseteq Row

VARIABLES
  lateSends,  \* reminders sent for each event after it was deleted
  confirmed,  \* the date last confirmed to the owner and not yet reminded of
  restarts    \* how often the process was restarted

observers == <<lateSends, confirmed, restarts>>
vars == <<storeVars, jobVars, handlersVars, observers>>

Deleted(e) == e \in DOMAIN events /\ events[e].statusId = StatusDeleted
Enabled(e) == e \in DOMAIN events /\ events[e].statusId = StatusEnabled

TypeOK ==
  /\ StoreTypeOK
  /\ JobTypeOK
  /\ HandlersTypeOK
  /\ lateSends \in [EventIds -> Nat]
  /\ confirmed \in [EventIds -> Nat \cup {NoTime}]
  /\ restarts \in Nat

\* Some rows are there already; their keyboards may still be in the chats.
Init ==
  /\ \E n \in 0 .. Cardinality(EventIds) :
       events \in [{e \in EventIds : e <= n} -> SavedRows]
  /\ now = 0
  /\ keyboards = [e \in EventIds |-> IF e \in DOMAIN events THEN KeyboardKinds ELSE {}]
  /\ JobInit
  /\ HandlersInit
  /\ lateSends = [e \in EventIds |-> 0]
  /\ confirmed = [e \in EventIds |-> NoTime]
  /\ restarts = 0

JobQuiet(j) ==
  /\ \/ Tick(j)
     \/ Claim(j)
     \/ FetchDue(j)
     \/ FetchFails(j)
     \/ FinishJob(j)
     \/ AdvanceTime(j)
     \/ Deactivate(j)
     \/ AdvanceFails(j)
  /\ UNCHANGED <<handlersVars, observers>>

JobSends(j, e) ==
  /\ SendPeriodic(j, e) \/ SendOnce(j, e)
  /\ lateSends' = IF Deleted(e) THEN [lateSends EXCEPT ![e] = @ + 1] ELSE lateSends
  /\ confirmed' = IF confirmed[e] = batch[j][e].sendAt
                  THEN [confirmed EXCEPT ![e] = NoTime] ELSE confirmed
  /\ UNCHANGED <<handlersVars, restarts>>

HandlerSaves(w) ==
  /\ Save(w)
  /\ confirmed' = IF "sendAt" \in task[w].cols
                  THEN [confirmed EXCEPT ![task[w].event] = task[w].row.sendAt]
                  ELSE confirmed
  /\ UNCHANGED <<jobVars, lateSends, restarts>>

HandlerStep ==
  /\ \/ \E w \in Workers, chat \in Chats, e \in EventIds : Buttons(w, chat, e)
     \/ \E chat \in Chats, e \in EventIds : Prompts(chat, e)
     \/ \E w \in Workers, chat \in Chats, typed \in Typed : textHandler(w, chat, typed)
     \/ \E w \in Workers : Continues(w)
     \/ \E chat \in Chats, typed \in Typed : AddHandler(chat, typed.text, typed.date)
  /\ UNCHANGED <<jobVars, observers>>

Restart ==
  /\ restarts < MaxRestarts
  /\ JobsLost
  /\ HandlersLost
  /\ restarts' = restarts + 1
  /\ UNCHANGED <<storeVars, lateSends, confirmed>>

Passes == Clock /\ UNCHANGED <<jobVars, handlersVars, observers>>

Next ==
  \/ \E j \in Jobs : JobQuiet(j)
  \/ \E j \in Jobs, e \in EventIds : JobSends(j, e)
  \/ \E w \in Workers : HandlerSaves(w)
  \/ HandlerStep
  \/ Restart
  \/ Passes

Spec == Init /\ [][Next]_vars

-----------------------------------------------------------------------------
(* Properties *)

\* A deleted event stays deleted: a handler or a run of the job that still
\* holds a copy with the old status writes other columns only.
StaysDeleted == \A e \in EventIds : Deleted(e) => Deleted(e)'
DeletedForever == [][StaysDeleted]_vars

\* After an event is deleted its reminder is sent once more at most, by the
\* run of the job that had read it before (EventsToSend, processEvent).
OneLateReminder == \A e \in EventIds : lateSends[e] <= 1

\* What an owner sees of the rows and of the runs of the job.
PlanOf(row) == [slot |-> row.sendAt, repeats |-> row.periodicity # NoPeriod,
                follows |-> NextTime(row)]
PlansKept == [e \in DOMAIN events |-> PlanOf(events[e])]
InService == {e \in EventIds : Enabled(e)}
InHand == UNION {DOMAIN batch[j] : j \in Jobs}
HolderOf(e) == CHOOSE j \in Jobs : e \in DOMAIN batch[j]
PlansHeld == [e \in InHand |-> PlanOf(batch[HolderOf(e)][e])]
Told == {current[j] : j \in {k \in Jobs : pc[k] = "advance"}}
LastTold == IF Told = {} THEN NoEvent ELSE CHOOSE e \in Told : TRUE

Service == INSTANCE EventService WITH
  Events <- EventIds, Never <- NoTime, Nobody <- NoEvent, clock <- now,
  known <- DOMAIN events, active <- InService, plan <- PlansKept,
  held <- PlansHeld, told <- LastTold

\* The goroutines of the scheduler, the batches and the copies in the hands of
\* handlers amount to one service that goes by a single copy of each event, and
\* owners who act at once: no copy of a handler undoes a deletion, no event is in
\* two batches, reminded of early, or moved on by a run that did not remind of it.
ImplementsService == Service!Spec

\* A date the bot has confirmed ("Дата изменена на", handlers.go line 1279)
\* stays the event's date until its reminder is sent.
ConfirmedDateStands ==
  \A e \in EventIds :
    Enabled(e) /\ confirmed[e] # NoTime => events[e].sendAt = confirmed[e]

\* An event that repeats on weekdays has a weekday ("Выберите хотя бы один
\* день недели", handlers.go line 1568): without one the job deletes it.
WeekdaysChosen ==
  \A e \in EventIds :
    Enabled(e) /\ events[e].periodicity = "weekdays" => events[e].weekdays # {}

-----------------------------------------------------------------------------
(* The inductive invariant *)

\* An event reminded of after its deletion is deleted, and a run that still
\* has it has just sent it.
Late ==
  \A e \in EventIds :
    /\ lateSends[e] \in {0, 1}
    /\ lateSends[e] = 1 =>
         /\ Deleted(e)
         /\ \A j \in Jobs : e \in DOMAIN batch[j] => pc[j] = "advance" /\ current[j] = e

BotInv == TypeOK /\ JobInv /\ DeletesOnly /\ Late

\* What the runs of the job have in hand is due.
HeldAreDue == \A j \in Jobs : \A e \in DOMAIN batch[j] : batch[j][e].sendAt <= now

\* No new date is saved for an event that a run of the job has read as a
\* periodic one and not yet advanced.
DateSavedBetweenRuns ==
  \A w \in Workers :
    HandlerSaves(w) /\ "sendAt" \in task[w].cols =>
      \A j \in Jobs : task[w].event \in DOMAIN batch[j] =>
        batch[j][task[w].event].periodicity = NoPeriod

\* A confirmed date is the row's, and the one a run will send and advance from.
DatesAgree ==
  \A e \in EventIds : confirmed[e] # NoTime =>
    /\ e \in DOMAIN events /\ events[e].sendAt = confirmed[e]
    /\ \A j \in Jobs : e \in DOMAIN batch[j] /\ batch[j][e].periodicity # NoPeriod =>
         /\ batch[j][e].sendAt = confirmed[e]
         /\ pc[j] = "advance" => current[j] # e
=============================================================================
