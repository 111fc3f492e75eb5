------------------------- MODULE ReminderBot_proofs -------------------------
(***************************************************************************)
(* Proofs about the whole program, for every set of events, chats,         *)
(* goroutines and operations, and every bound.                             *)
(***************************************************************************)
EXTENDS ReminderBot, ReminderJob_proofs, Handlers_proofs

-----------------------------------------------------------------------------
(* The inductive invariant *)

\* Deleted rows stay deleted whenever the status of a row changes to deleted
\* only and no row disappears.
LEMMA DeletedKept ==
  ASSUME NEW e, DOMAIN events \subseteq DOMAIN events',
         \A x \in DOMAIN events :
           events'[x].statusId # events[x].statusId =>
             events'[x].statusId = StatusDeleted
  PROVE  Deleted(e) => Deleted(e)'
BY DEF Deleted

LEMMA LateSame ==
  ASSUME Late, UNCHANGED <<jobVars, lateSends>>,
         \A e \in EventIds : Deleted(e) => Deleted(e)'
  PROVE  Late'
BY DEF Late, jobVars

LEMMA InitBotInv == Init => BotInv
<1> SUFFICES ASSUME Init PROVE BotInv  OBVIOUS
<1>1. StoreTypeOK
  BY SavedRowsAssumption DEF Init, StoreTypeOK
<1>2. JobInv  BY JobInvInit DEF Init
<1>3. HandlersTypeOK /\ DeletesOnly
  BY DEF Init, HandlersInit, HandlersTypeOK, DeletesOnly, Tasks, Idle, NoEdit, NoState
<1>4. TypeOK
  BY <1>1, <1>2, <1>3 DEF Init, TypeOK, JobInv
<1>5. Late  BY DEF Init, Late
<1> QED  BY <1>2, <1>3, <1>4, <1>5 DEF BotInv

LEMMA JobQuietInv ==
  ASSUME BotInv, NEW j \in Jobs, JobQuiet(j)
  PROVE  BotInv' /\ \A e \in EventIds : Deleted(e) => Deleted(e)'
<1> USE DEF BotInv, TypeOK
<1>1. HandlersTypeOK' /\ DeletesOnly' /\ UNCHANGED observers
  BY HandlersInvSame DEF JobQuiet, HandlersInv
<1>2. CASE Tick(j) \/ Claim(j)
  <2>1. JobInv'  BY <1>2, StartsInv
  <2>2. UNCHANGED <<storeVars, batch, current>>  BY <1>2 DEF Tick, Claim
  <2>3. StoreTypeOK' /\ \A e \in EventIds : Deleted(e) => Deleted(e)'
    BY <2>2 DEF storeVars, StoreTypeOK, Deleted
  <2>4. Late'
    BY <1>1, <1>2, <2>2, <2>3 DEF Late, observers, Tick, Claim, JobInv, JobTypeOK
  <2> QED  BY <1>1, <2>1, <2>3, <2>4 DEF observers, JobInv
<1>3. CASE FetchDue(j)
  <2>1. JobInv'  BY <1>3, ReadsInv
  <2>2. UNCHANGED storeVars  BY <1>3 DEF FetchDue
  <2>3. StoreTypeOK' /\ \A e \in EventIds : Deleted(e) => Deleted(e)'
    BY <2>2 DEF storeVars, StoreTypeOK, Deleted
  <2>4. \A e \in DOMAIN EventsToSend : ~Deleted(e)
    BY FetchedRows DEF Deleted, StatusEnabled, StatusDeleted
  <2>5. Late'
    <3> HIDE DEF EventsToSend
    <3>1. \A k \in Jobs : k # j => batch'[k] = batch[k] /\ pc'[k] = pc[k]
      BY <1>3 DEF FetchDue, JobInv, JobTypeOK
    <3>2. batch'[j] = EventsToSend /\ current' = current /\ lateSends' = lateSends
      BY <1>1, <1>3 DEF FetchDue, JobInv, JobTypeOK, observers
    <3> QED  BY <2>3, <2>4, <3>1, <3>2 DEF Late
  <2> QED  BY <1>1, <2>1, <2>3, <2>5 DEF observers, JobInv
<1>4. CASE FetchFails(j) \/ FinishJob(j)
  <2>1. JobInv'  BY <1>4, ReadsInv
  <2>2. UNCHANGED <<storeVars, batch, current>>
    BY <1>4 DEF FetchFails, FinishJob
  <2>3. StoreTypeOK' /\ \A e \in EventIds : Deleted(e) => Deleted(e)'
    BY <2>2 DEF storeVars, StoreTypeOK, Deleted
  <2>4. DOMAIN batch[j] = {}
    BY <1>4 DEF FetchFails, FinishJob, JobInv, Busy
  <2>5. Late'
    BY <1>1, <1>4, <2>2, <2>3, <2>4
    DEF Late, observers, FetchFails, FinishJob, JobReturns, JobInv, JobTypeOK
  <2> QED  BY <1>1, <2>1, <2>3, <2>5 DEF observers, JobInv
<1>5. CASE AdvanceTime(j) \/ Deactivate(j) \/ AdvanceFails(j)
  <2>1. /\ StoreTypeOK' /\ JobInv'
        /\ \A e \in EventIds : Deleted(e) => Deleted(e)'
    <3>1. CASE AdvanceTime(j) \/ Deactivate(j)
      BY <3>1, AdvanceRows, DeletedKept
    <3>2. CASE AdvanceFails(j)
      BY <3>2, HandledInv DEF AdvanceFails, storeVars, StoreTypeOK, Deleted
    <3> QED  BY <1>5, <3>1, <3>2
  <2>2. EventHandled(j, current[j])
    BY <1>5 DEF AdvanceTime, Deactivate, AdvanceFails
  <2>3. Late'
    <3>1. \A k \in Jobs : k # j => /\ batch'[k] = batch[k] /\ pc'[k] = pc[k]
                                   /\ current'[k] = current[k]
      BY <2>2 DEF EventHandled, JobInv, JobTypeOK
    <3>2. DOMAIN batch'[j] = DOMAIN batch[j] \ {current[j]}
      BY <2>2 DEF EventHandled, Restrict, JobInv, JobTypeOK
    <3>3. lateSends' = lateSends  BY <1>1 DEF observers
    <3> QED  BY <2>1, <3>1, <3>2, <3>3 DEF Late
  <2> QED  BY <1>1, <2>1, <2>3 DEF observers, JobInv
<1> QED  BY <1>2, <1>3, <1>4, <1>5 DEF JobQuiet

(***************************************************************************)
(* The event j sends is in its batch and not yet sent, so it was not sent  *)
(* after its deletion before.                                              *)
(***************************************************************************)
LEMMA JobSendsInv ==
  ASSUME BotInv, NEW j \in Jobs, NEW e \in EventIds, JobSends(j, e)
  PROVE  BotInv' /\ \A x \in EventIds : Deleted(x) => Deleted(x)'
<1> USE DEF BotInv, TypeOK
<1>1. /\ pc[j] = "loop" /\ e \in DOMAIN batch[j] /\ batch[j] \in [DOMAIN batch[j] -> Row]
      /\ UNCHANGED <<events, now>>
  BY DEF JobSends, SendPeriodic, SendOnce, storeVars, JobInv, JobTypeOK
<1>2. HandlersTypeOK' /\ DeletesOnly'
  BY HandlersInvSame DEF JobSends, HandlersInv
<1>3. StoreTypeOK'
  BY DEF JobSends, SendPeriodic, SendOnce, storeVars, StoreTypeOK, KeyboardKinds
<1>4. JobInv'
  BY <1>1, SendPeriodicInv, HandledInv DEF JobSends, SendOnce
<1>5. /\ lateSends' \in [EventIds -> Nat]
      /\ confirmed' \in [EventIds -> Nat \cup {NoTime}]
      /\ restarts' \in Nat
  BY DEF JobSends
<1>6. \A x \in EventIds : Deleted(x)' <=> Deleted(x)
  BY <1>1 DEF Deleted
<1>7. Late'
  <2>1. lateSends[e] = 0  BY <1>1 DEF Late
  <2>2. \A k \in Jobs : k # j => DOMAIN batch[k] = {} /\ batch'[k] = batch[k]
    BY <1>1 DEF JobInv, OneRunAtATime, Busy, JobTypeOK, JobSends, SendPeriodic,
                SendOnce, EventHandled
  <2>3. \A x \in DOMAIN batch[j] : lateSends[x] = 0
    BY <1>1 DEF Late, JobInv, JobTypeOK
  <2>4. /\ DOMAIN batch'[j] \subseteq DOMAIN batch[j]
        /\ e \in DOMAIN batch'[j] => pc'[j] = "advance" /\ current'[j] = e
    BY DEF JobSends, SendPeriodic, SendOnce, EventHandled, Restrict, JobInv, JobTypeOK
  <2>5. /\ \A x \in EventIds : x # e => lateSends'[x] = lateSends[x]
        /\ lateSends'[e] = 0 \/ (lateSends'[e] = 1 /\ Deleted(e))
    BY <2>1 DEF JobSends
  <2> SUFFICES ASSUME NEW x \in EventIds
               PROVE  /\ lateSends'[x] \in {0, 1}
                      /\ lateSends'[x] = 1 =>
                           /\ Deleted(x)'
                           /\ \A k \in Jobs : x \in DOMAIN batch'[k] =>
                                pc'[k] = "advance" /\ current'[k] = x
    BY DEF Late
  <2>6. CASE x = e  BY <1>6, <2>2, <2>4, <2>5, <2>6
  <2>7. CASE x # e
    BY <1>6, <2>2, <2>3, <2>4, <2>5, <2>7 DEF Late
  <2> QED  BY <2>6, <2>7
<1> QED  BY <1>2, <1>3, <1>4, <1>5, <1>6, <1>7 DEF JobInv

\* A step of a handler leaves the job and what was sent alone.
LEMMA OutsideInv ==
  ASSUME BotInv, UNCHANGED <<jobVars, lateSends, restarts>>, StoreTypeOK', HandlersInv',
         confirmed' \in [EventIds -> Nat \cup {NoTime}],
         \A e \in EventIds : Deleted(e) => Deleted(e)'
  PROVE  BotInv'
BY JobInvSame, LateSame DEF BotInv, TypeOK, JobInv, HandlersInv

LEMMA HandlerSavesInv ==
  ASSUME BotInv, NEW w \in Workers, HandlerSaves(w)
  PROVE  BotInv' /\ \A e \in EventIds : Deleted(e) => Deleted(e)'
<1> USE DEF BotInv, TypeOK, HandlersInv
<1>1. /\ StoreTypeOK' /\ HandlersInv'
      /\ \A e \in EventIds : Deleted(e) => Deleted(e)'
  BY SaveRows, DeletedKept DEF HandlerSaves
<1>2. task[w].row.sendAt \in Nat
  BY DEF HandlerSaves, Save, HandlersTypeOK, Tasks, Idle, Row
<1>3. confirmed' \in [EventIds -> Nat \cup {NoTime}]
  BY <1>2 DEF HandlerSaves
<1> QED  BY <1>1, <1>3, OutsideInv DEF HandlerSaves

LEMMA HandlerStepInv ==
  ASSUME BotInv, HandlerStep
  PROVE  BotInv' /\ \A e \in EventIds : Deleted(e) => Deleted(e)'
<1> USE DEF BotInv, TypeOK, HandlersInv
<1>1. UNCHANGED <<jobVars, observers>>  BY DEF HandlerStep
<1>2. /\ StoreTypeOK' /\ HandlersInv'
      /\ \A e \in EventIds : Deleted(e) => Deleted(e)'
  <2>1. ASSUME HandlersInv', UNCHANGED storeVars
        PROVE  StoreTypeOK' /\ \A e \in EventIds : Deleted(e) => Deleted(e)'
    BY <2>1 DEF storeVars, StoreTypeOK, Deleted
  <2>2. ASSUME NEW w \in Workers, NEW chat \in Chats, NEW e \in EventIds,
               Buttons(w, chat, e)
        PROVE  HandlersInv' /\ UNCHANGED storeVars
    BY <2>2, ButtonsInv
  <2>3. ASSUME NEW chat \in Chats, NEW e \in EventIds, Prompts(chat, e)
        PROVE  /\ HandlersInv' /\ StoreTypeOK'
               /\ \A x \in EventIds : Deleted(x) => Deleted(x)'
    BY <2>3, PromptsInv DEF Deleted
  <2>4. ASSUME NEW w \in Workers, NEW chat \in Chats, NEW typed \in Typed,
               textHandler(w, chat, typed)
        PROVE  HandlersInv' /\ UNCHANGED storeVars
    BY <2>4, TextInv
  <2>5. ASSUME NEW w \in Workers, Continues(w)
        PROVE  HandlersInv' /\ UNCHANGED storeVars
    BY <2>5, ContinuesInv
  <2>6. ASSUME NEW chat \in Chats, NEW typed \in Typed,
               AddHandler(chat, typed.text, typed.date)
        PROVE  /\ HandlersInv' /\ StoreTypeOK'
               /\ \A x \in EventIds : Deleted(x) => Deleted(x)'
    BY <2>6, AddRows, DeletedKept
  <2> QED  BY <2>1, <2>2, <2>3, <2>4, <2>5, <2>6 DEF HandlerStep
<1>3. UNCHANGED <<jobVars, lateSends, confirmed, restarts>>
  BY <1>1 DEF observers
<1> QED  BY <1>2, <1>3, OutsideInv

LEMMA RestartBotInv ==
  ASSUME BotInv, Restart
  PROVE  BotInv' /\ \A e \in EventIds : Deleted(e) => Deleted(e)'
<1> USE DEF BotInv, TypeOK, HandlersInv
<1>1. JobInv' /\ HandlersInv'
  BY JobInvLost, HandlersInvLost DEF Restart
<1>2. StoreTypeOK' /\ \A e \in EventIds : Deleted(e) => Deleted(e)'
  BY DEF Restart, storeVars, StoreTypeOK, Deleted
<1>3. Late'
  BY <1>2 DEF Restart, JobsLost, EmptyBatch, Late
<1> QED  BY <1>1, <1>2, <1>3 DEF Restart, JobInv

LEMMA BotStep ==
  BotInv /\ [Next]_vars => BotInv' /\ \A e \in EventIds : Deleted(e) => Deleted(e)'
<1> SUFFICES ASSUME BotInv, [Next]_vars
             PROVE  BotInv' /\ \A e \in EventIds : Deleted(e) => Deleted(e)'
  OBVIOUS
<1>1. ASSUME UNCHANGED <<events, keyboards, jobVars, handlersVars, observers>>,
             now' \in Nat
      PROVE  BotInv' /\ \A e \in EventIds : Deleted(e) => Deleted(e)'
  <2>1. StoreTypeOK' /\ \A e \in EventIds : Deleted(e) => Deleted(e)'
    BY <1>1 DEF BotInv, TypeOK, StoreTypeOK, Deleted
  <2>2. HandlersInv'
    BY <1>1, HandlersInvSame DEF HandlersInv, BotInv, TypeOK
  <2> QED  BY <1>1, <2>1, <2>2, OutsideInv DEF observers, BotInv, TypeOK
<1>2. CASE Passes
  BY <1>1, <1>2 DEF Passes, Clock, BotInv, TypeOK, StoreTypeOK
<1>3. CASE UNCHANGED vars
  BY <1>1, <1>3 DEF vars, storeVars, BotInv, TypeOK, StoreTypeOK
<1> QED
  BY <1>2, <1>3, JobQuietInv, JobSendsInv, HandlerSavesInv, HandlerStepInv,
     RestartBotInv DEF Next

LEMMA BotInvariance == Spec => []BotInv
BY InitBotInv, BotStep, PTL DEF Spec

-----------------------------------------------------------------------------

(***************************************************************************)
(* Type correctness of the whole program.                                  *)
(***************************************************************************)
THEOREM BotTypeCorrect == Spec => []TypeOK
BY BotInvariance, PTL DEF BotInv

(***************************************************************************)
(* No interleaving of handlers and job brings a deleted event back.        *)
(***************************************************************************)
THEOREM DeletionIsFinal == Spec => DeletedForever
<1>1. BotInv /\ [Next]_vars => [StaysDeleted]_vars
  BY BotStep DEF StaysDeleted
<1> QED  BY <1>1, BotInvariance, PTL DEF Spec, DeletedForever

(***************************************************************************)
(* A deleted event is reminded of once more at most.                       *)
(***************************************************************************)
THEOREM LateAtMostOnce == Spec => []OneLateReminder
<1>1. BotInv => OneLateReminder
  BY DEF BotInv, Late, OneLateReminder
<1> QED  BY <1>1, BotInvariance, PTL

-----------------------------------------------------------------------------
(* What the runs have in hand *)

(***************************************************************************)
(* A copy in a batch is the one that was there before, or has just been    *)
(* read: then it is an enabled row that is due.                            *)
(***************************************************************************)
LEMMA BatchStep ==
  ASSUME BotInv, [Next]_vars, NEW k \in Jobs, NEW e \in DOMAIN batch'[k]
  PROVE  \/ e \in DOMAIN batch[k] /\ batch'[k][e] = batch[k][e]
         \/ /\ pc'[k] = "loop" /\ UNCHANGED <<events, now, confirmed, current>>
            /\ pc[k] = "fetch"
            /\ Enabled(e) /\ batch'[k][e] = events[e] /\ events[e].sendAt <= now
<1> USE DEF BotInv, TypeOK
<1>1. CASE UNCHANGED batch  BY <1>1
<1>2. ASSUME NEW j \in Jobs, FetchDue(j), UNCHANGED observers
      PROVE  \/ e \in DOMAIN batch[k] /\ batch'[k][e] = batch[k][e]
             \/ /\ pc'[k] = "loop" /\ UNCHANGED <<events, now, confirmed, current>>
                /\ pc[k] = "fetch"
                /\ Enabled(e) /\ batch'[k][e] = events[e] /\ events[e].sendAt <= now
  <2>1. CASE k = j
    <3>1. batch'[k] = EventsToSend /\ pc'[k] = "loop"
      BY <1>2, <2>1 DEF FetchDue, JobInv, JobTypeOK
    <3>2. Enabled(e) /\ EventsToSend[e] = events[e] /\ events[e].sendAt <= now
      BY <3>1 DEF EventsToSend, Enabled
    <3> QED
      BY <1>2, <2>1, <3>1, <3>2 DEF FetchDue, storeVars, observers
  <2>2. CASE k # j
    BY <1>2, <2>2 DEF FetchDue, JobInv, JobTypeOK
  <2> QED  BY <2>1, <2>2
<1>3. ASSUME NEW j \in Jobs, NEW x, EventHandled(j, x)
      PROVE  e \in DOMAIN batch[k] /\ batch'[k][e] = batch[k][e]
  BY <1>3 DEF EventHandled, Restrict, JobInv, JobTypeOK
<1>4. CASE Restart  BY <1>4 DEF Restart, JobsLost, EmptyBatch
<1> QED
  BY <1>1, <1>2, <1>3, <1>4
     DEF Next, JobQuiet, JobSends, HandlerSaves, HandlerStep, Passes, Clock, Tick,
         Claim, FetchFails, FinishJob, AdvanceTime, Deactivate, AdvanceFails,
         SendPeriodic, SendOnce, jobVars, vars

LEMMA TimePasses ==
  ASSUME BotInv, [Next]_vars
  PROVE  now' \in Nat /\ now <= now'
<1> USE DEF BotInv, TypeOK, StoreTypeOK, HandlersInv
<1>1. CASE Passes  BY <1>1 DEF Passes, Clock
<1>2. CASE UNCHANGED now  BY <1>2
<1>3. CASE HandlerStep
  <2>1. ASSUME NEW w \in Workers, NEW chat \in Chats, NEW e \in EventIds,
               Buttons(w, chat, e)
        PROVE  UNCHANGED now
    BY <2>1, ButtonsInv DEF storeVars
  <2>2. ASSUME NEW chat \in Chats, NEW e \in EventIds, Prompts(chat, e)
        PROVE  UNCHANGED now
    BY <2>2 DEF Prompts, handleSnoozeCustom, askForWeekdays, HandlePostponeCustom,
                HandleEditDescription, storeVars
  <2>3. ASSUME NEW w \in Workers, NEW chat \in Chats, NEW typed \in Typed,
               textHandler(w, chat, typed) \/ Continues(w)
        PROVE  UNCHANGED now
    BY <2>3, TextInv, ContinuesInv DEF storeVars
  <2>4. UNCHANGED now
    BY <1>3, <2>1, <2>2, <2>3, ContinuesInv DEF HandlerStep, AddHandler, storeVars
  <2> QED  BY <1>2, <2>4
<1> QED
  BY <1>1, <1>2, <1>3
     DEF Next, JobQuiet, JobSends, HandlerSaves, Save, Restart, Tick, Claim,
         FetchDue, FetchFails, FinishJob, AdvanceTime, Deactivate, AdvanceFails,
         SendPeriodic, SendOnce, storeVars, vars

LEMMA DueInv == BotInv /\ HeldAreDue /\ [Next]_vars => HeldAreDue'
<1> SUFFICES ASSUME BotInv, HeldAreDue, [Next]_vars,
                    NEW k \in Jobs, NEW e \in DOMAIN batch'[k]
             PROVE  batch'[k][e].sendAt <= now'
  BY DEF HeldAreDue
<1>1. now \in Nat /\ now' \in Nat /\ now <= now'
  BY TimePasses DEF BotInv, TypeOK, StoreTypeOK
<1>2. CASE e \in DOMAIN batch[k] /\ batch'[k][e] = batch[k][e]
  <2>1. batch[k][e].sendAt <= now  BY <1>2 DEF HeldAreDue
  <2>2. batch[k][e].sendAt \in Nat
    BY <1>2 DEF BotInv, JobInv, JobTypeOK, Row
  <2> QED  BY <1>1, <1>2, <2>1, <2>2
<1>3. CASE UNCHANGED now /\ batch'[k][e] = events[e] /\ events[e].sendAt <= now
  BY <1>3
<1> QED  BY <1>2, <1>3, BatchStep

-----------------------------------------------------------------------------
(* Confirmed dates *)

\* What an event without a period has as its next time.
LEMMA NoNextWithoutPeriod ==
  ASSUME NEW row, row.periodicity = NoPeriod
  PROVE  NextTime(row) = NoTime
BY DEF NextTime, CalculateNextTime, NoPeriod

\* A step that confirms nothing, moves no confirmed date and reads no rows.
LEMMA DatesKept ==
  ASSUME BotInv, DatesAgree,
         \A e \in EventIds : confirmed'[e] # NoTime =>
           /\ confirmed'[e] = confirmed[e]
           /\ e \in DOMAIN events => /\ e \in DOMAIN events'
                                     /\ events'[e].sendAt = events[e].sendAt
           /\ \A k \in Jobs : e \in DOMAIN batch'[k] =>
                /\ e \in DOMAIN batch[k] /\ batch'[k][e] = batch[k][e]
                /\ pc'[k] = "advance" /\ current'[k] = e
                     => pc[k] = "advance" /\ current[k] = e
  PROVE  DatesAgree'
BY DEF DatesAgree

LEMMA DatesReadInv ==
  ASSUME BotInv, DatesAgree, NEW j \in Jobs, FetchDue(j), UNCHANGED observers, [Next]_vars
  PROVE  DatesAgree'
<1> SUFFICES ASSUME NEW e \in EventIds, confirmed'[e] # NoTime
             PROVE  /\ e \in DOMAIN events' /\ events'[e].sendAt = confirmed'[e]
                    /\ \A k \in Jobs :
                         e \in DOMAIN batch'[k] /\ batch'[k][e].periodicity # NoPeriod =>
                           /\ batch'[k][e].sendAt = confirmed'[e]
                           /\ pc'[k] = "advance" => current'[k] # e
  BY DEF DatesAgree
<1>1. /\ events' = events /\ confirmed' = confirmed /\ current' = current
      /\ \A k \in Jobs : pc'[k] = "advance" => pc[k] = "advance"
  BY DEF FetchDue, storeVars, observers, BotInv, JobInv, JobTypeOK
<1>2. e \in DOMAIN events /\ events[e].sendAt = confirmed[e]
  BY <1>1 DEF DatesAgree
<1>3. ASSUME NEW k \in Jobs, e \in DOMAIN batch'[k], batch'[k][e].periodicity # NoPeriod
      PROVE  /\ batch'[k][e].sendAt = confirmed[e]
             /\ pc'[k] = "advance" => current[k] # e
  <2>1. CASE e \in DOMAIN batch[k] /\ batch'[k][e] = batch[k][e]
    BY <1>1, <1>3, <2>1 DEF DatesAgree
  <2>2. CASE pc'[k] = "loop" /\ batch'[k][e] = events[e]
    BY <1>2, <2>2
  <2> QED  BY <1>3, <2>1, <2>2, BatchStep
<1> QED  BY <1>1, <1>2, <1>3

LEMMA DatesQuietInv ==
  ASSUME BotInv, DatesAgree, NEW j \in Jobs, JobQuiet(j), [Next]_vars
  PROVE  DatesAgree'
<1> USE DEF JobQuiet, observers
<1>1. CASE FetchDue(j)  BY <1>1, DatesReadInv
<1>2. CASE Tick(j) \/ Claim(j) \/ FetchFails(j) \/ FinishJob(j)
  <2>1. UNCHANGED <<events, confirmed, batch, current>>
    BY <1>2 DEF Tick, Claim, FetchFails, FinishJob, storeVars
  <2>2. \A k \in Jobs : pc'[k] = "advance" => pc[k] = "advance"
    BY <1>2 DEF Tick, Claim, FetchFails, FinishJob, JobReturns, BotInv, JobInv, JobTypeOK
  <2> QED  BY <2>1, <2>2, DatesKept
<1>3. ASSUME AdvanceTime(j) \/ Deactivate(j) \/ AdvanceFails(j)
      PROVE  DatesAgree'
  <2>1. EventHandled(j, current[j]) /\ confirmed' = confirmed
    BY <1>3 DEF AdvanceTime, Deactivate, AdvanceFails
  <2>2. \A k \in Jobs, e \in EventIds : e \in DOMAIN batch'[k] =>
          /\ e \in DOMAIN batch[k] /\ batch'[k][e] = batch[k][e]
          /\ pc'[k] = "advance" /\ current'[k] = e
               => pc[k] = "advance" /\ current[k] = e
    BY <2>1 DEF EventHandled, Restrict, BotInv, JobInv, JobTypeOK
  <2>3. PICK c \in EventIds : c = current[j] /\ c \in DOMAIN batch[j]
                              /\ batch[j][c] \in Row
    BY <1>3 DEF AdvanceTime, Deactivate, AdvanceFails, BotInv, JobInv, Busy, JobTypeOK
  <2>4. \A e \in DOMAIN events : confirmed[e] # NoTime =>
          e \in DOMAIN events' /\ events'[e].sendAt = events[e].sendAt
    <3>1. CASE AdvanceTime(j)
      <4>1. confirmed[c] = NoTime
        BY <2>3, <3>1, NoNextWithoutPeriod DEF AdvanceTime, DatesAgree
      <4>2. /\ DOMAIN events' = DOMAIN events
            /\ \A e \in DOMAIN events : e # c => events'[e] = events[e]
        BY <2>3, <3>1 DEF AdvanceTime, UpdateEvent
      <4> QED  BY <4>1, <4>2
    <3>2. CASE Deactivate(j)
      BY <2>3, <3>2 DEF Deactivate, DeleteEvent, BotInv, TypeOK, StoreTypeOK, Row
    <3>3. CASE AdvanceFails(j)  BY <3>3 DEF AdvanceFails, storeVars
    <3> QED  BY <1>3, <3>1, <3>2, <3>3
  <2> QED  BY <2>1, <2>2, <2>4, DatesKept
<1> QED  BY <1>1, <1>2, <1>3

\* A reminder that is sent for the confirmed date settles it.
LEMMA DatesSentInv ==
  ASSUME BotInv, DatesAgree, NEW j \in Jobs, NEW e \in EventIds, JobSends(j, e)
  PROVE  DatesAgree'
<1> USE DEF BotInv, TypeOK, JobInv, JobTypeOK
<1>1. e \in DOMAIN batch[j] /\ pc[j] = "loop" /\ UNCHANGED events
  BY DEF JobSends, SendPeriodic, SendOnce, storeVars
<1>2. \A x \in EventIds : confirmed'[x] # NoTime => confirmed'[x] = confirmed[x]
  BY DEF JobSends
<1>3. CASE SendPeriodic(j, e)
  <2>1. confirmed'[e] = NoTime
    <3>1. batch[j][e].periodicity # NoPeriod  BY <1>3 DEF SendPeriodic
    <3>2. confirmed[e] # NoTime => confirmed[e] = batch[j][e].sendAt
      BY <1>1, <3>1 DEF DatesAgree
    <3> QED  BY <3>2 DEF JobSends
  <2>2. /\ batch' = batch /\ current'[j] = e
        /\ \A k \in Jobs : k # j => pc'[k] = pc[k] /\ current'[k] = current[k]
    BY <1>3 DEF SendPeriodic
  <2> QED  BY <1>1, <1>2, <2>1, <2>2, DatesKept
<1>4. CASE SendOnce(j, e)
  <2>1. EventHandled(j, e)  BY <1>4 DEF SendOnce
  <2>2. \A k \in Jobs, x \in EventIds : x \in DOMAIN batch'[k] =>
          /\ x \in DOMAIN batch[k] /\ batch'[k][x] = batch[k][x]
          /\ pc'[k] = "advance" /\ current'[k] = x
               => pc[k] = "advance" /\ current[k] = x
    BY <2>1 DEF EventHandled, Restrict
  <2> QED  BY <1>1, <1>2, <2>2, DatesKept
<1> QED  BY <1>3, <1>4 DEF JobSends

LEMMA DatesSavedInv ==
  ASSUME BotInv, DatesAgree, NEW w \in Workers, HandlerSaves(w), DateSavedBetweenRuns
  PROVE  DatesAgree'
<1> USE DEF BotInv, TypeOK
<1>1. PICK x \in DOMAIN events : x = task[w].event
  BY DEF HandlerSaves, Save, UpdateEvent
<1>2. /\ x \in EventIds /\ events[x] \in Row /\ UNCHANGED <<batch, pc, current>>
      /\ events' = [events EXCEPT ![x] = SetColumns(@, task[w].row, task[w].cols)]
  BY <1>1 DEF HandlerSaves, Save, UpdateEvent, StoreTypeOK, jobVars
<1>3. CASE "sendAt" \notin task[w].cols
  <2>1. confirmed' = confirmed  BY <1>3 DEF HandlerSaves
  <2>2. \A e \in DOMAIN events :
          e \in DOMAIN events' /\ events'[e].sendAt = events[e].sendAt
    BY <1>2, <1>3 DEF SetColumns, Row
  <2> QED  BY <1>2, <2>1, <2>2, DatesKept
<1>4. CASE "sendAt" \in task[w].cols
  <2>1. confirmed' = [confirmed EXCEPT ![x] = task[w].row.sendAt]
    BY <1>1, <1>4 DEF HandlerSaves
  <2>2. /\ DOMAIN events' = DOMAIN events
        /\ events'[x].sendAt = task[w].row.sendAt
        /\ \A e \in DOMAIN events : e # x => events'[e] = events[e]
    BY <1>2, <1>4 DEF SetColumns, Row
  <2>3. \A j \in Jobs : x \in DOMAIN batch[j] => batch[j][x].periodicity = NoPeriod
    BY <1>1, <1>4 DEF DateSavedBetweenRuns
  <2> QED  BY <1>2, <2>1, <2>2, <2>3 DEF DatesAgree
<1> QED  BY <1>3, <1>4

LEMMA DatesHandlerInv ==
  ASSUME BotInv, DatesAgree, HandlerStep
  PROVE  DatesAgree'
<1> USE DEF BotInv, TypeOK, HandlersInv
<1>1. UNCHANGED <<batch, pc, current, confirmed>>  BY DEF HandlerStep, jobVars, observers
<1>2. \A x \in DOMAIN events : x \in DOMAIN events' /\ events'[x] = events[x]
  <2>1. CASE \E chat \in Chats, typed \in Typed : AddHandler(chat, typed.text, typed.date)
    BY <2>1, AddRows
  <2>2. CASE \E w \in Workers, chat \in Chats, e \in EventIds : Buttons(w, chat, e)
    BY <2>2, ButtonsInv DEF storeVars
  <2>3. CASE \E chat \in Chats, e \in EventIds : Prompts(chat, e)
    BY <2>3, PromptsInv
  <2>4. CASE \E w \in Workers, chat \in Chats, typed \in Typed : textHandler(w, chat, typed)
    BY <2>4, TextInv DEF storeVars
  <2>5. CASE \E w \in Workers : Continues(w)
    BY <2>5, ContinuesInv DEF storeVars
  <2> QED  BY <2>1, <2>2, <2>3, <2>4, <2>5 DEF HandlerStep
<1> QED  BY <1>1, <1>2, DatesKept

LEMMA DatesInv ==
  BotInv /\ DatesAgree /\ [Next]_vars /\ [DateSavedBetweenRuns]_vars => DatesAgree'
<1> SUFFICES ASSUME BotInv, DatesAgree, [Next]_vars, [DateSavedBetweenRuns]_vars
             PROVE  DatesAgree'
  OBVIOUS
<1>1. CASE UNCHANGED vars
  BY <1>1, DatesKept DEF vars, storeVars, jobVars, observers
<1>2. CASE Restart
  BY <1>2, DatesKept DEF Restart, JobsLost, EmptyBatch, storeVars
<1>3. CASE Passes
  BY <1>3, DatesKept DEF Passes, Clock, jobVars, observers
<1>4. CASE HandlerStep  BY <1>4, DatesHandlerInv
<1>5. CASE ~UNCHANGED vars /\ \E w \in Workers : HandlerSaves(w)
  BY <1>5, DatesSavedInv
<1>6. CASE \E j \in Jobs, e \in EventIds : JobSends(j, e)
  BY <1>6, DatesSentInv
<1>7. CASE \E j \in Jobs : JobQuiet(j)
  BY <1>7, DatesQuietInv
<1> QED  BY <1>1, <1>2, <1>3, <1>4, <1>5, <1>6, <1>7 DEF Next

(***************************************************************************)
(* A date the bot has confirmed stands until it is reminded of, provided   *)
(* that no date is saved for a periodic event between the moment a run of  *)
(* the job reads it and the moment the run advances it.  This is the only  *)
(* way to lose one (AdvanceTime writes over what Save wrote, as            *)
(* MCConfirmedDate shows): restarts, failing statements and handlers that  *)
(* overtake each other lose none.                                          *)
(***************************************************************************)
THEOREM ConfirmedDatesBetweenRuns ==
  Spec /\ [][DateSavedBetweenRuns]_vars => []ConfirmedDateStands
<1>1. Init => DatesAgree  BY DEF Init, DatesAgree
<1>2. DatesAgree => ConfirmedDateStands  BY DEF DatesAgree, ConfirmedDateStands
<1> QED  BY <1>1, <1>2, DatesInv, BotInvariance, PTL DEF Spec

-----------------------------------------------------------------------------
(***************************************************************************)
(* The program implements the service: every step of ReminderBot is a step *)
(* of EventService, or none, under the mapping stated there.               *)
(***************************************************************************)

\* There is one run at a time, so what is in hand is its batch.
Hands ==
  /\ \A j \in Jobs :
       /\ pc[j] \in {"loop", "advance"} =>
            PlansHeld = [e \in DOMAIN batch[j] |-> PlanOf(batch[j][e])]
       /\ pc[j] = "loop" => LastTold = NoEvent
       /\ pc[j] = "advance" => LastTold = current[j]
  /\ (\A j \in Jobs : pc[j] \notin {"loop", "advance"}) =>
       PlansHeld = Service!Nothing /\ LastTold = NoEvent

LEMMA InOneHand == BotInv => Hands
<1> SUFFICES ASSUME BotInv PROVE Hands  OBVIOUS
<1> USE DEF BotInv, JobInv, OneRunAtATime, Busy
<1>0. \A j \in Jobs : DOMAIN batch[j] # {} => pc[j] \in {"loop", "advance"}
  BY DEF JobTypeOK
<1>1. ASSUME NEW j \in Jobs, pc[j] \in {"loop", "advance"}
      PROVE  /\ PlansHeld = [e \in DOMAIN batch[j] |-> PlanOf(batch[j][e])]
             /\ pc[j] = "loop" => LastTold = NoEvent
             /\ pc[j] = "advance" => LastTold = current[j]
  <2>1. \A k \in Jobs : k # j => pc[k] = "idle"  BY <1>1
  <2>2. \A k \in Jobs : k # j => DOMAIN batch[k] = {}  BY <2>1
  <2>3. InHand = DOMAIN batch[j]  BY <2>2 DEF InHand
  <2>4. \A e \in DOMAIN batch[j] : HolderOf(e) = j  BY <2>2 DEF HolderOf
  <2>5. PlansHeld = [e \in DOMAIN batch[j] |-> PlanOf(batch[j][e])]
    BY <2>3, <2>4 DEF PlansHeld
  <2>6. pc[j] = "loop" => Told = {}  BY <2>1 DEF Told
  <2>7. pc[j] = "advance" => Told = {current[j]}  BY <2>1 DEF Told
  <2> QED  BY <2>5, <2>6, <2>7 DEF LastTold
<1>2. ASSUME \A j \in Jobs : pc[j] \notin {"loop", "advance"}
      PROVE  PlansHeld = Service!Nothing /\ LastTold = NoEvent
  <2>1. InHand = {}  BY <1>0, <1>2 DEF InHand
  <2>2. Told = {}  BY <1>2 DEF Told
  <2> QED  BY <2>1, <2>2 DEF PlansHeld, Service!Nothing, LastTold
<1> QED  BY <1>1, <1>2 DEF Hands

\* Batches that do not change map to plans that do not.
LEMMA HandsKept ==
  ASSUME UNCHANGED batch
  PROVE  UNCHANGED PlansHeld
BY DEF PlansHeld, InHand, HolderOf

LEMMA PlansAreKept ==
  ASSUME UNCHANGED events
  PROVE  UNCHANGED <<DOMAIN events, InService, PlansKept>>
BY DEF InService, Enabled, PlansKept

LEMMA PlanOfRow ==
  ASSUME NEW row \in Row
  PROVE  PlanOf(row) \in Service!Plans
<1> DEFINE p == PlanOf(row)
<1>1. /\ p.slot = row.sendAt /\ p.repeats = (row.periodicity # NoPeriod)
      /\ p.follows = NextTime(row)
  BY DEF PlanOf
<1>2. p.follows # NoTime => p.follows \in Nat /\ p.follows > p.slot
  BY <1>1, NextTimeLater
<1>3. p.follows # NoTime => p.repeats
  BY <1>1, NoNextWithoutPeriod
<1>4. p \in [slot : Nat, repeats : BOOLEAN, follows : Nat \cup {NoTime}]
  BY <1>1, <1>2 DEF PlanOf, Row
<1> QED  BY <1>2, <1>3, <1>4 DEF Service!Plans

\* The row of x changes, or is new, and no other does.
LEMMA OneRowChanges ==
  ASSUME NEW x, x \in DOMAIN events', events'[x] \in Row,
         \A e \in DOMAIN events \ {x} : events'[e] = events[e],
         DOMAIN events \subseteq DOMAIN events'
  PROVE  Service!Replans(x)
<1>1. DOMAIN PlansKept' = DOMAIN events'  BY DEF PlansKept
<1>2. \A e \in DOMAIN events' : PlansKept'[e] = PlanOf(events'[e])
  BY DEF PlansKept, PlanOf
<1>3. \A e \in DOMAIN events : PlansKept[e] = PlanOf(events[e])
  BY DEF PlansKept
<1>4. PlansKept'[x] \in Service!Plans  BY <1>2, PlanOfRow
<1> QED  BY <1>1, <1>2, <1>3, <1>4 DEF Service!Replans

-----------------------------------------------------------------------------
(* Owners *)

LEMMA AddMaps ==
  ASSUME BotInv, NEW chat \in Chats, NEW typed \in Typed,
         AddHandler(chat, typed.text, typed.date), UNCHANGED <<jobVars, observers>>
  PROVE  \E e \in EventIds : Service!Enters(e)
<1> USE DEF BotInv, TypeOK
<1>1. PICK e \in EventIds \ DOMAIN events :
        AddEvent(e, [userTgId |-> chat, message |-> typed.text, sendAt |-> typed.date,
                     statusId |-> StatusEnabled, weekdays |-> {},
                     periodicity |-> NoPeriod])
  BY DEF AddHandler
<1>2. StoreTypeOK'  BY AddRows DEF HandlersInv
<1>3. /\ DOMAIN events' = DOMAIN events \cup {e}
      /\ \A x \in DOMAIN events : events'[x] = events[x]
      /\ events'[e].statusId = StatusEnabled
  BY <1>1 DEF AddEvent
<1>4. InService' = InService \cup {e}
  BY <1>3 DEF InService, Enabled
<1>5. Service!Replans(e)
  BY <1>2, <1>3, OneRowChanges DEF StoreTypeOK
<1>6. now' = now /\ UNCHANGED <<PlansHeld, LastTold>>
  BY HandsKept DEF AddHandler, jobVars, LastTold, Told
<1> QED  BY <1>1, <1>3, <1>4, <1>5, <1>6 DEF Service!Enters

(***************************************************************************)
(* A save of any columns but the status changes a row; one of the status   *)
(* retires the event, whatever its status has become since it was read.    *)
(***************************************************************************)
LEMMA SaveMaps ==
  ASSUME BotInv, NEW w \in Workers, HandlerSaves(w)
  PROVE  \E e \in EventIds : Service!Changes(e) \/ Service!Retires(e)
<1> USE DEF BotInv, TypeOK, HandlersInv
<1>1. PICK e \in DOMAIN events : e = task[w].event
  BY DEF HandlerSaves, Save, UpdateEvent
<1>2. e \in EventIds /\ events[e] \in Row  BY DEF StoreTypeOK
<1>3. /\ StoreTypeOK' /\ DOMAIN events' = DOMAIN events
      /\ events' = [events EXCEPT ![e] = SetColumns(@, task[w].row, task[w].cols)]
  BY <1>1, SaveRows DEF HandlerSaves, Save, UpdateEvent
<1>4. Service!Replans(e)
  BY <1>3, OneRowChanges DEF StoreTypeOK
<1>5. now' = now /\ UNCHANGED <<PlansHeld, LastTold>>
  BY HandsKept DEF HandlerSaves, Save, jobVars, LastTold, Told
<1>6. CASE "statusId" \notin task[w].cols
  <2>1. events'[e].statusId = events[e].statusId
    BY <1>2, <1>3, <1>6 DEF SetColumns, Row
  <2>2. InService' = InService
    BY <1>3, <2>1 DEF InService, Enabled
  <2> QED  BY <1>2, <1>3, <1>4, <1>5, <2>2 DEF Service!Changes
<1>7. CASE "statusId" \in task[w].cols
  <2>1. task[w].row.statusId = StatusDeleted
    BY <1>7 DEF HandlerSaves, Save, DeletesOnly
  <2>2. events'[e].statusId = StatusDeleted
    BY <1>2, <1>3, <1>7, <2>1 DEF SetColumns, Row
  <2>3. InService' = InService \ {e}
    BY <1>3, <2>2 DEF InService, Enabled, StatusDeleted, StatusEnabled
  <2> QED  BY <1>2, <1>3, <1>4, <1>5, <2>3 DEF Service!Retires
<1> QED  BY <1>6, <1>7

LEMMA HandlerMaps ==
  ASSUME BotInv, HandlerStep
  PROVE  Service!Next \/ UNCHANGED Service!vars
<1> USE DEF BotInv, TypeOK, HandlersInv
<1>1. UNCHANGED <<jobVars, observers>>  BY DEF HandlerStep
<1>2. ASSUME UNCHANGED <<events, now>> PROVE UNCHANGED Service!vars
  BY <1>1, <1>2, HandsKept, PlansAreKept DEF Service!vars, jobVars, LastTold, Told
<1>3. CASE \E chat \in Chats, typed \in Typed : AddHandler(chat, typed.text, typed.date)
  BY <1>1, <1>3, AddMaps DEF Service!Next
<1>4. CASE \E w \in Workers, chat \in Chats, e \in EventIds : Buttons(w, chat, e)
  BY <1>2, <1>4, ButtonsInv DEF storeVars
<1>5. CASE \E chat \in Chats, e \in EventIds : Prompts(chat, e)
  BY <1>2, <1>5 DEF Prompts, handleSnoozeCustom, askForWeekdays, HandlePostponeCustom,
                    HandleEditDescription, storeVars
<1>6. CASE \E w \in Workers, chat \in Chats, typed \in Typed : textHandler(w, chat, typed)
  BY <1>2, <1>6, TextInv DEF storeVars
<1>7. CASE \E w \in Workers : Continues(w)
  BY <1>2, <1>7, ContinuesInv DEF storeVars
<1> QED  BY <1>3, <1>4, <1>5, <1>6, <1>7 DEF HandlerStep

-----------------------------------------------------------------------------
(* The service *)

LEMMA FetchMaps ==
  ASSUME BotInv, BotInv', NEW j \in Jobs, FetchDue(j), UNCHANGED observers
  PROVE  Service!TakesUp
<1> USE DEF BotInv, TypeOK, JobInv, JobTypeOK
<1>1. \A k \in Jobs : pc[k] \notin {"loop", "advance"}
  BY DEF FetchDue, OneRunAtATime
<1>2. PlansHeld = Service!Nothing /\ LastTold = NoEvent
  BY <1>1, InOneHand DEF Hands
<1>3. batch'[j] = EventsToSend /\ pc'[j] = "loop" /\ UNCHANGED storeVars
  BY DEF FetchDue
<1>4. Hands'  BY InOneHand, PTL
<1>5. /\ PlansHeld' = [e \in DOMAIN batch'[j] |-> PlanOf(batch'[j][e])]
      /\ LastTold' = NoEvent
  BY <1>3, <1>4 DEF Hands, PlanOf
<1>6. DOMAIN EventsToSend = {x \in InService : PlansKept[x].slot <= now}
  BY DEF EventsToSend, InService, Enabled, PlansKept, PlanOf, StoreTypeOK
<1>7. \A e \in DOMAIN EventsToSend : PlanOf(EventsToSend[e]) = PlansKept[e]
  BY DEF EventsToSend, PlansKept
<1>8. PlansHeld' = [e \in {x \in InService : PlansKept[x].slot <= now} |-> PlansKept[e]]
  BY <1>3, <1>5, <1>6, <1>7
<1>9. UNCHANGED <<now, DOMAIN events, InService, PlansKept>>
  BY <1>3, PlansAreKept DEF storeVars
<1> QED  BY <1>2, <1>5, <1>8, <1>9 DEF Service!TakesUp

\* A run leaves an event it has in hand.
LEMMA HandledMaps ==
  ASSUME BotInv, BotInv', NEW j \in Jobs, NEW e, pc[j] \in {"loop", "advance"},
         EventHandled(j, e)
  PROVE  Service!LetsGo(e) /\ LastTold' = NoEvent
<1> USE DEF BotInv, TypeOK, JobInv, JobTypeOK
<1>1. /\ pc'[j] = "loop"
      /\ batch'[j] = [x \in DOMAIN batch[j] \ {e} |-> batch[j][x]]
  BY DEF EventHandled, Restrict
<1>2. Hands'  BY InOneHand, PTL
<1>3. /\ PlansHeld' = [x \in DOMAIN batch'[j] |-> PlanOf(batch'[j][x])]
      /\ LastTold' = NoEvent
  BY <1>1, <1>2 DEF Hands, PlanOf
<1>4. PlansHeld = [x \in DOMAIN batch[j] |-> PlanOf(batch[j][x])]
  BY InOneHand DEF Hands
<1>5. PlansHeld' = [x \in DOMAIN PlansHeld \ {e} |-> PlansHeld[x]]
  BY <1>1, <1>3, <1>4
<1> QED  BY <1>3, <1>5 DEF Service!LetsGo, Service!Restrict

LEMMA SendMaps ==
  ASSUME BotInv, BotInv', HeldAreDue, NEW j \in Jobs, NEW e \in EventIds, JobSends(j, e)
  PROVE  Service!Reminds(e)
<1> USE DEF BotInv, TypeOK, JobInv, JobTypeOK
<1>1. e \in DOMAIN batch[j] /\ pc[j] = "loop" /\ UNCHANGED <<events, now>>
  BY DEF JobSends, SendPeriodic, SendOnce, storeVars
<1>2. /\ PlansHeld = [x \in DOMAIN batch[j] |-> PlanOf(batch[j][x])]
      /\ LastTold = NoEvent
  BY <1>1, InOneHand DEF Hands
<1>3. /\ e \in DOMAIN PlansHeld /\ PlansHeld[e].slot <= now
      /\ PlansHeld[e].repeats <=> batch[j][e].periodicity # NoPeriod
  BY <1>1, <1>2 DEF PlanOf, HeldAreDue
<1>4. UNCHANGED <<now, DOMAIN events, InService, PlansKept>>
  BY <1>1, PlansAreKept
<1>5. CASE SendPeriodic(j, e)
  <2>1. pc'[j] = "advance" /\ current'[j] = e /\ batch' = batch
    BY <1>5 DEF SendPeriodic
  <2>2. Hands'  BY InOneHand, PTL
  <2>3. LastTold' = e  BY <2>1, <2>2 DEF Hands
  <2>4. PlansHeld' = PlansHeld  BY <2>1, HandsKept
  <2>5. PlansHeld[e].repeats  BY <1>3, <1>5 DEF SendPeriodic
  <2> QED  BY <1>2, <1>3, <1>4, <2>3, <2>4, <2>5 DEF Service!Reminds
<1>6. CASE SendOnce(j, e)
  <2>1. Service!LetsGo(e) /\ LastTold' = NoEvent
    BY <1>1, <1>6, HandledMaps DEF SendOnce
  <2>2. ~PlansHeld[e].repeats  BY <1>3, <1>6 DEF SendOnce
  <2> QED  BY <1>2, <1>3, <1>4, <2>1, <2>2 DEF Service!Reminds
<1> QED  BY <1>5, <1>6 DEF JobSends

\* Advancing moves on what was reminded of, ends it, or lets it stay.
LEMMA AdvanceMapsTo ==
  ASSUME BotInv, BotInv', NEW j \in Jobs,
         AdvanceTime(j) \/ Deactivate(j) \/ AdvanceFails(j)
  PROVE  \E e \in EventIds : Service!MovesOn(e) \/ Service!Ends(e) \/ Service!Stays(e)
<1> USE DEF BotInv, TypeOK, JobInv, JobTypeOK
<1>1. pc[j] = "advance" /\ now' = now
  BY DEF AdvanceTime, Deactivate, AdvanceFails, storeVars
<1>2. PICK e \in EventIds : e = current[j] /\ e \in DOMAIN batch[j] /\ batch[j][e] \in Row
  BY <1>1 DEF Busy
<1>3. LastTold = e /\ PlansHeld[e].follows = NextTime(batch[j][e])
  BY <1>1, <1>2, InOneHand DEF Hands, PlanOf
<1>4. Service!LetsGo(e) /\ LastTold' = NoEvent
  BY <1>1, <1>2, HandledMaps DEF AdvanceTime, Deactivate, AdvanceFails
<1>5. CASE AdvanceFails(j)
  BY <1>1, <1>3, <1>4, <1>5, PlansAreKept DEF AdvanceFails, storeVars, Service!Stays
<1>6. CASE AdvanceTime(j)
  <2> DEFINE next == NextTime(batch[j][e])
  <2>1. next # NoTime /\ e \in DOMAIN events
    BY <1>2, <1>6 DEF AdvanceTime, UpdateEvent
  <2>2. events' = [events EXCEPT ![e] =
                     SetColumns(@, [batch[j][e] EXCEPT !.sendAt = next], {"sendAt"})]
    BY <1>2, <1>6 DEF AdvanceTime, UpdateEvent
  <2> HIDE DEF next
  <2>3. events[e] \in Row  BY <2>1 DEF StoreTypeOK
  <2>4. events' = [events EXCEPT ![e] = [events[e] EXCEPT !.sendAt = next]]
    BY <1>2, <2>1, <2>2, <2>3 DEF SetColumns, Row
  <2>5. /\ events'[e].sendAt = next
        /\ events'[e].periodicity = events[e].periodicity
        /\ events'[e].statusId = events[e].statusId
    BY <2>1, <2>3, <2>4 DEF Row
  <2>6. DOMAIN events' = DOMAIN events /\ e \in DOMAIN events'
    BY <2>1, <2>4
  <2>7. Service!Replans(e)
    <3>1. events'[e] \in Row  BY <2>6 DEF StoreTypeOK
    <3> QED  BY <2>4, <2>6, <3>1, OneRowChanges
  <2>8. InService' = InService
    BY <2>4, <2>5, <2>6 DEF InService, Enabled
  <2>9. PlansKept'[e].slot = next /\ PlansKept'[e].repeats = PlansKept[e].repeats
    BY <2>1, <2>5, <2>6 DEF PlansKept, PlanOf
  <2> QED
    BY <1>1, <1>3, <1>4, <2>1, <2>6, <2>7, <2>8, <2>9 DEF Service!MovesOn, next
<1>7. CASE Deactivate(j)
  <2>1. NextTime(batch[j][e]) = NoTime /\ e \in DOMAIN events
        /\ events' = [events EXCEPT ![e].statusId = StatusDeleted]
    BY <1>2, <1>7 DEF Deactivate, DeleteEvent
  <2>2. events[e] \in Row  BY <2>1 DEF StoreTypeOK
  <2>3. \A x \in DOMAIN events :
          /\ events'[x].sendAt = events[x].sendAt
          /\ events'[x].periodicity = events[x].periodicity
          /\ events'[x].weekdays = events[x].weekdays
          /\ events'[x].statusId = IF x = e THEN StatusDeleted ELSE events[x].statusId
    BY <2>1, <2>2 DEF Row
  <2>4. DOMAIN events' = DOMAIN events  BY <2>1
  <2>5. PlansKept' = PlansKept
    BY <2>3, <2>4 DEF PlansKept, PlanOf, NextTime
  <2>6. InService' = InService \ {e}
    BY <2>3, <2>4 DEF InService, Enabled, StatusDeleted, StatusEnabled
  <2> QED  BY <1>1, <1>3, <1>4, <2>1, <2>4, <2>5, <2>6 DEF Service!Ends
<1> QED  BY <1>5, <1>6, <1>7

\* After a restart nothing is in hand.
LEMMA RestartMapsTo ==
  ASSUME BotInv', Restart
  PROVE  Service!Forgets
<1>1. \A j \in Jobs : pc'[j] \notin {"loop", "advance"}
  BY DEF Restart, JobsLost
<1>2. Hands'  BY InOneHand, PTL
<1>3. PlansHeld' = Service!Nothing /\ LastTold' = NoEvent
  BY <1>1, <1>2 DEF Hands
<1>4. UNCHANGED <<now, DOMAIN events, InService, PlansKept>>
  BY PlansAreKept DEF Restart, storeVars
<1> QED  BY <1>3, <1>4 DEF Service!Forgets

\* The rest of a run concerns nobody outside it.
LEMMA QuietMaps ==
  ASSUME BotInv, BotInv', NEW j \in Jobs, JobQuiet(j)
  PROVE  Service!Next \/ UNCHANGED Service!vars
<1>1. CASE FetchDue(j)
  BY <1>1, FetchMaps DEF JobQuiet, Service!Next
<1>2. CASE AdvanceTime(j) \/ Deactivate(j) \/ AdvanceFails(j)
  BY <1>2, AdvanceMapsTo DEF Service!Next
<1>3. CASE Tick(j) \/ Claim(j) \/ FetchFails(j) \/ FinishJob(j)
  <2>1. UNCHANGED <<storeVars, batch, current>>
    BY <1>3 DEF Tick, Claim, FetchFails, FinishJob
  <2>2. \A k \in Jobs : pc'[k] = "advance" <=> pc[k] = "advance"
    BY <1>3 DEF Tick, Claim, FetchFails, FinishJob, JobReturns, BotInv, JobInv, JobTypeOK
  <2>3. UNCHANGED LastTold  BY <2>1, <2>2 DEF LastTold, Told
  <2> QED  BY <2>1, <2>3, HandsKept, PlansAreKept DEF storeVars, Service!vars
<1> QED  BY <1>1, <1>2, <1>3 DEF JobQuiet

LEMMA InitMapsTo == Init => Service!Init
<1> SUFFICES ASSUME Init PROVE Service!Init  OBVIOUS
<1>1. BotInv  BY InitBotInv
<1>2. PlansHeld = Service!Nothing /\ LastTold = NoEvent
  BY <1>1, InOneHand DEF Init, JobInit, Hands
<1>3. DOMAIN events \subseteq EventIds /\ InService \subseteq DOMAIN events
  BY <1>1 DEF BotInv, TypeOK, StoreTypeOK, InService, Enabled
<1>4. DOMAIN PlansKept = DOMAIN events
      /\ \A e \in DOMAIN events : PlansKept[e] \in Service!Plans
  BY <1>1, PlanOfRow DEF PlansKept, BotInv, TypeOK, StoreTypeOK
<1> QED  BY <1>2, <1>3, <1>4 DEF Init, Service!Init

LEMMA StepMapsTo ==
  ASSUME BotInv, BotInv', HeldAreDue, [Next]_vars
  PROVE  [Service!Next]_(Service!vars)
<1>1. CASE \E j \in Jobs : JobQuiet(j)  BY <1>1, QuietMaps
<1>2. CASE \E j \in Jobs, e \in EventIds : JobSends(j, e)
  BY <1>2, SendMaps DEF Service!Next
<1>3. CASE \E w \in Workers : HandlerSaves(w)
  BY <1>3, SaveMaps DEF Service!Next
<1>4. CASE HandlerStep  BY <1>4, HandlerMaps
<1>5. CASE Restart  BY <1>5, RestartMapsTo DEF Service!Next
<1>6. CASE Passes
  <2>1. UNCHANGED <<DOMAIN events, InService, PlansKept, PlansHeld, LastTold>>
    BY <1>6, HandsKept, PlansAreKept DEF Passes, Clock, jobVars, LastTold, Told
  <2> QED  BY <1>6, <2>1 DEF Passes, Clock, Service!Ticks, Service!Next
<1>7. CASE UNCHANGED vars
  BY <1>7, HandsKept, PlansAreKept
     DEF vars, storeVars, jobVars, LastTold, Told, Service!vars
<1> QED  BY <1>1, <1>2, <1>3, <1>4, <1>5, <1>6, <1>7 DEF Next

(***************************************************************************)
(* The job, its goroutines and batches, the handlers with their copies of  *)
(* rows, failing statements and restarts implement one service that goes   *)
(* by a single copy of each event, for any number of events, goroutines    *)
(* and users: nothing is reminded of early or moved on without having been *)
(* reminded of, and no handler undoes what another has ended.              *)
(***************************************************************************)
THEOREM BotImplementsService == Spec => ImplementsService
<1>1. Init => HeldAreDue
  BY DEF Init, JobInit, EmptyBatch, HeldAreDue
<1>2. Spec => []HeldAreDue
  BY <1>1, DueInv, BotInvariance, PTL DEF Spec
<1>3. BotInv /\ BotInv' /\ HeldAreDue /\ [Next]_vars => [Service!Next]_(Service!vars)
  BY StepMapsTo
<1> QED
  BY <1>2, <1>3, InitMapsTo, BotInvariance, PTL DEF Spec, ImplementsService, Service!Spec
=============================================================================
