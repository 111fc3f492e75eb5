-------------------------- MODULE Reminders_proofs --------------------------
(***************************************************************************)
(* Proofs about the reminder job, for every set of events and goroutines   *)
(* and every bound.                                                        *)
(***************************************************************************)
EXTENDS Reminders, ReminderJob_proofs

-----------------------------------------------------------------------------
(* The inductive invariant *)

LEMMA InitInv == Init => IInv
<1> SUFFICES ASSUME Init PROVE IInv  OBVIOUS
<1> USE DEF Init, JobInit, EmptyBatch
<1>1. TypeOK
  <2>1. events \in [EventIds -> Row]  BY SavedRowsAssumption
  <2> QED  BY <2>1 DEF TypeOK, StoreTypeOK, JobTypeOK, NoTime
<1>2. OneRunAtATime  BY DEF OneRunAtATime
<1>3. Snapshot  BY DEF Snapshot
<1>4. Current  BY DEF Current
<1>5. Debt
  <2>1. ASSUME NEW e \in EventIds PROVE ~Owes(e)
    <3>1. Periodic(e) => events[e].sendAt \in Nat
      BY SavedRowsAssumption DEF Periodic, Enabled, Row
    <3> QED  BY <3>1 DEF Owes, NoTime
  <2> QED  BY <2>1 DEF Debt
<1> QED  BY <1>1, <1>2, <1>3, <1>4, <1>5 DEF IInv

(***************************************************************************)
(* The steps of the job before and after its loop change neither the table *)
(* nor what was sent.                                                      *)
(***************************************************************************)
LEMMA TickInv ==
  ASSUME IInv, NEW j \in Jobs, Tick(j), UNCHANGED history
  PROVE  IInv'
<1> USE DEF IInv, Tick, history, storeVars
<1>1. TypeOK'  BY DEF TypeOK, StoreTypeOK, JobTypeOK
<1>2. OneRunAtATime'
  BY DEF OneRunAtATime, TicksApart, TypeOK, JobTypeOK
<1>3. Snapshot'
  BY DEF Snapshot, Enabled, TypeOK, JobTypeOK
<1>4. Current'
  BY DEF Current, Periodic, Enabled, TypeOK, JobTypeOK
<1>5. Debt'
  BY DEF Debt, Owes, Periodic, Enabled, Advancing, TypeOK, JobTypeOK
<1> QED  BY <1>1, <1>2, <1>3, <1>4, <1>5

LEMMA ClaimInv ==
  ASSUME IInv, NEW j \in Jobs, Claim(j), UNCHANGED history
  PROVE  IInv'
<1> USE DEF IInv, Claim, history, storeVars
<1>1. TypeOK'  BY DEF TypeOK, StoreTypeOK, JobTypeOK
<1>2. OneRunAtATime'
  BY DEF OneRunAtATime, TypeOK, JobTypeOK
<1>3. Snapshot'
  BY DEF Snapshot, Enabled, TypeOK, JobTypeOK
<1>4. Current'
  BY DEF Current, Periodic, Enabled, TypeOK, JobTypeOK
<1>5. Debt'
  BY DEF Debt, Owes, Periodic, Enabled, Advancing, TypeOK, JobTypeOK
<1> QED  BY <1>1, <1>2, <1>3, <1>4, <1>5

LEMMA FetchDueInv ==
  ASSUME IInv, NEW j \in Jobs, FetchDue(j), UNCHANGED history
  PROVE  IInv'
<1> USE DEF IInv, FetchDue, history, storeVars
<1>1. /\ DOMAIN EventsToSend \subseteq EventIds
      /\ EventsToSend \in [DOMAIN EventsToSend -> Row]
      /\ \A e \in DOMAIN EventsToSend :
           Enabled(e) /\ EventsToSend[e] = events[e] /\ events[e].sendAt <= now
  BY DEF EventsToSend, Enabled, TypeOK, StoreTypeOK
<1> HIDE DEF EventsToSend
<1>2. TypeOK'  BY <1>1 DEF TypeOK, StoreTypeOK, JobTypeOK
<1>3. OneRunAtATime'
  BY DEF OneRunAtATime, TypeOK, JobTypeOK
<1>4. Snapshot'
  BY <1>1 DEF Snapshot, Enabled, TypeOK, JobTypeOK
<1>5. Current'
  BY DEF Current, Periodic, Enabled, TypeOK, JobTypeOK
<1>6. Debt'
  BY DEF Debt, Owes, Periodic, Enabled, Advancing, TypeOK, JobTypeOK
<1> QED  BY <1>2, <1>3, <1>4, <1>5, <1>6

LEMMA ReturnInv ==
  ASSUME IInv, NEW j \in Jobs, FetchFails(j) \/ FinishJob(j), UNCHANGED history
  PROVE  IInv'
<1> USE DEF IInv, FetchFails, FinishJob, JobReturns, history, storeVars
<1>1. TypeOK'  BY DEF TypeOK, StoreTypeOK, JobTypeOK
<1>2. OneRunAtATime'
  BY DEF OneRunAtATime, TypeOK, JobTypeOK
<1>3. Snapshot'
  BY DEF Snapshot, Enabled, TypeOK, JobTypeOK
<1>4. Current'
  BY DEF Current, Periodic, Enabled, TypeOK, JobTypeOK
<1>5. Debt'
  BY DEF Debt, Owes, Periodic, Enabled, Advancing, TypeOK, JobTypeOK
<1> QED  BY <1>1, <1>2, <1>3, <1>4, <1>5

(***************************************************************************)
(* The only goroutine in the loop is j, so nothing is being advanced when  *)
(* it sends, and its copy of the row is the row.                           *)
(***************************************************************************)
LEMMA SendsPeriodicInv ==
  ASSUME IInv, NEW j \in Jobs, NEW e \in EventIds, SendsPeriodic(j, e)
  PROVE  IInv'
<1> USE DEF IInv, SendsPeriodic, SendPeriodic, storeVars
<1>1. Periodic(e) /\ batch[j][e] = events[e] /\ events[e].sendAt \in Nat
  BY DEF Snapshot, Periodic, Enabled, TypeOK, StoreTypeOK, Row
<1>2. \A x \in EventIds : ~Advancing(x)
  BY DEF Advancing, OneRunAtATime
<1>3. TypeOK'  BY <1>1 DEF TypeOK, StoreTypeOK, JobTypeOK
<1>4. OneRunAtATime'
  BY DEF OneRunAtATime, TypeOK, JobTypeOK
<1>5. Snapshot'
  BY DEF Snapshot, Enabled, TypeOK, JobTypeOK
<1>6. Current'
  BY <1>1 DEF Current, OneRunAtATime, Periodic, Enabled, TypeOK, JobTypeOK
<1>7. Debt'
  <2> SUFFICES ASSUME NEW x \in EventIds
               PROVE  repeats'[x] + (IF Owes(x)' THEN 1 ELSE 0)
                        <= restarts' + failures'[x]
    BY DEF Debt
  <2>1. /\ repeats[x] + (IF Owes(x) THEN 1 ELSE 0) <= restarts + failures[x]
        /\ repeats[x] \in Nat /\ failures[x] \in Nat /\ restarts \in Nat
    BY DEF Debt, TypeOK
  <2>2. CASE x = e
    <3>1. ~Owes(x)'
      BY <2>2 DEF Owes, Advancing, TypeOK, JobTypeOK
    <3>2. CASE lastSent[e] = events[e].sendAt
      <4>1. Owes(e)  BY <1>1, <1>2, <3>2 DEF Owes
      <4>2. repeats'[e] = repeats[e] + 1  BY <1>1, <3>2 DEF TypeOK
      <4> QED  BY <2>1, <2>2, <3>1, <4>1, <4>2
    <3>3. CASE lastSent[e] # events[e].sendAt
      BY <1>1, <2>1, <2>2, <3>1, <3>3
    <3> QED  BY <3>2, <3>3
  <2>3. CASE x # e
    <3>1. Owes(x)' => Owes(x)
      BY <1>2, <2>3 DEF Owes, Periodic, Enabled, TypeOK
    <3>2. repeats'[x] = repeats[x]  BY <2>3 DEF TypeOK
    <3> QED  BY <2>1, <3>1, <3>2
  <2> QED  BY <2>2, <2>3
<1> QED  BY <1>3, <1>4, <1>5, <1>6, <1>7

LEMMA SendsOnceInv ==
  ASSUME IInv, NEW j \in Jobs, NEW e \in EventIds, SendsOnce(j, e)
  PROVE  IInv'
<1> USE DEF IInv, SendsOnce, SendOnce, EventHandled, Restrict
<1>1. ~Periodic(e) /\ batch[j][e] = events[e] /\ events[e].sendAt \in Nat
  BY DEF Snapshot, Periodic, Enabled, TypeOK, StoreTypeOK, Row
<1>2. TypeOK'
  <2>1. StoreTypeOK'  BY DEF TypeOK, StoreTypeOK, KeyboardKinds
  <2>2. JobTypeOK'  BY DEF TypeOK, JobTypeOK
  <2> QED  BY <1>1, <2>1, <2>2 DEF TypeOK
<1>3. OneRunAtATime'
  BY DEF OneRunAtATime, TypeOK, JobTypeOK
<1>4. Snapshot'
  BY DEF Snapshot, Enabled, TypeOK, JobTypeOK
<1>5. Current'
  BY DEF Current, OneRunAtATime, Periodic, Enabled, TypeOK, JobTypeOK
<1>6. Debt'
  <2>1. \A x \in EventIds : Owes(x)' => Owes(x)
    BY <1>1 DEF Owes, Periodic, Enabled, Advancing, OneRunAtATime,
                TypeOK, JobTypeOK
  <2> QED  BY <2>1 DEF Debt, TypeOK
<1> QED  BY <1>2, <1>3, <1>4, <1>5, <1>6

(***************************************************************************)
(* A later date is not the slot last sent, and a deleted event is not      *)
(* periodic any more: neither leaves a debt.                               *)
(***************************************************************************)
LEMMA AdvanceTimeInv ==
  ASSUME IInv, NEW j \in Jobs, AdvanceTime(j), UNCHANGED history
  PROVE  IInv'
<1> USE DEF IInv, AdvanceTime, EventHandled, Restrict, history
<1>0. PICK e \in EventIds : e = current[j]
  BY DEF Current, Snapshot, TypeOK, JobTypeOK
<1> DEFINE next == NextTime(batch[j][e])
<1>1. /\ e \in DOMAIN events
      /\ e \in DOMAIN batch[j] /\ batch[j][e] = events[e]
      /\ Periodic(e) /\ lastSent[e] = events[e].sendAt
      /\ events[e] \in Row
  BY <1>0 DEF Current, Snapshot, Enabled, Periodic, TypeOK, StoreTypeOK, JobTypeOK
<1>2. next \in Nat /\ next > events[e].sendAt
  BY <1>0, <1>1, NextTimeLater
<1>3. events' = [events EXCEPT ![e] = [events[e] EXCEPT !.sendAt = next]]
  BY <1>0, <1>1 DEF UpdateEvent, SetColumns, Row
<1> HIDE DEF next
<1>4. \A x \in EventIds : Advancing(x) <=> x = e
  BY <1>0, <1>1 DEF Advancing, OneRunAtATime
<1>5. TypeOK'
  <2>1. events'[e] \in Row  BY <1>1, <1>2, <1>3 DEF Row, TypeOK, StoreTypeOK
  <2>2. StoreTypeOK'  BY <1>1, <1>3, <2>1 DEF TypeOK, StoreTypeOK
  <2>3. JobTypeOK'  BY DEF TypeOK, JobTypeOK
  <2> QED  BY <2>2, <2>3 DEF TypeOK
<1>6. OneRunAtATime'
  BY DEF OneRunAtATime, TypeOK, JobTypeOK
<1>7. Snapshot'
  <2>1. \A k \in Jobs : k # j => pc[k] \in {"idle", "claim", "fetch"}
    BY DEF OneRunAtATime
  <2> QED  BY <1>0, <1>1, <1>3, <2>1 DEF Snapshot, Enabled, TypeOK, JobTypeOK
<1>8. Current'
  BY DEF Current, OneRunAtATime, TypeOK, JobTypeOK
<1>9. Debt'
  <2>1. ~Owes(e)'
    BY <1>1, <1>2, <1>3 DEF Owes, TypeOK, StoreTypeOK, Row
  <2>2. \A x \in EventIds : x # e => (Owes(x)' => Owes(x))
    BY <1>3, <1>4 DEF Owes, Periodic, Enabled
  <2> QED  BY <1>1, <2>1, <2>2 DEF Debt, TypeOK
<1> QED  BY <1>5, <1>6, <1>7, <1>8, <1>9

LEMMA DeactivateInv ==
  ASSUME IInv, NEW j \in Jobs, Deactivate(j), UNCHANGED history
  PROVE  IInv'
<1> USE DEF IInv, Deactivate, EventHandled, Restrict, history
<1>0. PICK e \in EventIds : e = current[j]
  BY DEF Current, Snapshot, TypeOK, JobTypeOK
<1>1. /\ e \in DOMAIN events /\ events[e] \in Row
      /\ events' = [events EXCEPT ![e].statusId = StatusDeleted]
  BY <1>0 DEF Current, Enabled, Periodic, TypeOK, StoreTypeOK, JobTypeOK, DeleteEvent
<1>2. \A x \in EventIds : Advancing(x) <=> x = e
  BY <1>0, <1>1 DEF Advancing, OneRunAtATime
<1>3. events'[e] \in Row /\ events'[e].statusId = StatusDeleted
  BY <1>1 DEF Row, StatusDeleted
<1>4. TypeOK'
  <2>1. StoreTypeOK'  BY <1>1, <1>3 DEF TypeOK, StoreTypeOK
  <2>2. JobTypeOK'  BY DEF TypeOK, JobTypeOK
  <2> QED  BY <2>1, <2>2 DEF TypeOK
<1>5. OneRunAtATime'
  BY DEF OneRunAtATime, TypeOK, JobTypeOK
<1>6. Snapshot'
  <2>1. \A k \in Jobs : k # j => pc[k] \in {"idle", "claim", "fetch"}
    BY DEF OneRunAtATime
  <2> QED  BY <1>0, <1>1, <2>1 DEF Snapshot, Enabled, TypeOK, JobTypeOK
<1>7. Current'
  BY DEF Current, OneRunAtATime, TypeOK, JobTypeOK
<1>8. Debt'
  <2>1. ~Owes(e)'
    BY <1>3 DEF Owes, Periodic, Enabled, StatusDeleted, StatusEnabled
  <2>2. \A x \in EventIds : x # e => (Owes(x)' => Owes(x))
    BY <1>1, <1>2 DEF Owes, Periodic, Enabled
  <2> QED  BY <1>1, <2>1, <2>2 DEF Debt, TypeOK
<1> QED  BY <1>4, <1>5, <1>6, <1>7, <1>8

(***************************************************************************)
(* A failed update leaves a debt for the event being advanced, and so does *)
(* a restart; each is counted.                                             *)
(***************************************************************************)
LEMMA UpdateFailsInv ==
  ASSUME IInv, NEW j \in Jobs, UpdateFails(j)
  PROVE  IInv'
<1> DEFINE e == current[j]
<1> USE DEF IInv, UpdateFails, AdvanceFails, EventHandled, Restrict, storeVars
<1>1. e \in EventIds /\ Advancing(e)
  BY DEF Current, Enabled, Periodic, TypeOK, StoreTypeOK, JobTypeOK, Advancing
<1>2. \A x \in EventIds : Advancing(x) <=> x = e
  BY <1>1 DEF Advancing, OneRunAtATime
<1>3. TypeOK'  BY <1>1 DEF TypeOK, StoreTypeOK, JobTypeOK
<1>4. OneRunAtATime'
  BY DEF OneRunAtATime, TypeOK, JobTypeOK
<1>5. Snapshot'
  BY DEF Snapshot, Enabled, TypeOK, JobTypeOK
<1>6. Current'
  BY DEF Current, OneRunAtATime, TypeOK, JobTypeOK
<1>7. Debt'
  <2>1. \A x \in EventIds : x # e => (Owes(x)' => Owes(x))
    BY <1>2 DEF Owes, Periodic, Enabled
  <2>2. repeats[e] + 1 <= restarts + failures'[e]
    BY <1>1 DEF Debt, Owes, TypeOK
  <2> QED  BY <1>1, <2>1, <2>2 DEF Debt, TypeOK
<1> QED  BY <1>3, <1>4, <1>5, <1>6, <1>7

LEMMA RestartInv ==
  ASSUME IInv, Restart
  PROVE  IInv'
<1> USE DEF IInv, Restart, JobsLost, storeVars, EmptyBatch
<1>1. TypeOK'  BY DEF TypeOK, StoreTypeOK, JobTypeOK
<1>2. OneRunAtATime'  BY DEF OneRunAtATime
<1>3. Snapshot'  BY DEF Snapshot
<1>4. Current'  BY DEF Current
<1>5. Debt'  BY DEF Debt, TypeOK
<1> QED  BY <1>1, <1>2, <1>3, <1>4, <1>5

LEMMA QuietInv ==
  ASSUME IInv, UNCHANGED <<events, jobVars, history>>, now' \in Nat,
         now <= now', UNCHANGED keyboards
  PROVE  IInv'
<1> USE DEF IInv, jobVars, history
<1>1. TypeOK'  BY DEF TypeOK, StoreTypeOK, JobTypeOK
<1>2. OneRunAtATime'  BY DEF OneRunAtATime
<1>3. Snapshot'
  <2> SUFFICES ASSUME NEW j \in Jobs, NEW e \in DOMAIN batch[j],
                      pc[j] \in {"loop", "advance"}
               PROVE  events[e].sendAt <= now'
    BY DEF Snapshot, Enabled
  <2>1. events[e].sendAt <= now /\ events[e].sendAt \in Nat /\ now \in Nat
    BY DEF Snapshot, Enabled, TypeOK, StoreTypeOK, Row
  <2> QED  BY <2>1
<1>4. Current'  BY DEF Current, Periodic, Enabled
<1>5. Debt'  BY DEF Debt, Owes, Periodic, Enabled, Advancing
<1> QED  BY <1>1, <1>2, <1>3, <1>4, <1>5

LEMMA StepInv == IInv /\ [Next]_vars => IInv'
<1> SUFFICES ASSUME IInv, [Next]_vars PROVE IInv'  OBVIOUS
<1>1. ASSUME NEW j \in Jobs, Quiet(j) PROVE IInv'
  BY <1>1, TickInv, ClaimInv, FetchDueInv, ReturnInv, AdvanceTimeInv,
     DeactivateInv DEF Quiet
<1>2. ASSUME NEW j \in Jobs, UpdateFails(j) PROVE IInv'
  BY <1>2, UpdateFailsInv
<1>3. ASSUME NEW j \in Jobs, NEW e \in EventIds, SendsPeriodic(j, e)
      PROVE  IInv'
  BY <1>3, SendsPeriodicInv
<1>4. ASSUME NEW j \in Jobs, NEW e \in EventIds, SendsOnce(j, e) PROVE IInv'
  BY <1>4, SendsOnceInv
<1>5. CASE Restart  BY <1>5, RestartInv
<1>6. CASE Passes
  BY <1>6, QuietInv DEF Passes, Clock, IInv, TypeOK, StoreTypeOK
<1>7. CASE UNCHANGED vars
  BY <1>7, QuietInv DEF vars, storeVars, IInv, TypeOK, StoreTypeOK
<1> QED  BY <1>1, <1>2, <1>3, <1>4, <1>5, <1>6, <1>7 DEF Next

LEMMA Invariance == Spec => []IInv
BY InitInv, StepInv, PTL DEF Spec

-----------------------------------------------------------------------------
(* Invariants *)

(***************************************************************************)
(* Type correctness of the job, the table and the observers, whatever      *)
(* fails and restarts.                                                     *)
(***************************************************************************)
THEOREM TypeCorrect == Spec => []TypeOK
BY Invariance, PTL DEF IInv

(***************************************************************************)
(* The variable finished of cron.go keeps the runs of the job apart, for   *)
(* any number of goroutines, as long as two ticks do not meet between the  *)
(* check and the assignment.                                               *)
(***************************************************************************)
THEOREM RunsDoNotOverlap == Spec => []OneRunAtATime
BY Invariance, PTL DEF IInv

(***************************************************************************)
(* Each repetition of a periodic reminder is paid for by a restart or by a *)
(* failed update: sending before storing costs no more than that.          *)
(***************************************************************************)
THEOREM RepeatsArePaidFor == Spec => []DuplicatesBounded
<1>1. IInv => DuplicatesBounded
  <2> SUFFICES ASSUME IInv, NEW e \in EventIds
               PROVE  repeats[e] <= restarts + failures[e]
    BY DEF DuplicatesBounded
  <2>1. /\ repeats[e] + (IF Owes(e) THEN 1 ELSE 0) <= restarts + failures[e]
        /\ repeats[e] \in Nat /\ failures[e] \in Nat /\ restarts \in Nat
    BY DEF IInv, Debt, TypeOK
  <2>2. CASE Owes(e)  BY <2>1, <2>2
  <2>3. CASE ~Owes(e)  BY <2>1, <2>3
  <2> QED  BY <2>2, <2>3
<1> QED  BY <1>1, Invariance, PTL

-----------------------------------------------------------------------------
(* What a step may never do *)

(***************************************************************************)
(* The rows change in two steps of the job only, and both concern the      *)
(* event being advanced, whose copy is its row.                            *)
(***************************************************************************)
LEMMA RowsChange ==
  ASSUME IInv, [Next]_vars, NEW e \in DOMAIN events, events'[e] # events[e]
  PROVE  /\ Periodic(e) /\ lastSent[e] = events[e].sendAt
         /\ \/ /\ events'[e].statusId = events[e].statusId
               /\ events'[e].sendAt = NextTime(events[e])
            \/ /\ events'[e].sendAt = events[e].sendAt
               /\ NextTime(events[e]) = NoTime
<1> USE DEF IInv
<1>1. PICK j \in Jobs : AdvanceTime(j) \/ Deactivate(j)
  BY DEF Next, Quiet, Tick, Claim, FetchDue, FetchFails, FinishJob,
         UpdateFails, AdvanceFails, SendsPeriodic, SendPeriodic, SendsOnce,
         SendOnce, Restart, Passes, Clock, vars, storeVars
<1>2. /\ current[j] \in DOMAIN batch[j]
      /\ batch[j][current[j]] = events[current[j]]
      /\ Periodic(current[j])
      /\ lastSent[current[j]] = events[current[j]].sendAt
      /\ events[current[j]] \in Row
  BY <1>1 DEF AdvanceTime, Deactivate, Current, Snapshot, Periodic, Enabled,
              TypeOK, StoreTypeOK
<1>3. CASE AdvanceTime(j)
  <2>1. e = current[j]  BY <1>3 DEF AdvanceTime, UpdateEvent
  <2>2. /\ events'[e].statusId = events[e].statusId
        /\ events'[e].sendAt = NextTime(events[e])
    BY <1>2, <1>3, <2>1 DEF AdvanceTime, UpdateEvent, SetColumns, Row
  <2> QED  BY <1>2, <2>1, <2>2
<1>4. CASE Deactivate(j)
  <2>1. e = current[j]  BY <1>4 DEF Deactivate, DeleteEvent
  <2>2. events'[e].sendAt = events[e].sendAt
    BY <1>2, <1>4, <2>1 DEF Deactivate, DeleteEvent, Row
  <2>3. NextTime(events[e]) = NoTime  BY <1>2, <1>4, <2>1 DEF Deactivate
  <2> QED  BY <1>2, <2>1, <2>2, <2>3
<1> QED  BY <1>1, <1>3, <1>4

(***************************************************************************)
(* No slot is skipped, however long the process was stopped.               *)
(***************************************************************************)
THEOREM SlotsAreNotSkipped == Spec => NoSkippedSlot
<1>1. IInv /\ [Next]_vars => [SlotAttempted]_vars
  BY RowsChange DEF SlotAttempted
<1> QED  BY <1>1, Invariance, PTL DEF Spec, NoSkippedSlot

(***************************************************************************)
(* The job ends an event only when its period yields no next time.         *)
(***************************************************************************)
THEOREM EndsAreJustified == Spec => DeactivatedOnlyWithoutNext
<1>1. IInv /\ [Next]_vars => [EndsOnlyWithoutNext]_vars
  <2> SUFFICES ASSUME IInv, [Next]_vars, NEW e \in DOMAIN events,
                      events'[e].statusId # events[e].statusId
               PROVE  /\ events[e].periodicity # NoPeriod
                      /\ lastSent[e] = events[e].sendAt
                      /\ NextTime(events[e]) = NoTime
    BY DEF EndsOnlyWithoutNext
  <2> QED  BY RowsChange DEF Periodic
<1> QED  BY <1>1, Invariance, PTL DEF Spec, DeactivatedOnlyWithoutNext

-----------------------------------------------------------------------------
(***************************************************************************)
(* The reminder job implements the lifecycle of the events: every step of  *)
(* Reminders is a step of EventLifecycle, or none, under the mapping       *)
(* stated there.                                                           *)
(***************************************************************************)

\* The rows that were there at the start are there for ever.
AllStored == DOMAIN events = EventIds

LEMMA StoredStep ==
  ASSUME IInv, AllStored, [Next]_vars
  PROVE  AllStored'
<1>1. CASE \E j \in Jobs : AdvanceTime(j)
  BY <1>1 DEF AllStored, AdvanceTime, UpdateEvent
<1>2. CASE \E j \in Jobs : Deactivate(j)
  BY <1>2 DEF AllStored, Deactivate, DeleteEvent
<1>3. CASE events' = events  BY <1>3 DEF AllStored
<1> QED
  BY <1>1, <1>2, <1>3
     DEF Next, Quiet, Tick, Claim, FetchDue, FetchFails, FinishJob,
         UpdateFails, AdvanceFails, SendsPeriodic, SendPeriodic, SendsOnce,
         SendOnce, Restart, Passes, Clock, vars, storeVars

LEMMA AlwaysStored == Spec => []AllStored
<1>1. Init => AllStored  BY DEF Init, AllStored
<1> QED  BY <1>1, StoredStep, Invariance, PTL DEF Spec

-----------------------------------------------------------------------------
(* The mapped variables *)

\* What is known of the mapped variables of an event.
LEMMA Mapped ==
  ASSUME IInv, AllStored, NEW e \in EventIds
  PROVE  /\ events[e] \in Row
         /\ Slots[e] = events[e].sendAt /\ events[e].sendAt \in Nat
         /\ NextSlots[e] = NextTime(events[e])
         /\ e \in InService <=> Enabled(e)
         /\ e \in InService \cap Repeating <=> Periodic(e)
         /\ Unpaid[e] = restarts + failures[e] - repeats[e]
         /\ NextSlots[e] = NoTime \/ Lifecycle!Ahead(NextSlots[e], Slots[e])
<1>1. events[e] \in Row /\ events[e].sendAt \in Nat
  BY DEF IInv, TypeOK, StoreTypeOK, AllStored, Row
<1>2. NextTime(events[e]) = NoTime
        \/ Lifecycle!Ahead(NextTime(events[e]), events[e].sendAt)
  BY <1>1, NextTimeLater DEF Lifecycle!Ahead
<1> QED
  BY <1>1, <1>2 DEF Slots, NextSlots, InService, Repeating, Periodic, Enabled, Unpaid

\* Rows that do not change map to variables that do not.
LEMMA RowsKept ==
  ASSUME events' = events
  PROVE  UNCHANGED <<InService, Repeating, Slots, NextSlots>>
BY DEF InService, Repeating, Slots, NextSlots, Enabled

LEMMA HistoryKept ==
  ASSUME UNCHANGED <<repeats, failures, restarts>>
  PROVE  UNCHANGED Unpaid
BY DEF Unpaid

LEMMA InitMaps ==
  ASSUME Init
  PROVE  Lifecycle!Init
<1>1. IInv  BY InitInv
<1>2. AllStored  BY DEF Init, AllStored
<1>3. now = 0 /\ lastSent = [e \in EventIds |-> NoTime]  BY DEF Init
<1>4. InService \subseteq EventIds /\ Repeating \subseteq EventIds
  BY DEF InService, Repeating
<1>5. Slots \in [EventIds -> Nat]
  <2>1. \A e \in EventIds : events[e].sendAt \in Nat  BY <1>1, <1>2, Mapped
  <2> QED  BY <2>1 DEF Slots
<1>6. \A e \in EventIds :
        NextSlots[e] = NoTime \/ Lifecycle!Ahead(NextSlots[e], Slots[e])
  BY <1>1, <1>2, Mapped
<1>7. Unpaid = [e \in EventIds |-> 0]  BY DEF Unpaid, Init
<1> QED  BY <1>3, <1>4, <1>5, <1>6, <1>7 DEF Lifecycle!Init

-----------------------------------------------------------------------------
(* The steps *)

(***************************************************************************)
(* A periodic reminder that is sent for a new slot reminds; sent for the   *)
(* same slot it repeats, and the debt says that a mishap is left for it.   *)
(***************************************************************************)
LEMMA PeriodicMaps ==
  ASSUME IInv, AllStored, NEW j \in Jobs, NEW e \in EventIds, SendsPeriodic(j, e)
  PROVE  Lifecycle!Remind(e) \/ Lifecycle!Repeat(e)
<1> USE DEF SendsPeriodic, SendPeriodic, storeVars
<1>1. /\ Periodic(e) /\ Enabled(e)
      /\ batch[j][e] = events[e] /\ events[e].sendAt <= now
  BY DEF IInv, Snapshot, Periodic
<1>2. UNCHANGED <<now, InService, Repeating, Slots, NextSlots>>  BY RowsKept
<1>3. CASE lastSent[e] # events[e].sendAt
  <2>1. UNCHANGED Unpaid  BY <1>1, <1>3, HistoryKept
  <2>2. lastSent' = [lastSent EXCEPT ![e] = Slots[e]]  BY <1>1, Mapped
  <2> QED  BY <1>1, <1>2, <1>3, <2>1, <2>2, Mapped DEF Lifecycle!Remind
<1>4. CASE lastSent[e] = events[e].sendAt
  <2>1. ~Advancing(e)  BY DEF Advancing, IInv, OneRunAtATime
  <2>2. repeats[e] + 1 <= restarts + failures[e]
    BY <1>1, <1>4, <2>1 DEF IInv, Debt, Owes
  <2>3. /\ repeats \in [EventIds -> Nat] /\ failures \in [EventIds -> Nat]
        /\ restarts \in Nat /\ lastSent \in [EventIds -> Nat \cup {NoTime}]
    BY DEF IInv, TypeOK
  <2>4. Unpaid[e] > 0  BY <2>2, <2>3 DEF Unpaid
  <2>5. repeats' = [repeats EXCEPT ![e] = @ + 1]  BY <1>1, <1>4
  <2>6. Unpaid' = [Unpaid EXCEPT ![e] = @ - 1]
    <3>1. \A x \in EventIds :
            restarts' + failures'[x] - repeats'[x]
              = IF x = e THEN (restarts + failures[x] - repeats[x]) - 1
                         ELSE restarts + failures[x] - repeats[x]
      BY <2>3, <2>5
    <3> QED  BY <3>1 DEF Unpaid
  <2>7. lastSent' = lastSent  BY <1>1, <1>4, <2>3
  <2> QED  BY <1>1, <1>2, <1>4, <2>4, <2>6, <2>7, Mapped DEF Lifecycle!Repeat
<1> QED  BY <1>3, <1>4

\* A reminder without a period reminds the first time, and then changes nothing.
LEMMA OnceMaps ==
  ASSUME IInv, AllStored, NEW j \in Jobs, NEW e \in EventIds, SendsOnce(j, e)
  PROVE  Lifecycle!Remind(e) \/ UNCHANGED Lifecycle!vars
<1> USE DEF SendsOnce, SendOnce
<1>1. /\ Enabled(e) /\ batch[j][e] = events[e] /\ events[e].sendAt <= now
  BY DEF IInv, Snapshot
<1>2. UNCHANGED <<now, InService, Repeating, Slots, NextSlots, Unpaid>>
  BY RowsKept, HistoryKept
<1>3. lastSent' = [lastSent EXCEPT ![e] = Slots[e]]  BY <1>1, Mapped
<1>4. CASE lastSent[e] # events[e].sendAt
  BY <1>1, <1>2, <1>3, <1>4, Mapped DEF Lifecycle!Remind
<1>5. CASE lastSent[e] = events[e].sendAt
  <2>1. lastSent' = lastSent  BY <1>1, <1>5 DEF IInv, TypeOK
  <2> QED  BY <1>2, <2>1 DEF Lifecycle!vars
<1> QED  BY <1>4, <1>5

\* Also after a step.
NextsAhead ==
  \A e \in EventIds :
    NextSlots[e] = NoTime \/ Lifecycle!Ahead(NextSlots[e], Slots[e])

LEMMA AlwaysAhead == IInv /\ AllStored => NextsAhead
BY Mapped DEF NextsAhead

LEMMA AdvanceMaps ==
  ASSUME IInv, AllStored, NEW j \in Jobs, AdvanceTime(j), UNCHANGED history
  PROVE  \E e \in EventIds : Lifecycle!MoveOn(e)
<1> USE DEF AdvanceTime, history
<1>0. PICK e \in EventIds : e = current[j]
  BY DEF IInv, Current, Snapshot, TypeOK, JobTypeOK
<1> DEFINE next == NextTime(batch[j][e])
<1>1. /\ batch[j][e] = events[e] /\ e \in DOMAIN events /\ events[e] \in Row
      /\ Periodic(e) /\ lastSent[e] = events[e].sendAt
  BY <1>0 DEF IInv, Current, Snapshot, Periodic, Enabled, TypeOK, StoreTypeOK
<1>2. next # NoTime /\ NextSlots[e] = next
  BY <1>0, <1>1, Mapped
<1>3. events' = [events EXCEPT ![e] = [events[e] EXCEPT !.sendAt = next]]
  BY <1>0, <1>1 DEF UpdateEvent, SetColumns, Row
<1> HIDE DEF next
<1>3a. NextsAhead'
  <2>1. [Next]_vars  BY DEF Next, Quiet
  <2>2. IInv' /\ AllStored'  BY <2>1, StepInv, StoredStep
  <2> QED  BY <2>2, AlwaysAhead, PTL
<1>4. \A x \in EventIds :
        events'[x] = IF x = e THEN [events[e] EXCEPT !.sendAt = next] ELSE events[x]
  BY <1>1, <1>3 DEF AllStored
<1>5. \A x \in EventIds :
        /\ events'[x].sendAt = IF x = e THEN next ELSE events[x].sendAt
        /\ events'[x].statusId = events[x].statusId
        /\ events'[x].periodicity = events[x].periodicity
  BY <1>4, Mapped DEF Row
<1>6. Slots' = [Slots EXCEPT ![e] = NextSlots[e]]  BY <1>2, <1>5 DEF Slots
<1>7. UNCHANGED <<InService, Repeating>>
  <2>1. DOMAIN events' = DOMAIN events  BY <1>3
  <2> QED  BY <1>5, <2>1 DEF InService, Repeating, Enabled, AllStored
<1>8. \A x \in EventIds \ {e} : NextSlots'[x] = NextSlots[x]
  BY <1>4 DEF NextSlots
<1>9. NextSlots'[e] = NoTime \/ Lifecycle!Ahead(NextSlots'[e], Slots'[e])
  BY <1>3a DEF NextsAhead
<1>10. UNCHANGED <<now, lastSent, Unpaid>>  BY HistoryKept
<1> QED
  BY <1>1, <1>2, <1>6, <1>7, <1>8, <1>9, <1>10, Mapped DEF Lifecycle!MoveOn

LEMMA DeactivateMaps ==
  ASSUME IInv, AllStored, NEW j \in Jobs, Deactivate(j), UNCHANGED history
  PROVE  \E e \in EventIds : Lifecycle!End(e)
<1> DEFINE e == current[j]
<1> USE DEF Deactivate, history
<1>1. /\ e \in EventIds /\ batch[j][e] = events[e]
      /\ Periodic(e) /\ lastSent[e] = events[e].sendAt
  BY DEF IInv, Current, Snapshot, Periodic, Enabled, TypeOK, JobTypeOK, AllStored
<1>2. AllStored'
  <2>1. [Next]_vars  BY DEF Next, Quiet
  <2> QED  BY <2>1, StoredStep
<1>3. events' = [events EXCEPT ![e].statusId = StatusDeleted]  BY DEF DeleteEvent
<1>4. NextSlots[e] = NoTime  BY <1>1, Mapped
<1> HIDE DEF e
<1>5. \A x \in EventIds :
        /\ events'[x].sendAt = events[x].sendAt
        /\ events'[x].periodicity = events[x].periodicity
        /\ events'[x].weekdays = events[x].weekdays
        /\ events'[x].statusId = IF x = e THEN StatusDeleted ELSE events[x].statusId
  BY <1>1, <1>3, Mapped DEF Row, AllStored
<1>6. UNCHANGED <<Slots, NextSlots, Repeating>>
  BY <1>2, <1>5 DEF Slots, NextSlots, NextTime, Repeating, AllStored
<1>7. InService' = InService \ {e}
  BY <1>2, <1>5 DEF InService, Enabled, AllStored, StatusDeleted, StatusEnabled
<1>8. UNCHANGED <<now, lastSent, Unpaid>>  BY HistoryKept
<1> QED  BY <1>1, <1>4, <1>6, <1>7, <1>8, Mapped DEF Lifecycle!End

LEMMA FailureMaps ==
  ASSUME IInv, AllStored, NEW j \in Jobs, UpdateFails(j)
  PROVE  \E e \in EventIds : Lifecycle!Mishap({e})
<1> DEFINE e == current[j]
<1>1. e \in EventIds
  BY DEF UpdateFails, AdvanceFails, IInv, Current, TypeOK, JobTypeOK
<1>2. UNCHANGED <<now, lastSent, InService, Repeating, Slots, NextSlots>>
  BY RowsKept DEF UpdateFails, AdvanceFails, storeVars
<1>3. Unpaid' = [x \in EventIds |-> IF x \in {e} THEN Unpaid[x] + 1 ELSE Unpaid[x]]
  <2>1. \A x \in EventIds :
          restarts' + failures'[x] - repeats'[x]
            = IF x = e THEN (restarts + failures[x] - repeats[x]) + 1
                       ELSE restarts + failures[x] - repeats[x]
    BY DEF UpdateFails, IInv, TypeOK
  <2> QED  BY <2>1 DEF Unpaid
<1> QED  BY <1>1, <1>2, <1>3 DEF Lifecycle!Mishap

LEMMA RestartMaps ==
  ASSUME IInv, AllStored, Restart
  PROVE  Lifecycle!Mishap(EventIds)
<1>1. UNCHANGED <<now, lastSent, InService, Repeating, Slots, NextSlots>>
  BY RowsKept DEF Restart, storeVars
<1>2. Unpaid' = [x \in EventIds |-> IF x \in EventIds THEN Unpaid[x] + 1 ELSE Unpaid[x]]
  <2>1. \A x \in EventIds :
          restarts' + failures'[x] - repeats'[x]
            = (restarts + failures[x] - repeats[x]) + 1
    BY DEF Restart, IInv, TypeOK
  <2> QED  BY <2>1 DEF Unpaid
<1> QED  BY <1>1, <1>2 DEF Lifecycle!Mishap

-----------------------------------------------------------------------------

LEMMA StepMaps ==
  ASSUME IInv, AllStored, [Next]_vars
  PROVE  [Lifecycle!Next]_(Lifecycle!vars)
<1>1. ASSUME NEW j \in Jobs, Quiet(j)
      PROVE  Lifecycle!Next \/ UNCHANGED Lifecycle!vars
  <2>1. CASE AdvanceTime(j)
    BY <1>1, <2>1, AdvanceMaps DEF Quiet, Lifecycle!Next
  <2>2. CASE Deactivate(j)
    BY <1>1, <2>2, DeactivateMaps DEF Quiet, Lifecycle!Next
  <2>3. CASE Tick(j) \/ Claim(j) \/ FetchDue(j) \/ FetchFails(j) \/ FinishJob(j)
    <3>1. UNCHANGED <<storeVars, history>>
      BY <1>1, <2>3 DEF Quiet, Tick, Claim, FetchDue, FetchFails, FinishJob
    <3> QED
      BY <3>1, RowsKept, HistoryKept DEF storeVars, history, Lifecycle!vars
  <2> QED  BY <1>1, <2>1, <2>2, <2>3 DEF Quiet
<1>2. ASSUME NEW j \in Jobs, UpdateFails(j) PROVE Lifecycle!Next
  BY <1>2, FailureMaps DEF Lifecycle!Next
<1>3. ASSUME NEW j \in Jobs, NEW e \in EventIds, SendsPeriodic(j, e)
      PROVE  Lifecycle!Next
  BY <1>3, PeriodicMaps DEF Lifecycle!Next
<1>4. ASSUME NEW j \in Jobs, NEW e \in EventIds, SendsOnce(j, e)
      PROVE  Lifecycle!Next \/ UNCHANGED Lifecycle!vars
  BY <1>4, OnceMaps DEF Lifecycle!Next
<1>5. CASE Restart  BY <1>5, RestartMaps DEF Lifecycle!Next
<1>6. CASE Passes
  <2>1. UNCHANGED <<lastSent, InService, Repeating, Slots, NextSlots, Unpaid>>
    BY <1>6, RowsKept, HistoryKept DEF Passes, Clock, history
  <2> QED  BY <1>6, <2>1 DEF Passes, Clock, Lifecycle!Tick, Lifecycle!Next
<1>7. CASE UNCHANGED vars
  BY <1>7, RowsKept, HistoryKept DEF vars, storeVars, history, Lifecycle!vars
<1> QED  BY <1>1, <1>2, <1>3, <1>4, <1>5, <1>6, <1>7 DEF Next

(***************************************************************************)
(* The job implements the lifecycle, for any number of events and          *)
(* goroutines: whatever fails and restarts, no reminder is early, none is  *)
(* repeated without a mishap to charge it to, and no event moves or ends   *)
(* before it was reminded of (processEvent).                               *)
(***************************************************************************)
THEOREM JobImplementsLifecycle == Spec => ImplementsLifecycle
<1>1. IInv /\ AllStored /\ [Next]_vars => [Lifecycle!Next]_(Lifecycle!vars)
  BY StepMaps
<1> QED
  BY <1>1, InitMaps, Invariance, AlwaysStored, PTL
     DEF Spec, ImplementsLifecycle, Lifecycle!Spec
=============================================================================
