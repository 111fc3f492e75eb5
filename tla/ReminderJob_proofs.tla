------------------------- MODULE ReminderJob_proofs -------------------------
(***************************************************************************)
(* Facts about the reminder job that hold whatever else changes the rows:  *)
(* used where it runs alone (Reminders) and beside the handlers            *)
(* (ReminderBot).                                                          *)
(***************************************************************************)
EXTENDS ReminderJob, TLAPS

(***************************************************************************)
(* The smallest of a non-empty set of loop counters exists: the loop of    *)
(* calculateNextWeekday returns at its first hit.                          *)
(***************************************************************************)
LEMMA FirstHit ==
  ASSUME NEW S \in SUBSET (1 .. 7), S # {}
  PROVE  \E i \in S : \A k \in S : i <= k
<1>1. CASE 1 \in S  BY <1>1
<1>2. CASE 1 \notin S /\ 2 \in S  BY <1>2
<1>3. CASE 1 \notin S /\ 2 \notin S /\ 3 \in S  BY <1>3
<1>4. CASE {1, 2, 3} \cap S = {} /\ 4 \in S  BY <1>4
<1>5. CASE {1, 2, 3, 4} \cap S = {} /\ 5 \in S  BY <1>5
<1>6. CASE {1, 2, 3, 4, 5} \cap S = {} /\ 6 \in S  BY <1>6
<1>7. CASE {1, 2, 3, 4, 5, 6} \cap S = {}
  <2>1. \A k \in S : k = 7  BY <1>7
  <2>2. PICK i \in S : TRUE  OBVIOUS
  <2>3. \A k \in S : i <= k  BY <2>1
  <2> QED  BY <2>3
<1> QED  BY <1>1, <1>2, <1>3, <1>4, <1>5, <1>6, <1>7

(***************************************************************************)
(* The next time of a row, when there is one, is later than its date: a    *)
(* slot that was left behind never comes back (CalculateNextTime).         *)
(***************************************************************************)
LEMMA NextTimeLater ==
  ASSUME NEW row \in Row, NextTime(row) # NoTime
  PROVE  NextTime(row) \in Nat /\ NextTime(row) > row.sendAt
<1> DEFINE t == row.sendAt  hits == LoopHits(t, row.weekdays)
<1>1. t \in Nat  BY DEF Row
<1>2. CASE row.periodicity \in {"hour", "day", "week"}
  BY <1>1, <1>2, ScheduleAssumption DEF NextTime, CalculateNextTime
<1>3. CASE row.periodicity = "weekdays"
  <2>1. NextTime(row) = calculateNextWeekday(t, row.weekdays)
    BY <1>3 DEF NextTime, CalculateNextTime
  <2>2. hits # {} /\ hits \in SUBSET (1 .. 7)
    BY <2>1 DEF calculateNextWeekday, LoopHits
  <2>3. PICK i \in 1 .. 7 : NextTime(row) = t + Day * i
    <3> DEFINE i == CHOOSE i \in hits : \A k \in hits : i <= k
    <3> HIDE DEF hits
    <3>1. i \in hits  BY <2>2, FirstHit
    <3>2. calculateNextWeekday(t, row.weekdays) = t + Day * i
      BY <2>2 DEF calculateNextWeekday, hits
    <3> QED  BY <2>1, <2>2, <3>1, <3>2
  <2>4. i = 1 \/ i = 2 \/ i = 3 \/ i = 4 \/ i = 5 \/ i = 6 \/ i = 7
    OBVIOUS
  <2>5. Day \in Nat /\ Day > 0  BY ScheduleAssumption
  <2>6. Day * i \in Nat /\ Day * i > 0
    BY <2>4, <2>5
  <2> QED  BY <1>1, <2>3, <2>6
<1>4. CASE row.periodicity = NoPeriod
  BY <1>4 DEF NextTime, CalculateNextTime, NoPeriod
<1> QED  BY <1>2, <1>3, <1>4 DEF Row, Periodicities, Intervals

-----------------------------------------------------------------------------
(* The steps of the job keep the rows well formed and JobInv true *)

LEMMA JobInvInit == JobInit => JobInv
BY DEF JobInit, JobInv, JobTypeOK, OneRunAtATime, Busy, EmptyBatch

LEMMA JobInvSame == JobInv /\ UNCHANGED jobVars => JobInv'
BY DEF jobVars, JobInv, JobTypeOK, OneRunAtATime, Busy

LEMMA JobInvLost == JobsLost => JobInv'
BY DEF JobsLost, JobInv, JobTypeOK, OneRunAtATime, Busy, EmptyBatch

\* The copies are rows.
LEMMA FetchedRows ==
  ASSUME StoreTypeOK
  PROVE  /\ DOMAIN EventsToSend \subseteq EventIds
         /\ DOMAIN EventsToSend \subseteq DOMAIN events
         /\ EventsToSend \in [DOMAIN EventsToSend -> Row]
         /\ \A e \in DOMAIN EventsToSend : /\ events[e].statusId = StatusEnabled
                                           /\ EventsToSend[e] = events[e]
BY DEF EventsToSend, StoreTypeOK

LEMMA StartsInv ==
  ASSUME JobInv, NEW j \in Jobs, Tick(j) \/ Claim(j)
  PROVE  JobInv'
<1> USE DEF JobInv, Tick, Claim
<1>1. JobTypeOK'  BY DEF JobTypeOK
<1>2. OneRunAtATime'  BY DEF OneRunAtATime, TicksApart, JobTypeOK
<1>3. Busy'  BY DEF Busy, JobTypeOK
<1> QED  BY <1>1, <1>2, <1>3

LEMMA ReadsInv ==
  ASSUME StoreTypeOK, JobInv, NEW j \in Jobs,
         FetchDue(j) \/ FetchFails(j) \/ FinishJob(j)
  PROVE  JobInv'
<1> USE DEF JobInv, FetchDue, FetchFails, FinishJob, JobReturns
<1> HIDE DEF EventsToSend
<1>1. JobTypeOK'  BY FetchedRows DEF JobTypeOK
<1>2. OneRunAtATime'  BY DEF OneRunAtATime, JobTypeOK
<1>3. Busy'  BY DEF Busy, JobTypeOK
<1> QED  BY <1>1, <1>2, <1>3

LEMMA SendPeriodicInv ==
  ASSUME JobInv, NEW j \in Jobs, NEW e \in EventIds, SendPeriodic(j, e)
  PROVE  JobInv'
<1> USE DEF JobInv, SendPeriodic
<1>1. JobTypeOK'  BY DEF JobTypeOK
<1>2. OneRunAtATime'  BY DEF OneRunAtATime, JobTypeOK
<1>3. Busy'  BY DEF Busy, JobTypeOK
<1> QED  BY <1>1, <1>2, <1>3

LEMMA HandledInv ==
  ASSUME JobInv, NEW j \in Jobs, NEW e, pc[j] \in {"loop", "advance"},
         EventHandled(j, e)
  PROVE  JobInv'
<1> USE DEF JobInv, EventHandled, Restrict
<1>1. JobTypeOK'  BY DEF JobTypeOK
<1>2. OneRunAtATime'  BY DEF OneRunAtATime, JobTypeOK
<1>3. Busy'
  <2> SUFFICES ASSUME NEW k \in Jobs
               PROVE  /\ pc'[k] \in {"idle", "claim", "fetch"} => DOMAIN batch'[k] = {}
                      /\ pc'[k] = "advance" => current'[k] \in DOMAIN batch'[k]
    BY DEF Busy
  <2>1. CASE k = j  BY <2>1 DEF JobTypeOK
  <2>2. CASE k # j  BY <2>2 DEF Busy, JobTypeOK
  <2> QED  BY <2>1, <2>2
<1> QED  BY <1>1, <1>2, <1>3

(***************************************************************************)
(* What advancing an event writes: a later date into a row of any status,  *)
(* or the deleted status.                                                  *)
(***************************************************************************)
LEMMA AdvanceRows ==
  ASSUME StoreTypeOK, JobInv, NEW j \in Jobs, AdvanceTime(j) \/ Deactivate(j)
  PROVE  /\ StoreTypeOK'
         /\ JobInv'
         /\ DOMAIN events' = DOMAIN events
         /\ \A x \in DOMAIN events :
              events'[x].statusId # events[x].statusId =>
                events'[x].statusId = StatusDeleted
<1>1. PICK e \in EventIds : e = current[j] /\ e \in DOMAIN batch[j]
                            /\ e \in DOMAIN events /\ batch[j][e] \in Row
  BY DEF AdvanceTime, Deactivate, UpdateEvent, DeleteEvent, JobInv, Busy, JobTypeOK
<1>2. JobInv'
  BY <1>1, HandledInv DEF AdvanceTime, Deactivate
<1>3. CASE AdvanceTime(j)
  <2> DEFINE next == NextTime(batch[j][e])
  <2>1. next \in Nat  BY <1>1, <1>3, NextTimeLater DEF AdvanceTime
  <2>2. events' = [events EXCEPT ![e] =
                     SetColumns(@, [batch[j][e] EXCEPT !.sendAt = next], {"sendAt"})]
    BY <1>1, <1>3 DEF AdvanceTime, UpdateEvent
  <2> HIDE DEF next
  <2>3. SetColumns(events[e], [batch[j][e] EXCEPT !.sendAt = next], {"sendAt"})
          = [events[e] EXCEPT !.sendAt = next]
    BY <1>1 DEF SetColumns, StoreTypeOK, Row
  <2>4. [events[e] EXCEPT !.sendAt = next] \in Row
    BY <1>1, <2>1 DEF StoreTypeOK, Row
  <2>5. StoreTypeOK'
    BY <1>1, <1>3, <2>2, <2>3, <2>4 DEF StoreTypeOK, AdvanceTime
  <2>6. \A x \in DOMAIN events : events'[x].statusId = events[x].statusId
    BY <1>1, <2>2, <2>3 DEF StoreTypeOK, Row
  <2> QED  BY <1>2, <2>2, <2>5, <2>6
<1>4. CASE Deactivate(j)
  <2>1. events' = [events EXCEPT ![e].statusId = StatusDeleted]
    BY <1>1, <1>4 DEF Deactivate, DeleteEvent
  <2>2. [events[e] EXCEPT !.statusId = StatusDeleted] \in Row
    BY <1>1 DEF StoreTypeOK, Row
  <2>3. StoreTypeOK'
    BY <1>1, <1>4, <2>1, <2>2 DEF StoreTypeOK, Deactivate
  <2>4. \A x \in DOMAIN events : x # e => events'[x] = events[x]
    BY <2>1
  <2>5. events'[e].statusId = StatusDeleted
    BY <1>1, <2>1 DEF StoreTypeOK, Row
  <2> QED  BY <1>2, <2>1, <2>3, <2>4, <2>5
<1> QED  BY <1>3, <1>4
=============================================================================
