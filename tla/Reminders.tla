----------------------------- MODULE Reminders -----------------------------
(***************************************************************************)
(* The reminder job on a table that nobody else changes: which reminders   *)
(* are attempted, how often, and when the date of an event moves, across   *)
(* failing statements and restarts of the process.  The variables below    *)
(* the job's own only observe it.                                          *)
(***************************************************************************)
EXTENDS ReminderJob

CONSTANTS
  SavedRows,    \* the rows that may be in the table when the process starts
  MaxRestarts,  \* bound on the restarts of the process
  MaxFailures   \* bound on the failing updates of each event

ASSUME SavedRowsAssumption == SavedRows \subseteq Row

VARIABLES
  lastSent,  \* for each event, the slot of the last reminder attempted
  repeats,   \* how often a periodic reminder was attempted again for its slot
  failures,  \* how often advancing the event failed
  restarts   \* how often the process was restarted

history == <<lastSent, repeats, failures, restarts>>
vars == <<storeVars, jobVars, history>>

TypeOK ==
  /\ StoreTypeOK
  /\ JobTypeOK
  /\ lastSent \in [EventIds -> Nat \cup {NoTime}]
  /\ repeats \in [EventIds -> Nat]
  /\ failures \in [EventIds -> Nat]
  /\ restarts \in Nat

Init ==
  /\ events \in [EventIds -> SavedRows]
  /\ now = 0
  /\ keyboards = [e \in EventIds |-> {}]
  /\ JobInit
  /\ lastSent = [e \in EventIds |-> NoTime]
  /\ repeats = [e \in EventIds |-> 0]
  /\ failures = [e \in EventIds |-> 0]
  /\ restarts = 0

Quiet(j) ==
  /\ \/ Tick(j)
     \/ Claim(j)
     \/ FetchDue(j)
     \/ FetchFails(j)
     \/ FinishJob(j)
     \/ AdvanceTime(j)
     \/ Deactivate(j)
  /\ UNCHANGED history

SendsPeriodic(j, e) ==
  /\ SendPeriodic(j, e)
  /\ lastSent' = [lastSent EXCEPT ![e] = batch[j][e].sendAt]
  /\ repeats' = IF lastSent[e] = batch[j][e].sendAt
                THEN [repeats EXCEPT ![e] = @ + 1] ELSE repeats
  /\ UNCHANGED <<failures, restarts>>

SendsOnce(j, e) ==
  /\ SendOnce(j, e)
  /\ lastSent' = [lastSent EXCEPT ![e] = batch[j][e].sendAt]
  /\ UNCHANGED <<repeats, failures, restarts>>

UpdateFails(j) ==
  /\ AdvanceFails(j)
  /\ failures[current[j]] < MaxFailures
  /\ failures' = [failures EXCEPT ![current[j]] = @ + 1]
  /\ UNCHANGED <<lastSent, repeats, restarts>>

Restart ==
  /\ restarts < MaxRestarts
  /\ JobsLost
  /\ restarts' = restarts + 1
  /\ UNCHANGED <<storeVars, lastSent, repeats, failures>>

Passes == Clock /\ UNCHANGED <<jobVars, history>>

Next ==
  \/ \E j \in Jobs : Quiet(j) \/ UpdateFails(j)
  \/ \E j \in Jobs, e \in EventIds : SendsPeriodic(j, e) \/ SendsOnce(j, e)
  \/ Restart
  \/ Passes

(***************************************************************************)
(* Fairness.  cron ticks for ever, and the goroutine it started goes on    *)
(* with its next statement; the reading of the due events does not fail    *)
(* every time.  A query or a send that never returns is excluded here: see *)
(* the README.                                                             *)
(***************************************************************************)
JobStep(j) ==
  \/ Quiet(j)
  \/ UpdateFails(j)
  \/ \E e \in EventIds : SendsPeriodic(j, e) \/ SendsOnce(j, e)

Fairness ==
  /\ WF_vars(\E j \in Jobs : JobStep(j))
  /\ SF_vars(\E j \in Jobs : FetchDue(j) /\ UNCHANGED history)

Spec == Init /\ [][Next]_vars
FairSpec == Spec /\ Fairness

-----------------------------------------------------------------------------
(* Safety *)

\* A periodic reminder is sent again for a slot it was already sent for only
\* after a restart, or a failed update, between the message and the new date
\* (processEvent sends first and stores afterwards).
DuplicatesBounded == \A e \in EventIds : repeats[e] <= restarts + failures[e]

Enabled(e) == e \in DOMAIN events /\ events[e].statusId = StatusEnabled
Periodic(e) == Enabled(e) /\ events[e].periodicity # NoPeriod

Advancing(e) == \E j \in Jobs : pc[j] = "advance" /\ current[j] = e

\* The job's next run would send this event for its slot once more.
Owes(e) == Periodic(e) /\ lastSent[e] = events[e].sendAt /\ ~Advancing(e)

\* Between two runs and during each of them the copies in the batch are the
\* rows of the table, and due.
Snapshot ==
  \A j \in Jobs : \A e \in DOMAIN batch[j] :
    /\ pc[j] \in {"loop", "advance"} => /\ Enabled(e)
                                        /\ batch[j][e] = events[e]
                                        /\ events[e].sendAt <= now
    /\ pc[j] \in {"idle", "claim", "fetch"} => FALSE

\* What is being advanced is the periodic event that was just sent.
Current ==
  \A j \in Jobs : pc[j] = "advance" =>
    /\ current[j] \in DOMAIN batch[j]
    /\ Periodic(current[j])
    /\ lastSent[current[j]] = events[current[j]].sendAt

Debt ==
  \A e \in EventIds :
    repeats[e] + (IF Owes(e) THEN 1 ELSE 0) <= restarts + failures[e]

\* The inductive invariant.
IInv == TypeOK /\ OneRunAtATime /\ Snapshot /\ Current /\ Debt

-----------------------------------------------------------------------------
(* The lifecycle of the events *)

InService == {e \in EventIds : Enabled(e)}
Repeating == {e \in EventIds : e \in DOMAIN events /\ events[e].periodicity # NoPeriod}
Slots     == [e \in EventIds |-> events[e].sendAt]
NextSlots == [e \in EventIds |-> NextTime(events[e])]
Unpaid    == [e \in EventIds |-> restarts + failures[e] - repeats[e]]

Lifecycle == INSTANCE EventLifecycle WITH
  Events <- EventIds, Never <- NoTime, clock <- now, active <- InService,
  repeating <- Repeating, slot <- Slots, follows <- NextSlots,
  reminded <- lastSent, mishaps <- Unpaid

\* The job, with its batches, its failing statements and the restarts of the
\* process, implements the lifecycle: no reminder is early or for an event out
\* of service, none is repeated free of charge, and no event moves or ends
\* before it was reminded of.
ImplementsLifecycle == Lifecycle!Spec

-----------------------------------------------------------------------------
(* What a step may never do *)

\* The date of an event moves on only from a slot for which its reminder was
\* attempted, and only to the slot that follows it: after a long stop the missed
\* slots are caught up one by one.
SlotAttempted ==
  \A e \in DOMAIN events :
    events'[e].sendAt # events[e].sendAt =>
      lastSent[e] = events[e].sendAt /\ events'[e].sendAt = NextTime(events[e])
NoSkippedSlot == [][SlotAttempted]_vars

\* The job takes an event out of service only if it is periodic, its reminder
\* for the current slot was attempted, and it has no next time; it never ends
\* an event without a period, which its owner has to confirm.  No handler changes
\* the event meanwhile in this module.
EndsOnlyWithoutNext ==
  \A e \in DOMAIN events :
    events'[e].statusId # events[e].statusId =>
      /\ events[e].periodicity # NoPeriod
      /\ lastSent[e] = events[e].sendAt
      /\ NextTime(events[e]) = NoTime
DeactivatedOnlyWithoutNext == [][EndsOnlyWithoutNext]_vars

-----------------------------------------------------------------------------
(* Liveness *)

\* The reminder of an enabled event whose time has come is attempted, although
\* runs are skipped while one is going on, the reading may fail now and then
\* and the process may be restarted.
DueIsReminded ==
  \A e \in EventIds :
    (Enabled(e) /\ events[e].sendAt <= now) ~>
      (e \in DOMAIN events /\ lastSent[e] = events[e].sendAt)

\* An event with a period is brought up to date: it does not stay in the past,
\* however far behind it was.  An update of the date that failed for ever would keep
\* it there: MaxFailures, which bounds the failures of each event, stands for the
\* assumption that it succeeds in the end.
CatchesUp ==
  \A e \in EventIds :
    []<>(Periodic(e) => events[e].sendAt > now)
=============================================================================
