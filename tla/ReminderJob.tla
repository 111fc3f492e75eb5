---------------------------- MODULE ReminderJob ----------------------------
(***************************************************************************)
(* The cron job "process-reminders" and the reminder manager it runs.      *)
(*                                                                         *)
(* Every minute robfig/cron starts the job in a goroutine of its own; an   *)
(* element of Jobs is one such goroutine.  The job looks at the package    *)
(* variable finished, reads the due events once, and walks through the     *)
(* copies it got: a periodic event is sent and then moved to its next      *)
(* time, an event without a period is sent with a keyboard and stays due.  *)
(*                                                                         *)
(* finished is a plain bool shared without synchronisation.  The build     *)
(* keeps its stores and loads in program order around the call, and the    *)
(* ticks are a minute apart, so that a load returns the last value stored; *)
(* what the design leans on is that no tick falls between the check and    *)
(* the assignment of another goroutine (TicksApart).                       *)
(***************************************************************************)
EXTENDS EventStore, Schedule, Functions

CONSTANT Jobs  \* goroutines started by the scheduler

VARIABLES
  finished,  \* the package variable of cron.go
  pc,        \* where each goroutine is
  batch,     \* the rows it read and has still to process, by id
  current    \* the event it has sent and not yet advanced, or NoEvent

jobVars == <<finished, pc, batch, current>>

NoEvent == 0
EmptyBatch == [e \in {} |-> e]

JobTypeOK ==
  /\ finished \in BOOLEAN
  /\ pc \in [Jobs -> {"idle", "claim", "fetch", "loop", "advance"}]
  /\ DOMAIN batch = Jobs
  /\ \A j \in Jobs : /\ DOMAIN batch[j] \subseteq EventIds
                     /\ batch[j] \in [DOMAIN batch[j] -> Row]
  /\ current \in [Jobs -> EventIds \cup {NoEvent}]

JobInit ==
  /\ finished = TRUE
  /\ pc = [j \in Jobs |-> "idle"]
  /\ batch = [j \in Jobs |-> EmptyBatch]
  /\ current = [j \in Jobs |-> NoEvent]

-----------------------------------------------------------------------------
(* The function registered as "process-reminders" *)

TicksApart == \A j \in Jobs : pc[j] # "claim"

\* Faulty: the job does not look at finished.
TickAnyway(j) ==
  /\ pc[j] = "idle"
  /\ TicksApart
  /\ pc' = [pc EXCEPT ![j] = "claim"]
  /\ UNCHANGED <<finished, batch, current, storeVars>>

Tick(j) ==
  /\ pc[j] = "idle"
  /\ TicksApart
  /\ finished
  /\ pc' = [pc EXCEPT ![j] = "claim"]
  /\ UNCHANGED <<finished, batch, current, storeVars>>

Claim(j) ==
  /\ pc[j] = "claim"
  /\ finished' = FALSE
  /\ pc' = [pc EXCEPT ![j] = "fetch"]
  /\ UNCHANGED <<batch, current, storeVars>>

\* ProcessReminders has returned, with or without an error.
JobReturns(j) ==
  /\ finished' = TRUE
  /\ pc' = [pc EXCEPT ![j] = "idle"]

-----------------------------------------------------------------------------
(* ProcessReminders *)

FetchDue(j) ==
  /\ pc[j] = "fetch"
  /\ batch' = [batch EXCEPT ![j] = EventsToSend]
  /\ pc' = [pc EXCEPT ![j] = "loop"]
  /\ UNCHANGED <<finished, current, storeVars>>

FetchFails(j) ==
  /\ pc[j] = "fetch"
  /\ JobReturns(j)
  /\ UNCHANGED <<batch, current, storeVars>>

FinishJob(j) ==
  /\ pc[j] = "loop"
  /\ DOMAIN batch[j] = {}
  /\ JobReturns(j)
  /\ UNCHANGED <<batch, current, storeVars>>

-----------------------------------------------------------------------------
(* processEvent.  The query has no ORDER BY: the rows come in any order.   *)
(* The job does not learn whether a message was delivered.                 *)

\* Faulty: the loop is left after an event.
EventHandledAlone(j, e) ==
  /\ batch' = [batch EXCEPT ![j] = EmptyBatch]
  /\ pc' = [pc EXCEPT ![j] = "loop"]
  /\ current' = [current EXCEPT ![j] = NoEvent]
  /\ UNCHANGED finished

\* Faulty: the event stays among those to process.
EventKept(j, e) ==
  /\ pc' = [pc EXCEPT ![j] = "loop"]
  /\ current' = [current EXCEPT ![j] = NoEvent]
  /\ UNCHANGED <<finished, batch>>

EventHandled(j, e) ==
  /\ batch' = [batch EXCEPT ![j] = Restrict(@, DOMAIN @ \ {e})]
  /\ pc' = [pc EXCEPT ![j] = "loop"]
  /\ current' = [current EXCEPT ![j] = NoEvent]
  /\ UNCHANGED finished

SendPeriodic(j, e) ==
  /\ pc[j] = "loop"
  /\ e \in DOMAIN batch[j]
  /\ batch[j][e].periodicity # NoPeriod
  /\ pc' = [pc EXCEPT ![j] = "advance"]
  /\ current' = [current EXCEPT ![j] = e]
  /\ UNCHANGED <<finished, batch, storeVars>>

NextTime(row) == CalculateNextTime(row.sendAt, row.periodicity, row.weekdays)

\* Faulty: the nil next time is stored.
AdvanceUnchecked(j) ==
  LET e == current[j]  row == batch[j][e]
  IN  /\ pc[j] = "advance"
      /\ UpdateEvent(e, [row EXCEPT !.sendAt = NextTime(row)], {"sendAt"})
      /\ EventHandled(j, e)
      /\ UNCHANGED <<now, keyboards>>

\* Faulty: the next time is counted from the current one.
AdvanceFromNow(j) ==
  LET e == current[j]
      next == CalculateNextTime(now, batch[j][e].periodicity, batch[j][e].weekdays)
  IN  /\ pc[j] = "advance"
      /\ next # NoTime
      /\ UpdateEvent(e, [batch[j][e] EXCEPT !.sendAt = next], {"sendAt"})
      /\ EventHandled(j, e)
      /\ UNCHANGED <<now, keyboards>>

AdvanceTime(j) ==
  LET e == current[j]  row == batch[j][e]
  IN  /\ pc[j] = "advance"
      /\ NextTime(row) # NoTime
      /\ UpdateEvent(e, [row EXCEPT !.sendAt = NextTime(row)], {"sendAt"})
      /\ EventHandled(j, e)
      /\ UNCHANGED <<now, keyboards>>

\* Faulty: an event is ended whatever its next time.
DeactivateAnyway(j) ==
  /\ pc[j] = "advance"
  /\ DeleteEvent(current[j])
  /\ EventHandled(j, current[j])
  /\ UNCHANGED <<now, keyboards>>

Deactivate(j) ==
  LET e == current[j]
  IN  /\ pc[j] = "advance"
      /\ NextTime(batch[j][e]) = NoTime
      /\ DeleteEvent(e)
      /\ EventHandled(j, e)
      /\ UNCHANGED <<now, keyboards>>

\* The update or the deletion returns an error, which is only logged.
AdvanceFails(j) ==
  /\ pc[j] = "advance"
  /\ EventHandled(j, current[j])
  /\ UNCHANGED storeVars

SendOnce(j, e) ==
  /\ pc[j] = "loop"
  /\ e \in DOMAIN batch[j]
  /\ batch[j][e].periodicity = NoPeriod
  /\ \E delivered \in BOOLEAN :
       keyboards' = IF delivered THEN [keyboards EXCEPT ![e] = @ \cup {"reminder"}]
                                 ELSE keyboards
  /\ EventHandled(j, e)
  /\ UNCHANGED <<events, now>>

-----------------------------------------------------------------------------
\* The process dies, or is stopped, and starts again.
JobsLost ==
  /\ finished' = TRUE
  /\ pc' = [j \in Jobs |-> "idle"]
  /\ batch' = [j \in Jobs |-> EmptyBatch]
  /\ current' = [j \in Jobs |-> NoEvent]

-----------------------------------------------------------------------------
\* A tick that comes while the job still runs starts no second run: at most
\* one goroutine is beyond the check of finished, and finished says whether
\* there is one beyond the assignment (cron.go, lines 20 to 24).
OneRunAtATime ==
  /\ \A j, k \in Jobs : pc[j] # "idle" /\ pc[k] # "idle" => j = k
  /\ finished <=> \A j \in Jobs : pc[j] \in {"idle", "claim"}

\* Only a run in its loop has rows, and it advances one of them.
Busy ==
  \A j \in Jobs :
    /\ pc[j] \in {"idle", "claim", "fetch"} => DOMAIN batch[j] = {}
    /\ pc[j] = "advance" => current[j] \in DOMAIN batch[j]

\* What the job keeps true by itself, whatever happens to the rows meanwhile.
JobInv == JobTypeOK /\ OneRunAtATime /\ Busy
=============================================================================
