--------------------------- MODULE EventLifecycle ---------------------------
(***************************************************************************)
(* What the reminder job promises for each event, without runs, batches    *)
(* and statements.  An event stands at a slot.  When the slot has come its *)
(* reminder is sent; only then a repeating event moves on, to the very     *)
(* next slot, or ends when there is none.  A repeating reminder is sent    *)
(* again only at the cost of a mishap (a restart of the process, a failed  *)
(* update); an event that does not repeat is sent until its owner acts.    *)
(***************************************************************************)
EXTENDS Integers

CONSTANTS
  Events,
  Never  \* no slot: not a natural number

VARIABLES
  clock,
  active,     \* the events in service
  repeating,  \* the events with a period
  slot,       \* the slot each event stands at
  follows,    \* the slot after it, or Never
  reminded,   \* the slot its reminder was last sent for, or Never
  mishaps     \* the mishaps that no repetition has been charged to

vars == <<clock, active, repeating, slot, follows, reminded, mishaps>>

\* Slots come one after the other.
Ahead(later, earlier) == later \in Nat /\ later > earlier

Init ==
  /\ clock = 0
  /\ active \subseteq Events
  /\ repeating \subseteq Events
  /\ slot \in [Events -> Nat]
  /\ \A e \in Events : follows[e] = Never \/ Ahead(follows[e], slot[e])
  /\ reminded = [e \in Events |-> Never]
  /\ mishaps = [e \in Events |-> 0]

\* The reminder is sent, not early and not for an event out of service.
Remind(e) ==
  /\ e \in active
  /\ slot[e] <= clock
  /\ reminded[e] # slot[e]
  /\ reminded' = [reminded EXCEPT ![e] = slot[e]]
  /\ UNCHANGED <<clock, active, repeating, slot, follows, mishaps>>

Repeat(e) ==
  /\ e \in active \cap repeating
  /\ reminded[e] = slot[e]
  /\ mishaps[e] > 0
  /\ mishaps' = [mishaps EXCEPT ![e] = @ - 1]
  /\ UNCHANGED <<clock, active, repeating, slot, follows, reminded>>

MoveOn(e) ==
  /\ e \in active \cap repeating
  /\ reminded[e] = slot[e]
  /\ follows[e] # Never
  /\ slot' = [slot EXCEPT ![e] = follows[e]]
  /\ \A x \in Events \ {e} : follows'[x] = follows[x]
  /\ follows'[e] = Never \/ Ahead(follows'[e], slot'[e])
  /\ UNCHANGED <<clock, active, repeating, reminded, mishaps>>

End(e) ==
  /\ e \in active \cap repeating
  /\ reminded[e] = slot[e]
  /\ follows[e] = Never
  /\ active' = active \ {e}
  /\ UNCHANGED <<clock, repeating, slot, follows, reminded, mishaps>>

\* An update fails, for one event, or the process restarts, for all of them.
Mishap(E) ==
  /\ mishaps' = [e \in Events |-> IF e \in E THEN mishaps[e] + 1 ELSE mishaps[e]]
  /\ UNCHANGED <<clock, active, repeating, slot, follows, reminded>>

Tick ==
  /\ clock' = clock + 1
  /\ UNCHANGED <<active, repeating, slot, follows, reminded, mishaps>>

Next ==
  \/ \E e \in Events : Remind(e) \/ Repeat(e) \/ MoveOn(e) \/ End(e) \/ Mishap({e})
  \/ Mishap(Events)
  \/ Tick

Spec == Init /\ [][Next]_vars
=============================================================================
