---------------------------- MODULE EventService ----------------------------
(***************************************************************************)
(* What the whole program does for its users, without goroutines and       *)
(* statements.  Owners enter events, change them and take them out of      *)
(* service whenever they like.  The service works in rounds: it takes up   *)
(* the events whose slot has come, as they are then, reminds of them one   *)
(* by one, and moves each repeating one on, or ends it, before it turns to *)
(* the next.  It goes by what it took up and not by what owners do in the  *)
(* meantime: an event may be reminded of once more after it was taken out  *)
(* of service, and its new slot may be replaced, but no event that is out  *)
(* of service ever comes back.                                             *)
(***************************************************************************)
EXTENDS Integers, Functions

CONSTANTS
  Events,
  Never,  \* no slot: not a natural number
  Nobody  \* no event

VARIABLES
  clock,
  known,   \* the events ever entered
  active,  \* those in service
  plan,    \* for each known event its slot, and whether and when it repeats
  held,    \* the plans of the events taken up in this round and still to do
  told     \* the repeating event just reminded of, or Nobody

vars == <<clock, known, active, plan, held, told>>

Plans == {p \in [slot : Nat, repeats : BOOLEAN, follows : Nat \cup {Never}] :
            p.follows # Never => p.repeats /\ p.follows > p.slot}

Nothing == [e \in {} |-> e]

Init ==
  /\ clock = 0
  /\ known \subseteq Events
  /\ active \subseteq known
  /\ DOMAIN plan = known /\ \A e \in known : plan[e] \in Plans
  /\ held = Nothing
  /\ told = Nobody

\* The plan of e, and of e alone, becomes another.
Replans(e) ==
  /\ DOMAIN plan' = known'
  /\ plan'[e] \in Plans
  /\ \A x \in known \ {e} : plan'[x] = plan[x]

-----------------------------------------------------------------------------
(* Owners *)

Enters(e) ==
  /\ e \notin known
  /\ known' = known \cup {e}
  /\ active' = active \cup {e}
  /\ Replans(e)
  /\ UNCHANGED <<clock, held, told>>

Changes(e) ==
  /\ e \in known
  /\ Replans(e)
  /\ UNCHANGED <<clock, known, active, held, told>>

Retires(e) ==
  /\ e \in known
  /\ active' = active \ {e}
  /\ Replans(e)
  /\ UNCHANGED <<clock, known, held, told>>

-----------------------------------------------------------------------------
(* The service *)

TakesUp ==
  /\ held = Nothing
  /\ held' = [e \in {x \in active : plan[x].slot <= clock} |-> plan[e]]
  /\ UNCHANGED <<clock, known, active, plan, told>>

LetsGo(e) == held' = Restrict(held, DOMAIN held \ {e})

Reminds(e) ==
  /\ told = Nobody
  /\ e \in DOMAIN held
  /\ held[e].slot <= clock
  /\ IF held[e].repeats THEN told' = e /\ held' = held ELSE LetsGo(e) /\ told' = told
  /\ UNCHANGED <<clock, known, active, plan>>

MovesOn(e) ==
  /\ told = e /\ held[e].follows # Never
  /\ Replans(e)
  /\ plan'[e].slot = held[e].follows
  /\ plan'[e].repeats = plan[e].repeats
  /\ told' = Nobody /\ LetsGo(e)
  /\ UNCHANGED <<clock, known, active>>

Ends(e) ==
  /\ told = e /\ held[e].follows = Never
  /\ active' = active \ {e}
  /\ told' = Nobody /\ LetsGo(e)
  /\ UNCHANGED <<clock, known, plan>>

\* A statement fails: the event stays at its slot.
Stays(e) ==
  /\ told = e
  /\ told' = Nobody /\ LetsGo(e)
  /\ UNCHANGED <<clock, known, active, plan>>

\* The process restarts, and what was taken up is forgotten.
Forgets ==
  /\ held' = Nothing /\ told' = Nobody
  /\ UNCHANGED <<clock, known, active, plan>>

Ticks ==
  /\ clock' = clock + 1
  /\ UNCHANGED <<known, active, plan, held, told>>

Next ==
  \/ \E e \in Events : Enters(e) \/ Changes(e) \/ Retires(e)
  \/ TakesUp
  \/ \E e \in Events : Reminds(e) \/ MovesOn(e) \/ Ends(e) \/ Stays(e)
  \/ Forgets
  \/ Ticks

Spec == Init /\ [][Next]_vars
=============================================================================
