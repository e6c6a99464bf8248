----------------------------- MODULE Admission -----------------------------
(***************************************************************************)
(* What the admission gate promises its callers (module comment of         *)
(* src/mcp/lifecycle.rs), with no queue, no grant and no task that runs    *)
(* later: a call is admitted, or a transition takes over, in one step, and *)
(* each knows from that step on which era it belongs to.  LifecycleGate    *)
(* implements it.                                                          *)
(***************************************************************************)
EXTENDS Naturals

CONSTANTS
  Calls,   \* whoever asks to be admitted
  Nobody   \* none of them: no transition is under way

VARIABLES
  leases,  \* shared leases each call holds
  alone,   \* the transition under way
  era,     \* the lifecycle era
  stamp    \* the era each lease holder was admitted in (0: holds none)

admissionVars == <<leases, alone, era, stamp>>

Init ==
  /\ leases = [c \in Calls |-> 0]
  /\ alone = Nobody
  /\ era = 0
  /\ stamp = [c \in Calls |-> 0]

\* An operation is admitted to the era it finds.
Admit(c) ==
  /\ alone = Nobody
  /\ leases' = [leases EXCEPT ![c] = @ + 1]
  /\ stamp' = [stamp EXCEPT ![c] = era]
  /\ UNCHANGED <<alone, era>>

\* It hands one lease back, and is of no era with the last.
Retire(c) ==
  /\ leases[c] > 0
  /\ leases' = [leases EXCEPT ![c] = @ - 1]
  /\ stamp' = [stamp EXCEPT ![c] = IF leases[c] = 1 THEN 0 ELSE @]
  /\ UNCHANGED <<alone, era>>

\* A transition ends the era of everything before it, with nobody inside.
Transit(c) ==
  /\ alone = Nobody
  /\ \A d \in Calls : leases[d] = 0
  /\ alone' = c
  /\ era' = era + 1
  /\ stamp' = [stamp EXCEPT ![c] = era]
  /\ UNCHANGED leases

Settle ==
  /\ alone # Nobody
  /\ alone' = Nobody
  /\ stamp' = [stamp EXCEPT ![alone] = 0]
  /\ UNCHANGED <<leases, era>>

Next == Settle \/ \E c \in Calls : Admit(c) \/ Retire(c) \/ Transit(c)

Spec == Init /\ [][Next]_admissionVars
=============================================================================
