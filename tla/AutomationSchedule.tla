------------------------- MODULE AutomationSchedule -------------------------
(***************************************************************************)
(* What AutomationTable.claim_due promises (models/automations.py):        *)
(* "Atomically claim due automations for execution.  Advances next_run_at  *)
(* immediately so the row can never be double-claimed."                    *)
(*                                                                         *)
(* An automation's schedule is the occurrence it waits for.  A claim takes *)
(* occurrences of active automations, each later than the one claimed      *)
(* before, and moves every one of them on.  Who edits an automation starts *)
(* its schedule afresh, and so does a claim that computed what comes next  *)
(* while the user's clock showed an hour for the second time.              *)
(***************************************************************************)
EXTENDS Naturals

CONSTANTS Automations, Times

VARIABLES
    active,   \* the automations that may be claimed
    next,     \* the occurrence each automation waits for
    claimed,  \* the occurrence that was claimed last, 0 when the schedule is fresh
    again     \* the automations whose next occurrence was computed in such an hour

vars == <<active, next, claimed, again>>

Init ==
    /\ active \in SUBSET Automations
    /\ next \in [Automations -> Times]
    /\ claimed = [a \in Automations |-> 0]
    /\ again = {}

Claim(S) ==
    /\ S \subseteq active
    /\ \A a \in S : next[a] > claimed[a]
    /\ claimed' = [a \in Automations |->
        IF a \notin S THEN claimed[a] ELSE IF a \in again THEN 0 ELSE next[a]]
    /\ next' \in [Automations -> Times]
    /\ \A a \in Automations :
        IF a \in S THEN a \in again \/ next'[a] > next[a] ELSE next'[a] = next[a]
    /\ again' \subseteq Automations
    /\ UNCHANGED active

Edit(a) ==
    /\ active' \in {active \cup {a}, active \ {a}}
    /\ \E t \in Times : next' = [next EXCEPT ![a] = t]
    /\ claimed' = [claimed EXCEPT ![a] = 0]
    /\ UNCHANGED again

Compute ==
    /\ again' \subseteq Automations
    /\ UNCHANGED <<active, next, claimed>>

Next ==
    \/ \E S \in SUBSET Automations : Claim(S)
    \/ \E a \in Automations : Edit(a)
    \/ Compute

Spec == Init /\ [][Next]_vars
=============================================================================
