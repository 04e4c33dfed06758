------------------------- MODULE MCAutomationClaim --------------------------
(* Model values for TLC: a rule with occurrences at fixed times and one that *)
(* counts from the moment it is asked; a clock that has just been put back   *)
(* by two, so that it shows 1 and 2 for the second time.                     *)
EXTENDS AutomationClaim

TwoRules == {[t \in 1..Horizon |-> {2, 3}], [t \in 1..Horizon |-> {t + 2}]}
PutBack == {[before |-> 2, after |-> 0, change |-> 1]}
=============================================================================
