------------------------- MODULE MCCombatEncounter -------------------------
(* A small instance of an encounter: two units, short budgets.             *)
EXTENDS CombatEncounter, TLC

CONSTANTS A, B

\* The two ways the controlled script runs it, and the bare encounter.
Scripts == {[motion |-> TRUE, recover |-> TRUE, preserve |-> p, advance |-> ~p] : p \in BOOLEAN}
Bare == {[motion |-> FALSE, recover |-> FALSE, preserve |-> FALSE, advance |-> FALSE]}
AllOptions == Scripts \cup Bare
TwoUnits == {A, B}
Alike == Permutations(TwoUnits)
=============================================================================
