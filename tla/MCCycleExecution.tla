-------------------------- MODULE MCCycleExecution --------------------------
(* Model values and symmetry for checking CycleExecution: every run belongs *)
(* to the same cycle.                                                      *)
EXTENDS CycleExecution, TLC

CONSTANT TheCycle
OneCycle == {TheCycle}
AllRunsOfTheCycle == [r \in Runs |-> TheCycle]

Symmetry == Permutations(Runs) \cup Permutations(Devices) \cup Permutations(Calls)

=============================================================================
