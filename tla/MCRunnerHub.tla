---------------------------- MODULE MCRunnerHub -----------------------------
(* Symmetry for checking RunnerHub.                                        *)
EXTENDS RunnerHub, TLC

Symmetry == Permutations(Streams) \cup Permutations(Calls)

=============================================================================
