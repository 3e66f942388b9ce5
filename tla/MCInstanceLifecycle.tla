------------------------ MODULE MCInstanceLifecycle ------------------------
(* Model values and symmetry for checking InstanceLifecycle.               *)
EXTENDS InstanceLifecycle, TLC

Symmetry == Permutations(Ops) \cup Permutations(Instances)

=============================================================================
