--------------------------- MODULE MCJobLifecycle ---------------------------
(* Instances of JobLifecycle for TLC. *)
EXTENDS JobLifecycle, TLC

Symmetry == Permutations(Jobs) \cup Permutations(Rooms)
=============================================================================
