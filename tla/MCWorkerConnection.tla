------------------------- MODULE MCWorkerConnection -------------------------
(* Instances of WorkerConnection for TLC. *)
EXTENDS WorkerConnection, TLC

Symmetry == Permutations(Conns) \cup Permutations(Readers)
=============================================================================
