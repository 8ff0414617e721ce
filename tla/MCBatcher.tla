------------------------------ MODULE MCBatcher ------------------------------
(* Batcher on small instances.                                              *)
EXTENDS Batcher

\* The clients run the same code.
Symmetry == Permutations(Clients)
=============================================================================
