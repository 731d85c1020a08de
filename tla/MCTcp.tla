------------------------------- MODULE MCTcp --------------------------------
(* Tcp with its threads as a symmetric set.                                *)
EXTENDS Tcp, TLC

Symmetry == Permutations(Threads)
=============================================================================
