------------------------------ MODULE MCStartUp ------------------------------
(* Small instances of StartUp for TLC. *)
EXTENDS StartUp, TLC

CONSTANTS t1, t2

Symmetry == Permutations(Tasks)
=============================================================================
