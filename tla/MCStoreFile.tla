---------------------------- MODULE MCStoreFile ----------------------------
(* Small instances of StoreFile for TLC. *)
EXTENDS StoreFile, TLC

CONSTANTS x, y, z, i1, i2, i3, i4

Symmetry == Permutations(Changes) \cup Permutations(Inodes)
=============================================================================
