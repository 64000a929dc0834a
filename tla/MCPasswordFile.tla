--------------------------- MODULE MCPasswordFile ---------------------------
(***************************************************************************)
(* Small instances of PasswordFile for TLC.                                 *)
(***************************************************************************)
EXTENDS PasswordFile, TLC

Symmetry == Permutations(Starter) \cup Permutations(Resetter)
=============================================================================
