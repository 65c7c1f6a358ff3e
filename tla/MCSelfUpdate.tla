---------------------------- MODULE MCSelfUpdate ----------------------------
(***************************************************************************)
(* SelfUpdate for TLC.                                                     *)
(***************************************************************************)
EXTENDS SelfUpdate, TLC

Symmetry == Permutations(Preps) \union Permutations(Socats)
=============================================================================
