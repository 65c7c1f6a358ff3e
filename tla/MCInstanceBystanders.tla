------------------------ MODULE MCInstanceBystanders ------------------------
(***************************************************************************)
(* Values for TLC: one instance with one canonical port.                   *)
(***************************************************************************)
EXTENDS InstanceBystanders

CONSTANTS a, p

Same     == [n \in Names |-> {p}]
Symmetry == Permutations(Reqs) \union Permutations(Cids)
=============================================================================
