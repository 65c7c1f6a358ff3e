------------------------ MODULE MCInstanceLifecycle ------------------------
(***************************************************************************)
(* Values for TLC.  The instances of a project may come from two builds    *)
(* whose [ports] overlap (Mixed) or not (Disjoint), or from one (Same).    *)
(***************************************************************************)
EXTENDS InstanceClaims

CONSTANTS a, b, p, q    \* two instances, two canonical ports

Same     == [n \in Names |-> {p}]
Mixed    == [n \in Names |-> IF n = a THEN {p} ELSE {p, q}]
Disjoint == [n \in Names |-> IF n = a THEN {p} ELSE {q}]

Symmetry == Permutations(Reqs) \union Permutations(Cids)
=============================================================================
