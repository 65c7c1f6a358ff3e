------------------------- MODULE MCUpdatePreparation -------------------------
(***************************************************************************)
(* What the code's comments say of the preparation and, with more faults   *)
(* or more preparations than one, does not hold; values for TLC.           *)
(***************************************************************************)
EXTENDS UpdatePreparation, TLC

\* "Reject new mutating requests while the daemon is preparing for
\* self-update": none enters between the beginning of a preparation and its
\* answer.
RejectedWhilePreparing ==
    [][\A p \in Preps : Preparing(p) /\ prep'[p].pc # "idle"
          => registry' \subseteq registry]_pvars

\* "checked out instance(s) will have canonical ports restored after restart":
\* a preparation that no operation disturbs ends no checkout.
KeepsCheckouts ==
    [][\A p \in Preps : PrepClear(p) /\ registry = {} => UNCHANGED row]_pvars

Symmetry == Permutations(Ops) \union Permutations(Insts) \union Permutations(Socats)
=============================================================================
