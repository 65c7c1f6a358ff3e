--------------------------- MODULE MCAssignSteps ---------------------------
(***************************************************************************)
(* AssignSteps and HostPorts for TLC: the inside of an instance, and what  *)
(* it shares with its neighbours outside.  A behaviour is one of either,   *)
(* while the other stays as it is initially.                               *)
(***************************************************************************)
EXTENDS AssignSteps, HostPorts, TLC

CONSTANTS inner, outer  \* directories of worktree_dir

VARIABLE side

InnerFirst == <<inner, outer>>

SidesInit == side \in {"inside", "outside"} /\ AsInit /\ PortsInit

SidesNext ==
    /\ UNCHANGED side
    /\ \/ side = "inside"  /\ AsNext    /\ UNCHANGED portvars
       \/ side = "outside" /\ PortsNext /\ UNCHANGED asvars

SidesSpec == SidesInit /\ [][SidesNext]_<<side, asvars, portvars>>

Symmetry == Permutations(Branches)
=============================================================================
