--------------------------- MODULE UpdateBarrier ---------------------------
(***************************************************************************)
(* What preparing coastd for a self-update promises: a barrier that        *)
(* operations pass one by one and that the update seals.  It seals only    *)
(* when nobody is inside, and while it is sealed nobody enters.            *)
(***************************************************************************)
CONSTANT Ops

VARIABLES
    inside,  \* the operations that are under way
    sealed   \* whether the update may replace the daemon

bvars == <<inside, sealed>>

TypeOK == inside \subseteq Ops /\ sealed \in BOOLEAN

Init == inside = {} /\ sealed = FALSE

Enter(o) == ~sealed /\ o \notin inside /\ inside' = inside \union {o} /\ UNCHANGED sealed
Leave(o) == o \in inside /\ inside' = inside \ {o} /\ UNCHANGED sealed
Seal     == inside = {} /\ sealed' = TRUE /\ UNCHANGED inside
Unseal   == sealed /\ sealed' = FALSE /\ UNCHANGED inside

\* The daemon goes down by itself, whoever is inside, and comes back.
Crash == inside' = {} /\ sealed' = FALSE

Next == (\E o \in Ops : Enter(o) \/ Leave(o)) \/ Seal \/ Unseal \/ Crash

Spec == Init /\ [][Next]_bvars
=============================================================================
