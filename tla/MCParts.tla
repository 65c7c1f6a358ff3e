------------------------------ MODULE MCParts ------------------------------
(***************************************************************************)
(* Parts of coast that share no state and are small enough to be checked   *)
(* in one run: a behaviour is one of any of them, chosen at its beginning, *)
(* while the others stay as they are initially.                            *)
(***************************************************************************)
EXTENDS SharedServices, AgentShells, Builds, SelfUpdate, CoastfileLayers, StatsCollectors,
        MCVolumes, BareServices, TLC

CONSTANTS
    Parts,                   \* those a run is about
    child, parent, fragment, \* three Coastfiles
    web                      \* a port

VARIABLE part

partvars == <<part, svcvars, shvars, buildvars, suvars, layervars, statsvars, volvars,
              barevars>>

\* What a Coastfile may hold, but for the health checks; one is what its port
\* and what it unsets are.
Texts(extends, includes, sound, named, worktrees, run, primary) ==
    [extends : extends, includes : includes, sound : sound, named : named, dirs : worktrees,
     health : {FALSE}, run : run, entries : {{}, {web}}, primary : primary,
     unset : {{}, {web}}]

\* A Coastfile that may extend another or itself, one that may extend the
\* first, and a fragment both may include.
MCDrafts ==
    {(child :> c) @@ (parent :> p) @@ (fragment :> f) :
        c \in Texts({NoFile, child, parent}, {<<>>, <<fragment>>},
                    {TRUE}, {FALSE}, BOOLEAN, {TRUE}, {NoPort}),
        p \in Texts({NoFile, child}, {<<>>, <<fragment>>},
                    {TRUE}, {TRUE}, BOOLEAN, {FALSE}, {NoPort, web}),
        f \in Texts({NoFile}, {<<>>}, BOOLEAN, {FALSE}, {FALSE}, {TRUE}, {NoPort})
              \union Texts({fragment}, {<<>>}, {TRUE}, {FALSE}, {FALSE}, {TRUE}, {NoPort})}

PartsInit ==
    /\ part \in Parts
    /\ SvcInit /\ ShInit /\ BuildInit /\ SuInit /\ LayersInit /\ StatsInit /\ VolInit
    /\ BareInit
    /\ part # "bare" => policy = (CHOOSE p \in Policies : TRUE) /\ ~ported

PartsNext ==
    /\ UNCHANGED part
    /\ \/ part = "services" /\ SvcNext
          /\ UNCHANGED <<shvars, buildvars, suvars, layervars, statsvars, volvars, barevars>>
       \/ part = "shells" /\ ShNext
          /\ UNCHANGED <<svcvars, buildvars, suvars, layervars, statsvars, volvars, barevars>>
       \/ part = "builds" /\ BuildNext
          /\ UNCHANGED <<svcvars, shvars, suvars, layervars, statsvars, volvars, barevars>>
       \/ part = "update" /\ SuNext
          /\ UNCHANGED <<svcvars, shvars, buildvars, layervars, statsvars, volvars, barevars>>
       \/ part = "prepare" /\ Next
          /\ UNCHANGED <<bin, bak, out, alive, upd, events, svcvars, shvars, buildvars,
                         layervars, statsvars, volvars, barevars>>
       \/ part = "coastfile" /\ LayersNext
          /\ UNCHANGED <<svcvars, shvars, buildvars, suvars, statsvars, volvars, barevars>>
       \/ part = "stats" /\ StatsNext
          /\ UNCHANGED <<svcvars, shvars, buildvars, suvars, layervars, volvars, barevars>>
       \/ part = "volumes" /\ VolNext
          /\ UNCHANGED <<svcvars, shvars, buildvars, suvars, layervars, statsvars, barevars>>
       \/ part = "bare" /\ BareNext
          /\ UNCHANGED <<svcvars, shvars, buildvars, suvars, layervars, statsvars, volvars>>

PartsSpec == PartsInit /\ [][PartsNext]_partvars

PartsFairSpec == PartsSpec /\ SvcFairness /\ ShFairness /\ SuFairness /\ StatsFairness

\* The parts keep to their types, and those not chosen to their first state.
PartsTypeOK ==
    /\ part = "services" => SvcTypeOK
    /\ part = "shells" => ShTypeOK
    /\ part = "builds" => BuildTypeOK
    /\ part = "update" => SuTypeOK
    /\ part = "prepare" => TypeOK
    /\ part = "coastfile" => LayersTypeOK
    /\ part = "stats" => StatsTypeOK
    /\ part = "volumes" => VolTypeOK
    /\ part = "bare" => BareTypeOK

\* Parts that never meet share values: slots are sessions, viewers clients, the
\* instances made from builds those that have shells.
Symmetry == Permutations(Names) \union Permutations(Sids) \union Permutations(Clients)
=============================================================================
