------------------------------- MODULE Builds -------------------------------
(***************************************************************************)
(* The builds of one project: a directory each, with a manifest once it is *)
(* complete, and one symlink per Coastfile type to the latest of that type *)
(* ("latest", "latest-{type}").  build and rm-build change them and run    *)
(* resolves them, each under the project's permit; rm, and the row that is *)
(* inserted for a run that still waits, take no permit.  A new instance    *)
(* names the build it was made from, or none.                              *)
(***************************************************************************)
EXTENDS Naturals, FiniteSets

CONSTANTS
    CoastNames,  \* instance names
    Default,     \* the Coastfile without a type
    OtherTypes,  \* the named types
    Keep,        \* how many builds of a type a build keeps
    MaxBuilds,   \* bound: builds ever made
    BuildFaults  \* a subset of AllBuildFaults

\* fail: a build fails before its manifest; crash: coastd is killed.
AllBuildFaults == {"fail", "crash"}
Types == OtherTypes \union {Default}

ASSUME BuildConstantsOK ==
    /\ Default \notin OtherTypes
    /\ Keep \in Nat \ {0} /\ MaxBuilds \in Nat
    /\ BuildFaults \subseteq AllBuildFaults

VARIABLES
    made,   \* type of each build ever begun, in the order of their timestamps
    dirs,   \* the builds that have a directory
    whole,  \* those of them that have a manifest
    latest, \* the symlinks: the build they name, 0 where there is none
    coast,  \* the instances
    job,    \* the build or rm-build that holds the project's permit
    runner, \* the run that holds it, and what it has resolved
    torn    \* whether a crash has fallen between the removal of a build and
            \* that of its symlink (no state of coastd)

buildvars == <<made, dirs, whole, latest, coast, job, runner, torn>>

NoCoast == [there |-> FALSE, waits |-> FALSE, type |-> Default, build |-> 0]
NoRun   == [name |-> "none", type |-> Default, id |-> 0]
NoJob   == [pc |-> "free", id |-> 0, ids |-> {}, used |-> {}, was |-> 0]

\* id: the build being made; ids: those still to be removed;
\* used: the builds found in use; was: the target of latest as it was read.
Job == [pc : {"free", "begun", "written", "unlinked", "linked", "prune",
              "remove", "unlink", "all"},
        id : 0 .. MaxBuilds, ids : SUBSET (1 .. MaxBuilds),
        used : SUBSET (1 .. MaxBuilds), was : 0 .. MaxBuilds]

BuildTypeOK ==
    /\ made \in UNION {[1 .. k -> Types] : k \in 0 .. MaxBuilds}
    /\ whole \subseteq dirs /\ dirs \subseteq DOMAIN made
    /\ latest \in [Types -> 0 .. MaxBuilds]
    /\ coast  \in [CoastNames -> [there : BOOLEAN, waits : BOOLEAN, type : Types,
                                  build : 0 .. MaxBuilds]]
    /\ job \in Job
    /\ runner \in [name : CoastNames \union {"none"}, type : Types, id : 0 .. MaxBuilds]
    /\ torn \in BOOLEAN

BuildInit ==
    /\ made   = [b \in {} |-> Default]
    /\ dirs   = {}
    /\ whole  = {}
    /\ latest = [t \in Types |-> 0]
    /\ coast  = [n \in CoastNames |-> NoCoast]
    /\ job    = NoJob
    /\ runner = NoRun
    /\ torn   = FALSE

Permit    == job.pc = "free" /\ runner = NoRun
Done      == job' = NoJob
JobTo(pc) == job' = [job EXCEPT !.pc = pc]

\* The builds some row names; a row that names none stands for the target of
\* latest, whatever its type.
InUse(target) ==
    ({coast[n].build : n \in {m \in CoastNames : coast[m].there}} \union
     (IF \E n \in CoastNames : coast[n].there /\ coast[n].build = 0 THEN {target} ELSE {}))
    \ {0}

----------------------------------------------------------------------------
(* build                                                                   *)

\* create_artifact: its id is taken from the clock.
BuildBegin(t) ==
    LET b == Cardinality(DOMAIN made) + 1 IN
    /\ Permit
    /\ b <= MaxBuilds
    /\ made' = [x \in 1 .. b |-> IF x = b THEN t ELSE made[x]]
    /\ dirs' = dirs \union {b}
    /\ job'  = [NoJob EXCEPT !.pc = "begun", !.id = b]
    /\ UNCHANGED <<whole, latest, coast, runner>>

\* Images and the coast image fail: the directory is left.
BuildFails ==
    /\ "fail" \in BuildFaults
    /\ job.pc = "begun"
    /\ Done
    /\ UNCHANGED <<made, dirs, whole, latest, coast, runner>>

WriteManifest ==
    /\ job.pc = "begun"
    /\ whole' = whole \union {job.id}
    /\ JobTo("written")
    /\ UNCHANGED <<made, dirs, latest, coast, runner>>

\* update_latest_symlink: the old one is removed, then the new one made.
DropLatest ==
    /\ job.pc = "written"
    /\ latest' = [latest EXCEPT ![made[job.id]] = 0]
    /\ JobTo("unlinked")
    /\ UNCHANGED <<made, dirs, whole, coast, runner>>

SetLatest ==
    /\ job.pc = "unlinked"
    /\ latest' = [latest EXCEPT ![made[job.id]] = job.id]
    /\ JobTo("linked")
    /\ UNCHANGED <<made, dirs, whole, coast, runner>>

\* MUTANT of ReadInUse: waiting rows and those without a build are not asked.
ReadNamed ==
    /\ job.pc = "linked"
    /\ job' = [job EXCEPT !.pc = "prune", !.used = {}]
    /\ UNCHANGED <<made, dirs, whole, latest, coast, runner>>

\* prune_old_builds: what is in use is read under the database's mutex, ...
ReadInUse ==
    /\ job.pc = "linked"
    /\ job' = [job EXCEPT !.pc = "prune", !.used = InUse(latest[Default])]
    /\ UNCHANGED <<made, dirs, whole, latest, coast, runner>>

\* ... and all but the newest of the type go, if they are complete.
Prune ==
    LET same   == {b \in whole : made[b] = made[job.id]}
        newest == {b \in same : Cardinality({c \in same : c > b}) < Keep}
        gone   == (same \ newest) \ job.used
    IN  /\ job.pc = "prune"
        /\ dirs'  = dirs \ gone
        /\ whole' = whole \ gone
        /\ Done
        /\ UNCHANGED <<made, latest, coast, runner>>

----------------------------------------------------------------------------
(* rm-build                                                                *)

\* Of some builds: the target of latest and what is in use are read once.
RemoveBegin(S) ==
    /\ Permit
    /\ job' = [NoJob EXCEPT !.pc = "remove", !.ids = S, !.was = latest[Default],
                            !.used = InUse(latest[Default])]
    /\ UNCHANGED <<made, dirs, whole, latest, coast, runner>>

RemoveOne ==
    /\ job.pc = "remove"
    /\ \E b \in job.ids :
          /\ job' = [job EXCEPT !.ids = @ \ {b},
                                !.pc = IF b \in dirs \ job.used /\ b = job.was
                                       THEN "unlink" ELSE "remove"]
          /\ dirs'  = IF b \in job.used THEN dirs ELSE dirs \ {b}
          /\ whole' = IF b \in job.used THEN whole ELSE whole \ {b}
    /\ UNCHANGED <<made, latest, coast, runner>>

Unlink ==
    /\ job.pc = "unlink"
    /\ latest' = [latest EXCEPT ![Default] = 0]
    /\ JobTo("remove")
    /\ UNCHANGED <<made, dirs, whole, coast, runner>>

RemoveEnd ==
    /\ job.pc = "remove" /\ job.ids = {}
    /\ Done
    /\ UNCHANGED <<made, dirs, whole, latest, coast, runner>>

\* Of the whole project, which must have no instance; containers, volumes and
\* images go before the artifact directory does.
RemoveAllBegin ==
    /\ Permit
    /\ \A n \in CoastNames : ~coast[n].there
    /\ job' = [NoJob EXCEPT !.pc = "all"]
    /\ UNCHANGED <<made, dirs, whole, latest, coast, runner>>

Wipe ==
    /\ job.pc = "all"
    /\ dirs'   = {}
    /\ whole'  = {}
    /\ latest' = [t \in Types |-> 0]
    /\ Done
    /\ UNCHANGED <<made, coast, runner>>

----------------------------------------------------------------------------
(* run and rm                                                              *)

\* run_sse: a row, without a build if the request names none, while the run
\* waits for the permit.
EnqueueRun(n, t) ==
    /\ ~coast[n].there
    /\ coast' = [coast EXCEPT ![n] = [there |-> TRUE, waits |-> TRUE, type |-> t, build |-> 0]]
    /\ UNCHANGED <<made, dirs, whole, latest, job, runner>>

\* MUTANT of ResolveBuild: the symlink is read before the permit is asked for.
ResolveEarly(n, t) ==
    /\ runner = NoRun
    /\ ~coast[n].there \/ (coast[n].waits /\ coast[n].type = t)
    /\ runner' = [name |-> n, type |-> t, id |-> latest[t]]
    /\ UNCHANGED <<made, dirs, whole, latest, coast, job>>

\* validate_and_insert, with the permit: the symlink is read, ...
ResolveBuild(n, t) ==
    /\ Permit
    /\ ~coast[n].there \/ (coast[n].waits /\ coast[n].type = t)
    /\ runner' = [name |-> n, type |-> t, id |-> latest[t]]
    /\ UNCHANGED <<made, dirs, whole, latest, coast, job>>

\* ... then the row inserted, in place of one that waits.
InsertCoast ==
    LET n == runner.name IN
    /\ runner # NoRun
    /\ coast' = IF coast[n].there /\ ~coast[n].waits THEN coast
                ELSE [coast EXCEPT ![n] = [there |-> TRUE, waits |-> FALSE,
                                           type |-> runner.type, build |-> runner.id]]
    /\ runner' = NoRun
    /\ UNCHANGED <<made, dirs, whole, latest, job>>

\* rm: no permit.
RemoveCoast(n) ==
    /\ coast[n].there
    /\ coast' = [coast EXCEPT ![n] = NoCoast]
    /\ UNCHANGED <<made, dirs, whole, latest, job, runner>>

CrashBuild ==
    /\ "crash" \in BuildFaults
    /\ ~Permit
    /\ job' = NoJob /\ runner' = NoRun
    /\ UNCHANGED <<made, dirs, whole, latest, coast>>

----------------------------------------------------------------------------
BuildNext ==
    /\ \/ \E t \in Types : BuildBegin(t)
       \/ BuildFails \/ WriteManifest \/ DropLatest \/ SetLatest \/ ReadInUse \/ Prune
       \/ \E S \in SUBSET dirs \ {{}} : RemoveBegin(S)
       \/ RemoveOne \/ Unlink \/ RemoveEnd \/ RemoveAllBegin \/ Wipe
       \/ \E n \in CoastNames : RemoveCoast(n) \/ \E t \in Types : EnqueueRun(n, t) \/ ResolveBuild(n, t)
       \/ InsertCoast
       \/ CrashBuild
    /\ torn' = (torn \/ (job.pc = "unlink" /\ job'.pc = "free"))

BuildSpec == BuildInit /\ [][BuildNext]_buildvars

----------------------------------------------------------------------------
(* Properties.                                                             *)

\* rm-build, prune: "skipping removal of build - in use by running
\* instance(s)": whatever runs, waits and is removed meanwhile, no build goes
\* that an instance was made from.
InUseKept ==
    [][\A n \in CoastNames : coast[n].build \in dirs /\ coast'[n] = coast[n]
            => coast[n].build \in dirs']_buildvars

\* run: an instance of the default type is made from a build that is there,
\* unless a crash has torn an rm-build.
MadeFromWhole ==
    \A n \in CoastNames : coast[n].type = Default /\ coast[n].build # 0
        => coast[n].build \in whole \/ torn

\* update_latest_symlink, rm-build: "latest" names a complete build, except
\* between the removal of a build and that of the symlink.
LatestIsWhole ==
    latest[Default] \in whole \union {0} \/ job.pc = "unlink" \/ torn

\* run: "Resolve the per-type `latest` symlink to get the actual build_id".
ResolvesWhole == runner.id \in whole \union {0} \/ torn
=============================================================================
