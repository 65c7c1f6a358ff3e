---------------------------- MODULE AssignSteps ----------------------------
(***************************************************************************)
(* What assign, unassign, stop and start do inside one instance with a     *)
(* compose file: which checkout is mounted at /workspace, what its         *)
(* services see of it, which images they run, and which checkouts have the *)
(* files git ignores.  The requests take the project's permit one after    *)
(* the other; the user's git commands come at any time.                    *)
(***************************************************************************)
EXTENDS Naturals, FiniteSets, Sequences

CONSTANTS
    Branches,   \* names of worktrees, that is of branches
    Root,       \* the project's own tree
    NoTree,     \* no tree, no branch, no directory
    LocalDirs,  \* the directories of worktree_dir that lie in the project
    OuterDirs,  \* and those that lie elsewhere
    DirOrder,   \* worktree_dir, as it is written; the first is the default
    Services,   \* of the compose file
    Strategies, \* a subset of AllStrategies: those a run is about
    Recipes,    \* what a tree has in the files an image is built from
    StepFaults  \* a subset of AllStepFaults

\* triggered: rebuild, with rebuild_triggers.
AllStrategies == {"none", "hot", "restart", "rebuild", "triggered"}

\* check: the inner daemon does not answer; services: compose config does not;
\* git: a worktree cannot be made; listing: ls-files fails; copy: rsync does;
\* mount: the bind mount does; build: an image cannot be built;
\* compose: up and down do nothing; health: the services do not come up.
AllStepFaults == {"check", "services", "git", "listing", "copy", "mount", "build",
                  "compose", "health"}

Dirs  == LocalDirs \union OuterDirs
Trees == Branches \union {Root}
Checkout == [tree : Branches, dir : Dirs]
Mount    == Checkout \union {[tree |-> Root, dir |-> NoTree],
                             [tree |-> NoTree, dir |-> NoTree]}
TheRoot  == [tree |-> Root, dir |-> NoTree]
NoMount  == [tree |-> NoTree, dir |-> NoTree]

ASSUME AssignConstantsOK ==
    /\ Recipes \subseteq Nat /\ 0 \in Recipes
    /\ Root \notin Branches /\ NoTree \notin Trees \union Dirs
    /\ LocalDirs \intersect OuterDirs = {}
    /\ DirOrder \in Seq(Dirs) /\ DirOrder # <<>> /\ DirOrder[1] \in LocalDirs
    /\ \A d \in Dirs : \E i \in 1 .. Len(DirOrder) : DirOrder[i] = d
    /\ Strategies \subseteq AllStrategies
    /\ StepFaults \subseteq AllStepFaults

VARIABLES
    project,   \* the strategy of each service and the recipe of each tree
    checkouts, \* the worktrees of the project
    slot,      \* the row: branch, worktree_name, status
    workspace, \* what is mounted at /workspace
    service,   \* the containers of the services
    image,     \* the recipe of the instance's image of each service
    marked,    \* the checkouts whose git directory has the bootstrap marker
    filled,    \* those that have the ignored files of the project
    move,      \* the assign or unassign under way
    logged     \* what has failed since the instance was last given a tree and
               \* was logged, not reported (of no effect on the code)

asvars == <<project, checkouts, slot, workspace, service, image, marked, filled, move, logged>>
inside == <<workspace, service, image, logged>>
ondisk == <<checkouts, marked, filled>>

NoMove == [pc |-> "free", to |-> NoMount, force |-> FALSE, listed |-> FALSE,
           restart |-> {}, rebuild |-> {}]

AsTypeOK ==
    /\ project \in [strategy : [Services -> AllStrategies], recipe : [Trees -> Recipes]]
    /\ checkouts \subseteq Checkout /\ marked \subseteq checkouts /\ filled \subseteq checkouts
    /\ slot \in [branch : Trees \union {NoTree}, worktree : Branches \union {NoTree},
                 status : {"absent", "running", "stopped", "assigning", "unassigning"}]
    /\ workspace \in Mount
    /\ service \in [Services -> [up : BOOLEAN, tree : Trees \union {NoTree}, image : Recipes]]
    /\ image \in [Services -> Recipes]
    /\ move \in [pc : {"free", "check", "stop", "switch", "sync", "mount", "recreate", "build",
                       "start", "health", "final", "uncheck", "unmount", "unstart", "unfinal"},
                 to : Mount, force : BOOLEAN, listed : BOOLEAN,
                 restart : SUBSET Services, rebuild : SUBSET Services]
    /\ logged \subseteq AllStepFaults

NoProject == [strategy |-> [s \in Services |-> "none"], recipe |-> [t \in Trees |-> 0]]

AsInit ==
    /\ project = NoProject
    /\ checkouts = {} /\ marked = {} /\ filled = {}
    /\ slot = [branch |-> NoTree, worktree |-> NoTree, status |-> "absent"]
    /\ workspace = NoMount
    /\ service = [s \in Services |-> [up |-> FALSE, tree |-> NoTree, image |-> 0]]
    /\ image = [s \in Services |-> 0]
    /\ move = NoMove
    /\ logged = {}

May(f)     == f \in StepFaults
AtStep(pc) == move.pc = pc
Go(pc)     == move' = [move EXCEPT !.pc = pc]
Revert     == slot' = [slot EXCEPT !.status = "running"] /\ move' = NoMove
Affected   == move.restart \union move.rebuild

----------------------------------------------------------------------------
(* Where a worktree is                                                     *)

\* detect_worktree_dir_from_git: the one directory all worktrees in the
\* project share.
Detected ==
    LET used == {c.dir : c \in checkouts} \intersect LocalDirs
    IN  IF Cardinality(used) = 1 THEN CHOOSE d \in used : TRUE ELSE NoTree

\* The first directory of worktree_dir, among some, that has the worktree.
Listed(w, among) ==
    LET has == {i \in 1 .. Len(DirOrder) :
                   DirOrder[i] \in among /\ [tree |-> w, dir |-> DirOrder[i]] \in checkouts}
    IN  IF has = {} THEN NoTree ELSE DirOrder[CHOOSE i \in has : \A j \in has : i <= j]

FirstOf(choices) ==
    LET known == {i \in 1 .. Len(choices) : choices[i] # NoTree}
    IN  choices[CHOOSE i \in known : \A j \in known : i <= j]

\* detect_worktree_path, of assign.
AssignDir(w) == FirstOf(<<Detected, Listed(w, LocalDirs), Listed(w, OuterDirs), DirOrder[1]>>)

\* compute_start_mount_src.
StartDir(w) == FirstOf(<<Detected, Listed(w, Dirs), DirOrder[1]>>)

----------------------------------------------------------------------------
(* The services inside                                                     *)

Started(s) == [up |-> TRUE, tree |-> workspace.tree, image |-> image[s]]

\* up --force-recreate, of some services.
Recreate(S) ==
    \/ service' = [s \in Services |-> IF s \in S THEN Started(s) ELSE service[s]]
       /\ UNCHANGED logged
    \/ May("compose") /\ logged' = logged \union {"compose"} /\ UNCHANGED service

----------------------------------------------------------------------------
(* run                                                                     *)

\* provision_instance: the project as it is (the recipe of its own tree is 0),
\* the branch of the host unless git does not tell, /workspace bound to the
\* project, an image of each service built on the host.  Bound: every build
\* succeeds, and the compose file of the artifact then names the image (a
\* service whose image it does not name keeps the one it has for ever).
RunInstance ==
    /\ slot.status = "absent"
    /\ \E strategy \in [Services -> Strategies], recipe \in [Trees -> Recipes],
          branch \in {Root, NoTree} :
          /\ recipe[Root] = 0
          /\ project' = [strategy |-> strategy, recipe |-> recipe]
          /\ slot' = [slot EXCEPT !.branch = branch, !.status = "running"]
    /\ workspace' = TheRoot
    /\ service' = [s \in Services |-> [up |-> TRUE, tree |-> Root, image |-> 0]]
    /\ UNCHANGED <<ondisk, image, move, logged>>

----------------------------------------------------------------------------
(* assign                                                                  *)

\* classify_services: what changes between the branch of the row and the one
\* asked for decides about a service with triggers; without a branch nothing does.
Changed(w) ==
    slot.branch # NoTree /\ project.recipe[slot.branch] # project.recipe[w]

\* MUTANT of Rebuilds: what changes decides for every service.
RebuildsIfChanged(w) ==
    {s \in Services : project.strategy[s] \in {"rebuild", "triggered"} /\ Changed(w)}

Rebuilds(w) ==
    {s \in Services : \/ project.strategy[s] = "rebuild"
                      \/ project.strategy[s] = "triggered" /\ Changed(w)}

Restarts(w) ==
    {s \in Services : project.strategy[s] \in {"restart", "rebuild", "triggered"}} \ Rebuilds(w)

AssignBegin(w, force) ==
    /\ AtStep("free") /\ slot.status = "running"
    /\ slot' = [slot EXCEPT !.status = "assigning"]
    /\ move' = [NoMove EXCEPT !.pc = "check", !.force = force,
                              !.to = [tree |-> w, dir |-> DirOrder[1]]]
    /\ UNCHANGED <<project, ondisk, inside>>

AssignCheckFails ==
    /\ AtStep("check") /\ May("check")
    /\ Revert
    /\ UNCHANGED <<project, ondisk, inside>>

\* discover_and_classify, detect_worktree_path; without a list of services
\* none is classified.
AssignClassify ==
    LET w == move.to.tree
        known == {Services} \union (IF May("services") THEN {{}} ELSE {})
    IN  /\ AtStep("check")
        /\ \E names \in known :
              move' = [move EXCEPT !.pc = "stop", !.listed = names = Services,
                                   !.to.dir = AssignDir(w),
                                   !.restart = Restarts(w) \intersect names,
                                   !.rebuild = Rebuilds(w) \intersect names]
        /\ UNCHANGED <<project, slot, ondisk, inside>>

\* stop_affected_services.
AssignStop ==
    /\ AtStep("stop")
    /\ \/ service' = [s \in Services |->
                         IF s \in Affected THEN [service[s] EXCEPT !.up = FALSE] ELSE service[s]]
       \/ May("compose") /\ UNCHANGED service
    /\ Go("switch")
    /\ UNCHANGED <<project, slot, ondisk, workspace, image, logged>>

\* ensure_worktree_exists: by force where git would rather not.
AssignSwitch ==
    /\ AtStep("switch")
    /\ \/ /\ checkouts' = checkouts \union {move.to}
          /\ Go("sync") /\ UNCHANGED slot
       \/ /\ May("git") /\ move.to \notin checkouts
          /\ Revert /\ UNCHANGED checkouts
    /\ UNCHANGED <<project, marked, filled, inside>>

\* MUTANT of AssignSync: the marker is there before the files are.
MarkFirst ==
    /\ AtStep("sync")
    /\ marked' = marked \union {move.to}
    /\ \/ filled' = filled \union {move.to}
       \/ May("copy") /\ UNCHANGED filled
    /\ Go("mount")
    /\ UNCHANGED <<project, checkouts, slot, inside>>

\* sync_gitignored_files: forced, the marker goes first; it comes when the copy
\* has succeeded, be it of a list that could not be made.
AssignSync ==
    LET c == move.to IN
    /\ AtStep("sync")
    /\ \/ /\ c \in marked /\ ~move.force
          /\ UNCHANGED <<marked, filled>>
       \/ /\ c \notin marked \/ move.force
          /\ \/ marked' = marked \union {c} /\ filled' = filled \union {c}
             \/ May("listing") /\ marked' = marked \union {c} /\ UNCHANGED filled
             \/ May("copy") /\ marked' = marked \ {c} /\ UNCHANGED filled
    /\ Go("mount")
    /\ UNCHANGED <<project, checkouts, slot, inside>>

Unlisted == IF move.listed THEN {} ELSE {"services"}

\* remount_workspace and set_worktree; a failure of the first is logged.
AssignMount ==
    /\ AtStep("mount")
    /\ \/ workspace' = move.to /\ logged' = Unlisted
       \/ May("mount") /\ workspace' = NoMount /\ logged' = {"mount"} \union Unlisted
    /\ slot' = [slot EXCEPT !.worktree = move.to.tree]
    /\ Go("recreate")
    /\ UNCHANGED <<project, ondisk, service, image>>

\* MUTANT of AssignRecreate: services that need not restart are left alone.
RecreateAffected ==
    /\ AtStep("recreate")
    /\ Recreate(Affected)
    /\ Go("build")
    /\ UNCHANGED <<project, slot, ondisk, workspace, image>>

\* recreate_containers: down and up of every service, or a forced up where all
\* are hot or none.
AssignRecreate ==
    /\ AtStep("recreate")
    /\ Recreate(Services)
    /\ Go("build")
    /\ UNCHANGED <<project, slot, ondisk, workspace, image>>

\* build_images, of /workspace; an image that cannot be built is left out.
AssignBuild ==
    /\ AtStep("build")
    /\ \E bad \in SUBSET move.rebuild :
          /\ bad # {} => May("build") \/ workspace = NoMount
          /\ workspace = NoMount => bad = move.rebuild
          /\ logged' = IF bad = {} THEN logged ELSE logged \union {"build"}
          /\ image' = [s \in Services |->
                          IF s \in move.rebuild \ bad
                          THEN project.recipe[workspace.tree] ELSE image[s]]
    /\ Go("start")
    /\ UNCHANGED <<project, slot, ondisk, workspace, service>>

\* start_services: those to rebuild, then those to restart.
AssignStart ==
    /\ AtStep("start")
    /\ Recreate(Affected)
    /\ Go("health")
    /\ UNCHANGED <<project, slot, ondisk, workspace, image>>

\* wait_for_healthy: not asked where nothing was restarted.
AssignHealth ==
    /\ AtStep("health")
    /\ \/ Go("final") /\ UNCHANGED slot
       \/ May("health") /\ Affected # {} /\ Revert
    /\ UNCHANGED <<project, ondisk, inside>>

AssignFinal ==
    /\ AtStep("final")
    /\ slot' = [slot EXCEPT !.branch = move.to.tree, !.status = "running"]
    /\ move' = NoMove
    /\ UNCHANGED <<project, ondisk, inside>>

----------------------------------------------------------------------------
(* unassign, stop, start                                                   *)

UnassignBegin ==
    /\ AtStep("free") /\ slot.status = "running"
    /\ slot' = [slot EXCEPT !.status = "unassigning"]
    /\ move' = [NoMove EXCEPT !.pc = "uncheck", !.to = TheRoot]
    /\ UNCHANGED <<project, ondisk, inside>>

UnassignCheck ==
    /\ AtStep("uncheck")
    /\ \/ Go("unmount") /\ UNCHANGED slot
       \/ May("check") /\ Revert
    /\ UNCHANGED <<project, ondisk, inside>>

UnassignMount ==
    /\ AtStep("unmount")
    /\ \/ workspace' = TheRoot /\ logged' = {}
       \/ May("mount") /\ workspace' = NoMount /\ logged' = {"mount"}
    /\ slot' = [slot EXCEPT !.worktree = NoTree]
    /\ Go("unstart")
    /\ UNCHANGED <<project, ondisk, service, image>>

UnassignRestart ==
    /\ AtStep("unstart")
    /\ Recreate(Services)
    /\ Go("unfinal")
    /\ UNCHANGED <<project, slot, ondisk, workspace, image>>

\* read_host_branch: none where git does not tell.
UnassignFinal ==
    /\ AtStep("unfinal")
    /\ \E b \in {Root, NoTree} :
          slot' = [slot EXCEPT !.branch = b, !.status = "running"]
    /\ move' = NoMove
    /\ UNCHANGED <<project, ondisk, inside>>

\* The container goes down, and its mounts with it.
StopInstance ==
    /\ AtStep("free") /\ slot.status = "running"
    /\ slot' = [slot EXCEPT !.status = "stopped"]
    /\ workspace' = NoMount
    /\ service' = [s \in Services |-> [service[s] EXCEPT !.up = FALSE]]
    /\ UNCHANGED <<project, ondisk, image, move, logged>>

\* The worktree is looked for again, by its name.
StartInstance ==
    LET w == slot.worktree
        c == IF w = NoTree THEN TheRoot ELSE [tree |-> w, dir |-> StartDir(w)]
        m == IF c \in checkouts \union {TheRoot} THEN c ELSE NoMount
    IN  /\ AtStep("free") /\ slot.status = "stopped"
        /\ slot' = [slot EXCEPT !.status = "running"]
        /\ workspace' = m
        /\ service' = [s \in Services |-> [up |-> TRUE, tree |-> m.tree, image |-> image[s]]]
        /\ logged' = logged \ {"mount", "compose"}
        /\ UNCHANGED <<project, ondisk, image, move>>

----------------------------------------------------------------------------
(* The user's git                                                          *)

\* git refuses a second checkout of a branch.
UserAdds(c) ==
    /\ \A d \in Dirs : [c EXCEPT !.dir = d] \notin checkouts
    /\ checkouts' = checkouts \union {c}
    /\ UNCHANGED <<project, slot, inside, marked, filled, move>>

\* Bound: never what the instance has, or is about to have (what becomes of
\* that is the git watcher's business, see InstanceBystanders).
UserRemoves(c) ==
    /\ c.tree \notin {slot.worktree, move.to.tree}
    /\ checkouts' = checkouts \ {c}
    /\ marked' = marked \ {c} /\ filled' = filled \ {c}
    /\ UNCHANGED <<project, slot, inside, move>>

----------------------------------------------------------------------------
AsNext ==
    \/ RunInstance
    \/ \E w \in Branches, force \in BOOLEAN : AssignBegin(w, force)
    \/ AssignCheckFails \/ AssignClassify \/ AssignStop \/ AssignSwitch \/ AssignSync
    \/ AssignMount \/ AssignRecreate \/ AssignBuild \/ AssignStart \/ AssignHealth
    \/ AssignFinal
    \/ UnassignBegin \/ UnassignCheck \/ UnassignMount \/ UnassignRestart \/ UnassignFinal
    \/ StopInstance \/ StartInstance
    \/ \E c \in Checkout \ checkouts : UserAdds(c)
    \/ \E c \in checkouts : UserRemoves(c)

AsSpec == AsInit /\ [][AsNext]_asvars

----------------------------------------------------------------------------
(* Properties.                                                             *)

AtRest == slot.status = "running"

\* FILESYSTEM.md, "the code at /workspace": between requests, also between one
\* that was reported to fail half way and the next, the tree mounted at
\* /workspace is the one the row names, and what runs sees that tree; stop and
\* start find it again.  What assign logs instead of reporting (a mount that
\* fails, compose up) is made good by the next assign, unassign or start.
RunsItsTree ==
    AtRest /\ "mount" \notin logged =>
        /\ workspace.tree = IF slot.worktree = NoTree THEN Root ELSE slot.worktree
        /\ "compose" \notin logged =>
              \A s \in Services : service[s].up => service[s].tree = workspace.tree

\* ASSIGN.md, "rebuild - rebuild the service image and restart": an assigned
\* instance runs images of its tree, however many assigns were reported to
\* fail before; those that were only logged excepted.
AssignedImageFresh ==
    AtRest /\ slot.worktree # NoTree /\ logged = {} =>
        \A s \in Services : project.strategy[s] = "rebuild" /\ service[s].up
            => service[s].image = project.recipe[slot.worktree]

\* gitignored_sync.rs, "Touches the internal sync marker on success": what is
\* skipped later has the files, and so has what an assign has mounted.
MarkedIsFilled == marked \subseteq filled

\* ASSIGN.md, "a service only rebuilds when specific files change": the same
\* of services with triggers.
TriggeredImageFresh ==
    AtRest /\ slot.worktree # NoTree =>
        \A s \in Services : project.strategy[s] = "triggered" /\ service[s].up
            => service[s].image = project.recipe[slot.worktree]

\* WORKTREE_DIR.md: a worktree in an external directory is mounted from there,
\* and not checked out a second time.
OneCheckout == \A c, d \in checkouts : c.tree = d.tree => c = d
=============================================================================
