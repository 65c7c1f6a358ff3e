------------------------- MODULE InstanceBystanders -------------------------
(***************************************************************************)
(* Those who act on instances without being asked by a request: coast      *)
(* doctor, which opens the state database from another process and does    *)
(* not know the daemon's mutex or permit; and the git watcher, which       *)
(* unassigns an instance whose worktree was deleted, some time after it    *)
(* has noticed.  Composed with the handlers of InstanceLifecycle: each of  *)
(* their steps is one of this module, with what it does to the worktrees.  *)
(***************************************************************************)
EXTENDS InstanceLifecycle, FiniteSets

CONSTANTS
    Worktrees,  \* worktree directories
    Bystanders  \* who is about: a subset of {"doctor", "watcher"}

VARIABLES
    wt,      \* worktree_name of each row
    disk,    \* the worktree directories that exist
    listing, \* what the watcher saw last, None before its first look
    booted,  \* whether reconcile_orphaned_worktrees has run since the start
    helper,  \* auto_unassign_with_recovery tasks, by the slot they work in
    doc      \* coast doctor

trees == <<wt, disk>>
watch == <<listing, booted, helper>>
bvars == <<vars, trees, watch, doc>>

\* sleep: the two seconds; first, second: the attempts; stop, boot: between
\* them, the restart of the container.
HelperStage == {"none", "sleep", "first", "restart", "stop", "boot", "again", "second"}
NoHelper    == [stage |-> "none", name |-> None, cid |-> None]

\* rows: the rows read at the start; dels: those found orphaned; pids: the
\* recorded forwarders found stale; boxes: the containers listed.  No state of
\* the program are alone, nobody else has moved since the doctor came, and
\* meddled, a doctor has deleted a row although somebody had, or coastd went
\* down while the watcher had a container down.
DoctorPcs == {"idle", "rows", "del", "pids", "clear", "list", "boxes", "end"}
NoDoctor  == [pc |-> "idle", rows |-> {}, n |-> None, pids |-> {}, boxes |-> {},
              alone |-> FALSE, meddled |-> FALSE]

BInit ==
    /\ Init
    /\ wt      = [n \in Names |-> None]
    /\ disk    = {}
    /\ listing = None
    /\ booted  = TRUE
    /\ helper  = [r \in Reqs |-> NoHelper]
    /\ doc     = NoDoctor

BTypeOK ==
    /\ wt \in [Names -> Worktrees \union {None}]
    /\ disk \subseteq Worktrees
    /\ listing = None \/ listing \subseteq Worktrees
    /\ booted \in BOOLEAN
    /\ helper \in [Reqs -> [stage : HelperStage, name : Names \union {None},
                            cid : Cids \union {None}]]
    /\ \A r \in Reqs : helper[r].stage = "none" => helper[r] = NoHelper
    /\ \A n \in Names : wt[n] # None => Exists(n)
    /\ doc.pc \in DoctorPcs /\ {doc.alone, doc.meddled} \subseteq BOOLEAN
    /\ doc.n \in Names \union {None}

----------------------------------------------------------------------------
(* What the handlers' steps do besides.                                    *)

Assigned(n) ==
    \E r \in Reqs : /\ req[r].pc = "assignDb" /\ req'[r].pc = "idle"
                    /\ req[r].name = n /\ req[r].op \in {"assign", "run"}

Unassigned(n) ==
    \E r \in Reqs : /\ req[r].pc = "assignBox" /\ req'[r].pc = "assignDb"
                    /\ req[r].name = n /\ req[r].op \in {"unassign", "autoUnassign"}

\* set_worktree, update_instance_branch.  assign creates its worktree if it
\* is not there; unassign leaves it alone.
WorktreesFollow ==
    \E w \in Worktrees :
        /\ wt' = [n \in Names |-> IF row'[n] = None \/ Unassigned(n) THEN None
                                  ELSE IF Assigned(n) THEN w ELSE wt[n]]
        /\ disk' = IF \E n \in Names : Assigned(n) THEN disk \union {w} ELSE disk

\* An attempt of a helper has returned: Ok only if it got to the end.
HelpersFollow ==
    helper' = [r \in Reqs |->
        IF helper[r].stage \in {"first", "second"} /\ req'[r].pc = "idle"
        THEN IF helper[r].stage = "first"
                /\ ~(req[r].pc = "assignDb" /\ Exists(req[r].name))
             THEN [helper[r] EXCEPT !.stage = "restart"]
             ELSE NoHelper
        ELSE helper[r]]

Disturb == doc' = [doc EXCEPT !.alone = FALSE]

Handlers ==
    /\ \E r \in Reqs :
          \/ /\ helper[r].stage = "none"
             /\ \/ \E op \in Entry, n \in Names : Submit(r, op, n)
                \/ \E n \in Names : SubmitRun(r, n)
          \/ Step(r)
          \/ Hangup(r)
    /\ WorktreesFollow
    /\ HelpersFollow
    /\ Disturb
    /\ UNCHANGED <<listing, booted>>

\* The daemon's own tasks are gone with it, the doctor is not.
Reboot ==
    /\ Restart
    /\ listing' = None
    /\ booted'  = FALSE
    /\ helper'  = [r \in Reqs |-> NoHelper]
    /\ doc' = [doc EXCEPT !.alone = FALSE,
                          !.meddled = @ \/ \E r \in Reqs : helper[r].stage = "boot"]
    /\ UNCHANGED trees

----------------------------------------------------------------------------
(* The git watcher.                                                        *)

DeleteWorktree(w) ==
    /\ w \in disk
    /\ disk' = disk \ {w}
    /\ Disturb
    /\ UNCHANGED <<vars, wt, watch>>

\* find_orphaned_worktrees: those checked out or half assigned do not count.
Orphans(seen) ==
    {n \in Names : Is(n, {"Running", "Idle"}) /\ wt[n] # None /\ wt[n] \notin seen}

Free(r) == req[r].pc = "idle" /\ helper[r].stage = "none"

\* One task for every orphan.
Spawn(S) ==
    \E slot \in [S -> {r \in Reqs : Free(r)}] :
        /\ \A m, n \in S : m # n => slot[m] # slot[n]
        /\ helper' = [r \in Reqs |->
             IF \E n \in S : slot[n] = r
             THEN [stage |-> "sleep", cid |-> None, name |-> CHOOSE n \in S : slot[n] = r]
             ELSE helper[r]]

\* A tick of spawn_git_watcher; without the mutex it does nothing.  The second
\* try_lock, once the listing has changed, may fail: the listing is stored.
Tick ==
    /\ "watcher" \in Bystanders
    /\ DbFree
    /\ listing' = IF \E n \in Names : Exists(n) THEN disk ELSE None
    /\ listing' # listing
    /\ \/ None \notin {listing, listing'} /\ Spawn(Orphans(disk))
       \/ None \in {listing, listing'} /\ UNCHANGED helper
       \/ "contend" \in Faults /\ UNCHANGED helper
    /\ Disturb
    /\ UNCHANGED <<vars, trees, booted>>

\* reconcile_orphaned_worktrees, once after a start.
StartupScan ==
    /\ "watcher" \in Bystanders
    /\ ~booted
    /\ booted' = TRUE
    /\ Spawn(Orphans(disk))
    /\ Disturb
    /\ UNCHANGED <<vars, trees, listing>>

HelperTo(r, stage) == helper' = [helper EXCEPT ![r].stage = stage]

HelperGone(r) == helper' = [helper EXCEPT ![r] = NoHelper]

\* try_unassign: the handler, called without permit or update guard.
Attempt(r) ==
    /\ helper[r].stage \in {"sleep", "again"}
    /\ req' = [req EXCEPT ![r] = [Idle EXCEPT !.op = "autoUnassign",
                                    !.name = helper[r].name, !.pc = "waiting"]]
    /\ HelperTo(r, IF helper[r].stage = "sleep" THEN "first" ELSE "second")
    /\ UNCHANGED <<db, fwd, boxes, dbLock, sem>>

\* restart_container_for_recovery: the id is read, ...
Recover(r) ==
    LET n == helper[r].name IN
    /\ helper[r].stage = "restart"
    /\ IF DbFree /\ HasCid(n)
       THEN helper' = [helper EXCEPT ![r].stage = "stop", ![r].cid = row[n].cid]
       ELSE HelperGone(r)
    /\ UNCHANGED vars

\* ... the container stopped, which may fail, ...
RecoverStop(r) ==
    LET n == helper[r].name IN
    /\ helper[r].stage = "stop"
    /\ \/ Reaches(n, helper[r].cid) /\ up' = [up EXCEPT ![n] = FALSE]
       \/ (~Reaches(n, helper[r].cid) \/ "docker" \in Faults) /\ UNCHANGED up
    /\ HelperTo(r, "boot")
    /\ UNCHANGED <<db, fwd, box, dbLock, sem, req>>

\* MUTANT of RecoverBoot: the inner daemon is waited for without a start.
RecoverNoBoot(r) ==
    /\ helper[r].stage = "boot"
    /\ HelperGone(r)
    /\ UNCHANGED vars

\* ... and started again, whatever its instance's status is by now.
RecoverBoot(r) ==
    LET n == helper[r].name IN
    /\ helper[r].stage = "boot"
    /\ \/ Reaches(n, helper[r].cid) /\ up' = [up EXCEPT ![n] = TRUE] /\ HelperTo(r, "again")
       \/ (~Reaches(n, helper[r].cid) \/ "docker" \in Faults) /\ UNCHANGED up /\ HelperGone(r)
    /\ UNCHANGED <<db, fwd, box, dbLock, sem, req>>

Helpers ==
    /\ \E r \in Reqs : Attempt(r) \/ Recover(r) \/ RecoverStop(r) \/ RecoverBoot(r)
    /\ Disturb
    /\ UNCHANGED <<trees, listing, booted>>

----------------------------------------------------------------------------
(* coast doctor.  It is not run while a checkout binds (see README).       *)

Calm == \A r \in Reqs : req[r].pc # "bind"

DoctorOnly == UNCHANGED <<fwd, boxes, dbLock, sem, req, disk, watch>>

\* All rows are read at once, with what the checks below depend on.
DoctorComes ==
    /\ "doctor" \in Bystanders
    /\ doc.pc = "idle"
    /\ doc' = [doc EXCEPT
                 !.pc = "rows",
                 !.rows = {[name |-> n, cid |-> row[n].cid, stopped |-> Is(n, {"Stopped"})]
                              : n \in {m \in Names : Exists(m)}},
                 !.alone = \A r \in Reqs : Free(r)]
    /\ UNCHANGED <<db, wt>> /\ DoctorOnly

\* One of them.  Docker not answering counts as a missing container.
DoctorRow ==
    /\ doc.pc = "rows"
    /\ \E e \in doc.rows :
          LET keep == IF e.cid = None THEN e.stopped ELSE Reaches(e.name, e.cid)
              rest == [doc EXCEPT !.rows = @ \ {e}]
          IN  \/ keep /\ doc' = rest
              \/ /\ ~keep \/ (e.cid # None /\ "docker" \in Faults)
                 /\ doc' = [rest EXCEPT !.pc = "del", !.n = e.name]
    /\ UNCHANGED <<db, wt>> /\ DoctorOnly

\* MUTANT of DoctorDelete: only the port allocations are deleted.
DoctorDeletesPorts ==
    /\ doc.pc = "del" /\ Calm
    /\ alloc' = [alloc EXCEPT ![doc.n] = {}]
    /\ pid'   = [pid EXCEPT ![doc.n] = {}]
    /\ doc'   = [doc EXCEPT !.pc = "rows", !.n = None]
    /\ UNCHANGED <<row, fwd, boxes, dbLock, sem, req, trees, watch>>

\* Its forwarders are killed, its row deleted, whatever it says by now.
DoctorDelete ==
    /\ doc.pc = "del" /\ Calm
    /\ fwd' = KillRecorded({doc.n})
    /\ DeleteRow(doc.n)
    /\ wt'  = [wt EXCEPT ![doc.n] = None]
    /\ doc' = [doc EXCEPT !.pc = "rows", !.n = None, !.meddled = @ \/ ~doc.alone]
    /\ UNCHANGED <<boxes, dbLock, sem, req, disk, watch>>

\* find_stale_checkout_rows
DoctorReadsPids ==
    /\ doc.pc = "rows" /\ doc.rows = {}
    /\ doc' = [doc EXCEPT !.pc = "clear",
                 !.pids = {e \in [name : Names, port : Ports, out : BOOLEAN] :
                              /\ e.port \in pid[e.name]
                              /\ ~Is(e.name, {"CheckedOut"}) \/ fwd[e.port] # e.name
                              /\ e.out <=> Is(e.name, {"CheckedOut"})}]
    /\ UNCHANGED <<db, wt>> /\ DoctorOnly

\* repair_stale_checkout_rows, repair_checked_out_instances_without_ports
DoctorClears ==
    LET gone(n) == {p \in Ports : \E e \in doc.pids : e.name = n /\ e.port = p}
        lost(n) == \E e \in doc.pids : e.name = n /\ e.out
    IN  /\ doc.pc = "clear" /\ Calm
        /\ fwd' = [p \in Ports |-> IF fwd[p] # None /\ p \in gone(fwd[p]) THEN None ELSE fwd[p]]
        /\ pid' = [n \in Names |-> pid[n] \ gone(n)]
        /\ row' = [n \in Names |->
                     IF Exists(n) /\ (lost(n) \/ (Is(n, {"CheckedOut"}) /\ alloc[n] = {}))
                     THEN [row[n] EXCEPT !.status = "Running"] ELSE row[n]]
        /\ doc' = [doc EXCEPT !.pc = "list", !.pids = {}]
        /\ UNCHANGED <<alloc, boxes, dbLock, sem, req, trees, watch>>

DoctorLists ==
    /\ doc.pc = "list"
    /\ doc' = [doc EXCEPT !.pc = "boxes", !.boxes = {n \in Names : box[n] # None}]
    /\ UNCHANGED <<db, wt>> /\ DoctorOnly

\* A listed container without a row by that name is removed.
DoctorRemoves ==
    /\ doc.pc = "boxes"
    /\ \E n \in doc.boxes :
          /\ IF Exists(n) THEN UNCHANGED boxes ELSE RemoveBox(n)
          /\ doc' = [doc EXCEPT !.boxes = @ \ {n}]
    /\ UNCHANGED <<db, fwd, dbLock, sem, req, trees, watch>>

DoctorLeaves ==
    /\ doc.pc = "boxes" /\ doc.boxes = {}
    /\ doc' = [NoDoctor EXCEPT !.meddled = doc.meddled]
    /\ UNCHANGED <<db, wt>> /\ DoctorOnly

Doctor ==
    \/ DoctorComes \/ DoctorRow \/ DoctorDelete \/ DoctorReadsPids
    \/ DoctorClears \/ DoctorLists \/ DoctorRemoves \/ DoctorLeaves

----------------------------------------------------------------------------
BNext ==
    \/ Handlers
    \/ Reboot
    \/ \E w \in Worktrees : DeleteWorktree(w)
    \/ Tick \/ StartupScan \/ Helpers
    \/ Doctor

BSpec == BInit /\ [][BNext]_bvars

----------------------------------------------------------------------------
(* Properties.                                                             *)

\* Row and container of n tell the same story.
Coherent(n) ==
    /\ box[n] # None => Exists(n)
    /\ HasCid(n) => box[n] = row[n].cid
    /\ Exists(n) /\ ~HasCid(n) => Is(n, {"Stopped"})

\* coast doctor: whatever crashes, hangups and failed handlers have left, a
\* doctor nobody gets in the way of leaves only rows with a container and
\* containers with a row and, if no doctor has meddled, no forwarder of an
\* instance that has no row.
DoctorHeals ==
    [][DoctorLeaves /\ doc.alone =>
          /\ \A n \in Names : Coherent(n)
          /\ ~doc.meddled => \A p \in Ports : fwd[p] # None => Exists(fwd[p])]_bvars

\* restart_container_for_recovery, doctor: unless a doctor has deleted rows
\* others were working on or coastd died in the middle of a recovery, what is
\* shown as up runs, or the watcher is about to start it again.
LiveOrBeingRestarted ==
    doc.meddled \/ \A n \in Names : Is(n, {"Running", "Idle", "CheckedOut"}) =>
        \/ Healthy(n, row[n].cid)
        \/ \E r \in Reqs : helper[r].stage = "boot" /\ helper[r].name = n

\* git watcher: "When a worktree directory is deleted while an instance is
\* still assigned to it, the watcher automatically triggers an unassign": once
\* it has seen the directory gone, somebody is at work on the instance.
OrphansAreNoticed ==
    listing = disk /\ booted =>
        \A n \in Orphans(disk) :
            \E r \in Reqs : helper[r].name = n \/ WorksOn(r, n)

\* doctor.rs: "Scans the state DB for instances whose Docker containers no
\* longer exist ... and removes the orphaned records", and no others.
DoctorSparesLive == [][DoctorDelete => ~Is(doc.n, {"Running", "Idle", "CheckedOut"})]_bvars
=============================================================================
