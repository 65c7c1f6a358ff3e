------------------------- MODULE InstanceLifecycle -------------------------
(***************************************************************************)
(* The life of the instances of one project inside coastd: the rows of the *)
(* state database, the Docker containers behind them, the socat forwarders *)
(* that bind canonical ports, and the requests (run, rm, stop, start,      *)
(* assign, unassign, checkout) that interleave over all three.             *)
(*                                                                         *)
(* A handler is a sequence of critical sections under the database mutex   *)
(* with Docker calls, made without the mutex, between them.  Each critical *)
(* section and each group of Docker calls between two of them is one       *)
(* action; what a handler remembers from an earlier section (the status    *)
(* and the container id it read) is kept in its request record.            *)
(***************************************************************************)
EXTENDS Naturals, SequencesExt

CONSTANTS
    Names,      \* instance names of the project
    Reqs,       \* request slots: the tasks that may serve requests at once
    Ports,      \* canonical ports
    Canonical,  \* Canonical[n]: canonical ports of the build n is made from
    Cids,       \* container ids Docker may hand out
    Entry,      \* entry points in use, a subset of Ops
    Faults,     \* what may go wrong or be asked for: a subset of AllFaults
    None        \* no row, no container id, no owner, nobody

Gated   == {"run", "apiRm", "stop", "start", "assign", "unassign"}
Ungated == {"rm", "apiStop", "apiStart", "checkout", "release", "autoUnassign"}
Ops     == Gated \union Ungated

\* Operations that arrive over HTTP: the server drops the handler's future,
\* at whatever await it is, when the client hangs up.
Http    == {"apiRm", "apiStop", "apiStart", "checkout"}

\* docker: a Docker call fails; inside: what assign or unassign runs inside a
\* healthy container fails; port: a canonical port cannot be bound; force: runs
\* with --force-remove-dangling; crash: coastd dies and restarts; hangup: an
\* HTTP client goes away; contend: a reader of the database (ls, a cache loop)
\* holds its mutex for the instant of a try_lock.
AllFaults == {"docker", "inside", "port", "force", "crash", "hangup", "contend"}

Transitional == {"Enqueued", "Provisioning", "Assigning", "Unassigning",
                 "Starting", "Stopping"}
Status    == Transitional \union {"Running", "Stopped", "Idle", "CheckedOut"}
CanAssign == {"Running", "Idle", "CheckedOut", "Assigning", "Unassigning"}
Row       == [status : Status, cid : Cids \union {None}]

ASSUME ConstantsOK ==
    /\ Canonical \in [Names -> SUBSET Ports]
    /\ Entry \subseteq Ops
    /\ Faults \subseteq AllFaults
    /\ None \notin Names \union Reqs \union Cids \union Ops \union Row

VARIABLES
    row,     \* instances table: name -> Row, or None
    alloc,   \* port_allocations: name -> canonical ports it has a row for
    pid,     \* name -> those of its allocations with a socat_pid recorded
    fwd,     \* live canonical socat: port -> instance it forwards to, or None
    box,     \* Docker: container holding the name {project}-coasts-{name}
    up,      \* whether that container is running
    dbLock,  \* the checkout that keeps the database mutex across an await
    permit,  \* the request that holds the project semaphore's one permit
    waiters, \* the requests waiting for it, first come first served
    req      \* the requests

db    == <<row, alloc, pid>>
boxes == <<box, up>>
sem   == <<permit, waiters>>
vars  == <<row, alloc, pid, fwd, box, up, dbLock, permit, waiters, req>>

Pcs == {"arrived", "waiting",
        "dangling", "insert", "create", "record", "finalize",
        "autoAssign", "cleanBox", "cleanDb",
        "rmQueued", "rmMark", "rmBox", "rmDb", "stopBox", "stopDb",
        "startBox", "startDb", "assignBox", "assignDb", "bind"}

\* A free slot.  seen and cid are what the handler remembers of the row.
Idle == [op |-> None, name |-> None, pc |-> "idle", seen |-> None, cid |-> None]

Request == [op : Ops, name : Names, pc : Pcs,
            seen : Status \union {None}, cid : Cids \union {None}]

TypeOK ==
    /\ row    \in [Names -> Row \union {None}]
    /\ alloc  \in [Names -> SUBSET Ports]
    /\ pid    \in [Names -> SUBSET Ports]
    /\ fwd    \in [Ports -> Names \union {None}]
    /\ box    \in [Names -> Cids \union {None}]
    /\ up     \in [Names -> BOOLEAN]
    /\ dbLock \in Reqs \union {None}
    /\ permit \in Reqs \union {None}
    /\ waiters \in Seq(Reqs)
    /\ req    \in [Reqs -> Request \union {Idle}]

Init ==
    /\ row    = [n \in Names |-> None]
    /\ alloc  = [n \in Names |-> {}]
    /\ pid    = [n \in Names |-> {}]
    /\ fwd    = [p \in Ports |-> None]
    /\ box    = [n \in Names |-> None]
    /\ up     = [n \in Names |-> FALSE]
    /\ dbLock = None
    /\ permit = None
    /\ waiters = <<>>
    /\ req    = [r \in Reqs |-> Idle]

----------------------------------------------------------------------------
(* The database, the forwarders and the containers.                        *)

Exists(n)    == row[n] # None
Is(n, S)     == Exists(n) /\ row[n].status \in S
HasCid(n)    == Exists(n) /\ row[n].cid # None
SetStatus(n, s) == [row EXCEPT ![n].status = s]

\* update_instance_status on a row that may be gone: an error, no change.
TrySetStatus(n, s) == IF Exists(n) THEN SetStatus(n, s) ELSE row

\* delete_instance: ON DELETE CASCADE takes the port allocations along, and
\* with them the recorded pids.  The socat processes are not touched.
DeleteRow(n) ==
    /\ row'   = [row EXCEPT ![n] = None]
    /\ alloc' = [alloc EXCEPT ![n] = {}]
    /\ pid'   = [pid EXCEPT ![n] = {}]

\* The forwarders left once the recorded pids of the instances in S are
\* killed.  A recorded pid whose process is gone kills nothing.
KillRecorded(S) ==
    [p \in Ports |-> IF \E n \in S : fwd[p] = n /\ p \in pid[n]
                     THEN None ELSE fwd[p]]

\* clear_checked_out_state, for an instance known to be checked out.
ClearCheckedOut(n, next) ==
    /\ fwd' = KillRecorded({n})
    /\ pid' = [pid EXCEPT ![n] = {}]
    /\ row' = SetStatus(n, next)
    /\ UNCHANGED alloc

\* docker rm -f by name: whatever container holds the name goes.  The error
\* of a failed removal is dropped everywhere.
RemoveBox(n) ==
    \/ /\ box' = [box EXCEPT ![n] = None]
       /\ up'  = [up EXCEPT ![n] = FALSE]
    \/ "docker" \in Faults /\ UNCHANGED boxes

\* Docker calls addressed to a container id reach it only if it still exists.
Reaches(n, c) == c # None /\ box[n] = c

\* docker exec reaches the inner daemon only of a container that runs.
Healthy(n, c) == Reaches(n, c) /\ up[n]

UsedCids ==
    {box[n] : n \in Names} \union {req[r].cid : r \in Reqs}
        \union {row[n].cid : n \in {m \in Names : Exists(m)}}

\* MUTANT of DbFree: the mutex is not kept across the awaits of a checkout.
DbUnlocked == TRUE

\* The database mutex can be had: nobody keeps it across an await.
DbFree == dbLock = None

\* revert_to_stopped, revert_assign_status, revert_status: after a failure put
\* the status back if the mutex is free at this very instant, else leave it.
Revert(n, status) ==
    \/ DbFree /\ row' = TrySetStatus(n, status)
    \/ (~DbFree \/ "contend" \in Faults) /\ UNCHANGED row

----------------------------------------------------------------------------
(* Requests and the per-project semaphore.                                 *)

Goto(r, pc) == req' = [req EXCEPT ![r].pc = pc]

Remember(r, pc) ==
    LET inst == row[req[r].name] IN
    req' = [req EXCEPT ![r] = [@ EXCEPT !.pc = pc, !.seen = inst.status,
                                        !.cid = inst.cid]]

\* sem.acquire(): the permit if it is free, else a place in the queue.
Acquire(r) ==
    IF permit = None
    THEN permit' = r /\ UNCHANGED waiters
    ELSE waiters' = Append(waiters, r) /\ UNCHANGED permit

\* MUTANT of Release: the wakeup of the first waiter is lost.
ReleaseUnheard ==
    /\ permit' = None
    /\ waiters' = IF waiters = <<>> THEN <<>> ELSE Tail(waiters)

\* A dropped permit goes straight to the first waiter.
Release ==
    IF waiters = <<>>
    THEN permit' = None /\ UNCHANGED waiters
    ELSE permit' = Head(waiters) /\ waiters' = Tail(waiters)

\* The handler returns, and with it the permit.
Finish(r) ==
    /\ req' = [req EXCEPT ![r] = Idle]
    /\ IF req[r].op \in Gated THEN Release ELSE UNCHANGED sem

\* MUTANT of Admitted: the permit is not asked for.
AdmittedAtOnce(r, ops) == req[r].pc = "waiting" /\ req[r].op \in ops

\* r may take the first step of its handler.
Admitted(r, ops) ==
    /\ req[r].pc = "waiting"
    /\ req[r].op \in ops
    /\ req[r].op \in Gated => permit = r

\* A request other than run arrives.  A gated one asks for the permit.
Submit(r, op, n) ==
    /\ req[r].pc = "idle"
    /\ op \in Entry \ {"run"}
    /\ req' = [req EXCEPT ![r] = [Idle EXCEPT !.op = op, !.name = n,
                                              !.pc = "waiting"]]
    /\ IF op \in Gated THEN Acquire(r) ELSE UNCHANGED sem
    /\ UNCHANGED <<db, fwd, boxes, dbLock>>

\* A run request inserts its Enqueued row before it asks for the permit; a
\* row of that name makes the insert fail and the request return at once.
SubmitRun(r, n) ==
    /\ req[r].pc = "idle"
    /\ "run" \in Entry
    /\ DbFree
    /\ ~Exists(n)
    /\ row' = [row EXCEPT ![n] = [status |-> "Enqueued", cid |-> None]]
    /\ req' = [req EXCEPT ![r] = [Idle EXCEPT !.op = "run", !.name = n,
                                              !.pc = "arrived"]]
    /\ UNCHANGED <<alloc, pid, fwd, boxes, dbLock, sem>>

RunJoinQueue(r) ==
    /\ req[r].pc = "arrived"
    /\ Acquire(r)
    /\ Goto(r, "waiting")
    /\ UNCHANGED <<db, fwd, boxes, dbLock>>

----------------------------------------------------------------------------
(* run.  r has the permit from RunCheck to its last step.                  *)

\* still_exists: any row of that name will do, whoever inserted it.
RunCheck(r) ==
    /\ Admitted(r, {"run"})
    /\ DbFree
    /\ IF Exists(req[r].name)
       THEN Goto(r, "dangling") /\ UNCHANGED sem
       ELSE Finish(r)
    /\ UNCHANGED <<db, fwd, boxes, dbLock>>

\* check_dangling_container
RunDangling(r) ==
    LET n == req[r].name IN
    /\ req[r].pc = "dangling"
    /\ \/ box[n] = None /\ Goto(r, "insert") /\ UNCHANGED boxes
       \/ box[n] # None /\ "force" \in Faults /\ Goto(r, "insert") /\ RemoveBox(n)
       \/ box[n] # None /\ Goto(r, "cleanBox") /\ UNCHANGED boxes
    /\ UNCHANGED <<db, fwd, dbLock, sem>>

\* An Enqueued row, or none at all, gives way to a fresh Provisioning row.
RunInsert(r) ==
    LET n == req[r].name IN
    /\ req[r].pc = "insert"
    /\ DbFree
    /\ IF ~Exists(n) \/ Is(n, {"Enqueued"})
       THEN /\ row'   = [row EXCEPT ![n] = [status |-> "Provisioning", cid |-> None]]
            /\ alloc' = [alloc EXCEPT ![n] = {}]
            /\ pid'   = [pid EXCEPT ![n] = {}]
            /\ Goto(r, "create")
       ELSE Goto(r, "cleanBox") /\ UNCHANGED db
    /\ UNCHANGED <<fwd, boxes, dbLock, sem>>

\* create_container and create_and_start: a name conflict or an earlier
\* failure leaves the name alone, a later one leaves the new container behind.
RunCreate(r) ==
    LET n == req[r].name IN
    /\ req[r].pc = "create"
    /\ \/ /\ box[n] = None
          /\ \E c \in Cids \ UsedCids :
                /\ box' = [box EXCEPT ![n] = c]
                /\ \/ /\ up'  = [up EXCEPT ![n] = TRUE]
                      /\ req' = [req EXCEPT ![r].pc = "record", ![r].cid = c]
                   \/ /\ "docker" \in Faults
                      /\ up' \in {up, [up EXCEPT ![n] = TRUE]}
                      /\ req' = [req EXCEPT ![r].pc = "cleanBox", ![r].cid = c]
       \/ /\ box[n] # None \/ "docker" \in Faults
          /\ Goto(r, "cleanBox")
          /\ UNCHANGED boxes
    /\ UNCHANGED <<db, fwd, dbLock, sem>>

\* MUTANT of RunRecord: the container id is not stored.
RunRecordForgets(r) ==
    /\ req[r].pc = "record"
    /\ DbFree
    /\ Goto(r, IF Exists(req[r].name) THEN "finalize" ELSE "cleanBox")
    /\ UNCHANGED <<db, fwd, boxes, dbLock, sem>>

\* The id goes into whatever row has the name by now.
RunRecord(r) ==
    LET n == req[r].name IN
    /\ req[r].pc = "record"
    /\ DbFree
    /\ IF Exists(n)
       THEN row' = [row EXCEPT ![n].cid = req[r].cid] /\ Goto(r, "finalize")
       ELSE Goto(r, "cleanBox") /\ UNCHANGED row
    /\ UNCHANGED <<alloc, pid, fwd, boxes, dbLock, sem>>

\* Loading images or starting services fails, or the container is gone.
RunProvisionFails(r) ==
    /\ req[r].pc = "finalize"
    /\ "docker" \in Faults \/ ~Healthy(req[r].name, req[r].cid)
    /\ Goto(r, "cleanBox")
    /\ UNCHANGED <<db, fwd, boxes, dbLock, sem>>

\* finalize_instance.  The build decides whether the instance has services
\* (Running) or not (Idle), the request whether a worktree is assigned next.
RunFinalize(r) ==
    LET n == req[r].name IN
    /\ req[r].pc = "finalize"
    /\ DbFree
    /\ \/ /\ Exists(n)
          /\ alloc[n] \intersect Canonical[n] = {}
          /\ alloc' = [alloc EXCEPT ![n] = @ \union Canonical[n]]
          /\ \E s \in {"Running", "Idle"} : row' = SetStatus(n, s)
          /\ \/ Finish(r)
             \/ Goto(r, "autoAssign") /\ UNCHANGED sem
       \/ /\ ~Exists(n) \/ alloc[n] \intersect Canonical[n] # {}
          /\ Goto(r, "cleanBox")
          /\ UNCHANGED <<row, alloc, sem>>
    /\ UNCHANGED <<pid, fwd, boxes, dbLock>>

\* cleanup_failed_provision: the container by name, then the row by name.
RunCleanBox(r) ==
    /\ req[r].pc = "cleanBox"
    /\ RemoveBox(req[r].name)
    /\ Goto(r, "cleanDb")
    /\ UNCHANGED <<db, fwd, dbLock, sem>>

\* MUTANT of RunCleanDb: the row of the failed run stays.
RunCleanDbKeepsRow(r) ==
    /\ req[r].pc = "cleanDb"
    /\ DbFree
    /\ Finish(r)
    /\ UNCHANGED <<db, fwd, boxes, dbLock>>

RunCleanDb(r) ==
    /\ req[r].pc = "cleanDb"
    /\ DbFree
    /\ DeleteRow(req[r].name)
    /\ Finish(r)
    /\ UNCHANGED <<fwd, boxes, dbLock>>

----------------------------------------------------------------------------
(* rm.                                                                     *)

RmRead(r) ==
    LET n == req[r].name IN
    /\ Admitted(r, {"rm", "apiRm"})
    /\ DbFree
    /\ IF ~Exists(n)
       THEN Finish(r) /\ RemoveBox(n)   \* a dangling container, if there is one
       ELSE /\ Remember(r, CASE Is(n, {"Enqueued"}) -> "rmQueued"
                             [] Is(n, {"Running", "CheckedOut"}) -> "rmMark"
                             [] OTHER -> "rmBox")
            /\ UNCHANGED <<boxes, sem>>
    /\ UNCHANGED <<db, fwd, dbLock>>

\* The row was Enqueued when it was read; the mutex was given back since.
RmQueued(r) ==
    /\ req[r].pc = "rmQueued"
    /\ DbFree
    /\ DeleteRow(req[r].name)
    /\ Finish(r)
    /\ UNCHANGED <<fwd, boxes, dbLock>>

RmMark(r) ==
    LET n == req[r].name IN
    /\ req[r].pc = "rmMark"
    /\ DbFree
    /\ \/ /\ req[r].seen = "Running"
          /\ row' = TrySetStatus(n, "Stopping")
          /\ Goto(r, "rmBox")
          /\ UNCHANGED <<alloc, pid, fwd, sem>>
       \/ /\ req[r].seen = "CheckedOut" /\ Is(n, {"CheckedOut"})
          /\ ClearCheckedOut(n, "Stopping")
          /\ Goto(r, "rmBox")
          /\ UNCHANGED sem
       \/ /\ req[r].seen = "CheckedOut" /\ Exists(n) /\ ~Is(n, {"CheckedOut"})
          /\ Goto(r, "rmBox")
          /\ UNCHANGED <<db, fwd, sem>>
       \/ /\ req[r].seen = "CheckedOut" /\ ~Exists(n)
          /\ Finish(r)
          /\ UNCHANGED <<db, fwd>>
    /\ UNCHANGED <<boxes, dbLock>>

\* MUTANT of RmBox: the container is stopped but not removed.
RmBoxOnlyStops(r) ==
    /\ req[r].pc = "rmBox"
    /\ up' = [up EXCEPT ![req[r].name] = FALSE]
    /\ Goto(r, "rmDb")
    /\ UNCHANGED <<db, fwd, box, dbLock, sem>>

\* stop and remove the container whose id was read in the first section.
RmBox(r) ==
    LET n == req[r].name IN
    /\ req[r].pc = "rmBox"
    /\ IF Reaches(n, req[r].cid) THEN RemoveBox(n) ELSE UNCHANGED boxes
    /\ Goto(r, "rmDb")
    /\ UNCHANGED <<db, fwd, dbLock, sem>>

\* MUTANT of RmDb: the forwarders are killed but the row stays.
RmDbKeepsRow(r) ==
    /\ req[r].pc = "rmDb"
    /\ DbFree
    /\ fwd' = KillRecorded({req[r].name})
    /\ pid' = [pid EXCEPT ![req[r].name] = {}]
    /\ Finish(r)
    /\ UNCHANGED <<row, alloc, boxes, dbLock>>

RmDb(r) ==
    LET n == req[r].name IN
    /\ req[r].pc = "rmDb"
    /\ DbFree
    /\ fwd' = KillRecorded({n})
    /\ DeleteRow(n)
    /\ Finish(r)
    /\ UNCHANGED <<boxes, dbLock>>

----------------------------------------------------------------------------
(* stop.                                                                   *)

StopBegin(r) ==
    LET n == req[r].name IN
    /\ Admitted(r, {"stop", "apiStop"})
    /\ DbFree
    /\ \/ /\ ~Exists(n) \/ Is(n, {"Stopped", "Provisioning", "Assigning",
                                  "Starting", "Stopping"})
          /\ Finish(r)
          /\ UNCHANGED <<db, fwd>>
       \/ /\ Is(n, {"Enqueued"})
          /\ DeleteRow(n)
          /\ Finish(r)
          /\ UNCHANGED fwd
       \/ /\ Is(n, {"CheckedOut"})
          /\ ClearCheckedOut(n, "Stopping")
          /\ Remember(r, "stopBox")
          /\ UNCHANGED sem
       \/ /\ Is(n, {"Running", "Idle", "Unassigning"})
          /\ row' = SetStatus(n, "Stopping")
          /\ Remember(r, "stopBox")
          /\ UNCHANGED <<alloc, pid, fwd, sem>>
    /\ UNCHANGED <<boxes, dbLock>>

StopBox(r) ==
    LET n == req[r].name IN
    /\ req[r].pc = "stopBox"
    /\ \/ Reaches(n, req[r].cid) /\ up' = [up EXCEPT ![n] = FALSE]
       \/ ~Reaches(n, req[r].cid) /\ UNCHANGED up
       \/ "docker" \in Faults /\ UNCHANGED up
    /\ Goto(r, "stopDb")
    /\ UNCHANGED <<db, fwd, box, dbLock, sem>>

\* MUTANT of StopDb: the final status is not written.
StopDbKeepsStatus(r) ==
    /\ req[r].pc = "stopDb"
    /\ DbFree
    /\ fwd' = KillRecorded({req[r].name})
    /\ pid' = [pid EXCEPT ![req[r].name] = {}]
    /\ Finish(r)
    /\ UNCHANGED <<row, alloc, boxes, dbLock>>

StopDb(r) ==
    LET n == req[r].name IN
    /\ req[r].pc = "stopDb"
    /\ DbFree
    /\ fwd' = KillRecorded({n})
    /\ pid' = [pid EXCEPT ![n] = {}]
    /\ row' = TrySetStatus(n, "Stopped")
    /\ Finish(r)
    /\ UNCHANGED <<alloc, boxes, dbLock>>

----------------------------------------------------------------------------
(* start.                                                                  *)

StartBegin(r) ==
    LET n == req[r].name IN
    /\ Admitted(r, {"start", "apiStart"})
    /\ DbFree
    /\ \/ /\ Is(n, {"Stopped", "Enqueued", "Idle", "Unassigning"})
          /\ row' = SetStatus(n, "Starting")
          /\ Remember(r, "startBox")
          /\ UNCHANGED sem
       \/ /\ ~Is(n, {"Stopped", "Enqueued", "Idle", "Unassigning"})
          /\ Finish(r)
          /\ UNCHANGED row
    /\ UNCHANGED <<alloc, pid, fwd, boxes, dbLock>>

\* Without a container id there is nothing to start, and nothing fails.
StartBox(r) ==
    LET n == req[r].name IN
    /\ req[r].pc = "startBox"
    /\ \/ /\ req[r].cid = None
          /\ Goto(r, "startDb")
          /\ UNCHANGED up
       \/ /\ Reaches(n, req[r].cid)
          /\ up' = [up EXCEPT ![n] = TRUE]
          /\ Goto(r, "startDb")
    /\ UNCHANGED <<db, fwd, box, dbLock, sem>>

StartFails(r) ==
    LET n == req[r].name IN
    /\ req[r].pc = "startBox"
    /\ req[r].cid # None
    /\ \/ ~Reaches(n, req[r].cid) /\ UNCHANGED up
       \/ /\ Reaches(n, req[r].cid) /\ "docker" \in Faults
          /\ up' \in {up, [up EXCEPT ![n] = TRUE]}
    /\ Revert(n, "Stopped")
    /\ Finish(r)
    /\ UNCHANGED <<alloc, pid, fwd, box, dbLock>>

StartDb(r) ==
    /\ req[r].pc = "startDb"
    /\ DbFree
    /\ row' = TrySetStatus(req[r].name, "Running")
    /\ Finish(r)
    /\ UNCHANGED <<alloc, pid, fwd, boxes, dbLock>>

----------------------------------------------------------------------------
(* assign, also as the last step of a run, and unassign.                   *)

\* What assign and unassign leave behind: an Idle instance comes out Running.
After(seen) == IF seen = "Idle" THEN "Running" ELSE seen

AssignBegin(r) ==
    LET n == req[r].name IN
    /\ Admitted(r, {"assign"}) \/ req[r].pc = "autoAssign"
    /\ DbFree
    /\ \/ /\ Is(n, CanAssign) /\ HasCid(n)
          /\ row' = SetStatus(n, "Assigning")
          /\ Remember(r, "assignBox")
          /\ UNCHANGED sem
       \/ /\ ~(Is(n, CanAssign) /\ HasCid(n))
          /\ Finish(r)
          /\ UNCHANGED row
    /\ UNCHANGED <<alloc, pid, fwd, boxes, dbLock>>

\* A missing container id is noticed only after the status has changed.
UnassignBegin(r) ==
    LET n == req[r].name IN
    /\ Admitted(r, {"unassign", "autoUnassign"})
    /\ DbFree
    /\ \/ /\ Is(n, CanAssign)
          /\ row' = SetStatus(n, "Unassigning")
          /\ IF row[n].cid = None
             THEN Finish(r)
             ELSE Remember(r, "assignBox") /\ UNCHANGED sem
       \/ /\ ~Is(n, CanAssign)
          /\ Finish(r)
          /\ UNCHANGED row
    /\ UNCHANGED <<alloc, pid, fwd, boxes, dbLock>>

\* Both then switch the worktree inside the container.
AssignBox(r) ==
    /\ req[r].pc = "assignBox"
    /\ Healthy(req[r].name, req[r].cid)
    /\ Goto(r, "assignDb")
    /\ UNCHANGED <<db, fwd, boxes, dbLock, sem>>

AssignFails(r) ==
    LET n == req[r].name IN
    /\ req[r].pc = "assignBox"
    /\ {"docker", "inside"} \intersect Faults # {} \/ ~Healthy(n, req[r].cid)
    /\ Revert(n, req[r].seen)
    /\ Finish(r)
    /\ UNCHANGED <<alloc, pid, fwd, boxes, dbLock>>

\* update_instance_branch
AssignDb(r) ==
    /\ req[r].pc = "assignDb"
    /\ DbFree
    /\ row' = TrySetStatus(req[r].name, After(req[r].seen))
    /\ Finish(r)
    /\ UNCHANGED <<alloc, pid, fwd, boxes, dbLock>>

----------------------------------------------------------------------------
(* checkout, and checkout --none (release).                                *)

\* MUTANT of CheckedOut: instances that are being assigned count as well.
CheckedOutOrAway == {m \in Names : Is(m, {"CheckedOut", "Assigning"})}

CheckedOut == {m \in Names : Is(m, {"CheckedOut"})}

\* Whatever is checked out is cleared first; only then is the target looked
\* at.  The mutex stays locked while the target's inner daemon is probed.
CheckoutClear(r) ==
    LET n   == req[r].name
        out == CheckedOut
        ok  == req[r].op = "checkout" /\ alloc[n] # {}
                  /\ Is(n, {"Running", "CheckedOut"})
    IN  /\ Admitted(r, {"checkout", "release"})
        /\ DbFree
        /\ fwd' = KillRecorded(out)
        /\ pid' = [m \in Names |-> IF m \in out THEN {} ELSE pid[m]]
        /\ row' = [m \in Names |-> IF m \in out
                                   THEN [row[m] EXCEPT !.status = "Running"]
                                   ELSE row[m]]
        /\ IF ok THEN Remember(r, "bind") /\ dbLock' = r /\ UNCHANGED sem
                 ELSE Finish(r) /\ UNCHANGED dbLock
        /\ UNCHANGED <<alloc, boxes>>

\* MUTANT of CheckoutBind: the ports are taken without checking that the
\* forwarders could bind them.
CheckoutBindUnverified(r) ==
    LET n == req[r].name IN
    /\ req[r].pc = "bind"
    /\ req[r].cid = None \/ Healthy(n, req[r].cid)
    /\ fwd' = [p \in Ports |-> IF p \in alloc[n] THEN n ELSE fwd[p]]
    /\ pid' = [pid EXCEPT ![n] = alloc[n]]
    /\ row' = SetStatus(n, "CheckedOut")
    /\ dbLock' = None
    /\ Finish(r)
    /\ UNCHANGED <<alloc, boxes>>

\* Every canonical port gets its forwarder and the instance owns them all.
CheckoutBind(r) ==
    LET n == req[r].name IN
    /\ req[r].pc = "bind"
    /\ req[r].cid = None \/ Healthy(n, req[r].cid)
    /\ \A p \in alloc[n] : fwd[p] = None
    /\ fwd' = [p \in Ports |-> IF p \in alloc[n] THEN n ELSE fwd[p]]
    /\ pid' = [pid EXCEPT ![n] = alloc[n]]
    /\ row' = SetStatus(n, "CheckedOut")
    /\ dbLock' = None
    /\ Finish(r)
    /\ UNCHANGED <<alloc, boxes>>

\* MUTANT of CheckoutFails: the forwarders that did start are not killed.
CheckoutFailsLeaking(r) ==
    LET n == req[r].name IN
    /\ req[r].pc = "bind"
    /\ "port" \in Faults
    /\ \A p \in alloc[n] : fwd[p] = None
    /\ \E spawned \in (SUBSET alloc[n]) \ {alloc[n]} :
          /\ fwd' = [p \in Ports |-> IF p \in spawned THEN n ELSE fwd[p]]
          /\ pid' = [pid EXCEPT ![n] = @ \ spawned]
    /\ dbLock' = None
    /\ Finish(r)
    /\ UNCHANGED <<row, alloc, boxes>>

\* The probe fails, a port is taken, or some forwarders start and are killed
\* again, their pids cleared, because another did not.
CheckoutFails(r) ==
    LET n == req[r].name IN
    /\ req[r].pc = "bind"
    /\ \/ /\ \/ req[r].cid # None /\ ~Healthy(n, req[r].cid)
             \/ "docker" \in Faults
             \/ \E p \in alloc[n] : fwd[p] # None
          /\ UNCHANGED pid
       \/ /\ "port" \in Faults
          /\ \A p \in alloc[n] : fwd[p] = None
          /\ \E spawned \in (SUBSET alloc[n]) \ {alloc[n]} :
                pid' = [pid EXCEPT ![n] = @ \ spawned]
    /\ dbLock' = None
    /\ Finish(r)
    /\ UNCHANGED <<row, alloc, fwd, boxes>>

----------------------------------------------------------------------------
(* Clients that hang up, and coastd restarting.                            *)

\* The future of an HTTP handler is dropped where it is: its permit, its
\* place in the queue and the mutex are given back, nothing is undone.
Hangup(r) ==
    /\ "hangup" \in Faults
    /\ req[r].pc # "idle" /\ req[r].op \in Http
    /\ req'    = [req EXCEPT ![r] = Idle]
    /\ \/ permit = r /\ Release
       \/ /\ permit # r
          /\ \E i \in DOMAIN waiters :
                waiters[i] = r /\ waiters' = RemoveAt(waiters, i)
          /\ UNCHANGED permit
       \/ permit # r /\ r \notin Range(waiters) /\ UNCHANGED sem
    /\ dbLock' = IF dbLock = r THEN None ELSE dbLock
    /\ UNCHANGED <<db, fwd, boxes>>

\* coastd dies and comes back: requests are gone, the socat processes of the
\* last session are killed, and restore_running_state starts the canonical
\* ones again for the checked out instances whose container still answers.
\* Rows in a transitional status are left as they are.
Restorable(n) == Is(n, {"CheckedOut"}) /\ Healthy(n, row[n].cid)

Restart ==
    /\ "crash" \in Faults
    /\ \E r \in Reqs : req[r].pc # "idle"
    /\ req' = [r \in Reqs |-> Idle]
    /\ permit' = None
    /\ waiters' = <<>>
    /\ dbLock' = None
    /\ \E back \in [Ports -> Names \union {None}] :
          LET Back(n) == {p \in Ports : back[p] = n} IN
          /\ \A n \in Names : Back(n) # {} => Restorable(n) /\ Back(n) \subseteq alloc[n]
          /\ \A p \in Ports : back[p] = None /\ "port" \notin Faults =>
                \A n \in Names : Restorable(n) => p \notin alloc[n]
          /\ fwd' = back
          /\ pid' = [n \in Names |-> pid[n] \union Back(n)]
          /\ row' = [n \in Names |->
                       IF Restorable(n) /\ alloc[n] # {} /\ Back(n) = {}
                       THEN [row[n] EXCEPT !.status = "Running"] ELSE row[n]]
    /\ UNCHANGED <<alloc, boxes>>

----------------------------------------------------------------------------
RunStep(r) ==
    \/ RunJoinQueue(r) \/ RunCheck(r) \/ RunDangling(r) \/ RunInsert(r)
    \/ RunCreate(r) \/ RunRecord(r) \/ RunProvisionFails(r) \/ RunFinalize(r)
    \/ RunCleanBox(r) \/ RunCleanDb(r)

RmStep(r)    == RmRead(r) \/ RmQueued(r) \/ RmMark(r) \/ RmBox(r) \/ RmDb(r)
StopStep(r)  == StopBegin(r) \/ StopBox(r) \/ StopDb(r)
StartStep(r) == StartBegin(r) \/ StartBox(r) \/ StartFails(r) \/ StartDb(r)

AssignStep(r) ==
    \/ AssignBegin(r) \/ UnassignBegin(r)
    \/ AssignBox(r) \/ AssignFails(r) \/ AssignDb(r)

CheckoutStep(r) == CheckoutClear(r) \/ CheckoutBind(r) \/ CheckoutFails(r)

\* A step of the task that serves r.
Step(r) ==
    \/ RunStep(r) \/ RmStep(r) \/ StopStep(r) \/ StartStep(r)
    \/ AssignStep(r) \/ CheckoutStep(r)

Next ==
    \/ \E r \in Reqs :
          \/ \E op \in Entry, n \in Names : Submit(r, op, n)
          \/ \E n \in Names : SubmitRun(r, n)
          \/ Step(r)
          \/ Hangup(r)
    \/ Restart

Spec == Init /\ [][Next]_vars

\* Docker calls return, the semaphore is FIFO and so is the tokio mutex: a task
\* that can go on again and again goes on.
FairSpec == Spec /\ \A r \in Reqs : SF_vars(Step(r))

----------------------------------------------------------------------------
(* Properties.                                                             *)

\* What a request works on once its handler has begun.
Begun(r)     == req[r].pc \notin {"idle", "arrived", "waiting"}
WorksOn(r, n) == req[r].pc # "idle" /\ req[r].name = n

\* project_semaphore: of the operations that take the permit at most one is
\* past its acquire(), and it is the one the permit was given to.
Serialized ==
    \A r \in Reqs : Begun(r) /\ req[r].op \in Gated => permit = r

\* The database mutex: while a checkout probes and binds, the row it has
\* chosen cannot be deleted, because every writer needs the mutex.
TargetHeld ==
    \A r \in Reqs : req[r].pc = "bind" => dbLock = r /\ Exists(req[r].name)

\* assign and unassign go back to, or on from, a status they have read.
StatusSeen ==
    \A r \in Reqs : req[r].pc \in {"assignBox", "assignDb"} => req[r].seen \in Status

\* TypeOK is inductive only together with what the handlers remember.
IInv == TypeOK /\ TargetHeld /\ StatusSeen

\* n has a live, recorded forwarder on every canonical port it has a row for.
Owns(n) == pid[n] = alloc[n] /\ \A p \in alloc[n] : fwd[p] = n

\* checkout, assign and unassign together: whoever is CheckedOut has a live
\* forwarder, recorded, on every canonical port it has an allocation for.
CheckedOutOwnsPorts == \A n \in Names : Is(n, {"CheckedOut"}) => Owns(n)

\* checkout: instances whose builds share a canonical port are never checked
\* out together, whatever assign does to their statuses in between.
OneCheckedOut ==
    \A m, n \in Names :
        /\ m # n
        /\ Is(m, {"CheckedOut"}) /\ Is(n, {"CheckedOut"})
        => Canonical[m] \intersect Canonical[n] = {}

\* Why CheckedOutOwnsPorts and OneCheckedOut hold where every operation but
\* checkout takes the permit and coastd does not crash: an instance that was
\* checked out keeps its forwarders between two worktrees, where no checkout
\* sees it and the permit keeps the other handlers off, and a checkout binds
\* for an instance that stays Running as long as it has the mutex.
OwnInv ==
    /\ CheckedOutOwnsPorts
    /\ \A n \in Names : /\ alloc[n] \in {{}, Canonical[n]}
                        /\ Is(n, {"CheckedOut"}) => alloc[n] # {}
    /\ \A r \in Reqs :
          /\ req[r].pc # "idle" => req[r].op \in Entry
          /\ req[r].op \in {"checkout", "release"} => req[r].pc \in {"waiting", "bind"}
          /\ req[r].pc = "bind" =>
                Is(req[r].name, {"Running"}) /\ alloc[req[r].name] # {}
          /\ req[r].pc \in {"assignBox", "assignDb"} =>
                /\ Is(req[r].name, {"Assigning", "Unassigning"})
                /\ req[r].seen = "CheckedOut" =>
                      Owns(req[r].name) /\ alloc[req[r].name] # {}

\* Every handler: a status that says somebody is at work is never left behind
\* when the last request for that instance has returned.
TransitionalIsOwned ==
    \A n \in Names : Is(n, Transitional) =>
        \E r \in Reqs : WorksOn(r, n) /\ req[r].op \notin {"checkout", "release"}

\* run, rm, stop: an Enqueued row always has a run that will still act on it,
\* however often the name was removed and queued again.
EnqueuedHasRun ==
    \A n \in Names : Is(n, {"Enqueued"}) =>
        \E r \in Reqs :
            /\ WorksOn(r, n) /\ req[r].op = "run"
            /\ req[r].pc \in {"arrived", "waiting", "dangling", "insert",
                              "cleanBox", "cleanDb"}

\* run, rm: no container outlives both its row and the requests for its name.
NoOrphanContainer ==
    \A n \in Names : box[n] # None => Exists(n) \/ \E r \in Reqs : WorksOn(r, n)

\* run, rm: a row nobody works on names a container that is still there.
RecordedContainerExists ==
    \A n \in Names : HasCid(n) =>
        box[n] = row[n].cid \/ \E r \in Reqs : WorksOn(r, n)

\* run, checkout, assign, unassign, restore_running_state: what is shown as
\* up has a recorded container, and that container runs.
LiveInstanceRuns ==
    \A n \in Names : Is(n, {"Running", "Idle", "CheckedOut"}) =>
        Healthy(n, row[n].cid)

\* checkout, restore_running_state: a live canonical socat is recorded as a
\* pid of the instance it serves, so that a later stop or rm can kill it, and
\* that instance is checked out or between two worktrees.
ForwardersAccountedFor ==
    \A p \in Ports : fwd[p] # None =>
        /\ p \in pid[fwd[p]]
        /\ Is(fwd[p], {"CheckedOut", "Assigning", "Unassigning"})

\* The semaphore and the database mutex: every request returns.
RequestsEnd == \A r \in Reqs : req[r].pc # "idle" ~> req[r].pc = "idle"
=============================================================================
