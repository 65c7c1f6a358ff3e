--------------------------- MODULE SharedServices ---------------------------
(***************************************************************************)
(* The services of one project that all its instances share: containers on *)
(* the host's own Docker, a row for each in the state database, and the    *)
(* cached listing.  A run makes sure of them before it creates its         *)
(* container, under the project's permit; stop, start, restart, rm,        *)
(* archive and the reconciliation before an update take no permit.  Every  *)
(* handler touches the row in one critical section and Docker in another   *)
(* step.                                                                   *)
(***************************************************************************)
CONSTANTS
    Svcs,      \* shared services of the Coastfile
    Tasks,     \* slots for requests, and for the loop that warms the cache
    SvcEntry,  \* entry points in use, a subset of SvcOps
    SvcFaults, \* a subset of AllSvcFaults
    NoSvc

\* prepare: reconcile_shared_service_records; loop: shared_services_cache_loop.
SvcOps == {"run", "stop", "start", "restart", "rm", "archive", "unarchive",
           "prepare", "ps", "loop"}

\* docker: a call to Docker fails and changes nothing; vanish: a container is
\* removed behind coastd's back.
AllSvcFaults == {"docker", "vanish"}

ASSUME SvcConstantsOK ==
    SvcEntry \subseteq SvcOps /\ SvcFaults \subseteq AllSvcFaults /\ NoSvc \notin Svcs

VARIABLES
    rec,      \* shared_services: "none" where there is no row, else the status
    known,    \* the services whose row has a container id
    sbox,     \* the container {project}-shared-services-{service}
    archived, \* the project's archived flag
    cache,    \* the cached listing: what it says, and whether it is fresh
    task,     \* the requests
    crossed   \* whether an rm has ever met another request (no state of coastd)

svcvars == <<rec, known, sbox, archived, cache, task, crossed>>

RowStatus == {"none", "running", "stopped"}
Listing   == [Svcs -> RowStatus \union {"exited"}]
Nothing   == [s \in Svcs |-> "none"]

\* todo: the services still to be seen to; svc: the one it is at.
NoTask == [op |-> "none", pc |-> "idle", todo |-> {}, svc |-> NoSvc, says |-> Nothing]

SvcPcs == {"idle", "list", "next", "act", "write", "inspect", "stopOld",
           "removeOld", "create", "launch", "record", "rmRead", "rmBox",
           "rmRow", "count", "flag", "rows", "ask", "store"}

Task == [op : SvcOps \union {"none"}, pc : SvcPcs, todo : SUBSET Svcs,
         svc : Svcs \union {NoSvc}, says : Listing]

SvcTypeOK ==
    /\ rec   \in [Svcs -> RowStatus]
    /\ known \subseteq Svcs
    /\ sbox  \in [Svcs -> {"none", "down", "up"}]
    /\ archived \in BOOLEAN
    /\ cache \in [says : Listing, fresh : BOOLEAN]
    /\ task  \in [Tasks -> Task]
    /\ crossed \in BOOLEAN

SvcInit ==
    /\ rec   = Nothing
    /\ known = {}
    /\ sbox  = Nothing
    /\ archived = FALSE
    /\ cache = [says |-> Nothing, fresh |-> FALSE]
    /\ task  = [t \in Tasks |-> NoTask]
    /\ crossed = FALSE

Recorded == {s \in Svcs : rec[s] # "none"}
Docker   == "docker" \in SvcFaults
At(t, pc) == task[t].pc = pc
To(t, pc) == task' = [task EXCEPT ![t].pc = pc]
End(t)    == task' = [task EXCEPT ![t] = NoTask]

----------------------------------------------------------------------------
\* A request arrives.  Stop, start and restart name a service or mean all of
\* them; one run at a time has the project's permit.
Request(t, op) ==
    LET Begin(pc, todo, s) ==
            task' = [task EXCEPT ![t] = [NoTask EXCEPT !.op = op, !.pc = pc,
                                                       !.todo = todo, !.svc = s]]
    IN  /\ At(t, "idle")
        /\ op \in SvcEntry
        /\ \/ /\ op = "run"
              /\ \A u \in Tasks : task[u].op # "run"
              /\ Begin("next", Svcs, NoSvc)
           \/ /\ op \in {"stop", "start", "restart"}
              /\ Begin("list", {}, NoSvc) \/ \E s \in Svcs : Begin("next", {s}, NoSvc)
           \/ /\ op = "rm"
              /\ \E s \in Svcs : Begin("rmRead", {}, s)
           \/ op = "archive" /\ Begin("count", {}, NoSvc)
           \/ op = "prepare" /\ Begin("list", {}, NoSvc)
           \/ op = "ps" /\ ~cache.fresh /\ Begin("rows", {}, NoSvc)
           \/ op = "loop" /\ (\E s \in Svcs : rec[s] = "running") /\ Begin("rows", {}, NoSvc)
        /\ UNCHANGED <<rec, known, sbox, archived, cache>>

Unarchive ==
    /\ "unarchive" \in SvcEntry
    /\ archived
    /\ archived' = FALSE
    /\ UNCHANGED <<rec, known, sbox, cache, task>>

\* all_service_names; prepare looks only at the rows that say running.
List(t) ==
    /\ At(t, "list")
    /\ task' = [task EXCEPT ![t].pc = "next",
                            ![t].todo = IF task[t].op = "prepare"
                                        THEN {s \in Svcs : rec[s] = "running"}
                                        ELSE Recorded]
    /\ UNCHANGED <<rec, known, sbox, archived, cache>>

\* The next service.  A run recreates it unless its row says running; stop,
\* start and restart pass over one that has no row.
Pick(t) ==
    /\ At(t, "next")
    /\ \E s \in task[t].todo :
          task' = [task EXCEPT ![t].todo = @ \ {s}, ![t].svc = s,
                     ![t].pc = CASE task[t].op = "prepare" -> "inspect"
                                 [] task[t].op = "run" /\ rec[s] = "running" -> "inspect"
                                 [] task[t].op = "run" -> "stopOld"
                                 [] OTHER -> IF rec[s] = "none" THEN "next" ELSE "act"]
    /\ UNCHANGED <<rec, known, sbox, archived, cache>>

NoneLeft(t) ==
    /\ At(t, "next")
    /\ task[t].todo = {}
    /\ IF task[t].op = "archive" THEN To(t, "flag") ELSE End(t)
    /\ UNCHANGED <<rec, known, sbox, archived, cache>>

----------------------------------------------------------------------------
(* stop_one, start_one, restart_one: Docker first, the row afterwards.     *)

Act(t) ==
    LET s    == task[t].svc
        Stop == task[t].op \in {"stop", "archive"}
    IN  /\ At(t, "act")
        /\ \/ Stop /\ sbox[s] = "up" /\ sbox' = [sbox EXCEPT ![s] = "down"] /\ To(t, "write")
           \/ Stop /\ sbox[s] # "up" /\ UNCHANGED sbox /\ To(t, "write")
           \/ ~Stop /\ sbox[s] # "none" /\ sbox' = [sbox EXCEPT ![s] = "up"] /\ To(t, "write")
           \/ Docker /\ UNCHANGED sbox /\ To(t, "next")
           \/ ~Stop /\ sbox[s] = "none" /\ UNCHANGED sbox /\ To(t, "next")
        /\ UNCHANGED <<rec, known, archived, cache>>

\* The row may be gone by now: an error that is dropped.
Write(t) ==
    LET s == task[t].svc IN
    /\ At(t, "write")
    /\ IF rec[s] = "none" THEN UNCHANGED rec
       ELSE rec' = [rec EXCEPT ![s] = IF task[t].op \in {"start", "restart"}
                                      THEN "running" ELSE "stopped"]
    /\ known' = IF task[t].op = "prepare" THEN known \ {s} ELSE known
    /\ To(t, "next")
    /\ UNCHANGED <<sbox, archived, cache>>

----------------------------------------------------------------------------
(* start_or_reuse_shared_service, and the check of prepare.                *)

\* Any container of that name counts, running or not; no answer counts as none.
Inspect(t) ==
    /\ At(t, "inspect")
    /\ \/ sbox[task[t].svc] # "none" /\ To(t, "next")
       \/ /\ sbox[task[t].svc] = "none" \/ Docker
          /\ To(t, IF task[t].op = "run" THEN "stopOld" ELSE "write")
    /\ UNCHANGED <<rec, known, sbox, archived, cache>>

StopOld(t) ==
    LET s == task[t].svc IN
    /\ At(t, "stopOld")
    /\ \/ sbox' = [sbox EXCEPT ![s] = IF @ = "up" THEN "down" ELSE @]
       \/ Docker /\ UNCHANGED sbox
    /\ To(t, "removeOld")
    /\ UNCHANGED <<rec, known, archived, cache>>

\* Without force: a container that was started meanwhile is not removed.
RemoveOld(t) ==
    LET s == task[t].svc IN
    /\ At(t, "removeOld")
    /\ \/ sbox' = [sbox EXCEPT ![s] = IF @ = "down" THEN "none" ELSE @]
       \/ Docker /\ UNCHANGED sbox
    /\ To(t, "create")
    /\ UNCHANGED <<rec, known, archived, cache>>

\* Taken name or failure: the run ends here, as it does in Launch.
Create(t) ==
    LET s == task[t].svc IN
    /\ At(t, "create")
    /\ \/ sbox[s] = "none" /\ sbox' = [sbox EXCEPT ![s] = "down"] /\ To(t, "launch")
       \/ (sbox[s] # "none" \/ Docker) /\ UNCHANGED sbox /\ End(t)
    /\ UNCHANGED <<rec, known, archived, cache>>

Launch(t) ==
    LET s == task[t].svc IN
    /\ At(t, "launch")
    /\ \/ sbox[s] # "none" /\ sbox' = [sbox EXCEPT ![s] = "up"] /\ To(t, "record")
       \/ (sbox[s] = "none" \/ Docker) /\ UNCHANGED sbox /\ End(t)
    /\ UNCHANGED <<rec, known, archived, cache>>

\* INSERT: where a row is left, whatever it says, it stays as it is.
Record(t) ==
    LET s == task[t].svc IN
    /\ At(t, "record")
    /\ IF rec[s] = "none"
       THEN rec' = [rec EXCEPT ![s] = "running"] /\ known' = known \union {s}
       ELSE UNCHANGED <<rec, known>>
    /\ To(t, "next")
    /\ UNCHANGED <<sbox, archived, cache>>

----------------------------------------------------------------------------
(* rm, and archive.                                                        *)

RmReadRow(t) ==
    LET s == task[t].svc IN
    /\ At(t, "rmRead")
    /\ \/ rec[s] # "none" /\ To(t, IF s \in known THEN "rmBox" ELSE "rmRow") /\ UNCHANGED sbox
       \/ rec[s] = "none" /\ sbox' = [sbox EXCEPT ![s] = "none"] /\ End(t)
       \/ rec[s] = "none" /\ Docker /\ UNCHANGED sbox /\ End(t)
    /\ UNCHANGED <<rec, known, archived, cache>>

RmContainer(t) ==
    /\ At(t, "rmBox")
    /\ \/ sbox' = [sbox EXCEPT ![task[t].svc] = "none"]
       \/ Docker /\ UNCHANGED sbox
    /\ To(t, "rmRow")
    /\ UNCHANGED <<rec, known, archived, cache>>

\* MUTANT of RmRow: the row is kept as stopped.
RmRowKept(t) ==
    /\ At(t, "rmRow")
    /\ UNCHANGED rec
    /\ End(t)
    /\ UNCHANGED <<known, sbox, archived, cache>>

RmRow(t) ==
    LET s == task[t].svc IN
    /\ At(t, "rmRow")
    /\ rec'   = [rec EXCEPT ![s] = "none"]
    /\ known' = known \ {s}
    /\ End(t)
    /\ UNCHANGED <<sbox, archived, cache>>

\* running_shared_services_for_project: nothing is stopped if no row says
\* running, everything that has a row otherwise.
Count(t) ==
    /\ At(t, "count")
    /\ To(t, IF \E s \in Svcs : rec[s] = "running" THEN "list" ELSE "flag")
    /\ UNCHANGED <<rec, known, sbox, archived, cache>>

Flag(t) ==
    /\ At(t, "flag")
    /\ archived' = TRUE
    /\ End(t)
    /\ UNCHANGED <<rec, known, sbox, cache>>

----------------------------------------------------------------------------
(* ps and the cache.                                                       *)

\* What a listing says of a service whose row has this status.
Says(s, status, named) ==
    CASE status = "none" -> "none"
      [] named /\ sbox[s] = "up" -> "running"
      [] named /\ sbox[s] = "down" -> "exited"
      [] OTHER -> status

\* fetch_shared_services: the rows under the lock, ...
ReadRows(t) ==
    /\ At(t, "rows")
    /\ task' = [task EXCEPT ![t].pc = "ask", ![t].says = rec, ![t].todo = known]
    /\ UNCHANGED <<rec, known, sbox, archived, cache>>

\* ... then the containers, ...
AskDocker(t) ==
    /\ At(t, "ask")
    /\ task' = [task EXCEPT ![t].pc = "store", ![t].todo = {},
                  ![t].says = [s \in Svcs |-> Says(s, task[t].says[s], s \in task[t].todo)]]
    /\ UNCHANGED <<rec, known, sbox, archived, cache>>

\* ... and the answer is fresh from the moment it is stored.
Store(t) ==
    /\ At(t, "store")
    /\ cache' = [says |-> task[t].says, fresh |-> TRUE]
    /\ End(t)
    /\ UNCHANGED <<rec, known, sbox, archived>>

\* MUTANT of Expire: an answer is fresh for ever.
NeverExpire == FALSE /\ UNCHANGED svcvars

\* CACHE_FRESH_SECS have passed.
Expire ==
    /\ cache.fresh
    /\ cache' = [cache EXCEPT !.fresh = FALSE]
    /\ UNCHANGED <<rec, known, sbox, archived, task>>

Vanish(s) ==
    /\ "vanish" \in SvcFaults
    /\ sbox[s] # "none"
    /\ sbox' = [sbox EXCEPT ![s] = "none"]
    /\ UNCHANGED <<rec, known, archived, cache, task>>

----------------------------------------------------------------------------
TaskStep(t) ==
    \/ List(t) \/ Pick(t) \/ NoneLeft(t) \/ Act(t) \/ Write(t) \/ Inspect(t)
    \/ StopOld(t) \/ RemoveOld(t) \/ Create(t) \/ Launch(t) \/ Record(t)
    \/ RmReadRow(t) \/ RmContainer(t) \/ RmRow(t) \/ Count(t) \/ Flag(t)
    \/ ReadRows(t) \/ AskDocker(t) \/ Store(t)

\* An rm and another request that writes are under way.
Crossing ==
    \E t, u \in Tasks : /\ t # u /\ task[t].op = "rm"
                       /\ task[u].op \notin {"none", "ps", "loop"}
Watch == crossed' = (crossed \/ Crossing')

SvcNext ==
    /\ \/ \E t \in Tasks : TaskStep(t) \/ \E op \in SvcEntry : Request(t, op)
       \/ Unarchive
       \/ Expire
       \/ \E s \in Svcs : Vanish(s)
    /\ Watch

SvcSpec == SvcInit /\ [][SvcNext]_svcvars

\* Docker answers, and time passes.
SvcFairness ==
    WF_svcvars(Expire /\ Watch) /\ \A t \in Tasks : WF_svcvars(TaskStep(t) /\ Watch)
SvcFairSpec == SvcSpec /\ SvcFairness

----------------------------------------------------------------------------
(* Properties.                                                             *)

\* start, restart, run, prepare: unless an rm has met another request, what a
\* row says is running has a container, or a run is about to make it one or
\* an rm to delete the row.
RunningRowHasBox ==
    \A s \in Svcs : rec[s] = "running" /\ sbox[s] = "none" =>
        \/ crossed
        \/ \E t \in Tasks : task[t].svc = s
                 /\ task[t].pc \in {"rmRow", "stopOld", "removeOld", "create"}

\* handle_ps, shared_services_cache_loop: once nothing but listings is going
\* on, no answer that was overtaken stays in the cache.
CacheCatchesUp ==
    <>[][\A t \in Tasks : task'[t].op \in {"none", "ps", "loop"}]_svcvars
        => <>[](cache.fresh => cache.says =
                    [s \in Svcs |-> Says(s, rec[s], s \in known)])

\* "1. Check if already running (skip if so)": a run never stops a shared
\* service that is up.
RunSkipsRunning ==
    \A t \in Tasks : At(t, "stopOld") => sbox[task[t].svc] # "up"
=============================================================================
