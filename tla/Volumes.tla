------------------------------ MODULE Volumes ------------------------------
(***************************************************************************)
(* The isolated volume of an instance: a run copies the project's          *)
(* snapshot_source into it, having stopped the containers that use the     *)
(* source, and starts those again; rm removes it.  Every project has one   *)
(* such volume, and all copy from one source.  The steps of run and rm     *)
(* that touch no volume are those of InstanceLifecycle.                    *)
(***************************************************************************)
EXTENDS Naturals

CONSTANTS
    Coasts,    \* instances: pairs of a project and a name
    Users,     \* containers on the host that use the source
    VolSlots,  \* slots for requests
    NoInstance,   \* no instance
    VolEntry,  \* entry points in use, a subset of VolOps
    VolFaults  \* a subset of AllVolFaults

\* rm takes the permit of the project, rm over the socket does not; owner:
\* containers are stopped and started by whom they belong to.
VolOps == {"run", "rm", "socket", "owner"}

\* copy: the copy fails; create: the run fails before it has a container;
\* services: after its services have started; hangup: the client of an rm
\* goes away; spawn: the docker command cannot be run; crash: coastd dies.
AllVolFaults == {"copy", "create", "services", "hangup", "spawn", "crash"}

ASSUME VolConstantsOK ==
    /\ VolEntry \subseteq VolOps /\ VolFaults \subseteq AllVolFaults
    /\ NoInstance \notin Coasts

Project(i) == i[1]

\* isolated_volume_name: coast--{instance}--{volume}.
Volume(i) == i[2]

VolumeNames == {Volume(i) : i \in Coasts}

\* What is in a volume: a copy made while nobody wrote to the source, or one
\* made while somebody did; what earlier instances have left; who has written.
Contents == [copy : {"none", "whole", "torn"}, left : BOOLEAN, by : SUBSET Coasts]
EmptyVolume  == [copy |-> "none", left |-> FALSE, by |-> {}]

VARIABLES
    rows,    \* the instances' statuses
    boxes,   \* the instances that have a container
    data,    \* what is in each volume
    running, \* the users of the source that run
    wanted,  \* those their owners want to run
    req,    \* the requests
    spoiled, \* what has gone wrong with a volume (no state of the program)
    lost     \* users that were stopped and no run will start (the same)

insts   == <<rows, boxes, data, spoiled>>
copied  == <<running, wanted, lost>>
volvars == <<insts, copied, req>>

NoVolReq == [pc |-> "idle", inst |-> NoInstance, gated |-> FALSE, listed |-> {},
           torn |-> FALSE, met |-> FALSE, seen |-> FALSE]

RunPcs == {"list", "stop", "copy", "copying", "restart", "undo", "create", "finish",
           "failed"}
RmPcs  == {"box", "volumes", "db"}

VolTypeOK ==
    /\ rows \in [Coasts -> {"none", "provisioning", "running"}]
    /\ boxes \subseteq Coasts
    /\ data \in [VolumeNames -> Contents]
    /\ running \subseteq Users /\ wanted \subseteq Users
    /\ req \in [VolSlots -> [pc : {"idle"} \union RunPcs \union RmPcs,
                             inst : Coasts \union {NoInstance}, gated : BOOLEAN,
                             listed : SUBSET Users, torn : BOOLEAN, met : BOOLEAN,
                             seen : BOOLEAN]]
    /\ spoiled \in [VolumeNames -> SUBSET {"failed", "met"}]
    /\ lost \subseteq Users

VolInit ==
    /\ rows    = [i \in Coasts |-> "none"]
    /\ boxes   = {}
    /\ data    = [v \in VolumeNames |-> EmptyVolume]
    /\ running = Users
    /\ wanted  = Users
    /\ req    = [r \in VolSlots |-> NoVolReq]
    /\ spoiled = [v \in VolumeNames |-> {}]
    /\ lost    = {}

Mine(r) == Volume(req[r].inst)
TaskTo(r, pc) == req' = [req EXCEPT ![r].pc = pc]
TaskEnds(r) == req' = [req EXCEPT ![r] = NoVolReq]
PermitFree(p) == \A r \in VolSlots : req[r].gated => Project(req[r].inst) # p

\* Docker removes no volume that a container, or a copy, has mounted.
Mounted(v) ==
    \/ \E i \in boxes : Volume(i) = v
    \/ \E r \in VolSlots : req[r].pc = "copying" /\ Mine(r) = v

\* An instance is gone: what it had in its volume, nobody asked for.
LeftBy(i) ==
    [data EXCEPT ![Volume(i)] = [copy |-> "none", left |-> @ # EmptyVolume, by |-> @.by \ {i}]]

----------------------------------------------------------------------------
(* run.                                                                    *)

RunBegins(r, i) ==
    /\ "run" \in VolEntry
    /\ req[r] = NoVolReq /\ PermitFree(Project(i))
    /\ rows[i] = "none" /\ i \notin boxes
    /\ rows' = [rows EXCEPT ![i] = "provisioning"]
    /\ req' = [req EXCEPT ![r] = [NoVolReq EXCEPT !.pc = "list", !.inst = i, !.gated = TRUE]]
    /\ UNCHANGED <<boxes, data, spoiled, copied>>

\* stop_containers_using_volume: docker ps, ...
ListUsers(r) ==
    /\ req[r].pc = "list"
    /\ req' = [req EXCEPT ![r].pc = "stop", ![r].listed = running]
    /\ UNCHANGED <<insts, copied>>

\* ... and docker stop.
StopUsers(r) ==
    /\ req[r].pc = "stop"
    /\ running' = running \ req[r].listed
    /\ TaskTo(r, "copy")
    /\ UNCHANGED <<insts, wanted, lost>>

\* Somebody starts containers of S: a copy under way is of a source that is
\* written to, and a run that has made its list does not know of it.
Meets(S) ==
    [r \in VolSlots |->
        IF S # {} /\ req[r].pc \in {"stop", "copy", "copying"}
        THEN [req[r] EXCEPT !.met = TRUE, !.torn = @ \/ req[r].pc = "copying"]
        ELSE req[r]]

\* MUTANT of CopyBegins: the containers are started again first.
CopyAfterRestart(r) ==
    /\ req[r].pc = "copy"
    /\ running' = running \union req[r].listed
    /\ req' = [req EXCEPT ![r].pc = "copying", ![r].torn = running' # {}]
    /\ UNCHANGED <<insts, wanted, lost>>

\* snapshot_copy_command; where it cannot be run at all, nobody is restarted.
CopyBegins(r) ==
    /\ req[r].pc = "copy"
    /\ \/ /\ req' = [req EXCEPT ![r].pc = "copying", ![r].torn = running # {}]
          /\ UNCHANGED lost
       \/ /\ "spawn" \in VolFaults
          /\ req' = [req EXCEPT ![r].pc = "failed", ![r].listed = {}]
          /\ lost' = lost \union req[r].listed
    /\ UNCHANGED <<insts, running, wanted>>

CopyEnds(r) ==
    /\ req[r].pc = "copying"
    /\ \/ /\ data' = [data EXCEPT ![Mine(r)].copy =
                         IF req[r].torn THEN "torn" ELSE "whole"]
          /\ spoiled' = [spoiled EXCEPT ![Mine(r)] =
                            @ \union (IF req[r].met THEN {"met"} ELSE {})]
          /\ TaskTo(r, "restart")
       \/ /\ "copy" \in VolFaults
          /\ data' = [data EXCEPT ![Mine(r)].copy = "torn"]
          /\ TaskTo(r, "undo")
          /\ UNCHANGED spoiled
    /\ UNCHANGED <<rows, boxes, copied>>

\* MUTANT of RestartUsers: not after a copy that has failed.
RestartIfCopied(r) ==
    /\ req[r].pc \in {"restart", "undo"}
    /\ LET S == IF req[r].pc = "restart" THEN req[r].listed ELSE {} IN
       /\ running' = running \union S
       /\ req' = [Meets(S) EXCEPT ![r].pc = IF @ = "restart" THEN "create" ELSE "failed",
                                   ![r].listed = {}]
    /\ UNCHANGED <<insts, wanted, lost>>

\* restart_stopped_containers, whether or not the copy has succeeded.
RestartUsers(r) ==
    /\ req[r].pc \in {"restart", "undo"}
    /\ running' = running \union req[r].listed
    /\ req' = [Meets(req[r].listed) EXCEPT
                   ![r].pc = IF @ = "restart" THEN "create" ELSE "failed", ![r].listed = {}]
    /\ UNCHANGED <<insts, wanted, lost>>

RunCreates(r) ==
    /\ req[r].pc = "create"
    /\ \/ boxes' = boxes \union {req[r].inst} /\ TaskTo(r, "finish")
       \/ "create" \in VolFaults /\ TaskTo(r, "failed") /\ UNCHANGED boxes
    /\ UNCHANGED <<rows, data, spoiled, copied>>

\* A row that has gone meanwhile fails the run.
RunFinishes(r) ==
    LET i == req[r].inst IN
    /\ req[r].pc = "finish"
    /\ \/ rows[i] # "none" /\ rows' = [rows EXCEPT ![i] = "running"] /\ TaskEnds(r)
       \/ /\ rows[i] = "none" \/ "services" \in VolFaults
          /\ TaskTo(r, "failed")
          /\ UNCHANGED rows
    /\ UNCHANGED <<boxes, data, spoiled, copied>>

\* cleanup_failed_provision: the container and the row, but of the volumes
\* only that of the inner Docker daemon.
RunCleansUp(r) ==
    LET i == req[r].inst IN
    /\ req[r].pc = "failed"
    /\ rows'  = [rows EXCEPT ![i] = "none"]
    /\ boxes' = boxes \ {i}
    /\ data'  = LeftBy(i)
    /\ spoiled' = [spoiled EXCEPT ![Mine(r)] = @ \union {"failed"}]
    /\ TaskEnds(r)
    /\ UNCHANGED copied

\* The services of an instance write to its volume.
WriteData(i) ==
    /\ i \in boxes
    /\ data' = [data EXCEPT ![Volume(i)].by = @ \union {i}]
    /\ UNCHANGED <<rows, boxes, req, spoiled, copied>>

----------------------------------------------------------------------------
(* rm.                                                                     *)

RemoveVolume(v) ==
    IF Mounted(v) THEN UNCHANGED <<data, spoiled>>
    ELSE data' = [data EXCEPT ![v] = EmptyVolume] /\ spoiled' = [spoiled EXCEPT ![v] = {}]

\* It will remove the container of the row it reads, which does not name one
\* yet where the run was cut short after it had created it.
RmBegins(r, i, gated) ==
    /\ (IF gated THEN "rm" ELSE "socket") \in VolEntry
    /\ req[r] = NoVolReq /\ (gated => PermitFree(Project(i)))
    /\ rows[i] # "none"
    /\ \E named \in BOOLEAN :
          /\ rows[i] = "running" => named
          /\ req' = [req EXCEPT ![r] = [NoVolReq EXCEPT !.pc = "box", !.inst = i,
                                            !.gated = gated, !.seen = named /\ i \in boxes]]
    /\ UNCHANGED <<insts, copied>>

RmRemovesBox(r) ==
    LET i == req[r].inst IN
    /\ req[r].pc = "box"
    /\ IF req[r].seen THEN boxes' = boxes \ {i} /\ data' = LeftBy(i)
       ELSE UNCHANGED <<boxes, data>>
    /\ TaskTo(r, "volumes")
    /\ UNCHANGED <<rows, spoiled, copied>>

\* By prefix; a removal that fails is ignored.
RmRemovesVolumes(r) ==
    /\ req[r].pc = "volumes"
    /\ RemoveVolume(Mine(r))
    /\ TaskTo(r, "db")
    /\ UNCHANGED <<rows, boxes, copied>>

RmEnds(r) ==
    /\ req[r].pc = "db"
    /\ rows' = [rows EXCEPT ![req[r].inst] = "none"]
    /\ TaskEnds(r)
    /\ UNCHANGED <<boxes, data, spoiled, copied>>

RmHangup(r) ==
    /\ "hangup" \in VolFaults
    /\ req[r].pc \in RmPcs /\ req[r].gated
    /\ TaskEnds(r)
    /\ UNCHANGED <<insts, copied>>

----------------------------------------------------------------------------
(* The rest of the host.                                                   *)

OwnerStops(u) ==
    /\ "owner" \in VolEntry
    /\ wanted' = wanted \ {u} /\ running' = running \ {u} /\ lost' = lost \ {u}
    /\ UNCHANGED <<insts, req>>

OwnerStarts(u) ==
    /\ "owner" \in VolEntry
    /\ wanted' = wanted \union {u} /\ running' = running \union {u} /\ lost' = lost \ {u}
    /\ req' = Meets({u})
    /\ UNCHANGED insts

\* No req survives; the row of a run stays, and rm will remove what is there.
VolCrash ==
    /\ "crash" \in VolFaults
    /\ req' = [r \in VolSlots |-> NoVolReq]
    /\ lost' = lost \union UNION {req[r].listed : r \in VolSlots}
    /\ spoiled' = [v \in VolumeNames |->
                     IF \E r \in VolSlots : req[r].gated /\ Mine(r) = v /\ req[r].pc \in RunPcs
                     THEN spoiled[v] \union {"failed"} ELSE spoiled[v]]
    /\ UNCHANGED <<rows, boxes, data, running, wanted>>

----------------------------------------------------------------------------
VolStep(r) ==
    \/ ListUsers(r) \/ StopUsers(r) \/ CopyBegins(r) \/ CopyEnds(r) \/ RestartUsers(r)
    \/ RunCreates(r) \/ RunFinishes(r) \/ RunCleansUp(r)
    \/ RmRemovesBox(r) \/ RmRemovesVolumes(r) \/ RmEnds(r)

VolNext ==
    \/ \E r \in VolSlots, i \in Coasts :
          RunBegins(r, i) \/ \E gated \in BOOLEAN : RmBegins(r, i, gated)
    \/ \E r \in VolSlots : VolStep(r) \/ RmHangup(r)
    \/ \E i \in Coasts : WriteData(i)
    \/ \E u \in Users : OwnerStops(u) \/ OwnerStarts(u)
    \/ VolCrash

VolSpec == VolInit /\ [][VolNext]_volvars

----------------------------------------------------------------------------
(* Properties.                                                             *)

\* copy_single_snapshot: a container that its owner wants to run is down only
\* while a run that has stopped it for its copy is going to start it again,
\* whoever else copies the same source and whether or not the copies succeed.
\* Not so where coastd has died, or could not run docker at all.
SourcesComeBack ==
    \A u \in wanted \ running :
        u \in lost \/ \E r \in VolSlots : u \in req[r].listed /\ req[r].pc # "stop"

\* copy_single_snapshot, rm: an instance has a copy of the source to itself,
\* and one made while nobody wrote to the source.  Not so where an earlier run
\* of the name has failed, and the copy is another's business too where
\* somebody has started a user of the source meanwhile.
StartsFromSeed ==
    \A i \in boxes :
        LET v == Volume(i) IN
        \/ "failed" \in spoiled[v]
        \/ /\ data[v].copy = "whole" \/ (data[v].copy = "torn" /\ "met" \in spoiled[v])
           /\ ~data[v].left
           /\ data[v].by \subseteq {i}

\* "Each Coast instance gets its own independent volume.  Data is not shared
\* between instances" (VOLUMES.md).
OwnData == \A i \in boxes : data[Volume(i)].by \subseteq {i}

\* "Each instance starts with a copy of your host's existing database volumes"
\* (VOLUMES.md), whatever has become of earlier runs of its name.
StartsClean == \A i \in boxes : ~data[Volume(i)].left
=============================================================================
