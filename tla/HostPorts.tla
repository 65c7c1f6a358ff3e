----------------------------- MODULE HostPorts -----------------------------
(***************************************************************************)
(* The ports of the host, which projects share: the dynamic port Docker    *)
(* publishes for an instance, and the canonical port the forwarder of a    *)
(* checkout listens on.  A run picks a port that is free when it looks,    *)
(* and writes it down when it is done; nothing reserves it before, or      *)
(* while the instance is stopped.                                          *)
(*                                                                         *)
(* Each project has one instance with one service port, and all want the   *)
(* same canonical one.  Requests for an instance come one at a time, but   *)
(* for checkouts; what they do to each other, and a container whose id is  *)
(* not recorded or that cannot be removed, is in InstanceLifecycle.        *)
(***************************************************************************)
CONSTANTS
    Neighbours, \* projects, each with its instance
    Dynamic,    \* the ephemeral range
    Canonical,  \* the port that all declare
    Nowhere,    \* no port, no instance
    PortFaults  \* a subset of {"boot", "stop", "crash"}: what may fail

HostPorts == Dynamic \union {Canonical}

ASSUME HostPortsOK ==
    /\ Nowhere \notin HostPorts \union Neighbours
    /\ PortFaults \subseteq {"boot", "stop", "crash"}

VARIABLES
    tenant,   \* the rows: status, and the dynamic port written down
    pub,      \* the containers: the port published for each, and whether it is up
    canon,    \* the canonical forwarder: whose it is and where it leads
    foreign,  \* ports that other programs have
    chore,    \* per instance, the request at work: how far, what it has read
    dbHolder, \* the checkout that keeps the mutex
    doomed    \* those somebody has asked to remove (no state of the program)

portvars == <<tenant, pub, canon, foreign, chore, dbHolder, doomed>>

NoTenant  == [status |-> "none", dyn |-> Nowhere]
NoBox     == [port |-> Nowhere, up |-> FALSE]
NoForward == [of |-> Nowhere, to |-> Nowhere]
NoChore   == [at |-> "idle", port |-> Nowhere, was |-> "none"]

Live == {"Running", "CheckedOut"}
PortStatus == Live \union {"none", "Provisioning", "Stopping", "Stopped", "Starting", "Assigning"}

Steps == {"idle", "pick", "boot", "record", "clean", "stop", "stopped", "start", "started",
          "assign", "mark", "remove", "removed"}

PortsTypeOK ==
    /\ tenant \in [Neighbours -> [status : PortStatus, dyn : Dynamic \union {Nowhere}]]
    /\ pub \in [Neighbours -> [port : Dynamic \union {Nowhere}, up : BOOLEAN]]
    /\ canon \in [of : Neighbours, to : Dynamic] \union {NoForward}
    /\ foreign \subseteq HostPorts
    /\ chore \in [Neighbours -> [at : Steps, port : Dynamic \union {Nowhere}, was : PortStatus]]
    /\ dbHolder \in Neighbours \union {Nowhere}
    /\ doomed \subseteq Neighbours

PortsInit ==
    /\ tenant   = [n \in Neighbours |-> NoTenant]
    /\ pub      = [n \in Neighbours |-> NoBox]
    /\ canon    = NoForward
    /\ foreign  = {}
    /\ chore    = [n \in Neighbours |-> NoChore]
    /\ dbHolder = Nowhere
    /\ doomed   = {}

\* inspect_port_binding finds a listener on p.
Bound(p) ==
    \/ p \in foreign
    \/ \E n \in Neighbours : pub[n].up /\ pub[n].port = p
    \/ p = Canonical /\ canon # NoForward

Mutex == dbHolder = Nowhere

StatusOf(n)     == tenant[n].status
SetStatus(n, s) == tenant' = [tenant EXCEPT ![n].status = s]
Doing(n, at)    == chore[n].at = at
Goes(n, at)     == chore' = [chore EXCEPT ![n].at = at]
Ends(n)         == chore' = [chore EXCEPT ![n] = NoChore]

\* kill_socat on the pid recorded for n: whoever starts a forwarder records it.
ForwardWithout(S) == IF canon.of \in S THEN NoForward ELSE canon

----------------------------------------------------------------------------
(* run.                                                                    *)

RunInserts(n) ==
    /\ Mutex /\ Doing(n, "idle") /\ StatusOf(n) = "none" /\ pub[n] = NoBox
    /\ SetStatus(n, "Provisioning")
    /\ Goes(n, "pick")
    /\ UNCHANGED <<pub, canon, foreign, dbHolder, doomed>>

\* allocate_dynamic_port: it binds and lets go.
RunPicks(n) ==
    /\ Doing(n, "pick")
    /\ \/ \E p \in Dynamic :
             ~Bound(p) /\ chore' = [chore EXCEPT ![n].at = "boot", ![n].port = p]
       \/ (\A p \in Dynamic : Bound(p)) /\ Goes(n, "clean")
    /\ UNCHANGED <<tenant, pub, canon, foreign, dbHolder, doomed>>

\* create_and_start: the container stays when it cannot be started.
RunBoots(n) ==
    /\ Doing(n, "boot")
    /\ \E up \in BOOLEAN :
          /\ Bound(chore[n].port) => ~up
          /\ ~up => Bound(chore[n].port) \/ "boot" \in PortFaults
          /\ pub' = [pub EXCEPT ![n] = [port |-> chore[n].port, up |-> up]]
          /\ Goes(n, IF up THEN "record" ELSE "clean")
    /\ UNCHANGED <<tenant, canon, foreign, dbHolder, doomed>>

\* finalize_instance, or a step before it fails.
RunRecords(n) ==
    /\ Doing(n, "record")
    /\ \/ /\ Mutex
          /\ tenant' = [tenant EXCEPT ![n] = [status |-> "Running", dyn |-> chore[n].port]]
          /\ Ends(n)
       \/ "boot" \in PortFaults /\ Goes(n, "clean") /\ UNCHANGED tenant
    /\ UNCHANGED <<pub, canon, foreign, dbHolder, doomed>>

\* cleanup_failed_provision.
RunCleans(n) ==
    /\ Doing(n, "clean") /\ Mutex
    /\ pub'    = [pub EXCEPT ![n] = NoBox]
    /\ tenant' = [tenant EXCEPT ![n] = NoTenant]
    /\ Ends(n)
    /\ doomed' = doomed \ {n}
    /\ UNCHANGED <<canon, foreign, dbHolder>>

----------------------------------------------------------------------------
(* stop and start.                                                         *)

\* MUTANT of Leaves: the status alone.
LeavesForwarder(n, s) == SetStatus(n, s) /\ UNCHANGED canon

\* clear_checked_out_state, or the status alone.
Leaves(n, s) ==
    /\ SetStatus(n, s)
    /\ canon' = ForwardWithout(IF StatusOf(n) = "CheckedOut" THEN {n} ELSE {})

StopBegins(n) ==
    /\ Mutex /\ Doing(n, "idle") /\ StatusOf(n) \in Live
    /\ Leaves(n, "Stopping")
    /\ Goes(n, "stop")
    /\ UNCHANGED <<pub, foreign, dbHolder, doomed>>

\* That Docker did not stop it is only logged.
StopBox(n) ==
    /\ Doing(n, "stop")
    /\ pub' \in {[pub EXCEPT ![n].up = FALSE]}
                \union (IF "stop" \in PortFaults THEN {pub} ELSE {})
    /\ Goes(n, "stopped")
    /\ UNCHANGED <<tenant, canon, foreign, dbHolder, doomed>>

StopEnds(n) ==
    /\ Doing(n, "stopped") /\ Mutex
    /\ SetStatus(n, "Stopped")
    /\ canon' = ForwardWithout({n})
    /\ Ends(n)
    /\ UNCHANGED <<pub, foreign, dbHolder, doomed>>

StartBegins(n) ==
    /\ Mutex /\ Doing(n, "idle") /\ StatusOf(n) = "Stopped"
    /\ SetStatus(n, "Starting")
    /\ Goes(n, "start")
    /\ UNCHANGED <<pub, canon, foreign, dbHolder, doomed>>

\* Docker publishes the port the container was made with, if it is still free
\* (and there still is a container); revert_to_stopped writes the row if nobody
\* has the mutex.
StartBox(n) ==
    /\ Doing(n, "start")
    /\ LET taken == ~pub[n].up /\ (pub[n] = NoBox \/ Bound(pub[n].port)) IN
       \/ /\ ~taken
          /\ pub' = [pub EXCEPT ![n].up = TRUE]
          /\ Goes(n, "started")
          /\ UNCHANGED tenant
       \/ /\ taken \/ "boot" \in PortFaults
          /\ \E up \in BOOLEAN :
                /\ taken => ~up
                /\ pub' = [pub EXCEPT ![n].up = @ \/ up]
          /\ tenant' = [tenant EXCEPT ![n].status = IF Mutex THEN "Stopped" ELSE @]
          /\ Ends(n)
    /\ UNCHANGED <<canon, foreign, dbHolder, doomed>>

StartEnds(n) ==
    /\ Doing(n, "started") /\ Mutex
    /\ SetStatus(n, "Running")
    /\ Ends(n)
    /\ UNCHANGED <<pub, canon, foreign, dbHolder, doomed>>

----------------------------------------------------------------------------
(* assign and unassign, which put back the status they have read, even if  *)
(* that is the Assigning of one cut off; if it fails and the mutex is      *)
(* taken, nobody does.                                                     *)

AssignBegins(n) ==
    /\ Mutex /\ Doing(n, "idle") /\ StatusOf(n) \in Live \union {"Assigning"}
    /\ chore' = [chore EXCEPT ![n] = [@ EXCEPT !.at = "assign", !.was = StatusOf(n)]]
    /\ SetStatus(n, "Assigning")
    /\ UNCHANGED <<pub, canon, foreign, dbHolder, doomed>>

AssignEnds(n) ==
    /\ Doing(n, "assign") /\ Mutex
    /\ SetStatus(n, chore[n].was)
    /\ Ends(n)
    /\ UNCHANGED <<pub, canon, foreign, dbHolder, doomed>>

AssignFails(n) ==
    /\ Doing(n, "assign")
    /\ SetStatus(n, IF Mutex THEN chore[n].was ELSE "Assigning")
    /\ Ends(n)
    /\ UNCHANGED <<pub, canon, foreign, dbHolder, doomed>>

----------------------------------------------------------------------------
(* rm, which reads the row and takes the mutex again to mark it.           *)

RmReads(n) ==
    /\ Mutex /\ Doing(n, "idle") /\ StatusOf(n) # "none"
    /\ chore' = [chore EXCEPT ![n] = [@ EXCEPT !.was = StatusOf(n),
                                 !.at = IF StatusOf(n) \in Live THEN "mark" ELSE "remove"]]
    /\ doomed' = doomed \union {n}
    /\ UNCHANGED <<tenant, pub, canon, foreign, dbHolder>>

\* It clears a checkout if it has read one.
RmMarks(n) ==
    /\ Doing(n, "mark") /\ Mutex
    /\ IF chore[n].was = "Running" THEN SetStatus(n, "Stopping") /\ UNCHANGED canon
       ELSE IF StatusOf(n) = "CheckedOut" THEN Leaves(n, "Stopping")
       ELSE UNCHANGED <<tenant, canon>>
    /\ Goes(n, "remove")
    /\ UNCHANGED <<pub, foreign, dbHolder, doomed>>

RmBox(n) ==
    /\ Doing(n, "remove")
    /\ pub' = [pub EXCEPT ![n] = NoBox]
    /\ Goes(n, "removed")
    /\ UNCHANGED <<tenant, canon, foreign, dbHolder, doomed>>

RmDeletes(n) ==
    /\ Doing(n, "removed") /\ Mutex
    /\ tenant' = [tenant EXCEPT ![n] = NoTenant]
    /\ canon' = ForwardWithout({n})
    /\ Ends(n)
    /\ doomed' = doomed \ {n}
    /\ UNCHANGED <<pub, foreign, dbHolder>>

----------------------------------------------------------------------------
(* checkout, which keeps the mutex while it probes and binds.              *)

\* clear_checked_out_state for all S that are checked out.
Clears(S) ==
    LET out == {n \in S : StatusOf(n) = "CheckedOut"} IN
    /\ tenant' = [n \in Neighbours |-> IF n \in out THEN [tenant[n] EXCEPT !.status = "Running"]
                                      ELSE tenant[n]]
    /\ canon' = ForwardWithout(out)

\* The project's own, and conflicting_checked_out_instances of others.
CheckoutClears(n) ==
    /\ Mutex
    /\ StatusOf(n) \in Live
    /\ Clears(Neighbours)
    /\ dbHolder' = n
    /\ UNCHANGED <<pub, foreign, chore, doomed>>

\* The port is taken, the inner daemon does not answer, or all is well.
CheckoutBinds(n) ==
    /\ dbHolder = n
    /\ \/ /\ ~Bound(Canonical)
          /\ canon' = [of |-> n, to |-> tenant[n].dyn]
          /\ SetStatus(n, "CheckedOut")
       \/ UNCHANGED <<tenant, canon>>
    /\ dbHolder' = Nowhere
    /\ UNCHANGED <<pub, foreign, chore, doomed>>

\* checkout --none, and a checkout of an instance that is not running.
Releases(n) ==
    /\ Mutex
    /\ Clears({n})
    /\ UNCHANGED <<pub, foreign, chore, dbHolder, doomed>>

----------------------------------------------------------------------------

\* coastd dies and starts: cleanup_orphaned_socat, then the forwarder of who is
\* checked out, or none and the row says Running.  The forwarders to dynamic
\* ports that it tries as well find these taken by Docker.
PortsReboot ==
    /\ "crash" \in PortFaults
    /\ LET out  == {n \in Neighbours : StatusOf(n) = "CheckedOut"}
           free == Canonical \notin foreign
                   /\ \A n \in Neighbours : ~(pub[n].up /\ pub[n].port = Canonical) IN
       /\ canon' \in IF out # {} /\ free THEN {[of |-> n, to |-> tenant[n].dyn] : n \in out}
                     ELSE {NoForward}
       /\ tenant' = [n \in Neighbours |->
                       IF n \in out /\ canon'.of # n THEN [tenant[n] EXCEPT !.status = "Running"]
                       ELSE tenant[n]]
    /\ chore' = [n \in Neighbours |-> NoChore]
    /\ dbHolder' = Nowhere
    /\ UNCHANGED <<pub, foreign, doomed>>

\* One program at a time.
OtherBinds ==
    /\ foreign = {}
    /\ \E p \in HostPorts : ~Bound(p) /\ foreign' = {p}
    /\ UNCHANGED <<tenant, pub, canon, chore, dbHolder, doomed>>

OtherFrees ==
    /\ foreign # {} /\ foreign' = {}
    /\ UNCHANGED <<tenant, pub, canon, chore, dbHolder, doomed>>

PortsNext ==
    \/ \E n \in Neighbours :
          \/ RunInserts(n) \/ RunPicks(n) \/ RunBoots(n) \/ RunRecords(n) \/ RunCleans(n)
          \/ StopBegins(n) \/ StopBox(n) \/ StopEnds(n)
          \/ StartBegins(n) \/ StartBox(n) \/ StartEnds(n)
          \/ AssignBegins(n) \/ AssignEnds(n) \/ AssignFails(n)
          \/ RmReads(n) \/ RmMarks(n) \/ RmBox(n) \/ RmDeletes(n)
          \/ CheckoutClears(n) \/ CheckoutBinds(n) \/ Releases(n)
    \/ PortsReboot \/ OtherBinds \/ OtherFrees

PortsSpec == PortsInit /\ [][PortsNext]_portvars

----------------------------------------------------------------------------

AtHome(n) == tenant[n].dyn # Nowhere /\ pub[n] = [port |-> tenant[n].dyn, up |-> TRUE]

\* Whoever the rows call running, and nobody has asked to remove, has its own
\* dynamic port, though nothing kept it free between picking and publishing, or
\* while it was stopped; and the canonical port leads to the instance that is
\* checked out, never to one that has got that port since.
PortsLeadHome ==
    /\ \A n \in Neighbours \ doomed :
          /\ StatusOf(n) \in Live \/ Doing(n, "assign") => AtHome(n)
          /\ StatusOf(n) = "CheckedOut" => canon.of = n
    /\ canon # NoForward /\ canon.of \notin doomed =>
          /\ StatusOf(canon.of) \in {"CheckedOut", "Assigning"}
          /\ canon.to = tenant[canon.of].dyn /\ AtHome(canon.of)

\* CHECKOUT.md:3: the canonical ports lead straight to the instance that is
\* checked out.  An rm that has read Running keeps the forwarder of a checkout
\* that came in between, and another project gets the port it leads to.
NeverAstray ==
    \A n \in Neighbours : pub[n].up /\ canon # NoForward /\ canon.of # n => pub[n].port # canon.to
=============================================================================
