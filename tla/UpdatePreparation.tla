------------------------- MODULE UpdatePreparation -------------------------
(***************************************************************************)
(* How coastd gets itself ready to be replaced by a newer binary: the      *)
(* quiescing flag every mutating request checks, the registry of the       *)
(* operations under way, and prepare-for-update, which closes the flag,    *)
(* waits for the registry to drain, reconciles stale forwarders, reports   *)
(* and either promises that an update may go ahead or opens the flag.      *)
(*                                                                         *)
(* All instances share one canonical port; the socat process that listens  *)
(* on it stands for the forwarders of the instance that is checked out.    *)
(***************************************************************************)
EXTENDS Naturals

CONSTANTS
    Ops,      \* slots for mutating requests
    Preps,    \* slots for prepare-for-update requests
    Insts,    \* instances
    Socats,   \* process ids of forwarders
    Faults,   \* a subset of AllFaults
    None      \* no process

\* preempt: a worker thread loses the CPU between testing the flag and
\* registering; timeout: the drain may time out; linger: a forwarder that was
\* sent SIGTERM is still there when it is looked at; docker: Docker does not
\* answer; hangup: an HTTP client goes away during an operation; abandon: the
\* same during a preparation; crash: coastd dies and is started again.
AllFaults == {"preempt", "timeout", "linger", "docker", "hangup", "abandon",
              "crash"}

ASSUME PrepConstantsOK == Faults \subseteq AllFaults /\ None \notin Socats

\* Running stands for every settled status but CheckedOut, Busy for every
\* transitional one.
Status == {"Running", "CheckedOut", "Busy"}

VARIABLES
    quiescing, \* update_quiescing
    registry,  \* active_update_operations
    op,        \* the mutating requests
    prep,      \* the prepare-for-update requests
    row,       \* instances: their status
    pid,       \* the socat_pid recorded for the canonical port
    port       \* the process that listens on the canonical port

pvars == <<quiescing, registry, op, prep, row, pid, port>>

IdleOp   == [pc |-> "idle", inst |-> None, seen |-> "Running"]
IdlePrep == [pc |-> "idle", timedOut |-> FALSE, safe |-> TRUE, stale |-> {}]

\* A recorded forwarder that looked stale: whose, its process, the status read.
StaleRow == [inst : Insts, pid : Socats, seen : Status]

OpPcs   == {"idle", "checked", "entered", "busy"}
PrepPcs == {"idle", "drain", "kill", "read", "clear", "rows", "ops", "return",
            "promised"}

Operation   == [pc : OpPcs, inst : Insts \union {None}, seen : Status]
Preparation == [pc : PrepPcs, timedOut : BOOLEAN, safe : BOOLEAN,
                stale : SUBSET StaleRow]

TypeOK ==
    /\ quiescing \in BOOLEAN
    /\ registry \subseteq Ops
    /\ op   \in [Ops -> Operation]
    /\ prep \in [Preps -> Preparation]
    /\ row  \in [Insts -> Status]
    /\ pid  \in [Insts -> Socats \union {None}]
    /\ port \in Socats \union {None}

Init ==
    /\ quiescing = FALSE
    /\ registry  = {}
    /\ op   = [o \in Ops |-> IdleOp]
    /\ prep = [p \in Preps |-> IdlePrep]
    /\ row  = [i \in Insts |-> "Running"]
    /\ pid  = [i \in Insts |-> None]
    /\ port = None

forwarding == <<row, pid, port>>

CheckedOut == {i \in Insts : row[i] = "CheckedOut"}

\* kill_socat on the processes S: one that is gone already is not missed.
Kill(S) == IF port \in S THEN None ELSE port

\* A process id nobody holds or remembers.
Fresh(s) ==
    /\ s # port
    /\ \A i \in Insts : pid[i] # s
    /\ \A p \in Preps : \A e \in prep[p].stale : e.pid # s

----------------------------------------------------------------------------
(* The mutating requests.                                                  *)

\* MUTANT of OpEnter: the flag is not looked at.
OpEnterUnchecked(o) ==
    /\ op[o].pc = "idle"
    /\ op' = [op EXCEPT ![o].pc = "entered"]
    /\ registry' = registry \union {o}
    /\ UNCHANGED <<quiescing, prep, forwarding>>

\* begin_update_operation, undisturbed.
OpEnter(o) ==
    /\ op[o].pc = "idle"
    /\ ~quiescing
    /\ op' = [op EXCEPT ![o].pc = "entered"]
    /\ registry' = registry \union {o}
    /\ UNCHANGED <<quiescing, prep, forwarding>>

\* begin_update_operation, the thread losing the CPU between the test of the
\* flag and the insertion.
OpCheck(o) ==
    /\ "preempt" \in Faults
    /\ op[o].pc = "idle"
    /\ ~quiescing
    /\ op' = [op EXCEPT ![o].pc = "checked"]
    /\ UNCHANGED <<quiescing, registry, prep, forwarding>>

OpRegister(o) ==
    /\ op[o].pc = "checked"
    /\ op' = [op EXCEPT ![o].pc = "entered"]
    /\ registry' = registry \union {o}
    /\ UNCHANGED <<quiescing, prep, forwarding>>

\* UpdateOperationGuard::drop, wherever the handler's future ends.
DropGuard(o) ==
    /\ op' = [op EXCEPT ![o] = IdleOp]
    /\ registry' = registry \ {o}

\* A handler marks its instance.  assign and unassign come back to the status
\* they read, stop and rm clear a checkout first.
OpMark(o) ==
    \E i \in Insts :
        /\ op[o].pc = "entered"
        /\ row[i] # "Busy"
        /\ row' = [row EXCEPT ![i] = "Busy"]
        /\ \/ /\ op' = [op EXCEPT ![o] = [pc |-> "busy", inst |-> i, seen |-> row[i]]]
              /\ UNCHANGED <<pid, port>>
           \/ /\ op' = [op EXCEPT ![o] = [pc |-> "busy", inst |-> i, seen |-> "Running"]]
              /\ row[i] = "CheckedOut"
              /\ port' = Kill({pid[i]})
              /\ pid'  = [pid EXCEPT ![i] = None]
        /\ UNCHANGED <<quiescing, registry, prep>>

OpEnd(o) ==
    /\ op[o].pc = "busy"
    /\ row' = [row EXCEPT ![op[o].inst] = op[o].seen]
    /\ DropGuard(o)
    /\ UNCHANGED <<quiescing, prep, pid, port>>

\* checkout: whoever is checked out is cleared, then the target gets the port
\* unless something else listens on it.
OpCheckout(o) ==
    \E i \in Insts :
        LET out  == CheckedOut
            port1 == Kill({pid[j] : j \in out})
            pid1  == [j \in Insts |-> IF j \in out THEN None ELSE pid[j]]
            row1  == [j \in Insts |-> IF j \in out THEN "Running" ELSE row[j]]
        IN  /\ op[o].pc = "entered"
            /\ row[i] # "Busy"
            /\ \/ /\ port1 = None
                  /\ \E s \in Socats :
                        /\ Fresh(s)
                        /\ port' = s
                        /\ pid'  = [pid1 EXCEPT ![i] = s]
                        /\ row'  = [row1 EXCEPT ![i] = "CheckedOut"]
               \/ /\ port1 # None
                  /\ port' = port1 /\ pid' = pid1 /\ row' = row1
            /\ DropGuard(o)
            /\ UNCHANGED <<quiescing, prep>>

\* A request that does nothing to an instance, or is turned down by its handler.
OpReturn(o) ==
    /\ op[o].pc = "entered"
    /\ DropGuard(o)
    /\ UNCHANGED <<quiescing, prep, forwarding>>

\* The future of an HTTP handler is dropped; the status stays as it is.
OpHangup(o) ==
    /\ "hangup" \in Faults
    /\ op[o].pc = "busy"
    /\ DropGuard(o)
    /\ UNCHANGED <<quiescing, prep, forwarding>>

OpStep(o) ==
    \/ OpEnter(o) \/ OpCheck(o) \/ OpRegister(o) \/ OpMark(o) \/ OpEnd(o)
    \/ OpCheckout(o) \/ OpReturn(o) \/ OpHangup(o)

----------------------------------------------------------------------------
(* prepare-for-update.                                                     *)

PrepGoto(p, pc) == prep' = [prep EXCEPT ![p].pc = pc]

PrepBegin(p) ==
    /\ prep[p].pc = "idle"
    /\ quiescing' = TRUE
    /\ PrepGoto(p, "drain")
    /\ UNCHANGED <<registry, op, forwarding>>

\* MUTANT of PrepDrained: the registry is not waited for.
PrepNotDrained(p) ==
    /\ prep[p].pc = "drain"
    /\ PrepGoto(p, "kill")
    /\ UNCHANGED <<quiescing, registry, op, forwarding>>

PrepDrained(p) ==
    /\ prep[p].pc = "drain"
    /\ registry = {}
    /\ PrepGoto(p, "kill")
    /\ UNCHANGED <<quiescing, registry, op, forwarding>>

\* MUTANT of PrepTimesOut: the deadline is not looked at.
PrepNeverTimesOut(p) == FALSE /\ UNCHANGED pvars

PrepTimesOut(p) ==
    /\ "timeout" \in Faults
    /\ prep[p].pc = "drain"
    /\ registry # {}
    /\ prep' = [prep EXCEPT ![p].pc = "kill", ![p].timedOut = TRUE]
    /\ UNCHANGED <<quiescing, registry, op, forwarding>>

\* cleanup_orphaned_socat: every forwarder, orphaned or not.
PrepKill(p) ==
    /\ prep[p].pc = "kill"
    /\ port' = None
    /\ PrepGoto(p, "read")
    /\ UNCHANGED <<quiescing, registry, op, row, pid>>

\* reconcile_stale_checkout_state, first lock: the recorded processes that are
\* dead, and those of instances that are not checked out.
PrepRead(p) ==
    LET stale(i) == pid[i] # None /\ (row[i] # "CheckedOut" \/ pid[i] # port)
        all      == {i \in Insts : stale(i)}
    IN  /\ prep[p].pc = "read"
        /\ \E S \in {all} \union
                    (IF "linger" \in Faults THEN {all \ CheckedOut} ELSE {}) :
              prep' = [prep EXCEPT ![p].pc = "clear",
                         ![p].stale = {[inst |-> i, pid |-> pid[i], seen |-> row[i]]
                                          : i \in S}]
        /\ UNCHANGED <<quiescing, registry, op, forwarding>>

\* MUTANT of PrepClear: the status of a checked out instance is left alone.
PrepClearPidsOnly(p) ==
    LET S == {e.inst : e \in prep[p].stale} IN
    /\ prep[p].pc = "clear"
    /\ port' = Kill({e.pid : e \in prep[p].stale})
    /\ pid'  = [i \in Insts |-> IF i \in S THEN None ELSE pid[i]]
    /\ prep' = [prep EXCEPT ![p].pc = "rows", ![p].stale = {}]
    /\ UNCHANGED <<quiescing, registry, op, row>>

\* The same, second lock: by what was read under the first.
PrepClear(p) ==
    LET S   == {e.inst : e \in prep[p].stale}
        Out == {e.inst : e \in {f \in prep[p].stale : f.seen = "CheckedOut"}}
    IN  /\ prep[p].pc = "clear"
        /\ port' = Kill({e.pid : e \in prep[p].stale})
        /\ pid'  = [i \in Insts |-> IF i \in S THEN None ELSE pid[i]]
        /\ row'  = [i \in Insts |-> IF i \in Out THEN "Running" ELSE row[i]]
        /\ prep' = [prep EXCEPT ![p].pc = "rows", ![p].stale = {}]
        /\ UNCHANGED <<quiescing, registry, op>>

\* collect_update_safety_report: the rows first, the registry afterwards.
PrepRows(p) ==
    /\ prep[p].pc = "rows"
    /\ prep' = [prep EXCEPT ![p].pc = "ops",
                            ![p].safe = \A i \in Insts : row[i] # "Busy"]
    /\ UNCHANGED <<quiescing, registry, op, forwarding>>

PrepOps(p) ==
    /\ prep[p].pc = "ops"
    /\ prep' = [prep EXCEPT ![p].pc = "return", ![p].safe = @ /\ registry = {}]
    /\ UNCHANGED <<quiescing, registry, op, forwarding>>

\* MUTANT of PrepReturn: a preparation that fails leaves the flag up.
PrepReturnClosed(p) ==
    /\ prep[p].pc = "return"
    /\ IF prep[p].safe /\ ~prep[p].timedOut
       THEN PrepGoto(p, "promised")
       ELSE prep' = [prep EXCEPT ![p] = IdlePrep]
    /\ UNCHANGED <<quiescing, registry, op, forwarding>>

\* Ready: the flag stays up and the client may apply the update.  Not ready,
\* or Docker does not answer: the flag is taken down, whoever put it up.
PrepReturn(p) ==
    /\ prep[p].pc = "return"
    /\ \/ /\ prep[p].safe /\ ~prep[p].timedOut
          /\ PrepGoto(p, "promised")
          /\ UNCHANGED quiescing
       \/ /\ ~prep[p].safe \/ prep[p].timedOut \/ "docker" \in Faults
          /\ prep' = [prep EXCEPT ![p] = IdlePrep]
          /\ quiescing' = FALSE
    /\ UNCHANGED <<registry, op, forwarding>>

\* The client of a preparation goes away, before or after the answer.
PrepAbandoned(p) ==
    /\ "abandon" \in Faults
    /\ prep[p].pc # "idle"
    /\ prep' = [prep EXCEPT ![p] = IdlePrep]
    /\ UNCHANGED <<quiescing, registry, op, forwarding>>

PrepStep(p) ==
    \/ PrepBegin(p) \/ PrepDrained(p) \/ PrepTimesOut(p) \/ PrepKill(p)
    \/ PrepRead(p) \/ PrepClear(p) \/ PrepRows(p) \/ PrepOps(p) \/ PrepReturn(p)

----------------------------------------------------------------------------
(* The update, and coastd starting again.                                  *)

\* All that was in memory is gone; one checked out instance gets the port.
\* The others find it taken and are no longer checked out.
StartAgain ==
    /\ quiescing' = FALSE
    /\ registry'  = {}
    /\ op'   = [o \in Ops |-> IdleOp]
    /\ prep' = [p \in Preps |-> IdlePrep]
    /\ IF CheckedOut = {}
       THEN port' = None /\ UNCHANGED <<row, pid>>
       ELSE \E i \in CheckedOut, s \in Socats :
               /\ Fresh(s)
               /\ port' = s
               /\ pid'  = [pid EXCEPT ![i] = s]
               /\ row'  = [j \in Insts |-> IF j \in CheckedOut \ {i}
                                           THEN "Running" ELSE row[j]]

Apply(p) == prep[p].pc = "promised" /\ StartAgain

\* The archive turns out broken: the running daemon goes on.
ApplyFails(p) ==
    /\ prep[p].pc = "promised"
    /\ quiescing' = FALSE
    /\ prep' = [prep EXCEPT ![p] = IdlePrep]
    /\ UNCHANGED <<registry, op, forwarding>>

Crash == "crash" \in Faults /\ StartAgain

----------------------------------------------------------------------------
Next ==
    \/ \E o \in Ops : OpStep(o)
    \/ \E p \in Preps :
          PrepStep(p) \/ PrepAbandoned(p) \/ Apply(p) \/ ApplyFails(p)
    \/ Crash

Spec == Init /\ [][Next]_pvars

\* The drain polls and its deadline passes: a preparation that has begun goes
\* on by itself.  Nothing is assumed of the operations, which may never end.
FairSpec ==
    Spec /\ \A p \in Preps : WF_pvars(PrepStep(p) /\ prep[p].pc # "idle")

----------------------------------------------------------------------------
(* Properties.                                                             *)

Preparing(p) == prep[p].pc \notin {"idle", "promised"}
Promised     == \E p \in Preps : prep[p].pc = "promised"

\* begin_update_operation, prepare-for-update: once a client has been told that
\* the daemon is ready, no operation is under way and no instance is half done
\* when the update replaces it.
QuietWhenPromised ==
    Promised => registry = {} /\ \A i \in Insts : row[i] # "Busy"

\* handle_prepare_for_update: the flag that turns requests away is never up
\* without a preparation that will take it down or an update that may start.
ClosedForAReason ==
    quiescing => \E p \in Preps : prep[p].pc # "idle"

\* reconcile_stale_checkout_state against checkout, assign and stop: outside
\* the reconciliation itself, who is checked out is who has the port.
CheckoutHasPort ==
    \/ \E p \in Preps : prep[p].pc \in {"read", "clear"}
    \/ \A i \in Insts : row[i] = "CheckedOut" => pid[i] = port /\ port # None

\* wait_for_active_operations_to_drain: a preparation answers even if the
\* operations it waits for never end.
PreparationEnds == \A p \in Preps : Preparing(p) ~> ~Preparing(p)

\* Why QuietWhenPromised holds where a preparation has the flag for itself and
\* no thread is preempted between the flag and the registry.
GateInv ==
    /\ \A o \in Ops : op[o].pc # "checked"
    /\ registry = {o \in Ops : op[o].pc \in {"entered", "busy"}}
    /\ \A p \in Preps :
          /\ prep[p].pc # "idle" => quiescing
          /\ prep[p].pc \notin {"idle", "drain"} /\ ~prep[p].timedOut => registry = {}
          /\ prep[p].pc \in {"ops", "return"} /\ prep[p].safe /\ ~prep[p].timedOut
                => \A i \in Insts : row[i] # "Busy"
          /\ prep[p].pc = "promised" =>
                ~prep[p].timedOut /\ \A i \in Insts : row[i] # "Busy"

\* The barrier that operations pass and an update seals.
Barrier == INSTANCE UpdateBarrier WITH inside <- registry, sealed <- Promised

SealsAreKept == Barrier!Spec
=============================================================================
