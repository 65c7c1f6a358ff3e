--------------------------- MODULE InstanceClaims ---------------------------
(***************************************************************************)
(* What the comments and the documentation say of the instance handlers    *)
(* that their code does not do.  Each claim is checked by a run of its own *)
(* that exhibits the behaviour refuting it.                                *)
(***************************************************************************)
EXTENDS InstanceLifecycle

\* The last step of request r: it returns, and coastd does not crash.
Returns(r) == req[r].pc # "idle" /\ req'[r].pc = "idle" /\ ~Restart

\* "ensuring only one heavy operation runs per project at a time": of run,
\* rm, stop, start, assign and unassign, by whatever entry point.
OneHeavyOperation ==
    \A r, s \in Reqs :
        /\ r # s /\ Begun(r) /\ Begun(s)
        => {req[r].op, req[s].op} \intersect {"checkout", "release"} # {}

\* "Remove a failed provisioning instance": the cleanup of a run takes away
\* rows that are being provisioned and no others.
CleanupSparesOthers ==
    [][\A r \in Reqs : RunCleanDb(r) =>
          ~Is(req[r].name, Status \ {"Enqueued", "Provisioning"})]_vars

\* A leftover container is removed only by a run that is told to: a cleanup
\* touches no container but the one its own run created.
DanglingKept ==
    [][\A r \in Reqs : RunCleanBox(r) =>
          LET n == req[r].name IN box'[n] # box[n] => box[n] = req[r].cid]_vars

\* "so `rm` always leaves a clean state": when rm returns and nobody else
\* works on the name, there is neither a row nor a container of that name.
RmLeavesNothing ==
    [][\A r \in Reqs :
          /\ Returns(r) /\ req[r].op \in {"rm", "apiRm"}
          /\ \A s \in Reqs \ {r} : ~WorksOn(s, req[r].name)
          => row'[req[r].name] = None /\ box'[req[r].name] = None]_vars

\* "Revert instance status to Stopped on error": a start that fails leaves
\* its instance Stopped.
FailedStartReverts ==
    [][\A r \in Reqs : StartFails(r) =>
          LET n == req[r].name IN row'[n] = None \/ row'[n].status = "Stopped"]_vars

\* "Verify the instance exists and is stopped": start acts on nothing else.
StartsOnlyStopped ==
    [][\A r \in Reqs : StartBegin(r) /\ row' # row => Is(req[r].name, {"Stopped"})]_vars

\* "After this, no Coast owns the canonical ports": checkout --none leaves no
\* canonical forwarder.
ReleaseFreesPorts ==
    [][\A r \in Reqs : Returns(r) /\ req[r].op = "release" =>
          \A p \in Ports : fwd'[p] = None]_vars

\* "Exactly one Coast can be checked out at a time".
AtMostOneCheckedOut ==
    \A m, n \in Names : Is(m, {"CheckedOut"}) /\ Is(n, {"CheckedOut"}) => m = n
=============================================================================
