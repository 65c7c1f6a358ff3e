--------------------- MODULE InstanceContainers_proofs ---------------------
(***************************************************************************)
(* Rows, containers and the requests that are still going to deal with     *)
(* them, for every set of instances, requests, ports and containers.  What *)
(* each theorem excludes is exactly what breaks it in the code.            *)
(***************************************************************************)
EXTENDS InstanceLifecycle_proofs

----------------------------------------------------------------------------
(* What a step of r does to its own record, to a row and to a container,   *)
(* said in primed values.                                                  *)

\* r is being served and its name is n.
Works(r, n) ==
  /\ IInv /\ Serialized
  /\ r \in Reqs /\ n \in Names /\ req[r].pc # "idle" /\ req[r].name = n

Others(r) == \A s \in Reqs \ {r} : req'[s] = req[s]

\* The handler has returned; or it goes on at pc, with what it remembers; or
\* it goes on at pc with the row it has just read.
Gone(r)         == Others(r) /\ req'[r] = Idle
MovedTo(r, pc)  == /\ Others(r)
                   /\ req'[r].op = req[r].op /\ req'[r].name = req[r].name
                   /\ req'[r].pc = pc
                   /\ req'[r].seen = req[r].seen /\ req'[r].cid = req[r].cid
ReadAt(r, n, pc) == /\ Others(r)
                    /\ req'[r].op = req[r].op /\ req'[r].name = n
                    /\ req'[r].pc = pc
                    /\ req'[r].seen = row[n].status /\ req'[r].cid = row[n].cid

RowsBut(n)  == \A m \in Names \ {n} : row'[m] = row[m]
BoxesBut(n) == \A m \in Names \ {n} : box'[m] = box[m] /\ up'[m] = up[m]

\* The row of n gets another status, is replaced by a new one, or goes.
RowSet(n, s)   == /\ RowsBut(n) /\ Exists(n)
                  /\ row'[n] # None /\ row'[n].status = s /\ row'[n].cid = row[n].cid
RowFresh(n, s) == RowsBut(n) /\ row'[n] # None /\ row'[n].status = s /\ row'[n].cid = None
RowGone(n)     == RowsBut(n) /\ row'[n] = None
BoxGone(n)     == BoxesBut(n) /\ box'[n] = None /\ up'[n] = FALSE

LEMMA WorksFacts ==
  ASSUME NEW r, NEW n, Works(r, n)
  PROVE  /\ TypeOK /\ r \in Reqs /\ n \in Names
         /\ req[r] \in Request /\ req[r].name = n /\ req[r].op \in Ops
         /\ req[r].cid \in Cids \union {None}
         /\ req[r].op # None /\ None \notin Cids
  BY Serving, ConstantsOK DEF Works, IInv

LEMMA GotoMoves ==
  ASSUME NEW r, NEW n, Works(r, n), NEW pc, Goto(r, pc)
  PROVE  MovedTo(r, pc)
  BY WorksFacts DEF Goto, MovedTo, Others, TypeOK, Request

LEMMA RememberMoves ==
  ASSUME NEW r, NEW n, Works(r, n), NEW pc, Remember(r, pc)
  PROVE  ReadAt(r, n, pc)
  BY WorksFacts DEF Remember, ReadAt, Others, TypeOK, Request

LEMMA FinishMoves ==
  ASSUME NEW r, NEW n, Works(r, n), Finish(r)
  PROVE  Gone(r)
  BY WorksFacts DEF Finish, Gone, Others, TypeOK

LEMMA CreateMoves ==
  ASSUME NEW r, NEW n, Works(r, n), NEW pc, NEW c,
         req' = [req EXCEPT ![r].pc = pc, ![r].cid = c]
  PROVE  /\ Others(r)
         /\ req'[r].op = req[r].op /\ req'[r].name = n
         /\ req'[r].pc = pc /\ req'[r].cid = c
  BY WorksFacts DEF Others, TypeOK, Request

\* Writing a status, deleting a row, removing a container.
LEMMA SetMoves ==
  ASSUME TypeOK, NEW n \in Names, NEW s \in Status, Exists(n),
         row' = SetStatus(n, s) \/ row' = TrySetStatus(n, s)
  PROVE  RowSet(n, s)
  <1>1. row[n] \in Row /\ row' = [row EXCEPT ![n].status = s]
    BY ExistingRow DEF SetStatus, TrySetStatus
  <1>2. row'[n] = [row[n] EXCEPT !.status = s]
    BY <1>1 DEF TypeOK
  <1>3. [row[n] EXCEPT !.status = s] \in Row
    BY <1>1 DEF Row
  <1>4. row'[n].status = s /\ row'[n].cid = row[n].cid
    BY <1>1, <1>2 DEF Row
  <1>5. RowsBut(n)
    BY <1>1 DEF RowsBut, TypeOK
  <1> QED
    BY <1>2, <1>3, <1>4, <1>5, ConstantsOK DEF RowSet

LEMMA TrySetMoves ==
  ASSUME TypeOK, NEW n \in Names, NEW s \in Status, row' = TrySetStatus(n, s)
  PROVE  RowSet(n, s) \/ (~Exists(n) /\ row' = row)
  BY SetMoves DEF TrySetStatus

LEMMA RevertMoves ==
  ASSUME TypeOK, NEW n \in Names, NEW s \in Status, Revert(n, s)
  PROVE  RowSet(n, s) \/ row' = row
  BY TrySetMoves DEF Revert

LEMMA DeleteMoves ==
  ASSUME TypeOK, NEW n \in Names, DeleteRow(n)
  PROVE  RowGone(n)
  BY DEF DeleteRow, RowGone, RowsBut, TypeOK

LEMMA FreshMoves ==
  ASSUME TypeOK, NEW n \in Names, NEW s \in Status,
         row' = [row EXCEPT ![n] = [status |-> s, cid |-> None]]
  PROVE  RowFresh(n, s)
  <1>1. [status |-> s, cid |-> None] \in Row
    BY RowWithCid
  <1> QED
    BY <1>1, ConstantsOK DEF RowFresh, RowsBut, TypeOK

LEMMA RecordMoves ==
  ASSUME TypeOK, NEW n \in Names, Exists(n), NEW c \in Cids \union {None},
         row' = [row EXCEPT ![n].cid = c]
  PROVE  /\ RowsBut(n)
         /\ row'[n] # None /\ row'[n].status = row[n].status /\ row'[n].cid = c
  <1>1. row[n] \in Row
    BY ExistingRow
  <1>2. row'[n] = [row[n] EXCEPT !.cid = c] /\ RowsBut(n)
    BY DEF RowsBut, TypeOK
  <1>3. /\ [row[n] EXCEPT !.cid = c] \in Row
        /\ [row[n] EXCEPT !.cid = c].status = row[n].status
        /\ [row[n] EXCEPT !.cid = c].cid = c
    BY <1>1 DEF Row
  <1> QED
    BY <1>2, <1>3, ConstantsOK

LEMMA RemoveMoves ==
  ASSUME TypeOK, NEW n \in Names, RemoveBox(n)
  PROVE  BoxGone(n) \/ ("docker" \in Faults /\ UNCHANGED boxes)
  BY DEF RemoveBox, BoxGone, BoxesBut, TypeOK

\* A step of r is a step on its own record, and the statuses it writes are
\* statuses.
LEMMA Statuses ==
  /\ Transitional \subseteq Status /\ CanAssign \subseteq Status
  /\ {"Running", "Stopped", "Idle", "CheckedOut"} \subseteq Status
  BY DEF Transitional, CanAssign, Status

----------------------------------------------------------------------------
(* Which operation a request is doing, from where it is.  The unassigns of *)
(* the git watcher (InstanceBystanders) do not come in through Entry.      *)

RunPcs == {"arrived", "dangling", "insert", "create", "record", "finalize",
           "autoAssign", "cleanBox", "cleanDb"}
RmPcs  == {"rmQueued", "rmMark", "rmBox", "rmDb"}

Role(r) ==
  /\ req[r].pc # "idle" => req[r].op \in Entry \union {"autoUnassign"}
  /\ req[r].pc \in RunPcs => req[r].op = "run"
  /\ req[r].pc \in RmPcs => req[r].op \in {"rm", "apiRm"}
  /\ req[r].pc = "bind" => req[r].op = "checkout"
  /\ req[r].pc \in {"stopBox", "stopDb"} => req[r].op \in {"stop", "apiStop"}
  /\ req[r].pc \in {"startBox", "startDb"} => req[r].op \in {"start", "apiStart"}
  /\ req[r].pc \in {"assignBox", "assignDb"} => req[r].seen \in CanAssign

Roles == \A r \in Reqs : Role(r)

\* Where nobody but Entry asks for anything.
Asked == \A r \in Reqs : req[r].pc # "idle" => req[r].op \in Entry

LEMMA IdleRole ==
  ASSUME NEW r, Gone(r)
  PROVE  Role(r)'
  BY DEF Gone, Idle, Role, RunPcs, RmPcs

LEMMA RunRole ==
  ASSUME NEW r, NEW n, Works(r, n), Role(r), RunStep(r)
  PROVE  Others(r) /\ Role(r)'
  <1>1. CASE \/ RunJoinQueue(r) \/ RunCheck(r) \/ RunDangling(r) \/ RunInsert(r)
             \/ RunRecord(r) \/ RunProvisionFails(r) \/ RunFinalize(r)
             \/ RunCleanBox(r) \/ RunCleanDb(r)
    <2>1. req[r].op = "run"
      BY <1>1 DEF Role, RunPcs, RunJoinQueue, RunCheck, RunDangling, RunInsert,
                  RunRecord, RunProvisionFails, RunFinalize, RunCleanBox,
                  RunCleanDb, Admitted
    <2>2. \/ Finish(r)
          \/ \E pc \in {"waiting"} \union RunPcs : Goto(r, pc)
      BY <1>1 DEF RunPcs, RunJoinQueue, RunCheck, RunDangling, RunInsert,
                  RunRecord, RunProvisionFails, RunFinalize, RunCleanBox, RunCleanDb
    <2>3. \/ Gone(r)
          \/ \E pc \in {"waiting"} \union RunPcs : MovedTo(r, pc)
      BY <2>2, FinishMoves, GotoMoves
    <2> QED
      BY <2>1, <2>3, IdleRole DEF Gone, MovedTo, Role, Works, RunPcs, RmPcs
  <1>2. CASE RunCreate(r)
    <2>1. \/ \E c : req' = [req EXCEPT ![r].pc = "record", ![r].cid = c]
          \/ \E c : req' = [req EXCEPT ![r].pc = "cleanBox", ![r].cid = c]
          \/ Goto(r, "cleanBox")
      BY <1>2 DEF RunCreate
    <2>2. /\ Others(r) /\ req'[r].op = req[r].op
          /\ req'[r].pc \in {"record", "cleanBox"}
      BY <2>1, GotoMoves, CreateMoves DEF MovedTo
    <2>3. req[r].pc = "create"
      BY <1>2 DEF RunCreate
    <2> QED
      BY <2>2, <2>3 DEF Role, RunPcs, RmPcs
  <1> QED
    BY <1>1, <1>2 DEF RunStep

LEMMA RmRole ==
  ASSUME NEW r, NEW n, Works(r, n), Role(r), RmStep(r)
  PROVE  Others(r) /\ Role(r)'
  <1>1. req[r].op \in {"rm", "apiRm"}
    BY DEF Role, RmPcs, RmStep, RmRead, RmQueued, RmMark, RmBox, RmDb, Admitted
  <1>2. \/ Finish(r)
        \/ \E pc \in RmPcs : Goto(r, pc) \/ Remember(r, pc)
    BY DEF RmPcs, RmStep, RmRead, RmQueued, RmMark, RmBox, RmDb
  <1>3. \/ Gone(r)
        \/ \E pc \in RmPcs : MovedTo(r, pc) \/ ReadAt(r, n, pc)
    BY <1>2, FinishMoves, GotoMoves, RememberMoves
  <1> QED
    BY <1>1, <1>3, IdleRole DEF Gone, MovedTo, ReadAt, Role, Works, RunPcs, RmPcs

LEMMA StopRole ==
  ASSUME NEW r, NEW n, Works(r, n), Role(r), StopStep(r)
  PROVE  Others(r) /\ Role(r)'
  <1>1. req[r].op \in {"stop", "apiStop"}
    BY DEF Role, StopStep, StopBegin, StopBox, StopDb, Admitted
  <1>2. \/ Finish(r)
        \/ \E pc \in {"stopBox", "stopDb"} : Goto(r, pc) \/ Remember(r, pc)
    BY DEF StopStep, StopBegin, StopBox, StopDb
  <1>3. \/ Gone(r)
        \/ \E pc \in {"stopBox", "stopDb"} : MovedTo(r, pc) \/ ReadAt(r, n, pc)
    BY <1>2, FinishMoves, GotoMoves, RememberMoves
  <1> QED
    BY <1>1, <1>3, IdleRole DEF Gone, MovedTo, ReadAt, Role, Works, RunPcs, RmPcs

LEMMA StartRole ==
  ASSUME NEW r, NEW n, Works(r, n), Role(r), StartStep(r)
  PROVE  Others(r) /\ Role(r)'
  <1>1. req[r].op \in {"start", "apiStart"}
    BY DEF Role, StartStep, StartBegin, StartBox, StartFails, StartDb, Admitted
  <1>2. \/ Finish(r)
        \/ \E pc \in {"startBox", "startDb"} : Goto(r, pc) \/ Remember(r, pc)
    BY DEF StartStep, StartBegin, StartBox, StartFails, StartDb
  <1>3. \/ Gone(r)
        \/ \E pc \in {"startBox", "startDb"} : MovedTo(r, pc) \/ ReadAt(r, n, pc)
    BY <1>2, FinishMoves, GotoMoves, RememberMoves
  <1> QED
    BY <1>1, <1>3, IdleRole DEF Gone, MovedTo, ReadAt, Role, Works, RunPcs, RmPcs

\* assign and unassign remember a status that they may give back.
LEMMA AssignRole ==
  ASSUME NEW r, NEW n, Works(r, n), Role(r), AssignStep(r)
  PROVE  Others(r) /\ Role(r)'
  <1>1. \/ Finish(r)
        \/ Goto(r, "assignDb") /\ req[r].pc = "assignBox"
        \/ Remember(r, "assignBox") /\ Is(n, CanAssign)
    BY DEF Works, AssignStep, AssignBegin, UnassignBegin, AssignBox, AssignFails, AssignDb
  <1>2. \/ Gone(r)
        \/ MovedTo(r, "assignDb") /\ req[r].pc = "assignBox"
        \/ ReadAt(r, n, "assignBox") /\ row[n].status \in CanAssign
    BY <1>1, FinishMoves, GotoMoves, RememberMoves DEF Is
  <1> QED
    BY <1>2, IdleRole DEF Gone, MovedTo, ReadAt, Role, Works, RunPcs, RmPcs

LEMMA CheckoutRole ==
  ASSUME NEW r, NEW n, Works(r, n), Role(r), CheckoutStep(r)
  PROVE  Others(r) /\ Role(r)'
  <1>1. Finish(r) \/ (Remember(r, "bind") /\ req[r].op = "checkout")
    BY DEF CheckoutStep, CheckoutClear, CheckoutBind, CheckoutFails
  <1>2. Gone(r) \/ (ReadAt(r, n, "bind") /\ req[r].op = "checkout")
    BY <1>1, FinishMoves, RememberMoves
  <1> QED
    BY <1>2, IdleRole DEF Gone, ReadAt, Role, Works, RunPcs, RmPcs

\* A step of r is a step of a request that is being served.
LEMMA StepWorks ==
  ASSUME IInv, Serialized, NEW r \in Reqs, Step(r)
  PROVE  \E n \in Names : Works(r, n)
  <1>1. req[r].pc # "idle"
    BY DEF Step, RunStep, RmStep, StopStep, StartStep, AssignStep, CheckoutStep,
           RunJoinQueue, RunCheck, RunDangling, RunInsert, RunCreate, RunRecord,
           RunProvisionFails, RunFinalize, RunCleanBox, RunCleanDb, RmRead,
           RmQueued, RmMark, RmBox, RmDb, StopBegin, StopBox, StopDb, StartBegin,
           StartBox, StartFails, StartDb, AssignBegin, UnassignBegin, AssignBox,
           AssignFails, AssignDb, CheckoutClear, CheckoutBind, CheckoutFails, Admitted
  <1> QED
    BY <1>1, Serving DEF IInv, Works

LEMMA StepRole ==
  ASSUME NEW r, NEW n, Works(r, n), Role(r), Step(r)
  PROVE  Others(r) /\ Role(r)'
  BY RunRole, RmRole, StopRole, StartRole, AssignRole, CheckoutRole DEF Step

LEMMA StepName ==
  ASSUME NEW r, NEW n, Works(r, n), Step(r)
  PROVE  req'[r].pc = "idle" \/ (req'[r].name = n /\ req'[r].op = req[r].op)
  <1>1. \/ Finish(r)
        \/ \E pc : Goto(r, pc) \/ Remember(r, pc)
        \/ \E pc, c : req' = [req EXCEPT ![r].pc = pc, ![r].cid = c]
    BY DEF Step, RunStep, RmStep, StopStep, StartStep, AssignStep, CheckoutStep,
           RunJoinQueue, RunCheck, RunDangling, RunInsert, RunCreate, RunRecord,
           RunProvisionFails, RunFinalize, RunCleanBox, RunCleanDb, RmRead,
           RmQueued, RmMark, RmBox, RmDb, StopBegin, StopBox, StopDb, StartBegin,
           StartBox, StartFails, StartDb, AssignBegin, UnassignBegin, AssignBox,
           AssignFails, AssignDb, CheckoutClear, CheckoutBind, CheckoutFails
  <1>2. CASE Finish(r)
    BY <1>2, FinishMoves DEF Gone, Idle
  <1>3. CASE \E pc : Goto(r, pc) \/ Remember(r, pc)
    BY <1>3, GotoMoves, RememberMoves DEF MovedTo, ReadAt, Works
  <1>4. ASSUME NEW pc, NEW c, req' = [req EXCEPT ![r].pc = pc, ![r].cid = c]
        PROVE  req'[r].name = n /\ req'[r].op = req[r].op
    BY <1>4, CreateMoves
  <1> QED
    BY <1>1, <1>2, <1>3, <1>4

\* What arrivals and hangups do to the record of the request.
LEMMA ArrivalMoves ==
  ASSUME TypeOK, NEW r \in Reqs, NEW op \in Entry, NEW n \in Names
  PROVE  /\ Submit(r, op, n) =>
              /\ Others(r) /\ op # "run" /\ UNCHANGED <<db, fwd, boxes, dbLock>>
              /\ req'[r] = [Idle EXCEPT !.op = op, !.name = n, !.pc = "waiting"]
              /\ req'[r].op = op /\ req'[r].name = n /\ req'[r].pc = "waiting"
         /\ SubmitRun(r, n) =>
              /\ Others(r) /\ ~Exists(n) /\ RowFresh(n, "Enqueued") /\ "run" \in Entry
              /\ DbFree /\ UNCHANGED <<alloc, pid, fwd, boxes>>
              /\ req'[r].op = "run" /\ req'[r].name = n /\ req'[r].pc = "arrived"
  <1>1. ASSUME Submit(r, op, n)
        PROVE  /\ Others(r) /\ op # "run" /\ UNCHANGED <<db, fwd, boxes, dbLock>>
               /\ req'[r] = [Idle EXCEPT !.op = op, !.name = n, !.pc = "waiting"]
               /\ req'[r].op = op /\ req'[r].name = n /\ req'[r].pc = "waiting"
    BY <1>1 DEF Submit, Others, Idle, TypeOK
  <1>2. ASSUME SubmitRun(r, n)
        PROVE  /\ Others(r) /\ ~Exists(n) /\ RowFresh(n, "Enqueued") /\ "run" \in Entry
               /\ DbFree /\ UNCHANGED <<alloc, pid, fwd, boxes>>
               /\ req'[r].op = "run" /\ req'[r].name = n /\ req'[r].pc = "arrived"
    BY <1>2, FreshMoves, Statuses DEF SubmitRun, Others, Idle, TypeOK, Transitional
  <1> QED
    BY <1>1, <1>2

LEMMA HangupMoves ==
  ASSUME TypeOK, NEW r \in Reqs, Hangup(r)
  PROVE  /\ Gone(r) /\ UNCHANGED <<db, fwd, boxes>>
         /\ "hangup" \in Faults /\ req[r].op \in Http
  BY DEF Hangup, Gone, Others, TypeOK

LEMMA RolesNext ==
  ASSUME IInv, Serialized, Roles, [Next]_vars
  PROVE  Roles'
  <1>1. ASSUME NEW r \in Reqs, Others(r), Role(r)'
        PROVE  Roles'
    BY <1>1 DEF Others, Roles, Role
  <1>2. ASSUME NEW r \in Reqs, Step(r) PROVE Roles'
    BY <1>1, <1>2, StepWorks, StepRole DEF Roles
  <1>3. ASSUME NEW r \in Reqs, NEW op \in Entry, NEW n \in Names, Submit(r, op, n)
        PROVE  Roles'
    BY <1>1, <1>3, ArrivalMoves DEF IInv, Role, RunPcs, RmPcs
  <1>4. ASSUME NEW r \in Reqs, NEW n \in Names, SubmitRun(r, n) PROVE Roles'
    <2>1. "run" \in Entry
      BY <1>4 DEF SubmitRun
    <2> QED
      BY <1>1, <1>4, <2>1, ArrivalMoves DEF IInv, Role, RunPcs, RmPcs
  <1>5. ASSUME NEW r \in Reqs, Hangup(r) PROVE Roles'
    BY <1>1, <1>5, HangupMoves, IdleRole DEF IInv, Gone
  <1>6. CASE Restart
    BY <1>6 DEF Restart, Roles, Role, Idle, RunPcs, RmPcs
  <1>7. CASE UNCHANGED vars
    BY <1>7 DEF vars, Roles, Role
  <1> QED
    BY <1>2, <1>3, <1>4, <1>5, <1>6, <1>7 DEF Next

LEMMA AskedNext ==
  ASSUME IInv, Serialized, Roles, Asked, [Next]_vars
  PROVE  Asked'
  <1> TypeOK
    BY DEF IInv
  <1>1. ASSUME NEW r \in Reqs, Step(r) PROVE Asked'
    <2>1. PICK n \in Names : Works(r, n)
      BY <1>1, StepWorks
    <2>2. Others(r) /\ (req'[r].pc = "idle" \/ req'[r].op = req[r].op)
      BY <1>1, <2>1, StepRole, StepName DEF Roles
    <2> QED
      BY <2>1, <2>2 DEF Asked, Others, Works
  <1>2. ASSUME NEW r \in Reqs, NEW op \in Entry, NEW n \in Names, Submit(r, op, n)
        PROVE  Asked'
    <2>1. Others(r) /\ req'[r].op = op
      BY <1>2, ArrivalMoves
    <2> QED
      BY <2>1 DEF Asked, Others
  <1>3. ASSUME NEW r \in Reqs, NEW n \in Names, SubmitRun(r, n) PROVE Asked'
    <2>1. "run" \in Entry
      BY <1>3 DEF SubmitRun
    <2> QED
      BY <1>3, <2>1, ArrivalMoves DEF Asked, Others
  <1>4. ASSUME NEW r \in Reqs, Hangup(r) PROVE Asked'
    BY <1>4, HangupMoves DEF Asked, Gone, Others, Idle
  <1>5. CASE Restart
    BY <1>5 DEF Restart, Asked, Idle
  <1>6. CASE UNCHANGED vars
    BY <1>6 DEF vars, Asked
  <1> QED
    BY <1>1, <1>2, <1>3, <1>4, <1>5, <1>6 DEF Next

LEMMA RolesHold == Spec => [](IInv /\ Serialized /\ Roles)
  <1>1. Init => Roles
    BY DEF Init, Roles, Role, Idle, RunPcs, RmPcs
  <1>2. IInv /\ Serialized /\ Roles /\ [Next]_vars => Roles'
    BY RolesNext
  <1> QED
    BY <1>1, <1>2, InductiveInvariant, PTL DEF Spec

LEMMA AskedHolds == Spec => [](IInv /\ Serialized /\ Roles /\ Asked)
  <1>1. Init => Asked
    BY DEF Init, Asked, Idle
  <1>2. IInv /\ Serialized /\ Roles /\ Asked /\ [Next]_vars => Asked'
    BY AskedNext
  <1> QED
    BY <1>1, <1>2, RolesHold, PTL DEF Spec
----------------------------------------------------------------------------
(* An Enqueued row has a run that is still going to look at it.            *)

Ahead == {"arrived", "waiting", "dangling", "insert", "cleanBox", "cleanDb"}

\* r is a run that will yet insert over the row of n, or delete it.
RunAhead(r, n) ==
  req[r].name = n /\ req[r].op = "run" /\ req[r].pc \in Ahead

LEMMA EnqueuedParts ==
  /\ EnqueuedHasRun <=> \A n \in Names : Is(n, {"Enqueued"}) =>
        \E r \in Reqs : RunAhead(r, n)
  /\ EnqueuedHasRun' <=> \A n \in Names : Is(n, {"Enqueued"})' =>
        \E r \in Reqs : RunAhead(r, n)'
  BY DEF EnqueuedHasRun, RunAhead, WorksOn, Ahead

\* A step puts no row into the queue, and a run that turns away from a queued
\* row has taken it out of the queue.
KeepsQueue(r, n) ==
  /\ \A m \in Names : Is(m, {"Enqueued"})' => Is(m, {"Enqueued"})
  /\ RunAhead(r, n) /\ Is(n, {"Enqueued"})' => RunAhead(r, n)'

LEMMA QueueRow ==
  ASSUME TypeOK, NEW n \in Names,
         \/ row' = row
         \/ RowGone(n)
         \/ \E s : s # "Enqueued" /\ (RowSet(n, s) \/ RowFresh(n, s))
  PROVE  /\ \A m \in Names : Is(m, {"Enqueued"})' => Is(m, {"Enqueued"})
         /\ row' # row => ~Is(n, {"Enqueued"})'
  BY DEF RowGone, RowSet, RowFresh, RowsBut, Is, Exists

LEMMA RunQueue ==
  ASSUME NEW r, NEW n, Works(r, n), Role(r), RunStep(r)
  PROVE  KeepsQueue(r, n)
  <1> USE WorksFacts
  <1>1. CASE RunJoinQueue(r) \/ RunDangling(r) \/ RunProvisionFails(r) \/ RunCleanBox(r)
    <2>1. row' = row /\ \E pc \in Ahead : MovedTo(r, pc)
      BY <1>1, GotoMoves DEF RunJoinQueue, RunDangling, RunProvisionFails,
                             RunCleanBox, Ahead, db
    <2> QED
      BY <2>1, QueueRow DEF KeepsQueue, RunAhead, MovedTo
  <1>2. CASE RunCheck(r)
    <2>1. row' = row /\ (MovedTo(r, "dangling") \/ ~Exists(n))
      BY <1>2, GotoMoves DEF RunCheck, db
    <2> QED
      BY <2>1, QueueRow DEF KeepsQueue, RunAhead, MovedTo, Ahead, Is, Exists
  <1>3. CASE RunInsert(r)
    <2>1. \/ RowFresh(n, "Provisioning")
          \/ row' = row /\ MovedTo(r, "cleanBox")
      BY <1>3, FreshMoves, GotoMoves, Statuses DEF RunInsert, db, Transitional
    <2> QED
      BY <2>1, QueueRow DEF KeepsQueue, RunAhead, MovedTo, Ahead, RowFresh, Is
  <1>4. CASE RunCreate(r) \/ RunRecord(r) \/ RunFinalize(r)
    <2>1. req[r].pc \notin Ahead
      BY <1>4 DEF RunCreate, RunRecord, RunFinalize, Ahead
    <2>2. \A m \in Names : Is(m, {"Enqueued"})' => Is(m, {"Enqueued"})
      <3>1. CASE RunCreate(r)
        BY <3>1 DEF RunCreate, db, Is, Exists
      <3>2. CASE RunRecord(r)
        BY <3>2, RecordMoves DEF RunRecord, RowsBut, Is, Exists
      <3>3. CASE RunFinalize(r)
        <4>1. row' = row \/ RowSet(n, "Running") \/ RowSet(n, "Idle")
          BY <3>3, SetMoves, Statuses DEF RunFinalize
        <4> QED
          BY <4>1, QueueRow
      <3> QED
        BY <1>4, <3>1, <3>2, <3>3
    <2> QED
      BY <2>1, <2>2 DEF KeepsQueue, RunAhead
  <1>5. CASE RunCleanDb(r)
    <2>1. RowGone(n)
      BY <1>5, DeleteMoves DEF RunCleanDb
    <2> QED
      BY <2>1, QueueRow DEF KeepsQueue, RowGone, Is, Exists
  <1> QED
    BY <1>1, <1>2, <1>3, <1>4, <1>5 DEF RunStep

\* rm, stop and start delete an Enqueued row, or take it out of the queue.
LEMMA RmQueue ==
  ASSUME NEW r, NEW n, Works(r, n), Role(r), RmStep(r)
  PROVE  KeepsQueue(r, n)
  <1> USE WorksFacts
  <1>1. \/ row' = row
        \/ RowGone(n)
        \/ RowSet(n, "Stopping")
    <2>1. CASE RmRead(r) \/ RmBox(r)
      BY <2>1 DEF RmRead, RmBox, db
    <2>2. CASE RmQueued(r) \/ RmDb(r)
      BY <2>2, DeleteMoves DEF RmQueued, RmDb
    <2>3. CASE RmMark(r)
      BY <2>3, SetMoves, TrySetMoves, Statuses
      DEF RmMark, ClearCheckedOut, Is, db, Transitional
    <2> QED
      BY <2>1, <2>2, <2>3 DEF RmStep
  <1>2. req[r].op # "run"
    BY DEF Role, RmPcs, RmStep, RmRead, RmQueued, RmMark, RmBox, RmDb, Admitted
  <1> QED
    BY <1>1, <1>2, QueueRow DEF KeepsQueue, RunAhead

LEMMA StopQueue ==
  ASSUME NEW r, NEW n, Works(r, n), Role(r), StopStep(r)
  PROVE  KeepsQueue(r, n)
  <1> USE WorksFacts
  <1>1. \/ row' = row
        \/ RowGone(n)
        \/ RowSet(n, "Stopping")
        \/ RowSet(n, "Stopped")
    <2>1. CASE StopBegin(r)
      BY <2>1, SetMoves, DeleteMoves, Statuses
      DEF StopBegin, ClearCheckedOut, Is, db, Transitional
    <2>2. CASE StopBox(r) \/ StopDb(r)
      BY <2>2, TrySetMoves, Statuses DEF StopBox, StopDb, db
    <2> QED
      BY <2>1, <2>2 DEF StopStep
  <1>2. req[r].op # "run"
    BY DEF Role, StopStep, StopBegin, StopBox, StopDb, Admitted
  <1> QED
    BY <1>1, <1>2, QueueRow DEF KeepsQueue, RunAhead

LEMMA StartQueue ==
  ASSUME NEW r, NEW n, Works(r, n), Role(r), StartStep(r)
  PROVE  KeepsQueue(r, n)
  <1> USE WorksFacts
  <1>1. \/ row' = row
        \/ RowSet(n, "Starting")
        \/ RowSet(n, "Stopped")
        \/ RowSet(n, "Running")
    <2>1. CASE StartBegin(r)
      BY <2>1, SetMoves, Statuses DEF StartBegin, Is, Transitional
    <2>2. CASE StartBox(r) \/ StartDb(r)
      BY <2>2, TrySetMoves, Statuses DEF StartBox, StartDb, db
    <2>3. CASE StartFails(r)
      BY <2>3, RevertMoves, Statuses DEF StartFails
    <2> QED
      BY <2>1, <2>2, <2>3 DEF StartStep
  <1>2. req[r].op # "run"
    BY DEF Role, StartStep, StartBegin, StartBox, StartFails, StartDb, Admitted
  <1> QED
    BY <1>1, <1>2, QueueRow DEF KeepsQueue, RunAhead

\* assign and unassign write back only statuses they could have begun from.
LEMMA AssignRows ==
  ASSUME NEW r, NEW n, Works(r, n), Role(r), AssignStep(r)
  PROVE  row' = row \/ \E s \in CanAssign : RowSet(n, s)
  <1> USE WorksFacts
  <1>1. CASE AssignBegin(r) \/ UnassignBegin(r)
    BY <1>1, SetMoves, Statuses DEF AssignBegin, UnassignBegin, Is, CanAssign
  <1>2. CASE AssignBox(r)
    BY <1>2 DEF AssignBox, db
  <1>3. CASE AssignFails(r) \/ AssignDb(r)
    <2>1. req[r].seen \in CanAssign /\ After(req[r].seen) \in CanAssign
      BY <1>3 DEF AssignFails, AssignDb, Role, After, CanAssign
    <2> QED
      BY <1>3, <2>1, RevertMoves, TrySetMoves, Statuses DEF AssignFails, AssignDb
  <1> QED
    BY <1>1, <1>2, <1>3 DEF AssignStep

LEMMA AssignQueue ==
  ASSUME NEW r, NEW n, Works(r, n), Role(r), AssignStep(r)
  PROVE  KeepsQueue(r, n)
  <1> USE WorksFacts
  <1>1. row' = row \/ \E s \in CanAssign : RowSet(n, s)
    BY AssignRows
  <1>2. ~RunAhead(r, n)
    BY DEF AssignStep, AssignBegin, UnassignBegin, AssignBox, AssignFails, AssignDb,
           Admitted, RunAhead, Ahead
  <1> QED
    BY <1>1, <1>2, QueueRow DEF KeepsQueue, CanAssign

\* The rows a checkout clears were checked out.
LEMMA ClearMoves ==
  ASSUME TypeOK, NEW r \in Reqs, CheckoutClear(r)
  PROVE  \A m \in Names :
           IF Is(m, {"CheckedOut"})
           THEN /\ row'[m] # None /\ row'[m].status = "Running"
                /\ row'[m].cid = row[m].cid
           ELSE row'[m] = row[m]
  <1> SUFFICES ASSUME NEW m \in Names
               PROVE  IF Is(m, {"CheckedOut"})
                      THEN /\ row'[m] # None /\ row'[m].status = "Running"
                           /\ row'[m].cid = row[m].cid
                      ELSE row'[m] = row[m]
    OBVIOUS
  <1>1. row'[m] = IF Is(m, {"CheckedOut"})
                  THEN [row[m] EXCEPT !.status = "Running"] ELSE row[m]
    BY DEF CheckoutClear, CheckedOut
  <1>2. CASE Is(m, {"CheckedOut"})
    <2>1. row[m] \in Row
      BY <1>2, ExistingRow DEF Is
    <2>2. /\ [row[m] EXCEPT !.status = "Running"] \in Row
          /\ [row[m] EXCEPT !.status = "Running"].status = "Running"
          /\ [row[m] EXCEPT !.status = "Running"].cid = row[m].cid
      BY <2>1, Statuses DEF Row
    <2> QED
      BY <1>1, <1>2, <2>2, ConstantsOK
  <1> QED
    BY <1>1, <1>2

LEMMA CheckoutQueue ==
  ASSUME NEW r, NEW n, Works(r, n), Role(r), CheckoutStep(r)
  PROVE  KeepsQueue(r, n)
  <1> USE WorksFacts
  <1>1. ~RunAhead(r, n)
    BY DEF CheckoutStep, CheckoutClear, CheckoutBind, CheckoutFails, Admitted,
           RunAhead, Ahead
  <1>2. CASE CheckoutClear(r)
    BY <1>1, <1>2, ClearMoves DEF KeepsQueue, Is, Exists
  <1>3. CASE CheckoutBind(r)
    <2>1. Exists(n)
      BY <1>3 DEF CheckoutBind, Works, IInv, TargetHeld
    <2>2. RowSet(n, "CheckedOut")
      BY <1>3, <2>1, SetMoves, Statuses DEF CheckoutBind
    <2> QED
      BY <1>1, <2>2, QueueRow DEF KeepsQueue
  <1>4. CASE CheckoutFails(r)
    BY <1>1, <1>4, QueueRow DEF CheckoutFails, KeepsQueue
  <1> QED
    BY <1>2, <1>3, <1>4 DEF CheckoutStep

LEMMA EnqueuedNext ==
  ASSUME IInv, Serialized, Roles, EnqueuedHasRun, "crash" \notin Faults, [Next]_vars
  PROVE  EnqueuedHasRun'
  <1> \A n \in Names : Is(n, {"Enqueued"}) => \E r \in Reqs : RunAhead(r, n)
    BY EnqueuedParts
  <1> TypeOK
    BY DEF IInv
  <1>1. ASSUME NEW r \in Reqs, Others(r), NEW n \in Names,
               Is(n, {"Enqueued"})', Is(n, {"Enqueued"}),
               RunAhead(r, n) => RunAhead(r, n)'
        PROVE  \E s \in Reqs : RunAhead(s, n)'
    BY <1>1 DEF Others, RunAhead
  <1>2. ASSUME NEW r \in Reqs, Step(r) PROVE EnqueuedHasRun'
    <2>1. PICK n \in Names : Works(r, n)
      BY <1>2, StepWorks
    <2>2. Others(r) /\ KeepsQueue(r, n)
      BY <1>2, <2>1, StepRole, RunQueue, RmQueue, StopQueue, StartQueue,
         AssignQueue, CheckoutQueue DEF Roles, Step
    <2>3. ASSUME NEW m \in Names, Is(m, {"Enqueued"})'
          PROVE  \E s \in Reqs : RunAhead(s, m)'
      <3>1. RunAhead(r, m) => RunAhead(r, m)'
        BY <2>1, <2>2, <2>3 DEF KeepsQueue, RunAhead, Works
      <3> QED
        BY <1>1, <2>2, <2>3, <3>1 DEF KeepsQueue
    <2> QED
      BY <2>3, EnqueuedParts
  <1>3. ASSUME NEW r \in Reqs, NEW op \in Entry, NEW n \in Names, Submit(r, op, n)
        PROVE  EnqueuedHasRun'
    <2>1. Others(r) /\ row' = row /\ req[r].pc = "idle"
      BY <1>3, ArrivalMoves DEF Submit, db
    <2> QED
      BY <1>1, <2>1, EnqueuedParts DEF RunAhead, Ahead, Is, Exists
  <1>4. ASSUME NEW r \in Reqs, NEW n \in Names, SubmitRun(r, n)
        PROVE  EnqueuedHasRun'
    <2>1. "run" \in Entry /\ req[r].pc = "idle"
      BY <1>4 DEF SubmitRun
    <2>2. Others(r) /\ RowFresh(n, "Enqueued") /\ RunAhead(r, n)'
      <3>1. /\ Others(r) /\ RowFresh(n, "Enqueued")
            /\ req'[r].op = "run" /\ req'[r].name = n /\ req'[r].pc = "arrived"
        BY <1>4, <2>1, ArrivalMoves
      <3> QED
        BY <3>1 DEF RunAhead, Ahead
    <2>3. ASSUME NEW m \in Names, Is(m, {"Enqueued"})'
          PROVE  \E s \in Reqs : RunAhead(s, m)'
      BY <1>1, <2>1, <2>2, <2>3 DEF RowFresh, RowsBut, RunAhead, Ahead, Is, Exists
    <2> QED
      BY <2>3, EnqueuedParts
  <1>5. ASSUME NEW r \in Reqs, Hangup(r) PROVE EnqueuedHasRun'
    <2>1. Others(r) /\ row' = row /\ req[r].op # "run"
      BY <1>5, HangupMoves DEF Gone, db, Http
    <2> QED
      BY <1>1, <2>1, EnqueuedParts DEF RunAhead, Is, Exists
  <1>6. ~Restart
    BY DEF Restart
  <1>7. CASE UNCHANGED vars
    BY <1>7 DEF vars, EnqueuedHasRun, Is, Exists, WorksOn
  <1> QED
    BY <1>2, <1>3, <1>4, <1>5, <1>6, <1>7 DEF Next

\* run, rm, stop and start in any mix, over the socket or over HTTP, whatever
\* fails and however often a name is queued, removed and queued again: as long
\* as coastd lives, an Enqueued row has a run that will yet deal with it.  (A
\* restart forgets the requests and keeps the row.)
THEOREM QueuedRowsAreServed ==
  ASSUME "crash" \notin Faults
  PROVE  Spec => []EnqueuedHasRun
  <1>1. Init => EnqueuedHasRun
    BY DEF Init, EnqueuedHasRun, Is, Exists
  <1>2. IInv /\ Serialized /\ Roles /\ EnqueuedHasRun /\ [Next]_vars => EnqueuedHasRun'
    BY EnqueuedNext
  <1> QED
    BY <1>1, <1>2, RolesHold, PTL DEF Spec
----------------------------------------------------------------------------
(* A recorded container exists, unless somebody is about to drop the row.  *)

\* r will yet insert over the row of n, or delete it.
Dealing(r, n) == RunAhead(r, n) \/ (req[r].name = n /\ req[r].pc = "rmDb")
Doomed(n)     == \E r \in Reqs : Dealing(r, n)

Kept(n) == HasCid(n) /\ box[n] # row[n].cid => Doomed(n)

\* The id that r is about to write into the row of n is the id of a container
\* that exists, or writing it does not matter.
Recordable(r, n) ==
  req[r].pc = "record" /\ req[r].name = n =>
    box[n] = req[r].cid \/ ~Exists(n) \/ Doomed(n)

RecordInv == \A n \in Names : Kept(n) /\ \A r \in Reqs : Recordable(r, n)

\* A row that is still there has kept its container id, a container its name.
Same(m) ==
  /\ Exists(m)' => Exists(m) /\ row'[m].cid = row[m].cid
  /\ box'[m] = box[m]

\* What a step of r on n may do to n.
Drops(n)      == ~Exists(n)'
Leaves(r, n)  == Same(n) /\ ~Dealing(r, n) /\ req'[r].pc # "record"
Inserts(r, n) == row'[n].cid = None /\ req[r].pc = "insert" /\ req'[r].pc = "create"
Creates(r, n) == /\ row'[n] = row[n] /\ box[n] = None
                 /\ req[r].pc = "create" /\ req'[r].pc = "record"
                 /\ req'[r].name = n /\ box'[n] = req'[r].cid
Records(r, n) == /\ Exists(n) /\ row'[n].cid = req[r].cid /\ box'[n] = box[n]
                 /\ req[r].pc = "record" /\ req'[r].pc = "finalize"

KeepsRecord(r, n) ==
  /\ \A m \in Names \ {n} : Same(m)
  /\ \/ Dealing(r, n)'
     \/ Drops(n)
     \/ Leaves(r, n)
     \/ Inserts(r, n)
     \/ Creates(r, n)
     \/ Records(r, n)

\* While a run has the permit no other run is anywhere in its handler.
LEMMA OneRun ==
  ASSUME Serialized, Roles, NEW r \in Reqs, NEW s \in Reqs,
         req[r].pc \in RunPcs \ {"arrived"}, req[s].pc \in RunPcs \ {"arrived"}
  PROVE  r = s
  BY DEF Serialized, Roles, Role, Begun, RunPcs, Gated

LEMMA KeepsRecordInv ==
  ASSUME Serialized, Roles, RecordInv, NEW r \in Reqs, NEW n \in Names,
         Others(r), req[r].pc = "idle" \/ req[r].name = n,
         req'[r].pc = "idle" \/ req'[r].name = n, KeepsRecord(r, n)
  PROVE  RecordInv'
  <1>1. ASSUME NEW m \in Names, Doomed(m), ~Dealing(r, m)
        PROVE  Doomed(m)'
    BY <1>1 DEF Doomed, Dealing, RunAhead, Others
  <1>2. ASSUME NEW m \in Names \ {n}, Doomed(m) PROVE Doomed(m)'
    <2>1. ~Dealing(r, m)
      BY <1>2 DEF Dealing, RunAhead, Ahead
    <2> QED
      BY <1>1, <1>2, <2>1
  <1>3. ASSUME NEW m \in Names \ {n} PROVE Kept(m)'
    BY <1>2, <1>3 DEF RecordInv, Kept, KeepsRecord, Same, HasCid, Exists
  <1>4. Kept(n)'
    <2>1. CASE Dealing(r, n)'
      BY <2>1 DEF Kept, Doomed
    <2>2. CASE Drops(n) \/ Inserts(r, n)
      BY <2>2 DEF Drops, Inserts, Kept, HasCid
    <2>3. CASE Leaves(r, n)
      BY <1>1, <2>3 DEF Leaves, RecordInv, Kept, Same, HasCid, Exists
    <2>4. CASE Creates(r, n)
      <3>1. ~Dealing(r, n)
        BY <2>4 DEF Creates, Dealing, RunAhead, Ahead
      <3> QED
        BY <1>1, <2>4, <3>1 DEF Creates, RecordInv, Kept, HasCid, Exists
    <2>5. CASE Records(r, n)
      <3>1. ~Dealing(r, n) /\ req[r].name = n
        BY <2>5 DEF Records, Dealing, RunAhead, Ahead
      <3>2. box[n] = req[r].cid \/ Doomed(n)
        BY <2>5, <3>1 DEF Records, RecordInv, Recordable
      <3> QED
        BY <1>1, <2>5, <3>1, <3>2 DEF Records, Kept
    <2> QED
      BY <2>1, <2>2, <2>3, <2>4, <2>5 DEF KeepsRecord
  <1>5. ASSUME NEW s \in Reqs \ {r}, NEW m \in Names PROVE Recordable(s, m)'
    <2> SUFFICES ASSUME req'[s].pc = "record", req'[s].name = m
                 PROVE  (box[m] = req[s].cid \/ ~Exists(m) \/ Doomed(m))'
      BY DEF Recordable
    <2>1. /\ req'[s] = req[s] /\ req[s].pc = "record"
          /\ box[m] = req[s].cid \/ ~Exists(m) \/ Doomed(m)
      BY DEF Others, RecordInv, Recordable
    <2>2. CASE m # n
      BY <1>2, <2>1, <2>2 DEF KeepsRecord, Same
    <2>3. CASE m = n
      <3>1. CASE Dealing(r, n)'
        BY <2>3, <3>1 DEF Doomed
      <3>2. CASE Drops(n)
        BY <2>3, <3>2 DEF Drops
      <3>3. CASE Leaves(r, n)
        BY <1>1, <2>1, <2>3, <3>3 DEF Leaves, Same
      <3>4. ~(Inserts(r, n) \/ Creates(r, n) \/ Records(r, n))
        BY <2>1, OneRun DEF Inserts, Creates, Records, RunPcs
      <3> QED
        BY <3>1, <3>2, <3>3, <3>4 DEF KeepsRecord
    <2> QED
      BY <2>2, <2>3
  <1>6. ASSUME NEW m \in Names PROVE Recordable(r, m)'
    <2> SUFFICES ASSUME req'[r].pc = "record", req'[r].name = m
                 PROVE  (box[m] = req[r].cid \/ ~Exists(m) \/ Doomed(m))'
      BY DEF Recordable
    <2>1. m = n
      OBVIOUS
    <2> QED
      BY <2>1 DEF KeepsRecord, Dealing, RunAhead, Ahead, Drops, Leaves, Inserts,
                  Creates, Records
  <1> QED
    BY <1>3, <1>4, <1>5, <1>6 DEF RecordInv

----------------------------------------------------------------------------
LEMMA SetSame ==
  ASSUME NEW n \in Names, box' = box,
         row' = row \/ \E s : RowSet(n, s)
  PROVE  /\ \A m \in Names \ {n} : Same(m)
         /\ Same(n)
  BY DEF RowSet, RowsBut, Same, Exists

LEMMA RunRecords ==
  ASSUME NEW r, NEW n, Works(r, n), Role(r), RunStep(r)
  PROVE  KeepsRecord(r, n)
  <1> USE WorksFacts
  <1>0. req[r].op = "run"
    BY DEF Role, RunPcs, RunStep, RunJoinQueue, RunCheck, RunDangling, RunInsert,
           RunCreate, RunRecord, RunProvisionFails, RunFinalize, RunCleanBox,
           RunCleanDb, Admitted
  <1>1. ASSUME NEW pc \in Ahead, MovedTo(r, pc)
        PROVE  Dealing(r, n)'
    BY <1>0, <1>1 DEF MovedTo, Dealing, RunAhead
  <1>2. ASSUME BoxGone(n) \/ boxes' = boxes, row' = row
        PROVE  \A m \in Names \ {n} : Same(m)
    BY <1>2 DEF BoxGone, BoxesBut, boxes, Same, Exists
  <1>3. CASE \/ RunJoinQueue(r) \/ RunDangling(r) \/ RunProvisionFails(r)
             \/ RunCleanBox(r)
    <2>1. row' = row /\ (BoxGone(n) \/ boxes' = boxes) /\ \E pc \in Ahead : MovedTo(r, pc)
      BY <1>3, GotoMoves, RemoveMoves
      DEF RunJoinQueue, RunDangling, RunProvisionFails, RunCleanBox, Ahead, db
    <2> QED
      BY <1>1, <1>2, <2>1 DEF KeepsRecord
  <1>4. CASE RunCheck(r)
    <2>1. /\ row' = row /\ boxes' = boxes
          /\ MovedTo(r, "dangling") \/ ~Exists(n)
      BY <1>4, GotoMoves DEF RunCheck, db
    <2> QED
      BY <1>1, <1>2, <2>1 DEF KeepsRecord, Drops, Ahead, Exists
  <1>5. CASE RunInsert(r)
    <2>1. CASE RowFresh(n, "Provisioning") /\ MovedTo(r, "create")
      BY <1>5, <2>1 DEF RunInsert, RowFresh, RowsBut, MovedTo, KeepsRecord,
                        Same, Exists, Inserts, boxes
    <2>2. CASE row' = row /\ MovedTo(r, "cleanBox")
      BY <1>1, <1>2, <1>5, <2>2 DEF RunInsert, KeepsRecord, Ahead
    <2> QED
      BY <1>5, <2>1, <2>2, FreshMoves, GotoMoves, Statuses
      DEF RunInsert, db, Transitional
  <1>6. CASE RunCreate(r)
    <2>1. row' = row /\ req[r].pc = "create"
      BY <1>6 DEF RunCreate, db
    <2>2. CASE Goto(r, "cleanBox") /\ UNCHANGED boxes
      <3>1. MovedTo(r, "cleanBox")
        BY <2>2, GotoMoves
      <3> QED
        BY <1>1, <1>2, <2>1, <2>2, <3>1 DEF KeepsRecord, Ahead
    <2>3. ASSUME NEW c, box[n] = None, box' = [box EXCEPT ![n] = c],
                 NEW pc \in {"record", "cleanBox"},
                 req' = [req EXCEPT ![r].pc = pc, ![r].cid = c]
          PROVE  KeepsRecord(r, n)
      <3>1. /\ req'[r].op = "run" /\ req'[r].name = n
            /\ req'[r].pc = pc /\ req'[r].cid = c
        BY <1>0, <2>3 DEF TypeOK, Request
      <3>2. box'[n] = c /\ \A m \in Names \ {n} : Same(m)
        BY <2>1, <2>3 DEF TypeOK, Same, Exists
      <3>3. CASE pc = "record"
        BY <2>1, <2>3, <3>1, <3>2, <3>3 DEF KeepsRecord, Creates
      <3>4. CASE pc = "cleanBox"
        BY <3>1, <3>2, <3>4 DEF KeepsRecord, Dealing, RunAhead, Ahead
      <3> QED
        BY <3>3, <3>4
    <2> QED
      BY <1>6, <2>2, <2>3 DEF RunCreate
  <1>7. CASE RunRecord(r)
    <2>1. box' = box /\ req[r].pc = "record"
      BY <1>7 DEF RunRecord, boxes
    <2>2. CASE Exists(n) /\ row' = [row EXCEPT ![n].cid = req[r].cid] /\ Goto(r, "finalize")
      <3>1. RowsBut(n) /\ row'[n].cid = req[r].cid /\ MovedTo(r, "finalize")
        BY <2>2, RecordMoves, GotoMoves
      <3> QED
        BY <2>1, <2>2, <3>1 DEF KeepsRecord, Records, MovedTo, RowsBut, Same, Exists
    <2>3. CASE row' = row /\ Goto(r, "cleanBox")
      BY <1>1, <2>1, <2>3, SetSame, GotoMoves DEF KeepsRecord, Ahead
    <2> QED
      BY <1>7, <2>2, <2>3 DEF RunRecord
  <1>8. CASE RunFinalize(r)
    <2>1. box' = box /\ req[r].pc = "finalize"
      BY <1>8 DEF RunFinalize, boxes
    <2>2. CASE Goto(r, "cleanBox") /\ row' = row
      BY <1>1, <2>1, <2>2, SetSame, GotoMoves DEF KeepsRecord, Ahead
    <2>3. CASE /\ RowSet(n, "Running") \/ RowSet(n, "Idle")
               /\ Gone(r) \/ MovedTo(r, "autoAssign")
      <3>1. req'[r].pc # "record" /\ ~Dealing(r, n)
        BY <2>1, <2>3 DEF Gone, Idle, MovedTo, Dealing, RunAhead, Ahead
      <3> QED
        BY <2>1, <2>3, <3>1, SetSame DEF KeepsRecord, Leaves
    <2> QED
      BY <1>8, <2>2, <2>3, SetMoves, FinishMoves, GotoMoves, Statuses DEF RunFinalize
  <1>9. CASE RunCleanDb(r)
    <2>1. RowGone(n) /\ box' = box
      BY <1>9, DeleteMoves DEF RunCleanDb, boxes
    <2> QED
      BY <2>1 DEF RowGone, RowsBut, KeepsRecord, Drops, Same, Exists
  <1> QED
    BY <1>3, <1>4, <1>5, <1>6, <1>7, <1>8, <1>9 DEF RunStep

LEMMA RmRecords ==
  ASSUME NEW r, NEW n, Works(r, n), Role(r), RmStep(r)
  PROVE  KeepsRecord(r, n)
  <1> USE WorksFacts
  <1>0. req[r].op # "run"
    BY DEF Role, RmPcs, RmStep, RmRead, RmQueued, RmMark, RmBox, RmDb, Admitted
  <1>1. CASE RmRead(r)
    <2>1. row' = row /\ req[r].pc = "waiting"
      BY <1>1 DEF RmRead, Admitted, db
    <2>2. CASE ~Exists(n) /\ RemoveBox(n)
      <3>1. BoxGone(n) \/ boxes' = boxes
        BY <2>2, RemoveMoves
      <3> QED
        BY <2>1, <2>2, <3>1 DEF BoxGone, BoxesBut, boxes, KeepsRecord, Drops, Same, Exists
    <2>3. CASE /\ \E pc \in {"rmQueued", "rmMark", "rmBox"} : Remember(r, pc)
               /\ UNCHANGED boxes
      <3>1. req'[r].pc # "record" /\ ~Dealing(r, n)
        BY <1>0, <2>1, <2>3, RememberMoves DEF ReadAt, Dealing, RunAhead
      <3> QED
        BY <2>1, <2>3, <3>1, SetSame DEF KeepsRecord, Leaves, boxes
    <2> QED
      BY <1>1, <2>2, <2>3 DEF RmRead
  <1>2. CASE RmQueued(r) \/ RmDb(r)
    <2>1. RowGone(n) /\ box' = box
      BY <1>2, DeleteMoves DEF RmQueued, RmDb, boxes
    <2> QED
      BY <2>1 DEF RowGone, RowsBut, KeepsRecord, Drops, Same, Exists
  <1>3. CASE RmMark(r)
    <2>1. box' = box /\ req[r].pc = "rmMark"
      BY <1>3 DEF RmMark, boxes
    <2>2. row' = row \/ RowSet(n, "Stopping")
      BY <1>3, SetMoves, TrySetMoves, Statuses
      DEF RmMark, ClearCheckedOut, Is, db, Transitional
    <2>3. Gone(r) \/ MovedTo(r, "rmBox")
      BY <1>3, FinishMoves, GotoMoves DEF RmMark
    <2>4. req'[r].pc # "record" /\ ~Dealing(r, n)
      BY <2>1, <2>3 DEF Gone, Idle, MovedTo, Dealing, RunAhead, Ahead
    <2> QED
      BY <2>1, <2>2, <2>4, SetSame DEF KeepsRecord, Leaves
  <1>4. CASE RmBox(r)
    <2>1. row' = row /\ MovedTo(r, "rmDb")
      BY <1>4, GotoMoves DEF RmBox, db
    <2>2. BoxGone(n) \/ boxes' = boxes
      BY <1>4, RemoveMoves DEF RmBox
    <2> QED
      BY <2>1, <2>2 DEF BoxGone, BoxesBut, boxes, MovedTo, KeepsRecord, Dealing, Same, Exists
  <1> QED
    BY <1>1, <1>2, <1>3, <1>4 DEF RmStep

\* stop, start, assign, unassign and checkout remove no container and leave a
\* row its container id, but stop may delete an Enqueued row.
LEMMA StopRecords ==
  ASSUME NEW r, NEW n, Works(r, n), Role(r), StopStep(r)
  PROVE  KeepsRecord(r, n)
  <1> USE WorksFacts
  <1>1. box' = box
    BY DEF StopStep, StopBegin, StopBox, StopDb, boxes
  <1>2. ~Dealing(r, n)
    BY DEF Role, StopStep, StopBegin, StopBox, StopDb, Admitted, Dealing, RunAhead
  <1>3. req'[r].pc # "record"
    <2>1. Finish(r) \/ \E pc \in {"stopBox", "stopDb"} : Goto(r, pc) \/ Remember(r, pc)
      BY DEF StopStep, StopBegin, StopBox, StopDb
    <2>2. Gone(r) \/ \E pc \in {"stopBox", "stopDb"} : MovedTo(r, pc) \/ ReadAt(r, n, pc)
      BY <2>1, FinishMoves, GotoMoves, RememberMoves
    <2> QED
      BY <2>2 DEF Gone, Idle, MovedTo, ReadAt
  <1>4. row' = row \/ RowGone(n) \/ \E s : RowSet(n, s)
    <2>1. CASE StopBegin(r)
      BY <2>1, SetMoves, DeleteMoves, Statuses
      DEF StopBegin, ClearCheckedOut, Is, db, Transitional
    <2>2. CASE StopBox(r) \/ StopDb(r)
      BY <2>2, TrySetMoves, Statuses DEF StopBox, StopDb, db
    <2> QED
      BY <2>1, <2>2 DEF StopStep
  <1>5. CASE RowGone(n)
    BY <1>1, <1>5 DEF RowGone, RowsBut, KeepsRecord, Drops, Same, Exists
  <1> QED
    BY <1>1, <1>2, <1>3, <1>4, <1>5, SetSame DEF KeepsRecord, Leaves

LEMMA StartRecords ==
  ASSUME NEW r, NEW n, Works(r, n), Role(r), StartStep(r)
  PROVE  KeepsRecord(r, n)
  <1> USE WorksFacts
  <1>1. box' = box
    BY DEF StartStep, StartBegin, StartBox, StartFails, StartDb, boxes
  <1>2. ~Dealing(r, n)
    BY DEF Role, StartStep, StartBegin, StartBox, StartFails, StartDb, Admitted,
           Dealing, RunAhead
  <1>3. req'[r].pc # "record"
    <2>1. Finish(r) \/ \E pc \in {"startBox", "startDb"} : Goto(r, pc) \/ Remember(r, pc)
      BY DEF StartStep, StartBegin, StartBox, StartFails, StartDb
    <2>2. Gone(r) \/ \E pc \in {"startBox", "startDb"} : MovedTo(r, pc) \/ ReadAt(r, n, pc)
      BY <2>1, FinishMoves, GotoMoves, RememberMoves
    <2> QED
      BY <2>2 DEF Gone, Idle, MovedTo, ReadAt
  <1>4. row' = row \/ \E s : RowSet(n, s)
    <2>1. CASE StartBegin(r)
      BY <2>1, SetMoves, Statuses DEF StartBegin, Is, Transitional
    <2>2. CASE StartBox(r) \/ StartDb(r)
      BY <2>2, TrySetMoves, Statuses DEF StartBox, StartDb, db
    <2>3. CASE StartFails(r)
      BY <2>3, RevertMoves, Statuses DEF StartFails
    <2> QED
      BY <2>1, <2>2, <2>3 DEF StartStep
  <1> QED
    BY <1>1, <1>2, <1>3, <1>4, SetSame DEF KeepsRecord, Leaves

LEMMA AssignRecords ==
  ASSUME NEW r, NEW n, Works(r, n), Role(r), AssignStep(r)
  PROVE  KeepsRecord(r, n)
  <1> USE WorksFacts
  <1>1. box' = box
    BY DEF AssignStep, AssignBegin, UnassignBegin, AssignBox, AssignFails, AssignDb, boxes
  <1>2. ~Dealing(r, n)
    BY DEF AssignStep, AssignBegin, UnassignBegin, AssignBox, AssignFails, AssignDb,
           Admitted, Dealing, RunAhead, Ahead
  <1>3. req'[r].pc # "record"
    <2>1. Finish(r) \/ \E pc \in {"assignBox", "assignDb"} : Goto(r, pc) \/ Remember(r, pc)
      BY DEF AssignStep, AssignBegin, UnassignBegin, AssignBox, AssignFails, AssignDb
    <2>2. Gone(r) \/ \E pc \in {"assignBox", "assignDb"} : MovedTo(r, pc) \/ ReadAt(r, n, pc)
      BY <2>1, FinishMoves, GotoMoves, RememberMoves
    <2> QED
      BY <2>2 DEF Gone, Idle, MovedTo, ReadAt
  <1>4. row' = row \/ \E s : RowSet(n, s)
    BY AssignRows
  <1> QED
    BY <1>1, <1>2, <1>3, <1>4, SetSame DEF KeepsRecord, Leaves

LEMMA CheckoutRecords ==
  ASSUME NEW r, NEW n, Works(r, n), Role(r), CheckoutStep(r)
  PROVE  KeepsRecord(r, n)
  <1> USE WorksFacts
  <1>1. box' = box
    BY DEF CheckoutStep, CheckoutClear, CheckoutBind, CheckoutFails, boxes
  <1>2. ~Dealing(r, n)
    BY DEF CheckoutStep, CheckoutClear, CheckoutBind, CheckoutFails, Admitted,
           Dealing, RunAhead, Ahead
  <1>3. req'[r].pc # "record"
    <2>1. Finish(r) \/ Remember(r, "bind")
      BY DEF CheckoutStep, CheckoutClear, CheckoutBind, CheckoutFails
    <2>2. Gone(r) \/ ReadAt(r, n, "bind")
      BY <2>1, FinishMoves, RememberMoves
    <2> QED
      BY <2>2 DEF Gone, Idle, ReadAt
  <1>4. \A m \in Names : Same(m)
    <2>1. CASE CheckoutClear(r)
      BY <1>1, <2>1, ClearMoves DEF Same, Is, Exists
    <2>2. CASE CheckoutBind(r)
      <3>1. Exists(n)
        BY <2>2 DEF CheckoutBind, Works, IInv, TargetHeld
      <3>2. RowSet(n, "CheckedOut")
        BY <2>2, <3>1, SetMoves, Statuses DEF CheckoutBind
      <3> QED
        BY <1>1, <3>2, SetSame
    <2>3. CASE CheckoutFails(r)
      BY <1>1, <2>3 DEF CheckoutFails, Same, Exists
    <2> QED
      BY <2>1, <2>2, <2>3 DEF CheckoutStep
  <1> QED
    BY <1>2, <1>3, <1>4 DEF KeepsRecord, Leaves

----------------------------------------------------------------------------
\* coastd lives, and whoever removes an instance over HTTP waits for it.
RemovalsEnd ==
  /\ "crash" \notin Faults
  /\ "hangup" \in Faults => "apiRm" \notin Entry

LEMMA RecordNext ==
  ASSUME IInv, Serialized, Roles, RecordInv, RemovalsEnd, [Next]_vars
  PROVE  RecordInv'
  <1> TypeOK
    BY DEF IInv
  <1>1. ASSUME NEW r \in Reqs, Step(r) PROVE RecordInv'
    <2>1. PICK n \in Names : Works(r, n)
      BY <1>1, StepWorks
    <2>2. KeepsRecord(r, n)
      BY <1>1, <2>1, RunRecords, RmRecords, StopRecords, StartRecords,
         AssignRecords, CheckoutRecords DEF Roles, Step
    <2>3. Others(r)
      BY <1>1, <2>1, StepRole DEF Roles
    <2>4. req[r].name = n
      BY <2>1 DEF Works
    <2>5. req'[r].pc = "idle" \/ req'[r].name = n
      BY <1>1, <2>1, StepName
    <2> QED
      BY <2>2, <2>3, <2>4, <2>5, KeepsRecordInv
  <1>2. ASSUME NEW r \in Reqs, NEW op \in Entry, NEW n \in Names, Submit(r, op, n)
        PROVE  RecordInv'
    <2>1. /\ Others(r) /\ row' = row /\ box' = box /\ req[r].pc = "idle"
          /\ req'[r].name = n /\ req'[r].pc = "waiting"
      BY <1>2, ArrivalMoves DEF Submit, db, boxes
    <2>2. KeepsRecord(r, n)
      BY <2>1, SetSame DEF KeepsRecord, Leaves, Dealing, RunAhead, Ahead
    <2> QED
      BY <2>1, <2>2, KeepsRecordInv
  <1>3. ASSUME NEW r \in Reqs, NEW n \in Names, SubmitRun(r, n)
        PROVE  RecordInv'
    <2>1. "run" \in Entry /\ req[r].pc = "idle"
      BY <1>3 DEF SubmitRun
    <2>2. /\ Others(r) /\ RowFresh(n, "Enqueued") /\ box' = box
          /\ req'[r].op = "run" /\ req'[r].name = n /\ req'[r].pc = "arrived"
      BY <1>3, <2>1, ArrivalMoves DEF boxes
    <2>3. KeepsRecord(r, n)
      BY <2>2 DEF KeepsRecord, Dealing, RunAhead, Ahead, RowFresh, RowsBut, Same, Exists
    <2> QED
      BY <2>1, <2>2, <2>3, KeepsRecordInv
  <1>4. ASSUME NEW r \in Reqs, Hangup(r) PROVE RecordInv'
    <2>1. PICK n \in Names : req[r].name = n
      BY <1>4, Serving DEF Hangup
    <2>2. /\ Others(r) /\ row' = row /\ box' = box /\ req'[r].pc = "idle"
          /\ "hangup" \in Faults /\ req[r].op \in Http
      BY <1>4, HangupMoves DEF Gone, Idle, db, boxes
    <2>3. ~Dealing(r, n)
      BY <1>4, <2>2 DEF Hangup, RemovalsEnd, Roles, Role, RmPcs, Http, Dealing, RunAhead
    <2>4. KeepsRecord(r, n)
      BY <2>2, <2>3, SetSame DEF KeepsRecord, Leaves
    <2> QED
      BY <2>1, <2>2, <2>4, KeepsRecordInv
  <1>5. ~Restart
    BY DEF Restart, RemovalsEnd
  <1>6. CASE UNCHANGED vars
    BY <1>6 DEF vars, RecordInv, Kept, Recordable, Doomed, Dealing, RunAhead, HasCid, Exists
  <1> QED
    BY <1>1, <1>2, <1>3, <1>4, <1>5, <1>6 DEF Next

\* run and rm, with stop, start, assign and checkout between them over either
\* server, whatever fails in Docker: a row that nobody works on and that names
\* a container names one that is still there.
THEOREM RecordedIdsExist ==
  ASSUME RemovalsEnd
  PROVE  Spec => []RecordedContainerExists
  <1>1. Init => RecordInv
    BY DEF Init, RecordInv, Kept, Recordable, HasCid, Exists, Idle
  <1>2. IInv /\ Serialized /\ Roles /\ RecordInv /\ [Next]_vars => RecordInv'
    BY RecordNext
  <1>3. RecordInv => RecordedContainerExists
    BY DEF RecordInv, Kept, Doomed, Dealing, RunAhead, Ahead, WorksOn,
           RecordedContainerExists
  <1> QED
    BY <1>1, <1>2, <1>3, RolesHold, PTL DEF Spec
----------------------------------------------------------------------------
(* No container without a row.                                             *)

\* n has a row that stop will not simply delete.
Settled(n) == Exists(n) /\ row[n].status # "Enqueued"

\* A container has such a row, which names it or is about to.
Sheltered(n) ==
  box[n] # None =>
    /\ Settled(n)
    /\ \/ row[n].cid = box[n]
       \/ \E r \in Reqs : req[r].pc = "record" /\ req[r].name = n

\* r deletes or replaces a row only when there is no container, and removes
\* the only container there is.
NoBoxPcs   == {"insert", "create", "cleanDb", "rmQueued", "rmDb"}
CarefulPcs == NoBoxPcs \union {"record", "finalize", "rmMark", "rmBox"}

Careful(r, n) ==
  req[r].name = n =>
    /\ req[r].pc \in NoBoxPcs => box[n] = None
    /\ req[r].pc \in {"create", "record", "finalize"} => Settled(n)
    /\ req[r].pc = "record" => box[n] = req[r].cid
    /\ req[r].pc \in {"rmMark", "rmBox"} => box[n] \in {None, req[r].cid}

OrphanInv == \A n \in Names : Sheltered(n) /\ \A r \in Reqs : Careful(r, n)

\* A step that leaves the container and the id of a row that shelters it.
Gentle(n) ==
  /\ box'[n] = box[n]
  /\ Settled(n) => Settled(n)' /\ row'[n].cid = row[n].cid

Alone(r) == \A s \in Reqs \ {r} : req[s].pc \notin CarefulPcs

KeepsShelter(r, n) ==
  /\ \A m \in Names \ {n} : Gentle(m)
  /\ \/ Gentle(n) /\ req[r].pc # "record"
     \/ Alone(r) /\ Sheltered(n)'
  /\ Careful(r, n)'

LEMMA KeepsOrphanInv ==
  ASSUME OrphanInv, NEW r \in Reqs, NEW n \in Names, Others(r),
         req[r].pc = "idle" \/ req[r].name = n,
         req'[r].pc = "idle" \/ req'[r].name = n, KeepsShelter(r, n)
  PROVE  OrphanInv'
  <1>1. ASSUME NEW m \in Names, Gentle(m), req[r].pc # "record" \/ m # n
        PROVE  Sheltered(m)'
    BY <1>1 DEF OrphanInv, Sheltered, Gentle, Others
  <1>2. ASSUME NEW m \in Names, NEW s \in Reqs \ {r}, Gentle(m)
        PROVE  Careful(s, m)'
    <2>1. req'[s] = req[s] /\ Careful(s, m)
      BY DEF OrphanInv, Others
    <2> QED
      BY <1>2, <2>1 DEF Careful, Gentle
  <1>3. ASSUME NEW s \in Reqs \ {r}, Alone(r) PROVE Careful(s, n)'
    <2>1. req'[s].pc \notin CarefulPcs
      BY <1>3 DEF Alone, Others
    <2> QED
      BY <2>1 DEF Careful, CarefulPcs, NoBoxPcs
  <1>4. ASSUME NEW m \in Names \ {n} PROVE Careful(r, m)'
    BY <1>4 DEF Careful, NoBoxPcs
  <1> QED
    BY <1>1, <1>2, <1>3, <1>4 DEF KeepsShelter, OrphanInv

\* Containers are created and removed by run and by rm over HTTP, both of
\* which take the permit, and Docker does what it is asked to.
RemovalsWork == "rm" \notin Entry /\ "docker" \notin Faults /\ "crash" \notin Faults

LEMMA PermitAlone ==
  ASSUME Serialized, Roles, RemovalsWork, NEW r \in Reqs, permit = r
  PROVE  Alone(r)
  <1> SUFFICES ASSUME NEW s \in Reqs \ {r}, req[s].pc \in CarefulPcs
               PROVE  FALSE
    BY DEF Alone
  <1>1. req[s].pc # "idle" /\ Begun(s)
    BY DEF CarefulPcs, NoBoxPcs, Begun
  <1>2. req[s].op \in {"run", "rm", "apiRm"} /\ req[s].op \in Entry
    BY <1>1 DEF CarefulPcs, NoBoxPcs, Roles, Role, RunPcs, RmPcs
  <1>3. req[s].op \in Gated
    BY <1>2 DEF RemovalsWork, Gated
  <1> QED
    BY <1>1, <1>3 DEF Serialized

\* run and rm are alone from their first look at the row.
LEMMA GatedAlone ==
  ASSUME NEW r, NEW n, Works(r, n), Roles, RemovalsWork,
         RunStep(r) \/ RmStep(r), ~RunJoinQueue(r)
  PROVE  Alone(r)
  <1>1. req[r].op \in {"run", "rm", "apiRm"} /\ req[r].op \in Entry
    BY WorksFacts DEF Roles, Role, RunPcs, RmPcs, RunStep, RunCheck, RunDangling, RunInsert,
           RunCreate, RunRecord, RunProvisionFails, RunFinalize, RunCleanBox,
           RunCleanDb, RmStep, RmRead, RmQueued, RmMark, RmBox, RmDb, Admitted, Works
  <1>2. req[r].op \in Gated
    BY <1>1 DEF RemovalsWork, Gated
  <1>3. permit = r
    BY <1>2 DEF Works, Serialized, Begun, RunStep, RunCheck, RunDangling, RunInsert,
           RunCreate, RunRecord, RunProvisionFails, RunFinalize, RunCleanBox,
           RunCleanDb, RmStep, RmRead, RmQueued, RmMark, RmBox, RmDb, Admitted
  <1> QED
    BY <1>3, PermitAlone DEF Works

LEMMA GentleRows ==
  ASSUME NEW n \in Names, box' = box,
         \/ row' = row
         \/ RowGone(n) /\ ~Settled(n)
         \/ \E s : s # "Enqueued" /\ RowSet(n, s)
  PROVE  Gentle(n) /\ \A m \in Names \ {n} : Gentle(m)
  BY DEF RowGone, RowSet, RowsBut, Gentle, Settled, Exists

\* r is at no point where it has to be careful.
LEMMA CareFree ==
  ASSUME NEW r, NEW n,
         \/ Gone(r)
         \/ \E pc : pc \notin CarefulPcs /\ (MovedTo(r, pc) \/ ReadAt(r, n, pc))
  PROVE  Careful(r, n)'
  BY DEF Gone, Idle, MovedTo, ReadAt, Careful, CarefulPcs, NoBoxPcs

LEMMA RunShelters ==
  ASSUME NEW r, NEW n, Works(r, n), Roles, RemovalsWork, OrphanInv, RunStep(r)
  PROVE  KeepsShelter(r, n)
  <1> USE WorksFacts
  <1>1. Sheltered(n) /\ Careful(r, n) /\ "docker" \notin Faults
    BY DEF OrphanInv, RemovalsWork
  <1>2. ASSUME row' = row, box' = box, req[r].pc # "record", Careful(r, n)'
        PROVE  KeepsShelter(r, n)
    BY <1>2, GentleRows DEF KeepsShelter
  <1>3. CASE RunJoinQueue(r) \/ RunCheck(r) \/ RunProvisionFails(r)
    <2>1. row' = row /\ box' = box /\ req[r].pc # "record"
      BY <1>3 DEF RunJoinQueue, RunCheck, RunProvisionFails, Admitted, db, boxes
    <2>2. Gone(r) \/ \E pc \in {"waiting", "dangling", "cleanBox"} : MovedTo(r, pc)
      BY <1>3, GotoMoves, FinishMoves DEF RunJoinQueue, RunCheck, RunProvisionFails
    <2>3. Careful(r, n)'
      BY <2>2, CareFree DEF CarefulPcs, NoBoxPcs
    <2> QED
      BY <1>2, <2>1, <2>3
  <1>4. CASE RunDangling(r)
    <2>1. row' = row /\ req[r].pc = "dangling" /\ Alone(r)
      BY <1>4, GatedAlone DEF RunDangling, RunJoinQueue, RunStep, db
    <2>2. CASE box[n] = None /\ Goto(r, "insert") /\ UNCHANGED boxes
      <3>1. MovedTo(r, "insert") /\ box' = box
        BY <2>2, GotoMoves DEF boxes
      <3> QED
        BY <1>2, <2>1, <2>2, <3>1 DEF Careful, MovedTo
    <2>3. CASE Goto(r, "insert") /\ RemoveBox(n)
      <3>1. MovedTo(r, "insert") /\ BoxGone(n)
        BY <1>1, <2>3, GotoMoves, RemoveMoves
      <3> QED
        BY <2>1, <3>1 DEF KeepsShelter, Gentle, Settled, Exists, BoxGone, BoxesBut,
                          Sheltered, Careful, MovedTo
    <2>4. CASE Goto(r, "cleanBox") /\ UNCHANGED boxes
      <3>1. Careful(r, n)' /\ box' = box
        BY <2>4, GotoMoves, CareFree DEF CarefulPcs, NoBoxPcs, boxes
      <3> QED
        BY <1>2, <2>1, <3>1
    <2> QED
      BY <1>4, <2>2, <2>3, <2>4 DEF RunDangling
  <1>5. CASE RunInsert(r)
    <2>1. box' = box /\ req[r].pc = "insert" /\ Alone(r)
      BY <1>5, GatedAlone DEF RunInsert, RunJoinQueue, RunStep, boxes
    <2>2. box[n] = None
      BY <1>1, <2>1 DEF Careful, NoBoxPcs
    <2>3. CASE RowFresh(n, "Provisioning") /\ MovedTo(r, "create")
      BY <2>1, <2>2, <2>3 DEF KeepsShelter, Gentle, Settled, Exists, RowFresh, RowsBut,
                              Sheltered, Careful, MovedTo
    <2>4. CASE row' = row /\ MovedTo(r, "cleanBox")
      BY <1>2, <2>1, <2>4, CareFree DEF CarefulPcs, NoBoxPcs
    <2> QED
      BY <1>5, <2>3, <2>4, FreshMoves, GotoMoves, Statuses
      DEF RunInsert, db, Transitional
  <1>6. CASE RunCreate(r)
    <2>1. row' = row /\ req[r].pc = "create" /\ Alone(r)
      BY <1>6, GatedAlone DEF RunCreate, RunJoinQueue, RunStep, db
    <2>2. box[n] = None /\ Settled(n)
      BY <1>1, <2>1 DEF Careful, NoBoxPcs
    <2>3. PICK c \in Cids :
            /\ box' = [box EXCEPT ![n] = c]
            /\ req' = [req EXCEPT ![r].pc = "record", ![r].cid = c]
      BY <1>1, <1>6, <2>2 DEF RunCreate
    <2>4. req'[r].name = n /\ req'[r].pc = "record" /\ req'[r].cid = c
      BY <2>3 DEF TypeOK, Request
    <2>5. box'[n] = c /\ \A m \in Names \ {n} : box'[m] = box[m]
      BY <2>3 DEF TypeOK
    <2>6. Sheltered(n)' /\ Careful(r, n)'
      BY <2>1, <2>2, <2>4, <2>5 DEF Sheltered, Careful, Settled, Exists, NoBoxPcs
    <2> QED
      BY <2>1, <2>5, <2>6 DEF KeepsShelter, Gentle, Settled, Exists
  <1>7. CASE RunRecord(r)
    <2>1. box' = box /\ req[r].pc = "record" /\ Alone(r)
      BY <1>7, GatedAlone DEF RunRecord, RunJoinQueue, RunStep, boxes
    <2>2. box[n] = req[r].cid /\ Settled(n)
      BY <1>1, <2>1 DEF Careful
    <2>3. row' = [row EXCEPT ![n].cid = req[r].cid] /\ Goto(r, "finalize")
      BY <1>7, <2>2 DEF RunRecord, Settled
    <2>4. /\ RowsBut(n) /\ row'[n] # None
          /\ row'[n].status = row[n].status /\ row'[n].cid = req[r].cid
      BY <2>2, <2>3, RecordMoves DEF Settled
    <2>5. MovedTo(r, "finalize")
      BY <2>3, GotoMoves
    <2>6. Sheltered(n)' /\ Careful(r, n)'
      BY <2>1, <2>2, <2>4, <2>5 DEF Sheltered, Careful, Settled, Exists, NoBoxPcs, MovedTo
    <2> QED
      BY <2>1, <2>4, <2>6 DEF KeepsShelter, Gentle, Settled, Exists, RowsBut
  <1>8. CASE RunFinalize(r)
    <2>1. box' = box /\ req[r].pc = "finalize"
      BY <1>8 DEF RunFinalize, boxes
    <2>2. row' = row \/ RowSet(n, "Running") \/ RowSet(n, "Idle")
      BY <1>8, SetMoves, Statuses DEF RunFinalize
    <2>3. Gone(r) \/ MovedTo(r, "autoAssign") \/ MovedTo(r, "cleanBox")
      BY <1>8, FinishMoves, GotoMoves DEF RunFinalize
    <2>4. Careful(r, n)'
      BY <2>3, CareFree DEF CarefulPcs, NoBoxPcs
    <2> QED
      BY <2>1, <2>2, <2>4, GentleRows DEF KeepsShelter
  <1>9. CASE RunCleanBox(r)
    <2>1. row' = row /\ Alone(r) /\ MovedTo(r, "cleanDb") /\ BoxGone(n)
      BY <1>1, <1>9, GatedAlone, GotoMoves, RemoveMoves
      DEF RunCleanBox, RunJoinQueue, RunStep, db
    <2> QED
      BY <2>1 DEF KeepsShelter, Gentle, Settled, Exists, BoxGone, BoxesBut,
                  Sheltered, Careful, MovedTo
  <1>10. CASE RunCleanDb(r)
    <2>1. /\ box' = box /\ req[r].pc = "cleanDb" /\ Alone(r)
          /\ RowGone(n) /\ Gone(r)
      BY <1>10, GatedAlone, DeleteMoves, FinishMoves
      DEF RunCleanDb, RunJoinQueue, RunStep, boxes
    <2>2. Sheltered(n)' /\ Careful(r, n)'
      BY <1>1, <2>1, CareFree DEF Careful, NoBoxPcs, Sheltered
    <2> QED
      BY <2>1, <2>2 DEF KeepsShelter, Gentle, Settled, Exists, RowGone, RowsBut
  <1> QED
    BY <1>3, <1>4, <1>5, <1>6, <1>7, <1>8, <1>9, <1>10 DEF RunStep

LEMMA RmShelters ==
  ASSUME NEW r, NEW n, Works(r, n), Roles, RemovalsWork, OrphanInv, RmStep(r)
  PROVE  KeepsShelter(r, n)
  <1> USE WorksFacts
  <1>1. /\ Sheltered(n) /\ Careful(r, n) /\ "docker" \notin Faults
        /\ req[r].pc \in {"waiting"} \union RmPcs
    BY DEF OrphanInv, RemovalsWork, RmPcs, RmStep, RmRead, RmQueued, RmMark, RmBox,
           RmDb, Admitted
  <1>2. Alone(r)
    <2>1. ~RunJoinQueue(r)
      BY <1>1 DEF RunJoinQueue, RmPcs
    <2> QED
      BY <2>1, GatedAlone
  <1>3. CASE RmRead(r)
    <2>1. row' = row /\ req[r].pc = "waiting"
      BY <1>3 DEF RmRead, Admitted, db
    <2>2. CASE ~Exists(n) /\ Finish(r) /\ RemoveBox(n)
      <3>1. BoxGone(n) /\ Gone(r)
        BY <1>1, <2>2, RemoveMoves, FinishMoves
      <3> QED
        BY <1>2, <2>1, <3>1, CareFree
        DEF KeepsShelter, Gentle, Settled, Exists, BoxGone, BoxesBut, Sheltered
    <2>3. CASE Exists(n) /\ UNCHANGED boxes
      <3>1. /\ \E pc \in {"rmQueued", "rmMark", "rmBox"} : Remember(r, pc)
            /\ Remember(r, "rmQueued") => Is(n, {"Enqueued"})
        <4>1. CASE Is(n, {"Enqueued"})
          BY <1>3, <2>3, <4>1 DEF RmRead
        <4>2. CASE ~Is(n, {"Enqueued"})
          <5>1. Remember(r, "rmMark") \/ Remember(r, "rmBox")
            BY <1>3, <2>3, <4>2 DEF RmRead
          <5>2. ReadAt(r, n, "rmMark") \/ ReadAt(r, n, "rmBox")
            BY <5>1, RememberMoves
          <5>3. ~Remember(r, "rmQueued")
            BY <5>2, RememberMoves DEF ReadAt
          <5> QED
            BY <5>1, <5>3
        <4> QED
          BY <4>1, <4>2
      <3>2. PICK pc \in {"rmQueued", "rmMark", "rmBox"} : Remember(r, pc)
        BY <3>1
      <3>3. ReadAt(r, n, pc) /\ (pc = "rmQueued" => Is(n, {"Enqueued"}))
        BY <3>1, <3>2, RememberMoves
      <3>4. pc = "rmQueued" => box[n] = None
        BY <1>1, <3>3 DEF Sheltered, Settled, Is
      <3>5. box[n] \in {None, row[n].cid}
        BY <1>1, <1>2, <2>1 DEF Sheltered, Alone, CarefulPcs
      <3>6. Careful(r, n)'
        BY <2>3, <3>3, <3>4, <3>5 DEF Careful, NoBoxPcs, ReadAt, boxes
      <3> QED
        BY <2>1, <2>3, <3>6, GentleRows DEF KeepsShelter, boxes
    <2> QED
      BY <1>3, <2>2, <2>3 DEF RmRead
  <1>4. CASE RmQueued(r) \/ RmDb(r)
    <2>1. /\ box' = box /\ req[r].pc \in NoBoxPcs
          /\ RowGone(n) /\ Gone(r)
      BY <1>4, DeleteMoves, FinishMoves DEF RmQueued, RmDb, NoBoxPcs, boxes
    <2>2. Sheltered(n)' /\ Careful(r, n)'
      BY <1>1, <2>1, CareFree DEF Careful, Sheltered
    <2> QED
      BY <1>2, <2>1, <2>2 DEF KeepsShelter, Gentle, Settled, Exists, RowGone, RowsBut
  <1>5. CASE RmMark(r)
    <2>1. box' = box /\ req[r].pc = "rmMark"
      BY <1>5 DEF RmMark, boxes
    <2>2. row' = row \/ RowSet(n, "Stopping")
      BY <1>5, SetMoves, TrySetMoves, Statuses
      DEF RmMark, ClearCheckedOut, Is, db, Transitional
    <2>3. Gone(r) \/ MovedTo(r, "rmBox")
      BY <1>5, FinishMoves, GotoMoves DEF RmMark
    <2>4. Careful(r, n)'
      BY <1>1, <2>1, <2>3, CareFree DEF Careful, NoBoxPcs, MovedTo
    <2> QED
      BY <2>1, <2>2, <2>4, GentleRows DEF KeepsShelter
  <1>6. CASE RmBox(r)
    <2>1. row' = row /\ req[r].pc = "rmBox" /\ MovedTo(r, "rmDb")
      BY <1>6, GotoMoves DEF RmBox, db
    <2>2. BoxesBut(n) /\ box'[n] = None
      <3>1. CASE Reaches(n, req[r].cid)
        BY <1>1, <1>6, <3>1, RemoveMoves DEF RmBox, BoxGone
      <3>2. CASE ~Reaches(n, req[r].cid)
        BY <1>1, <1>6, <2>1, <3>2 DEF RmBox, Reaches, Careful, boxes, BoxesBut
      <3> QED
        BY <3>1, <3>2
    <2> QED
      BY <1>2, <2>1, <2>2 DEF KeepsShelter, Gentle, Settled, Exists, BoxesBut,
                              Sheltered, Careful, MovedTo
  <1> QED
    BY <1>3, <1>4, <1>5, <1>6 DEF RmStep

\* What the other handlers do to a row leaves its container sheltered.
LEMMA StopShelters ==
  ASSUME NEW r, NEW n, Works(r, n), Roles, OrphanInv, StopStep(r)
  PROVE  KeepsShelter(r, n)
  <1> USE WorksFacts
  <1>1. box' = box /\ req[r].pc # "record"
    BY DEF StopStep, StopBegin, StopBox, StopDb, Admitted, boxes
  <1>2. Finish(r) \/ \E pc \in {"stopBox", "stopDb"} : Goto(r, pc) \/ Remember(r, pc)
    BY DEF StopStep, StopBegin, StopBox, StopDb
  <1>3. Careful(r, n)'
    BY <1>2, FinishMoves, GotoMoves, RememberMoves, CareFree DEF CarefulPcs, NoBoxPcs
  <1>4. \/ row' = row
        \/ RowGone(n) /\ ~Settled(n)
        \/ RowSet(n, "Stopping")
        \/ RowSet(n, "Stopped")
    <2>1. CASE StopBegin(r)
      BY <2>1, SetMoves, DeleteMoves, Statuses
      DEF StopBegin, ClearCheckedOut, Is, db, Transitional, Settled
    <2>2. CASE StopBox(r) \/ StopDb(r)
      BY <2>2, TrySetMoves, Statuses DEF StopBox, StopDb, db
    <2> QED
      BY <2>1, <2>2 DEF StopStep
  <1> QED
    BY <1>1, <1>3, <1>4, GentleRows DEF KeepsShelter

LEMMA StartShelters ==
  ASSUME NEW r, NEW n, Works(r, n), Roles, OrphanInv, StartStep(r)
  PROVE  KeepsShelter(r, n)
  <1> USE WorksFacts
  <1>1. box' = box /\ req[r].pc # "record"
    BY DEF StartStep, StartBegin, StartBox, StartFails, StartDb, Admitted, boxes
  <1>2. Finish(r) \/ \E pc \in {"startBox", "startDb"} : Goto(r, pc) \/ Remember(r, pc)
    BY DEF StartStep, StartBegin, StartBox, StartFails, StartDb
  <1>3. Careful(r, n)'
    BY <1>2, FinishMoves, GotoMoves, RememberMoves, CareFree DEF CarefulPcs, NoBoxPcs
  <1>4. \/ row' = row
        \/ RowSet(n, "Starting")
        \/ RowSet(n, "Stopped")
        \/ RowSet(n, "Running")
    <2>1. CASE StartBegin(r)
      BY <2>1, SetMoves, Statuses DEF StartBegin, Is, Transitional
    <2>2. CASE StartBox(r) \/ StartDb(r)
      BY <2>2, TrySetMoves, Statuses DEF StartBox, StartDb, db
    <2>3. CASE StartFails(r)
      BY <2>3, RevertMoves, Statuses DEF StartFails
    <2> QED
      BY <2>1, <2>2, <2>3 DEF StartStep
  <1> QED
    BY <1>1, <1>3, <1>4, GentleRows DEF KeepsShelter

LEMMA AssignShelters ==
  ASSUME NEW r, NEW n, Works(r, n), Roles, OrphanInv, AssignStep(r)
  PROVE  KeepsShelter(r, n)
  <1> USE WorksFacts
  <1>1. box' = box /\ req[r].pc # "record"
    BY DEF AssignStep, AssignBegin, UnassignBegin, AssignBox, AssignFails, AssignDb,
           Admitted, boxes
  <1>2. Finish(r) \/ \E pc \in {"assignBox", "assignDb"} : Goto(r, pc) \/ Remember(r, pc)
    BY DEF AssignStep, AssignBegin, UnassignBegin, AssignBox, AssignFails, AssignDb
  <1>3. Careful(r, n)'
    BY <1>2, FinishMoves, GotoMoves, RememberMoves, CareFree DEF CarefulPcs, NoBoxPcs
  <1>4. row' = row \/ \E s \in CanAssign : RowSet(n, s)
    BY AssignRows DEF Roles
  <1> QED
    BY <1>1, <1>3, <1>4, GentleRows DEF KeepsShelter, CanAssign

LEMMA CheckoutShelters ==
  ASSUME NEW r, NEW n, Works(r, n), Roles, OrphanInv, CheckoutStep(r)
  PROVE  KeepsShelter(r, n)
  <1> USE WorksFacts
  <1>1. box' = box /\ req[r].pc # "record"
    BY DEF CheckoutStep, CheckoutClear, CheckoutBind, CheckoutFails, Admitted, boxes
  <1>2. Finish(r) \/ Remember(r, "bind")
    BY DEF CheckoutStep, CheckoutClear, CheckoutBind, CheckoutFails
  <1>3. Careful(r, n)'
    BY <1>2, FinishMoves, RememberMoves, CareFree DEF CarefulPcs, NoBoxPcs
  <1>4. \A m \in Names : Gentle(m)
    <2>1. CASE CheckoutClear(r)
      BY <1>1, <2>1, ClearMoves DEF Gentle, Settled, Is, Exists
    <2>2. CASE CheckoutBind(r)
      <3>1. Exists(n)
        BY <2>2 DEF CheckoutBind, Works, IInv, TargetHeld
      <3>2. RowSet(n, "CheckedOut")
        BY <2>2, <3>1, SetMoves, Statuses DEF CheckoutBind
      <3> QED
        BY <1>1, <3>2, GentleRows
    <2>3. CASE CheckoutFails(r)
      BY <1>1, <2>3 DEF CheckoutFails, Gentle, Settled, Exists
    <2> QED
      BY <2>1, <2>2, <2>3 DEF CheckoutStep
  <1> QED
    BY <1>1, <1>3, <1>4 DEF KeepsShelter

LEMMA OrphanNext ==
  ASSUME IInv, Serialized, Roles, OrphanInv, RemovalsWork, [Next]_vars
  PROVE  OrphanInv'
  <1> TypeOK
    BY DEF IInv
  <1>1. ASSUME NEW r \in Reqs, Step(r) PROVE OrphanInv'
    <2>1. PICK n \in Names : Works(r, n)
      BY <1>1, StepWorks
    <2>2. KeepsShelter(r, n)
      BY <1>1, <2>1, RunShelters, RmShelters, StopShelters, StartShelters,
         AssignShelters, CheckoutShelters DEF Step
    <2>3. Others(r) /\ req[r].name = n
      BY <1>1, <2>1, StepRole DEF Roles, Works
    <2>4. req'[r].pc = "idle" \/ req'[r].name = n
      BY <1>1, <2>1, StepName
    <2> QED
      BY <2>2, <2>3, <2>4, KeepsOrphanInv
  <1>2. ASSUME NEW r \in Reqs, NEW op \in Entry, NEW n \in Names, Submit(r, op, n)
        PROVE  OrphanInv'
    <2>1. /\ Others(r) /\ row' = row /\ box' = box /\ req[r].pc = "idle"
          /\ req'[r].name = n /\ req'[r].pc = "waiting"
      BY <1>2, ArrivalMoves DEF Submit, db, boxes
    <2>2. KeepsShelter(r, n)
      BY <2>1, GentleRows DEF KeepsShelter, Careful, NoBoxPcs
    <2> QED
      BY <2>1, <2>2, KeepsOrphanInv
  <1>3. ASSUME NEW r \in Reqs, NEW n \in Names, SubmitRun(r, n)
        PROVE  OrphanInv'
    <2>1. "run" \in Entry /\ req[r].pc = "idle"
      BY <1>3 DEF SubmitRun
    <2>2. /\ Others(r) /\ ~Exists(n) /\ RowFresh(n, "Enqueued") /\ box' = box
          /\ req'[r].name = n /\ req'[r].pc = "arrived"
      BY <1>3, <2>1, ArrivalMoves DEF boxes
    <2>3. Gentle(n) /\ \A m \in Names \ {n} : Gentle(m)
      BY <2>2 DEF RowFresh, RowsBut, Gentle, Settled, Exists
    <2>4. KeepsShelter(r, n)
      BY <2>1, <2>2, <2>3 DEF KeepsShelter, Careful, NoBoxPcs
    <2> QED
      BY <2>1, <2>2, <2>4, KeepsOrphanInv
  <1>4. ASSUME NEW r \in Reqs, Hangup(r) PROVE OrphanInv'
    <2>1. PICK n \in Names : req[r].name = n
      BY <1>4, Serving DEF Hangup
    <2>2. /\ Gone(r) /\ row' = row /\ box' = box /\ req[r].op \in Http
      BY <1>4, HangupMoves DEF db, boxes
    <2>3. req[r].pc # "record"
      BY <2>2 DEF Roles, Role, RunPcs, Http
    <2>4. KeepsShelter(r, n)
      BY <2>2, <2>3, GentleRows, CareFree DEF KeepsShelter
    <2> QED
      BY <2>1, <2>2, <2>4, KeepsOrphanInv DEF Gone, Idle
  <1>5. ~Restart
    BY DEF Restart, RemovalsWork
  <1>6. CASE UNCHANGED vars
    BY <1>6 DEF vars, OrphanInv, Sheltered, Careful, Settled, Exists
  <1> QED
    BY <1>1, <1>2, <1>3, <1>4, <1>5, <1>6 DEF Next

\* run, stop, start, assign, unassign and checkout over either server and rm
\* over HTTP, clients that hang up included: every container has a row, so that
\* the user can see it and remove it.  (rm over the socket takes no permit and
\* may delete the row under a run that is creating the container, and a
\* removal that fails in Docker is not reported.)
THEOREM NoContainerIsOrphaned ==
  ASSUME RemovalsWork
  PROVE  Spec => []NoOrphanContainer
  <1>1. Init => OrphanInv
    BY DEF Init, OrphanInv, Sheltered, Careful, Idle, NoBoxPcs
  <1>2. IInv /\ Serialized /\ Roles /\ OrphanInv /\ [Next]_vars => OrphanInv'
    BY OrphanNext
  <1>3. OrphanInv => NoOrphanContainer
    BY DEF OrphanInv, Sheltered, Settled, NoOrphanContainer
  <1> QED
    BY <1>1, <1>2, <1>3, RolesHold, PTL DEF Spec
----------------------------------------------------------------------------
(* What is shown as up runs, where instances are made and never stopped.   *)

NothingStops ==
  Entry \subseteq {"run", "assign", "unassign", "autoUnassign", "checkout", "release"}

Sealed    == {"create", "record", "finalize"}
MakingPcs == Ahead \union Sealed

\* r is making the instance n; nobody else is.
Making(r, n) == req[r].name = n /\ req[r].op = "run" /\ req[r].pc \in MakingPcs

\* Who is up has a recorded container; and, unless the git watcher restarts
\* it (InstanceBystanders), that container runs.
LiveRow(n) ==
  /\ Exists(n) => row[n].status \in CanAssign \union {"Enqueued", "Provisioning"}
  /\ Is(n, CanAssign) => Reaches(n, row[n].cid)

Awake(n) == Is(n, CanAssign) => up[n]

\* What the row looks like to r: Enqueued until it is replaced, Provisioning
\* until the run is over, up when a worktree is assigned or ports are bound.
Lively(r, n) ==
  req[r].name = n =>
    /\ Making(r, n) => Is(n, {"Enqueued", "Provisioning"})
    /\ Making(r, n) /\ req[r].pc \in {"arrived", "waiting", "dangling", "insert"}
         => Is(n, {"Enqueued"})
    /\ req[r].pc \in Sealed => Is(n, {"Provisioning"})
    /\ req[r].pc = "record" => Healthy(n, req[r].cid)
    /\ req[r].pc = "finalize" => Healthy(n, row[n].cid)
    /\ req[r].pc \in {"assignBox", "assignDb", "bind"} => Is(n, CanAssign)

OneMaker(r, n) == \A s \in Reqs \ {r} : ~(Making(r, n) /\ Making(s, n))

LiveInv ==
  \A n \in Names : LiveRow(n) /\ \A r \in Reqs : Lively(r, n) /\ OneMaker(r, n)

\* A step that leaves the container of n, and leaves n up if it was.
Mild(n) ==
  /\ box'[n] = box[n] /\ up'[n] = up[n]
  /\ \/ row'[n] = row[n]
     \/ Is(n, CanAssign) /\ Is(n, CanAssign)' /\ row'[n].cid = row[n].cid

KeepsLive(r, n) ==
  /\ \A m \in Names \ {n} : Mild(m)
  /\ Mild(n) \/ ((Making(r, n) \/ ~Exists(n)) /\ LiveRow(n)' /\ Awake(n)')
  /\ Lively(r, n)'
  /\ Making(r, n)' => Making(r, n) \/ ~Exists(n)

LEMMA MildKeeps ==
  ASSUME NEW n \in Names, Mild(n)
  PROVE  (LiveRow(n) => LiveRow(n)') /\ (Awake(n) => Awake(n)')
  BY DEF Mild, LiveRow, Awake, Is, Exists, Reaches

\* Nobody else is concerned with a row that is being made, or is not there.
LEMMA Unconcerned ==
  ASSUME LiveInv, NEW r \in Reqs, NEW n \in Names, Making(r, n) \/ ~Exists(n),
         NEW s \in Reqs \ {r}, req[s].name = n, Roles
  PROVE  /\ ~Making(s, n)
         /\ req[s].pc \notin Sealed \union {"assignBox", "assignDb", "bind"}
  <1>1. Lively(r, n) /\ Lively(s, n) /\ OneMaker(r, n) /\ Role(s)
    BY DEF LiveInv, Roles
  <1>2. ~Is(n, CanAssign)
    BY <1>1 DEF Lively, Making, Is, CanAssign, Exists
  <1>3. ~Making(s, n)
    BY <1>1 DEF OneMaker, Lively, Making, Is
  <1>4. req[s].pc \notin Sealed
    BY <1>1, <1>3 DEF Making, MakingPcs, Role, RunPcs, Sealed
  <1> QED
    BY <1>1, <1>2, <1>3, <1>4 DEF Lively

LEMMA KeepsLiveInv ==
  ASSUME LiveInv, Roles, NEW r \in Reqs, NEW n \in Names, Others(r),
         req[r].pc = "idle" \/ req[r].name = n,
         req'[r].pc = "idle" \/ req'[r].name = n, KeepsLive(r, n)
  PROVE  LiveInv'
  <1>1. ASSUME NEW m \in Names PROVE LiveRow(m)'
    BY MildKeeps DEF KeepsLive, LiveInv
  <1>2. ASSUME NEW m \in Names, NEW s \in Reqs \ {r}, Mild(m)
        PROVE  Lively(s, m)'
    <2>1. req'[s] = req[s] /\ Lively(s, m)
      BY DEF LiveInv, Others
    <2>2. ~Is(m, CanAssign) => row'[m] = row[m]
      BY <1>2 DEF Mild
    <2> QED
      BY <1>2, <2>1, <2>2 DEF Lively, Making, Mild, Is, Exists, CanAssign, Healthy, Reaches, Sealed
  <1>3. ASSUME NEW s \in Reqs \ {r}, Making(r, n) \/ ~Exists(n)
        PROVE  Lively(s, n)'
    <2>1. req'[s] = req[s]
      BY DEF Others
    <2> QED
      BY <1>3, <2>1, Unconcerned DEF Lively, Making, Sealed
  <1>4. ASSUME NEW m \in Names \ {n} PROVE Lively(r, m)'
    BY <1>4 DEF Lively, Making, MakingPcs, Ahead, Sealed
  <1>5. ASSUME NEW m \in Names, NEW s \in Reqs, NEW t \in Reqs \ {s}
        PROVE  ~(Making(s, m) /\ Making(t, m))'
    <2>1. ASSUME NEW u \in Reqs \ {r} PROVE ~(Making(r, m) /\ Making(u, m))'
      <3>1. CASE m # n
        BY <3>1 DEF Making, MakingPcs, Ahead, Sealed
      <3>2. CASE m = n
        <4>1. Making(u, n)' => Making(u, n) /\ req[u].name = n
          BY DEF Others, Making
        <4> QED
          BY <3>2, <4>1, Unconcerned DEF KeepsLive
      <3> QED
        BY <3>1, <3>2
    <2>2. ASSUME s # r, t # r PROVE ~(Making(s, m) /\ Making(t, m))'
      BY <2>2 DEF Others, Making, LiveInv, OneMaker
    <2> QED
      BY <2>1, <2>2
  <1> QED
    BY <1>1, <1>2, <1>3, <1>4, <1>5 DEF KeepsLive, LiveInv, OneMaker

LEMMA MildRows ==
  ASSUME NEW n \in Names, BoxesBut(n), RowsBut(n)
  PROVE  \A m \in Names \ {n} : Mild(m)
  BY DEF BoxesBut, RowsBut, Mild

LEMMA UnmovedBoxes ==
  ASSUME NEW n \in Names
  PROVE  /\ UNCHANGED boxes => BoxesBut(n) /\ box' = box /\ up' = up
         /\ row' = row => RowsBut(n)
  BY DEF boxes, BoxesBut, RowsBut

LEMMA RunLives ==
  ASSUME NEW r, NEW n, Works(r, n), Roles, LiveInv, RunStep(r)
  PROVE  KeepsLive(r, n)
  <1> USE WorksFacts
  <1>1. /\ LiveRow(n) /\ Lively(r, n) /\ req[r].op = "run"
        /\ Making(r, n)
    <2>1. req[r].op = "run" /\ req[r].pc \in MakingPcs
      BY DEF Works, Roles, Role, RunPcs, RunStep, RunJoinQueue, RunCheck, RunDangling,
             RunInsert, RunCreate, RunRecord, RunProvisionFails, RunFinalize,
             RunCleanBox, RunCleanDb, Admitted, MakingPcs, Ahead, Sealed
    <2> QED
      BY <2>1 DEF LiveInv, Making
  <1>2. Is(n, {"Enqueued", "Provisioning"})
    BY <1>1 DEF Lively
  <1>3. ASSUME RowsBut(n), BoxesBut(n), LiveRow(n)', Awake(n)', Lively(r, n)'
        PROVE  KeepsLive(r, n)
    BY <1>1, <1>3, MildRows DEF KeepsLive
  <1>4. ASSUME row' = row, BoxesBut(n), Lively(r, n)'
        PROVE  KeepsLive(r, n)
    <2>1. LiveRow(n)' /\ Awake(n)'
      BY <1>1, <1>2, <1>4 DEF LiveRow, Awake, Is, Exists, CanAssign
    <2> QED
      BY <1>3, <1>4, <2>1, UnmovedBoxes
  <1>5. ASSUME row' = row, MovedTo(r, "cleanBox") \/ MovedTo(r, "cleanDb")
        PROVE  Lively(r, n)'
    BY <1>2, <1>5 DEF MovedTo, Lively, Making, Is, Exists, Sealed
  <1>6. CASE RunJoinQueue(r) \/ RunCheck(r)
    <2>1. row' = row /\ BoxesBut(n) /\ req[r].pc \in {"arrived", "waiting"}
      BY <1>6, UnmovedBoxes DEF RunJoinQueue, RunCheck, Admitted, db
    <2>2. MovedTo(r, "waiting") \/ MovedTo(r, "dangling")
      BY <1>2, <1>6, GotoMoves DEF RunJoinQueue, RunCheck, Is
    <2>3. Is(n, {"Enqueued"})
      BY <1>1, <2>1 DEF Lively
    <2>4. Lively(r, n)'
      BY <2>1, <2>2, <2>3 DEF MovedTo, Lively, Making, Is, Exists, Sealed
    <2> QED
      BY <1>4, <2>1, <2>4
  <1>7. CASE RunDangling(r)
    <2>1. row' = row /\ req[r].pc = "dangling"
      BY <1>7 DEF RunDangling, db
    <2>2. BoxesBut(n) /\ (MovedTo(r, "insert") \/ MovedTo(r, "cleanBox"))
      BY <1>7, GotoMoves, RemoveMoves, UnmovedBoxes DEF RunDangling, BoxGone
    <2>3. Is(n, {"Enqueued"})
      BY <1>1, <2>1 DEF Lively
    <2>4. Lively(r, n)'
      BY <2>1, <2>2, <2>3 DEF MovedTo, Lively, Making, Is, Exists, Sealed
    <2> QED
      BY <1>4, <2>1, <2>2, <2>4
  <1>8. CASE RunInsert(r)
    <2>1. Is(n, {"Enqueued"})
      BY <1>1, <1>8 DEF RunInsert, Lively
    <2>2. RowFresh(n, "Provisioning") /\ MovedTo(r, "create") /\ BoxesBut(n)
      BY <1>8, <2>1, FreshMoves, GotoMoves, UnmovedBoxes, Statuses
      DEF RunInsert, Transitional
    <2>3. LiveRow(n)' /\ Awake(n)'
      BY <2>2 DEF RowFresh, LiveRow, Awake, Is, Exists, CanAssign
    <2>4. Lively(r, n)'
      BY <2>2 DEF RowFresh, MovedTo, Lively, Making, Is, Exists, Sealed
    <2> QED
      BY <1>3, <2>2, <2>3, <2>4 DEF RowFresh
  <1>9. CASE RunCreate(r)
    <2>1. row' = row /\ req[r].pc = "create"
      BY <1>9 DEF RunCreate, db
    <2>2. CASE Goto(r, "cleanBox") /\ UNCHANGED boxes
      BY <1>4, <1>5, <2>1, <2>2, GotoMoves, UnmovedBoxes
    <2>3. CASE ~(Goto(r, "cleanBox") /\ UNCHANGED boxes)
      <3>1. PICK c \in Cids :
              /\ box' = [box EXCEPT ![n] = c]
              /\ \/ /\ up'  = [up EXCEPT ![n] = TRUE]
                    /\ req' = [req EXCEPT ![r].pc = "record", ![r].cid = c]
                 \/ /\ up' \in {up, [up EXCEPT ![n] = TRUE]}
                    /\ req' = [req EXCEPT ![r].pc = "cleanBox", ![r].cid = c]
        BY <1>9, <2>3 DEF RunCreate
      <3>2. BoxesBut(n) /\ box'[n] = c
        BY <3>1 DEF BoxesBut, TypeOK
      <3>3. CASE req' = [req EXCEPT ![r].pc = "record", ![r].cid = c] /\ up' = [up EXCEPT ![n] = TRUE]
        <4>1. req'[r].name = n /\ req'[r].pc = "record" /\ req'[r].cid = c /\ up'[n]
          BY <3>3 DEF TypeOK, Request
        <4>2. Is(n, {"Provisioning"})
          BY <1>1, <2>1 DEF Lively, Sealed
        <4>3. Lively(r, n)'
          BY <2>1, <3>2, <4>1, <4>2 DEF Lively, Making, Is, Exists, Sealed, Healthy, Reaches
        <4> QED
          BY <1>4, <2>1, <3>2, <4>3
      <3>4. CASE req' = [req EXCEPT ![r].pc = "cleanBox", ![r].cid = c]
        <4>1. req'[r].name = n /\ req'[r].pc = "cleanBox"
          BY <3>4 DEF TypeOK, Request
        <4>2. Lively(r, n)'
          BY <1>2, <2>1, <4>1 DEF Lively, Making, Is, Exists, Sealed
        <4> QED
          BY <1>4, <2>1, <3>2, <4>2
      <3> QED
        BY <3>1, <3>3, <3>4
    <2> QED
      BY <2>2, <2>3
  <1>10. CASE RunRecord(r)
    <2>1. req[r].pc = "record" /\ UNCHANGED boxes
      BY <1>10 DEF RunRecord
    <2>2. Healthy(n, req[r].cid) /\ Is(n, {"Provisioning"})
      BY <1>1, <2>1 DEF Lively, Sealed
    <2>3. row' = [row EXCEPT ![n].cid = req[r].cid] /\ Goto(r, "finalize")
      BY <1>2, <1>10 DEF RunRecord, Is
    <2>4. /\ RowsBut(n) /\ row'[n] # None
          /\ row'[n].status = row[n].status /\ row'[n].cid = req[r].cid
      BY <2>2, <2>3, RecordMoves DEF Is
    <2>5. MovedTo(r, "finalize") /\ BoxesBut(n) /\ box' = box /\ up' = up
      BY <2>1, <2>3, GotoMoves, UnmovedBoxes
    <2>6. LiveRow(n)' /\ Awake(n)'
      BY <2>2, <2>4 DEF LiveRow, Awake, Is, Exists, CanAssign
    <2>7. Lively(r, n)'
      BY <2>2, <2>4, <2>5 DEF Lively, MovedTo, Making, Is, Exists, Sealed, Healthy, Reaches
    <2> QED
      BY <1>3, <2>4, <2>5, <2>6, <2>7
  <1>11. CASE RunProvisionFails(r) \/ RunCleanBox(r)
    <2>1. row' = row /\ BoxesBut(n) /\ (MovedTo(r, "cleanBox") \/ MovedTo(r, "cleanDb"))
      BY <1>11, GotoMoves, RemoveMoves, UnmovedBoxes
      DEF RunProvisionFails, RunCleanBox, BoxGone, db
    <2> QED
      BY <1>4, <1>5, <2>1
  <1>12. CASE RunFinalize(r)
    <2>1. /\ req[r].pc = "finalize" /\ BoxesBut(n) /\ box' = box /\ up' = up
      BY <1>12, UnmovedBoxes DEF RunFinalize
    <2>2. Healthy(n, row[n].cid)
      BY <1>1, <2>1 DEF Lively
    <2>3. CASE row' = row /\ Goto(r, "cleanBox")
      BY <1>4, <1>5, <2>1, <2>3, GotoMoves
    <2>4. CASE /\ RowSet(n, "Running") \/ RowSet(n, "Idle")
               /\ Gone(r) \/ MovedTo(r, "autoAssign")
      <3>1. LiveRow(n)' /\ Awake(n)'
        BY <2>1, <2>2, <2>4 DEF LiveRow, Awake, RowSet, Is, Exists, CanAssign, Healthy, Reaches
      <3>2. Lively(r, n)'
        BY <2>4 DEF Gone, Idle, MovedTo, Lively, Making, MakingPcs, Ahead, Sealed
      <3> QED
        BY <1>3, <2>1, <2>4, <3>1, <3>2 DEF RowSet
    <2> QED
      BY <1>12, <2>3, <2>4, SetMoves, FinishMoves, GotoMoves, Statuses DEF RunFinalize
  <1>13. CASE RunCleanDb(r)
    <2>1. RowGone(n) /\ Gone(r) /\ BoxesBut(n)
      BY <1>13, DeleteMoves, FinishMoves, UnmovedBoxes DEF RunCleanDb
    <2>2. LiveRow(n)' /\ Awake(n)' /\ Lively(r, n)'
      BY <2>1 DEF RowGone, Gone, Idle, LiveRow, Awake, Lively, Making, MakingPcs, Ahead,
                  Sealed, Is, Exists
    <2> QED
      BY <1>3, <2>1, <2>2 DEF RowGone
  <1> QED
    BY <1>6, <1>7, <1>8, <1>9, <1>10, <1>11, <1>12, <1>13 DEF RunStep

\* assign and unassign move an instance that is up between statuses of
\* instances that are up.
LEMMA AssignLives ==
  ASSUME NEW r, NEW n, Works(r, n), Roles, LiveInv, AssignStep(r)
  PROVE  KeepsLive(r, n)
  <1> USE WorksFacts
  <1>1. Lively(r, n) /\ Role(r) /\ BoxesBut(n) /\ box' = box /\ up' = up
    BY UnmovedBoxes DEF LiveInv, Roles, AssignStep, AssignBegin, UnassignBegin,
                        AssignBox, AssignFails, AssignDb, boxes
  <1>2. row' = row \/ \E s \in CanAssign : RowSet(n, s)
    BY <1>1, AssignRows
  <1>3. row' = row \/ Is(n, CanAssign)
    BY <1>1 DEF Lively, AssignStep, AssignBegin, UnassignBegin, AssignBox,
                AssignFails, AssignDb, db
  <1>4. Mild(n) /\ RowsBut(n)
    BY <1>1, <1>2, <1>3, UnmovedBoxes DEF Mild, RowSet, Is, Exists
  <1>5. \/ Gone(r)
        \/ MovedTo(r, "assignDb") /\ Is(n, CanAssign)
        \/ ReadAt(r, n, "assignBox") /\ Is(n, CanAssign)
    <2>1. \/ Finish(r)
          \/ Goto(r, "assignDb") /\ req[r].pc = "assignBox"
          \/ Remember(r, "assignBox") /\ Is(n, CanAssign)
      BY DEF AssignStep, AssignBegin, UnassignBegin, AssignBox, AssignFails, AssignDb
    <2> QED
      BY <1>1, <2>1, FinishMoves, GotoMoves, RememberMoves DEF Lively
  <1>6. Is(n, CanAssign) => Is(n, CanAssign)'
    BY <1>4 DEF Mild, Is, Exists
  <1>7. Lively(r, n)' /\ ~Making(r, n)'
    BY <1>5, <1>6 DEF Gone, Idle, MovedTo, ReadAt, Lively, Making, MakingPcs, Ahead, Sealed
  <1> QED
    BY <1>1, <1>4, <1>7, MildRows DEF KeepsLive

LEMMA CheckoutLives ==
  ASSUME NEW r, NEW n, Works(r, n), Roles, LiveInv, CheckoutStep(r)
  PROVE  KeepsLive(r, n)
  <1> USE WorksFacts
  <1>1. box' = box /\ up' = up
    BY DEF CheckoutStep, CheckoutClear, CheckoutBind, CheckoutFails, boxes
  <1>2. \A m \in Names : Mild(m)
    <2>1. CASE CheckoutClear(r)
      BY <1>1, <2>1, ClearMoves DEF Mild, Is, Exists, CanAssign
    <2>2. CASE CheckoutBind(r)
      <3>1. Is(n, CanAssign)
        BY <2>2 DEF CheckoutBind, LiveInv, Lively
      <3>2. RowSet(n, "CheckedOut")
        BY <2>2, <3>1, SetMoves, Statuses DEF CheckoutBind, Is
      <3> QED
        BY <1>1, <3>1, <3>2 DEF Mild, RowSet, RowsBut, Is, Exists, CanAssign
    <2>3. CASE CheckoutFails(r)
      BY <1>1, <2>3 DEF CheckoutFails, Mild
    <2> QED
      BY <2>1, <2>2, <2>3 DEF CheckoutStep
  <1>3. Gone(r) \/ (ReadAt(r, n, "bind") /\ Is(n, CanAssign))
    BY FinishMoves, RememberMoves
    DEF CheckoutStep, CheckoutClear, CheckoutBind, CheckoutFails, Is, CanAssign
  <1>4. Lively(r, n)' /\ ~Making(r, n)'
    BY <1>2, <1>3 DEF Gone, Idle, ReadAt, Mild, Is, Exists, Lively, Making, MakingPcs,
                      Ahead, Sealed
  <1> QED
    BY <1>2, <1>4 DEF KeepsLive

\* Where nothing is stopped, only these handlers run.
LEMMA NothingElse ==
  ASSUME NEW r \in Reqs, Role(r), NothingStops, Step(r)
  PROVE  RunStep(r) \/ AssignStep(r) \/ CheckoutStep(r)
  <1>1. ~RmStep(r)
    BY DEF Role, NothingStops, RmPcs, RmStep, RmRead, RmQueued, RmMark, RmBox, RmDb, Admitted
  <1>2. ~StopStep(r)
    BY DEF Role, NothingStops, StopStep, StopBegin, StopBox, StopDb, Admitted
  <1>3. ~StartStep(r)
    BY DEF Role, NothingStops, StartStep, StartBegin, StartBox, StartFails, StartDb, Admitted
  <1> QED
    BY <1>1, <1>2, <1>3 DEF Step

\* What restore_running_state does to the rows, container ids kept.
LEMMA RestartMoves ==
  ASSUME TypeOK, Restart
  PROVE  /\ \A r \in Reqs : req'[r] = Idle
         /\ UNCHANGED <<alloc, boxes>>
         /\ \A n \in Names :
              \/ row'[n] = row[n]
              \/ /\ Is(n, {"CheckedOut"}) /\ \A p \in Ports : fwd'[p] # n
                 /\ row'[n] # None /\ row'[n].status = "Running"
                 /\ row'[n].cid = row[n].cid
         /\ \A p \in Ports : fwd'[p] # None =>
              /\ fwd'[p] \in Names /\ Is(fwd'[p], {"CheckedOut"})
              /\ p \in pid'[fwd'[p]]
  <1>1. PICK back \in [Ports -> Names \union {None}] :
          /\ \A n \in Names : {p \in Ports : back[p] = n} # {} => Restorable(n)
          /\ fwd' = back
          /\ pid' = [n \in Names |-> pid[n] \union {p \in Ports : back[p] = n}]
          /\ row' = [n \in Names |->
                       IF /\ Restorable(n) /\ alloc[n] # {}
                          /\ {p \in Ports : back[p] = n} = {}
                       THEN [row[n] EXCEPT !.status = "Running"] ELSE row[n]]
    BY DEF Restart
  <1>2. ASSUME NEW n \in Names
        PROVE  \/ row'[n] = row[n]
               \/ /\ Is(n, {"CheckedOut"}) /\ \A p \in Ports : fwd'[p] # n
                  /\ row'[n] # None /\ row'[n].status = "Running"
                  /\ row'[n].cid = row[n].cid
    <2>1. \/ row'[n] = row[n]
          \/ /\ Restorable(n) /\ {p \in Ports : back[p] = n} = {}
             /\ row'[n] = [row[n] EXCEPT !.status = "Running"]
      BY <1>1
    <2>2. Restorable(n) =>
            /\ [row[n] EXCEPT !.status = "Running"] \in Row
            /\ [row[n] EXCEPT !.status = "Running"].status = "Running"
            /\ [row[n] EXCEPT !.status = "Running"].cid = row[n].cid
      BY ExistingRow, Statuses DEF Restorable, Is, Row
    <2> QED
      BY <1>1, <2>1, <2>2, ConstantsOK DEF Restorable
  <1>3. ASSUME NEW p \in Ports, fwd'[p] # None
        PROVE  /\ fwd'[p] \in Names /\ Is(fwd'[p], {"CheckedOut"})
               /\ p \in pid'[fwd'[p]]
    <2>1. PICK n \in Names : n = back[p]
      BY <1>1, <1>3
    <2>2. Restorable(n) /\ p \in pid'[n]
      BY <1>1, <2>1
    <2> QED
      BY <1>1, <2>1, <2>2 DEF Restorable
  <1> QED
    BY <1>2, <1>3 DEF Restart

\* Steps under NothingStops, one by one.
LEMMA StepLives ==
  ASSUME IInv, Serialized, Roles, LiveInv, NothingStops, NEW r \in Reqs, Step(r)
  PROVE  \E n \in Names : /\ KeepsLive(r, n) /\ Others(r) /\ req[r].name = n
                          /\ req'[r].pc = "idle" \/ req'[r].name = n
  <1>1. PICK n \in Names : Works(r, n)
    BY StepWorks
  <1>2. KeepsLive(r, n)
    BY <1>1, NothingElse, RunLives, AssignLives, CheckoutLives DEF Roles
  <1>3. Others(r) /\ req[r].name = n
    BY <1>1, StepRole DEF Roles, Works
  <1>4. req'[r].pc = "idle" \/ req'[r].name = n
    BY <1>1, StepName
  <1> QED
    BY <1>2, <1>3, <1>4

LEMMA SubmitLives ==
  ASSUME IInv, LiveInv, NEW r \in Reqs, NEW op \in Entry, NEW n \in Names,
         Submit(r, op, n) \/ SubmitRun(r, n)
  PROVE  /\ KeepsLive(r, n) /\ Others(r)
         /\ req[r].pc = "idle" /\ req'[r].name = n
  <1> TypeOK
    BY DEF IInv
  <1>1. CASE Submit(r, op, n)
    <2>1. /\ Others(r) /\ row' = row /\ UNCHANGED boxes /\ req[r].pc = "idle"
          /\ req'[r].name = n /\ req'[r].pc = "waiting" /\ req'[r].op # "run"
      BY <1>1, ArrivalMoves DEF Submit, db
    <2> QED
      BY <2>1, UnmovedBoxes DEF KeepsLive, Mild, Lively, Making, Sealed
  <1>2. CASE SubmitRun(r, n)
    <2>1. "run" \in Entry /\ req[r].pc = "idle"
      BY <1>2 DEF SubmitRun
    <2>2. /\ Others(r) /\ ~Exists(n) /\ RowFresh(n, "Enqueued") /\ UNCHANGED boxes
          /\ req'[r].name = n /\ req'[r].pc = "arrived"
      BY <1>2, <2>1, ArrivalMoves
    <2>3. LiveRow(n)' /\ Awake(n)' /\ Lively(r, n)'
      BY <2>2 DEF RowFresh, LiveRow, Awake, Lively, Is, Exists, CanAssign, Sealed
    <2>4. \A m \in Names \ {n} : Mild(m)
      BY <2>2, UnmovedBoxes, MildRows DEF RowFresh
    <2> QED
      BY <2>1, <2>2, <2>3, <2>4 DEF KeepsLive
  <1> QED
    BY <1>1, <1>2

LEMMA HangupLives ==
  ASSUME IInv, NEW r \in Reqs, Hangup(r)
  PROVE  \E n \in Names : /\ KeepsLive(r, n) /\ Others(r) /\ req[r].name = n
                          /\ req'[r].pc = "idle"
  <1> TypeOK
    BY DEF IInv
  <1>1. PICK n \in Names : req[r].name = n
    BY Serving DEF Hangup
  <1>2. Gone(r) /\ row' = row /\ UNCHANGED boxes
    BY HangupMoves DEF db
  <1>3. KeepsLive(r, n)
    BY <1>2, UnmovedBoxes DEF KeepsLive, Mild, Gone, Idle, Lively, Making, MakingPcs,
                              Ahead, Sealed
  <1> QED
    BY <1>1, <1>2, <1>3 DEF Gone, Idle

LEMMA RestartLives ==
  ASSUME TypeOK, LiveInv, Restart
  PROVE  LiveInv' /\ \A n \in Names : Mild(n)
  <1>1. ASSUME NEW n \in Names PROVE Mild(n)
    BY RestartMoves DEF Mild, Is, Exists, CanAssign, boxes
  <1>2. ASSUME NEW n \in Names PROVE LiveRow(n)'
    BY <1>1, MildKeeps DEF LiveInv
  <1>3. ASSUME NEW r \in Reqs, NEW n \in Names
        PROVE  Lively(r, n)' /\ ~Making(r, n)'
    BY RestartMoves DEF Idle, Lively, Making, MakingPcs, Ahead, Sealed
  <1> QED
    BY <1>1, <1>2, <1>3 DEF LiveInv, OneMaker

AwakeInv == \A n \in Names : Awake(n)

LEMMA LiveNext ==
  ASSUME IInv, Serialized, Roles, LiveInv, NothingStops, [Next]_vars
  PROVE  LiveInv' /\ (AwakeInv => AwakeInv')
  <1> TypeOK
    BY DEF IInv
  <1>1. ASSUME NEW r \in Reqs, NEW n \in Names, KeepsLive(r, n)
        PROVE  AwakeInv => AwakeInv'
    BY <1>1, MildKeeps DEF KeepsLive, AwakeInv
  <1>2. ASSUME NEW r \in Reqs, Step(r)
        PROVE  LiveInv' /\ (AwakeInv => AwakeInv')
    <2>1. PICK n \in Names : /\ KeepsLive(r, n) /\ Others(r) /\ req[r].name = n
                             /\ req'[r].pc = "idle" \/ req'[r].name = n
      BY <1>2, StepLives
    <2>2. LiveInv'
      BY <2>1, KeepsLiveInv
    <2> QED
      BY <1>1, <2>1, <2>2
  <1>3. ASSUME NEW r \in Reqs, NEW op \in Entry, NEW n \in Names,
               Submit(r, op, n) \/ SubmitRun(r, n)
        PROVE  LiveInv' /\ (AwakeInv => AwakeInv')
    BY <1>1, <1>3, SubmitLives, KeepsLiveInv
  <1>4. ASSUME NEW r \in Reqs, Hangup(r) PROVE LiveInv' /\ (AwakeInv => AwakeInv')
    BY <1>1, <1>4, HangupLives, KeepsLiveInv
  <1>5. CASE Restart
    BY <1>5, RestartLives, MildKeeps DEF AwakeInv
  <1>6. CASE UNCHANGED vars
    BY <1>6 DEF vars, LiveInv, LiveRow, Lively, OneMaker, Making, Is, Exists, Healthy,
                Reaches, AwakeInv, Awake
  <1>7. ASSUME NEW r \in Reqs, NEW n \in Names, SubmitRun(r, n)
        PROVE  LiveInv' /\ (AwakeInv => AwakeInv')
    <2>1. "run" \in Entry
      BY <1>7 DEF SubmitRun
    <2> QED
      BY <1>3, <1>7, <2>1
  <1> QED
    BY <1>2, <1>3, <1>4, <1>5, <1>6, <1>7 DEF Next

LEMMA LiveHolds ==
  ASSUME NothingStops
  PROVE  Spec => [](IInv /\ Serialized /\ Roles /\ LiveInv /\ AwakeInv)
  <1>1. Init => LiveInv /\ AwakeInv
    BY DEF Init, LiveInv, LiveRow, Lively, OneMaker, Making, MakingPcs, Ahead, Sealed,
           Is, Exists, Idle, AwakeInv, Awake
  <1>2. IInv /\ Serialized /\ Roles /\ LiveInv /\ AwakeInv /\ [Next]_vars
          => LiveInv' /\ AwakeInv'
    BY LiveNext
  <1> QED
    BY <1>1, <1>2, RolesHold, PTL DEF Spec

\* run, assign, unassign and checkout, with Docker calls that fail, clients that
\* hang up and restarts of coastd in between: an instance that is shown as up
\* has a recorded container, and that container runs.
THEOREM ShownAsUpIsUp ==
  ASSUME NothingStops
  PROVE  Spec => []LiveInstanceRuns
  <1>1. LiveInv /\ AwakeInv => LiveInstanceRuns
    BY DEF LiveInv, LiveRow, AwakeInv, Awake, Healthy, LiveInstanceRuns, Is, CanAssign
  <1> QED
    BY <1>1, LiveHolds, PTL
=============================================================================
