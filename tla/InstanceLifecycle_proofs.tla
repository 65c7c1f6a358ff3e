---------------------- MODULE InstanceLifecycle_proofs ----------------------
(***************************************************************************)
(* Theorems about InstanceLifecycle for every set of instances, requests,  *)
(* ports and containers, every mix of entry points and every fault.        *)
(***************************************************************************)
EXTENDS InstanceLifecycle, TLAPS

\* The parts of TypeOK, for the lemmas below.
RowType     == [Names -> Row \union {None}]
PortSets    == [Names -> SUBSET Ports]
FwdType     == [Ports -> Names \union {None}]
ReqType     == [Reqs -> Request \union {Idle}]
SemTypeOK   == permit \in Reqs \union {None} /\ waiters \in Seq(Reqs)

\* Every request that is being served has an operation, a name and a pc.
LEMMA Serving ==
  ASSUME TypeOK, NEW r \in Reqs, req[r].pc # "idle"
  PROVE  /\ req[r] \in Request
         /\ req[r].name \in Names
         /\ req[r].op \in Ops
         /\ req[r].cid \in Cids \union {None}
  <1>1. req[r] \in Request \union {Idle}
    BY DEF TypeOK
  <1>2. req[r] # Idle
    BY DEF Idle
  <1> QED
    BY <1>1, <1>2 DEF Request

\* A row that exists has a status and perhaps a container id.
LEMMA ExistingRow ==
  ASSUME TypeOK, NEW n \in Names, Exists(n)
  PROVE  /\ row[n] \in Row
         /\ row[n].status \in Status
         /\ row[n].cid \in Cids \union {None}
  BY DEF TypeOK, Exists, Row

\* The operators that write the instances table keep it well typed.
LEMMA StatusType ==
  ASSUME TypeOK, NEW n \in Names, NEW s \in Status
  PROVE  /\ Exists(n) => SetStatus(n, s) \in RowType
         /\ TrySetStatus(n, s) \in RowType
  <1>1. ASSUME Exists(n) PROVE SetStatus(n, s) \in RowType
    BY <1>1, ExistingRow DEF SetStatus, RowType, TypeOK, Row
  <1> QED
    BY <1>1 DEF TrySetStatus, RowType, TypeOK

\* Moving a request to another point of its handler keeps it well typed.
LEMMA GotoType ==
  ASSUME TypeOK, NEW r \in Reqs, req[r].pc # "idle", NEW pc \in Pcs, Goto(r, pc)
  PROVE  req' \in ReqType
  <1>1. [req[r] EXCEPT !.pc = pc] \in Request
    BY Serving DEF Request
  <1>2. req' = [req EXCEPT ![r] = [req[r] EXCEPT !.pc = pc]]
    BY DEF Goto
  <1> QED
    BY <1>1, <1>2 DEF TypeOK, ReqType

LEMMA RememberType ==
  ASSUME TypeOK, NEW r \in Reqs, req[r].pc # "idle", NEW pc \in Pcs,
         Exists(req[r].name), Remember(r, pc)
  PROVE  req' \in ReqType
  <1> DEFINE new == [req[r] EXCEPT !.pc = pc, !.seen = row[req[r].name].status,
                                   !.cid = row[req[r].name].cid]
  <1>1. new \in Request
    BY Serving, ExistingRow DEF Request
  <1>2. req' = [req EXCEPT ![r] = new]
    BY DEF Remember
  <1> QED
    BY <1>1, <1>2 DEF TypeOK, ReqType

\* The semaphore: who holds the permit and who waits for it are requests.
LEMMA ReleaseType ==
  ASSUME TypeOK, Release
  PROVE  SemTypeOK'
  <1>1. CASE waiters = <<>>
    BY <1>1 DEF Release, SemTypeOK, TypeOK
  <1>2. CASE waiters # <<>>
    <2>1. Head(waiters) \in Reqs /\ Tail(waiters) \in Seq(Reqs)
      BY <1>2 DEF TypeOK
    <2> QED
      BY <1>2, <2>1 DEF Release, SemTypeOK
  <1> QED
    BY <1>1, <1>2

LEMMA AcquireType ==
  ASSUME TypeOK, NEW r \in Reqs, Acquire(r)
  PROVE  SemTypeOK'
  BY DEF TypeOK, Acquire, SemTypeOK

LEMMA FinishType ==
  ASSUME TypeOK, NEW r \in Reqs, Finish(r)
  PROVE  req' \in ReqType /\ SemTypeOK'
  <1>1. req' \in ReqType
    BY DEF TypeOK, Finish, ReqType
  <1>2. SemTypeOK'
    BY ReleaseType DEF Finish, TypeOK, SemTypeOK, sem
  <1> QED
    BY <1>1, <1>2

\* Killing forwarders and deleting rows.
LEMMA KillType ==
  ASSUME TypeOK, NEW S
  PROVE  KillRecorded(S) \in FwdType
  BY DEF TypeOK, KillRecorded, FwdType

LEMMA DeleteRowType ==
  ASSUME TypeOK, NEW n \in Names, DeleteRow(n)
  PROVE  row' \in RowType /\ alloc' \in PortSets /\ pid' \in PortSets
  BY DEF TypeOK, DeleteRow, RowType, PortSets

LEMMA ClearType ==
  ASSUME TypeOK, NEW n \in Names, NEW s \in Status, Exists(n), ClearCheckedOut(n, s)
  PROVE  row' \in RowType /\ alloc' \in PortSets /\ pid' \in PortSets /\ fwd' \in FwdType
  BY StatusType, KillType DEF TypeOK, ClearCheckedOut, RowType, PortSets

LEMMA RemoveBoxType ==
  ASSUME TypeOK, NEW n \in Names, RemoveBox(n)
  PROVE  box' \in [Names -> Cids \union {None}] /\ up' \in [Names -> BOOLEAN]
  BY DEF TypeOK, RemoveBox, boxes

LEMMA RevertType ==
  ASSUME TypeOK, NEW n \in Names, NEW s \in Status, Revert(n, s)
  PROVE  row' \in RowType
  BY StatusType DEF TypeOK, Revert, RowType

\* What is left to show of a step, part by part.
Parts ==
  /\ row'   \in RowType
  /\ alloc' \in PortSets
  /\ pid'   \in PortSets
  /\ fwd'   \in FwdType
  /\ box'   \in [Names -> Cids \union {None}]
  /\ up'    \in [Names -> BOOLEAN]
  /\ dbLock' \in Reqs \union {None}
  /\ SemTypeOK'
  /\ req'   \in ReqType

LEMMA PartsType == Parts => TypeOK'
  BY DEF Parts, TypeOK, RowType, PortSets, FwdType, SemTypeOK, ReqType

\* A recorded container id is the id of a container Docker created.
LEMMA RowWithCid ==
  ASSUME NEW s \in Status, NEW c \in Cids \union {None}
  PROVE  [status |-> s, cid |-> c] \in Row
  BY DEF Row

LEMMA RunTypes ==
  ASSUME IInv, NEW r \in Reqs, RunStep(r)
  PROVE  TypeOK'
  <1> TypeOK
    BY DEF IInv
  <1>1. ASSUME RunJoinQueue(r) PROVE Parts
    BY <1>1, Serving, GotoType, AcquireType
    DEF RunJoinQueue, db, boxes, Pcs,
        Parts, TypeOK, RowType, PortSets, FwdType, SemTypeOK, ReqType
  <1>2. ASSUME RunCheck(r) PROVE Parts
    BY <1>2, Serving, GotoType, FinishType
    DEF RunCheck, Admitted, db, boxes, sem, Pcs,
        Parts, TypeOK, RowType, PortSets, FwdType, SemTypeOK, ReqType
  <1>3. ASSUME RunDangling(r) PROVE Parts
    BY <1>3, Serving, GotoType, RemoveBoxType
    DEF RunDangling, db, boxes, sem, Pcs,
        Parts, TypeOK, RowType, PortSets, FwdType, SemTypeOK, ReqType
  <1>4. ASSUME RunInsert(r) PROVE Parts
    <2>1. row' \in RowType
      BY <1>4, Serving, RowWithCid DEF RunInsert, db, TypeOK, RowType, Status, Transitional
    <2>2. alloc' \in PortSets /\ pid' \in PortSets
      BY <1>4, Serving DEF RunInsert, db, TypeOK, PortSets
    <2> QED
      BY <1>4, <2>1, <2>2, GotoType DEF RunInsert, Parts, TypeOK, FwdType, SemTypeOK, boxes, sem, Pcs
  <1>5. ASSUME RunCreate(r) PROVE Parts
    <2>1. req[r].pc = "create" /\ req[r].name \in Names
      BY <1>5, Serving DEF RunCreate
    <2>2. ASSUME NEW c \in Cids, NEW pc \in Pcs,
                 req' = [req EXCEPT ![r].pc = pc, ![r].cid = c]
          PROVE  req' \in ReqType
      <3>1. [req[r] EXCEPT !.pc = pc, !.cid = c] \in Request
        BY <2>1, Serving DEF Request
      <3>2. req' = [req EXCEPT ![r] = [req[r] EXCEPT !.pc = pc, !.cid = c]]
        BY <2>2 DEF TypeOK
      <3> QED
        BY <3>1, <3>2 DEF TypeOK, ReqType
    <2>3. req' \in ReqType
      <3>1. CASE Goto(r, "cleanBox")
        BY <2>1, <3>1, GotoType DEF Pcs
      <3>2. CASE \E c \in Cids, pc \in Pcs : req' = [req EXCEPT ![r].pc = pc, ![r].cid = c]
        BY <2>2, <3>2
      <3> QED
        BY <1>5, <3>1, <3>2 DEF RunCreate, Pcs
    <2>4. box' \in [Names -> Cids \union {None}]
      BY <1>5, <2>1 DEF RunCreate, boxes, TypeOK
    <2>5. up' = up \/ up' = [up EXCEPT ![req[r].name] = TRUE]
      BY <1>5 DEF RunCreate, boxes
    <2>6. up' \in [Names -> BOOLEAN]
      BY <2>1, <2>5 DEF TypeOK
    <2> QED
      BY <1>5, <2>3, <2>4, <2>6 DEF RunCreate, Parts, TypeOK, RowType, PortSets, FwdType, SemTypeOK, db, sem
  <1>6. ASSUME RunRecord(r) PROVE Parts
    <2>1. req[r].pc = "record" /\ req[r].name \in Names
      BY <1>6, Serving DEF RunRecord
    <2>2. req' \in ReqType
      BY <1>6, <2>1, GotoType DEF RunRecord, Pcs
    <2>3. row' \in RowType
      <3>1. CASE Exists(req[r].name)
        <4>1. [row[req[r].name] EXCEPT !.cid = req[r].cid] \in Row
          BY <2>1, <3>1, Serving, ExistingRow DEF Row
        <4>2. row' = [row EXCEPT ![req[r].name] = [row[req[r].name] EXCEPT !.cid = req[r].cid]]
          BY <1>6, <3>1 DEF RunRecord
        <4> QED
          BY <4>1, <4>2 DEF TypeOK, RowType
      <3>2. CASE ~Exists(req[r].name)
        BY <1>6, <3>2 DEF RunRecord, TypeOK, RowType
      <3> QED
        BY <3>1, <3>2
    <2> QED
      BY <1>6, <2>2, <2>3 DEF RunRecord, Parts, TypeOK, PortSets, FwdType, SemTypeOK, boxes, sem
  <1>7. ASSUME RunProvisionFails(r) PROVE Parts
    BY <1>7, Serving, GotoType
    DEF RunProvisionFails, db, boxes, sem, Pcs,
        Parts, TypeOK, RowType, PortSets, FwdType, SemTypeOK, ReqType
  <1>8. ASSUME RunFinalize(r) PROVE Parts
    <2>1. req[r].pc = "finalize" /\ req[r].name \in Names
      BY <1>8, Serving DEF RunFinalize
    <2>2. row' \in RowType
      BY <1>8, <2>1, StatusType DEF RunFinalize, Status, TypeOK, RowType
    <2>3. alloc' \in PortSets
      BY <1>8, <2>1, ConstantsOK DEF RunFinalize, TypeOK, PortSets
    <2>4. req' \in ReqType /\ SemTypeOK'
      BY <1>8, <2>1, GotoType, FinishType DEF RunFinalize, Pcs, TypeOK, SemTypeOK, sem
    <2> QED
      BY <1>8, <2>2, <2>3, <2>4 DEF RunFinalize, Parts, TypeOK, PortSets, FwdType, boxes
  <1>9. ASSUME RunCleanBox(r) PROVE Parts
    BY <1>9, Serving, GotoType, RemoveBoxType
    DEF RunCleanBox, db, sem, Pcs,
        Parts, TypeOK, RowType, PortSets, FwdType, SemTypeOK, ReqType
  <1>10. ASSUME RunCleanDb(r) PROVE Parts
    BY <1>10, Serving, DeleteRowType, FinishType
    DEF RunCleanDb, boxes,
        Parts, TypeOK, RowType, PortSets, FwdType, SemTypeOK, ReqType
  <1> QED
    BY <1>1, <1>2, <1>3, <1>4, <1>5, <1>6, <1>7, <1>8, <1>9, <1>10, PartsType DEF RunStep

LEMMA RmTypes ==
  ASSUME IInv, NEW r \in Reqs, RmStep(r)
  PROVE  TypeOK'
  <1> TypeOK
    BY DEF IInv
  <1>1. ASSUME RmRead(r) PROVE Parts
    BY <1>1, Serving, RememberType, RemoveBoxType, FinishType
    DEF RmRead, Admitted, db, boxes, sem, Pcs,
        Parts, TypeOK, RowType, PortSets, FwdType, SemTypeOK, ReqType
  <1>2. ASSUME RmQueued(r) PROVE Parts
    BY <1>2, Serving, DeleteRowType, FinishType
    DEF RmQueued, boxes,
        Parts, TypeOK, RowType, PortSets, FwdType, SemTypeOK, ReqType
  <1>3. ASSUME RmMark(r) PROVE Parts
    BY <1>3, Serving, GotoType, StatusType, ClearType, FinishType
    DEF RmMark, db, boxes, sem, Pcs, Is, Status, Transitional,
        Parts, TypeOK, RowType, PortSets, FwdType, SemTypeOK, ReqType
  <1>4. ASSUME RmBox(r) PROVE Parts
    BY <1>4, Serving, GotoType, RemoveBoxType
    DEF RmBox, db, boxes, sem, Pcs,
        Parts, TypeOK, RowType, PortSets, FwdType, SemTypeOK, ReqType
  <1>5. ASSUME RmDb(r) PROVE Parts
    BY <1>5, Serving, KillType, DeleteRowType, FinishType
    DEF RmDb, boxes,
        Parts, TypeOK, RowType, PortSets, FwdType, SemTypeOK, ReqType
  <1> QED
    BY <1>1, <1>2, <1>3, <1>4, <1>5, PartsType DEF RmStep

LEMMA StopTypes ==
  ASSUME IInv, NEW r \in Reqs, StopStep(r)
  PROVE  TypeOK'
  <1> TypeOK
    BY DEF IInv
  <1>1. ASSUME StopBegin(r) PROVE Parts
    BY <1>1, Serving, StatusType, ClearType, DeleteRowType, RememberType, FinishType
    DEF StopBegin, Admitted, Is, db, boxes, sem, Pcs, Status, Transitional,
        Parts, TypeOK, RowType, PortSets, FwdType, SemTypeOK, ReqType
  <1>2. ASSUME StopBox(r) PROVE Parts
    BY <1>2, Serving, GotoType
    DEF StopBox, db, sem, Pcs,
        Parts, TypeOK, RowType, PortSets, FwdType, SemTypeOK, ReqType
  <1>3. ASSUME StopDb(r) PROVE Parts
    BY <1>3, Serving, KillType, StatusType, FinishType
    DEF StopDb, boxes, Status,
        Parts, TypeOK, RowType, PortSets, FwdType, SemTypeOK, ReqType
  <1> QED
    BY <1>1, <1>2, <1>3, PartsType DEF StopStep

LEMMA StartTypes ==
  ASSUME IInv, NEW r \in Reqs, StartStep(r)
  PROVE  TypeOK'
  <1> TypeOK
    BY DEF IInv
  <1>1. ASSUME StartBegin(r) PROVE Parts
    BY <1>1, Serving, StatusType, RememberType, FinishType
    DEF StartBegin, Admitted, Is, boxes, sem, Pcs, Status, Transitional,
        Parts, TypeOK, RowType, PortSets, FwdType, SemTypeOK, ReqType
  <1>2. ASSUME StartBox(r) PROVE Parts
    BY <1>2, Serving, GotoType
    DEF StartBox, db, sem, Pcs,
        Parts, TypeOK, RowType, PortSets, FwdType, SemTypeOK, ReqType
  <1>3. ASSUME StartFails(r) PROVE Parts
    BY <1>3, Serving, RevertType, FinishType
    DEF StartFails, Status,
        Parts, TypeOK, RowType, PortSets, FwdType, SemTypeOK, ReqType
  <1>4. ASSUME StartDb(r) PROVE Parts
    BY <1>4, Serving, StatusType, FinishType
    DEF StartDb, boxes, Status,
        Parts, TypeOK, RowType, PortSets, FwdType, SemTypeOK, ReqType
  <1> QED
    BY <1>1, <1>2, <1>3, <1>4, PartsType DEF StartStep

LEMMA AssignTypes ==
  ASSUME IInv, NEW r \in Reqs, AssignStep(r)
  PROVE  TypeOK'
  <1> TypeOK
    BY DEF IInv
  <1>1. ASSUME AssignBegin(r) PROVE Parts
    BY <1>1, Serving, StatusType, RememberType, FinishType
    DEF AssignBegin, Admitted, Is, boxes, sem, Pcs, Status, Transitional,
        Parts, TypeOK, RowType, PortSets, FwdType, SemTypeOK, ReqType
  <1>2. ASSUME UnassignBegin(r) PROVE Parts
    BY <1>2, Serving, StatusType, RememberType, FinishType
    DEF UnassignBegin, Admitted, Is, boxes, sem, Pcs, Status, Transitional,
        Parts, TypeOK, RowType, PortSets, FwdType, SemTypeOK, ReqType
  <1>3. ASSUME AssignBox(r) PROVE Parts
    BY <1>3, Serving, GotoType
    DEF AssignBox, db, boxes, sem, Pcs,
        Parts, TypeOK, RowType, PortSets, FwdType, SemTypeOK, ReqType
  <1>4. ASSUME AssignFails(r) PROVE Parts
    <2>1. req[r].pc = "assignBox" /\ req[r].name \in Names
      BY <1>4, Serving DEF AssignFails
    <2>2. req[r].seen \in Status
      BY <2>1 DEF IInv, StatusSeen
    <2>3. row' \in RowType
      BY <1>4, <2>1, <2>2, RevertType DEF AssignFails
    <2> QED
      BY <1>4, <2>3, FinishType DEF AssignFails, Parts, TypeOK, PortSets, FwdType, boxes
  <1>5. ASSUME AssignDb(r) PROVE Parts
    <2>1. req[r].pc = "assignDb" /\ req[r].name \in Names
      BY <1>5, Serving DEF AssignDb
    <2>2. After(req[r].seen) \in Status
      BY <2>1 DEF IInv, StatusSeen, After, Status
    <2>3. row' \in RowType
      BY <1>5, <2>1, <2>2, StatusType DEF AssignDb
    <2> QED
      BY <1>5, <2>3, FinishType DEF AssignDb, Parts, TypeOK, PortSets, FwdType, boxes
  <1> QED
    BY <1>1, <1>2, <1>3, <1>4, <1>5, PartsType DEF AssignStep

LEMMA CheckoutTypes ==
  ASSUME IInv, NEW r \in Reqs, CheckoutStep(r)
  PROVE  TypeOK'
  <1> TypeOK
    BY DEF IInv
  <1>1. ASSUME CheckoutClear(r) PROVE Parts
    BY <1>1, Serving, KillType, RememberType, FinishType
    DEF CheckoutClear, CheckedOut, Admitted, Is, Exists, boxes, sem, Pcs, Row, Status,
        Parts, TypeOK, RowType, PortSets, FwdType, SemTypeOK, ReqType
  <1>2. ASSUME CheckoutBind(r) PROVE Parts
    <2>1. req[r].pc = "bind" /\ req[r].name \in Names
      BY <1>2, Serving DEF CheckoutBind
    <2>2. fwd' \in FwdType /\ pid' \in PortSets
      BY <1>2, <2>1 DEF CheckoutBind, TypeOK, FwdType, PortSets
    <2>3. row' \in RowType
      BY <1>2, <2>1, StatusType DEF CheckoutBind, IInv, TargetHeld, Status
    <2> QED
      BY <1>2, <2>2, <2>3, FinishType DEF CheckoutBind, Parts, TypeOK, PortSets, boxes
  <1>3. ASSUME CheckoutFails(r) PROVE Parts
    <2>1. req[r].pc = "bind" /\ req[r].name \in Names
      BY <1>3, Serving DEF CheckoutFails
    <2>2. pid' \in PortSets
      BY <1>3, <2>1 DEF CheckoutFails, TypeOK, PortSets
    <2> QED
      BY <1>3, <2>2, FinishType DEF CheckoutFails, Parts, TypeOK, RowType, PortSets, FwdType, boxes
  <1> QED
    BY <1>1, <1>2, <1>3, PartsType DEF CheckoutStep

\* A request arrives, a client hangs up, coastd restarts.
LEMMA SubmitTypes ==
  ASSUME TypeOK, NEW r \in Reqs, NEW op \in Entry, NEW n \in Names, Submit(r, op, n)
  PROVE  TypeOK'
  <1>1. op \in Ops
    BY ConstantsOK
  <1>2. req' \in ReqType
    BY <1>1 DEF Submit, Idle, Request, TypeOK, ReqType, Pcs
  <1>3. SemTypeOK'
    BY AcquireType DEF Submit, SemTypeOK, TypeOK, sem
  <1>4. Parts
    BY <1>2, <1>3 DEF Submit, Parts, TypeOK, RowType, PortSets, FwdType, db, boxes
  <1> QED
    BY <1>4, PartsType

LEMMA SubmitRunTypes ==
  ASSUME TypeOK, NEW r \in Reqs, NEW n \in Names, SubmitRun(r, n)
  PROVE  TypeOK'
  <1>1. row' \in RowType
    BY RowWithCid DEF SubmitRun, TypeOK, RowType, Status, Transitional
  <1>2. req' \in ReqType
    BY DEF SubmitRun, Idle, Request, TypeOK, ReqType, Pcs, Ops, Gated
  <1>3. Parts
    BY <1>1, <1>2 DEF SubmitRun, Parts, TypeOK, PortSets, FwdType, SemTypeOK, boxes, sem
  <1> QED
    BY <1>3, PartsType

LEMMA HangupTypes ==
  ASSUME TypeOK, NEW r \in Reqs, Hangup(r)
  PROVE  TypeOK'
  <1>1. ASSUME NEW i \in DOMAIN waiters
        PROVE  RemoveAt(waiters, i) \in Seq(Reqs)
    BY <1>1 DEF TypeOK, RemoveAt
  <1>2. SemTypeOK'
    BY <1>1, ReleaseType DEF Hangup, SemTypeOK, TypeOK, sem
  <1>3. Parts
    BY <1>2 DEF Hangup, Parts, TypeOK, RowType, PortSets, FwdType, ReqType, db, boxes
  <1> QED
    BY <1>3, PartsType

LEMMA RestartTypes ==
  ASSUME TypeOK, Restart
  PROVE  TypeOK'
  <1>1. PICK back \in [Ports -> Names \union {None}] :
           /\ fwd' = back
           /\ pid' = [n \in Names |-> pid[n] \union {p \in Ports : back[p] = n}]
           /\ row' = [n \in Names |->
                        IF /\ Restorable(n) /\ alloc[n] # {}
                           /\ {p \in Ports : back[p] = n} = {}
                        THEN [row[n] EXCEPT !.status = "Running"] ELSE row[n]]
    BY DEF Restart
  <1>2. \A n \in Names : Restorable(n) => [row[n] EXCEPT !.status = "Running"] \in Row
    BY ExistingRow DEF Restorable, Is, Row, Status
  <1>3. row' \in RowType
    BY <1>1, <1>2 DEF RowType, TypeOK
  <1>4. pid' \in PortSets /\ fwd' \in FwdType
    BY <1>1 DEF TypeOK, PortSets, FwdType
  <1>5. Parts
    BY <1>3, <1>4 DEF Restart, Parts, TypeOK, PortSets, SemTypeOK, ReqType, boxes
  <1> QED
    BY <1>5, PartsType

----------------------------------------------------------------------------
(* What one step of a request does to the mutex, the permit and the other  *)
(* requests.                                                               *)

Frame(r) ==
  /\ \A s \in Reqs \ {r} : req'[s] = req[s]
  /\ DbFree \/ req[r].pc = "bind" \/ (row' = row /\ dbLock' \in {dbLock, IF dbLock = r THEN None ELSE dbLock})
  /\ req'[r].pc = "bind" => dbLock' = r /\ row'[req'[r].name] # None
  /\ req'[r].pc \in {"assignBox", "assignDb"} => req'[r].seen \in Status
  /\ permit' = permit \/ permit \in {r, None}
  /\ req'[r].pc \notin {"idle", "arrived", "waiting"} /\ req'[r].op \in Gated
        => permit = r /\ permit' = r

\* The same for the ways a step leaves the request record.
LEMMA GotoFrame ==
  ASSUME TypeOK, NEW r \in Reqs, NEW pc \in Pcs, Goto(r, pc)
  PROVE  /\ \A s \in Reqs \ {r} : req'[s] = req[s]
         /\ req'[r].pc = pc /\ req'[r].op = req[r].op /\ req'[r].seen = req[r].seen
  BY DEF Goto, TypeOK, Idle, Request

LEMMA RememberFrame ==
  ASSUME TypeOK, NEW r \in Reqs, NEW pc \in Pcs, Remember(r, pc)
  PROVE  /\ \A s \in Reqs \ {r} : req'[s] = req[s]
         /\ req'[r].pc = pc /\ req'[r].op = req[r].op /\ req'[r].name = req[r].name
         /\ req'[r].seen = row[req[r].name].status
  BY DEF Remember, TypeOK, Idle, Request

LEMMA FinishFrame ==
  ASSUME TypeOK, NEW r \in Reqs, Finish(r)
  PROVE  /\ \A s \in Reqs \ {r} : req'[s] = req[s]
         /\ req'[r].pc = "idle"
         /\ req[r].op \notin Gated => permit' = permit
  BY DEF Finish, TypeOK, Idle, sem

LEMMA RunFrame ==
  ASSUME IInv, Serialized, NEW r \in Reqs, RunStep(r)
  PROVE  Frame(r)
  <1> TypeOK /\ StatusSeen /\ TargetHeld
    BY DEF IInv
  <1>1. ASSUME RunJoinQueue(r) PROVE Frame(r)
    BY <1>1, GotoFrame
    DEF RunJoinQueue, Gated, Acquire, Frame, Serialized, Begun, Pcs, db, sem
  <1>2. ASSUME RunCheck(r) PROVE Frame(r)
    BY <1>2, GotoFrame, FinishFrame
    DEF RunCheck, Admitted, Frame, Serialized, Begun, Pcs, db, sem
  <1>3. ASSUME RunDangling(r) PROVE Frame(r)
    BY <1>3, GotoFrame
    DEF RunDangling, Frame, Serialized, Begun, Pcs, db, sem
  <1>4. ASSUME RunInsert(r) PROVE Frame(r)
    BY <1>4, GotoFrame
    DEF RunInsert, Frame, Serialized, Begun, Pcs, db, sem
  <1>5. ASSUME RunCreate(r) PROVE Frame(r)
    BY <1>5, GotoFrame
    DEF RunCreate, TypeOK, Request, Idle, Frame, Serialized, Begun, Pcs, db, sem
  <1>6. ASSUME RunRecord(r) PROVE Frame(r)
    BY <1>6, GotoFrame
    DEF RunRecord, Frame, Serialized, Begun, Pcs, db, sem
  <1>7. ASSUME RunProvisionFails(r) PROVE Frame(r)
    BY <1>7, GotoFrame
    DEF RunProvisionFails, Frame, Serialized, Begun, Pcs, db, sem
  <1>8. ASSUME RunFinalize(r) PROVE Frame(r)
    BY <1>8, GotoFrame, FinishFrame
    DEF RunFinalize, Frame, Serialized, Begun, Pcs, db, sem
  <1>9. ASSUME RunCleanBox(r) PROVE Frame(r)
    BY <1>9, GotoFrame
    DEF RunCleanBox, Frame, Serialized, Begun, Pcs, db, sem
  <1>10. ASSUME RunCleanDb(r) PROVE Frame(r)
    BY <1>10, FinishFrame
    DEF RunCleanDb, Frame, Serialized, Begun, Pcs, db, sem
  <1> QED
    BY <1>1, <1>2, <1>3, <1>4, <1>5, <1>6, <1>7, <1>8, <1>9, <1>10 DEF RunStep

LEMMA RmFrame ==
  ASSUME IInv, Serialized, NEW r \in Reqs, RmStep(r)
  PROVE  Frame(r)
  <1> TypeOK /\ StatusSeen /\ TargetHeld
    BY DEF IInv
  <1>1. ASSUME RmRead(r) PROVE Frame(r)
    BY <1>1, RememberFrame, FinishFrame
    DEF RmRead, Admitted, Frame, Serialized, Begun, Pcs, db, sem
  <1>2. ASSUME RmQueued(r) PROVE Frame(r)
    BY <1>2, FinishFrame
    DEF RmQueued, Frame, Serialized, Begun, Pcs, db, sem
  <1>3. ASSUME RmMark(r) PROVE Frame(r)
    BY <1>3, GotoFrame, FinishFrame
    DEF RmMark, Frame, Serialized, Begun, Pcs, db, sem
  <1>4. ASSUME RmBox(r) PROVE Frame(r)
    BY <1>4, GotoFrame
    DEF RmBox, Frame, Serialized, Begun, Pcs, db, sem
  <1>5. ASSUME RmDb(r) PROVE Frame(r)
    BY <1>5, FinishFrame
    DEF RmDb, Frame, Serialized, Begun, Pcs, db, sem
  <1> QED
    BY <1>1, <1>2, <1>3, <1>4, <1>5 DEF RmStep

LEMMA StopFrame ==
  ASSUME IInv, Serialized, NEW r \in Reqs, StopStep(r)
  PROVE  Frame(r)
  <1> TypeOK /\ StatusSeen /\ TargetHeld
    BY DEF IInv
  <1>1. ASSUME StopBegin(r) PROVE Frame(r)
    BY <1>1, RememberFrame, FinishFrame
    DEF StopBegin, Admitted, Frame, Serialized, Begun, Pcs, db, sem
  <1>2. ASSUME StopBox(r) PROVE Frame(r)
    BY <1>2, GotoFrame
    DEF StopBox, Frame, Serialized, Begun, Pcs, db, sem
  <1>3. ASSUME StopDb(r) PROVE Frame(r)
    BY <1>3, FinishFrame
    DEF StopDb, Frame, Serialized, Begun, Pcs, db, sem
  <1> QED
    BY <1>1, <1>2, <1>3 DEF StopStep

LEMMA StartFrame ==
  ASSUME IInv, Serialized, NEW r \in Reqs, StartStep(r)
  PROVE  Frame(r)
  <1> TypeOK /\ StatusSeen /\ TargetHeld
    BY DEF IInv
  <1>1. ASSUME StartBegin(r) PROVE Frame(r)
    BY <1>1, RememberFrame, FinishFrame
    DEF StartBegin, Admitted, Frame, Serialized, Begun, Pcs, db, sem
  <1>2. ASSUME StartBox(r) PROVE Frame(r)
    BY <1>2, GotoFrame
    DEF StartBox, Frame, Serialized, Begun, Pcs, db, sem
  <1>3. ASSUME StartFails(r) PROVE Frame(r)
    BY <1>3, FinishFrame
    DEF StartFails, Revert, Frame, Serialized, Begun, Pcs, db, sem
  <1>4. ASSUME StartDb(r) PROVE Frame(r)
    BY <1>4, FinishFrame
    DEF StartDb, Frame, Serialized, Begun, Pcs, db, sem
  <1> QED
    BY <1>1, <1>2, <1>3, <1>4 DEF StartStep

LEMMA AssignFrame ==
  ASSUME IInv, Serialized, NEW r \in Reqs, AssignStep(r)
  PROVE  Frame(r)
  <1> TypeOK /\ StatusSeen /\ TargetHeld
    BY DEF IInv
  <1>1. ASSUME AssignBegin(r) PROVE Frame(r)
    BY <1>1, Serving, ExistingRow, RememberFrame, FinishFrame
    DEF AssignBegin, Admitted, Is, Status, Frame, Serialized, Begun, Pcs, db, sem
  <1>2. ASSUME UnassignBegin(r) PROVE Frame(r)
    BY <1>2, Serving, ExistingRow, RememberFrame, FinishFrame
    DEF UnassignBegin, Admitted, Is, Status, Frame, Serialized, Begun, Pcs, db, sem
  <1>3. ASSUME AssignBox(r) PROVE Frame(r)
    BY <1>3, GotoFrame
    DEF AssignBox, StatusSeen, Frame, Serialized, Begun, Pcs, db, sem
  <1>4. ASSUME AssignFails(r) PROVE Frame(r)
    BY <1>4, FinishFrame
    DEF AssignFails, Revert, Frame, Serialized, Begun, Pcs, db, sem
  <1>5. ASSUME AssignDb(r) PROVE Frame(r)
    BY <1>5, FinishFrame
    DEF AssignDb, Frame, Serialized, Begun, Pcs, db, sem
  <1> QED
    BY <1>1, <1>2, <1>3, <1>4, <1>5 DEF AssignStep

LEMMA CheckoutFrame ==
  ASSUME IInv, Serialized, NEW r \in Reqs, CheckoutStep(r)
  PROVE  Frame(r)
  <1> TypeOK /\ StatusSeen /\ TargetHeld
    BY DEF IInv
  <1>1. ASSUME CheckoutClear(r) PROVE Frame(r)
    <2> DEFINE n == req[r].name
    <2>1. n \in Names /\ req[r].op \notin Gated
      BY <1>1, Serving DEF CheckoutClear, Admitted, Gated
    <2>2. CASE Finish(r)
      BY <1>1, <2>1, <2>2, FinishFrame DEF CheckoutClear, Frame
    <2>3. CASE Is(n, {"Running", "CheckedOut"}) /\ Remember(r, "bind") /\ dbLock' = r /\ UNCHANGED sem
      <3>1. row'[n] \in Row
        BY <1>1, <2>1, <2>3, ExistingRow DEF CheckoutClear, CheckedOut, Is, Row, Status
      <3>2. req'[r].name = n /\ req'[r].pc = "bind" /\ req'[r].op \notin Gated
        BY <2>1, <2>3, RememberFrame DEF Pcs
      <3> QED
        BY <1>1, <2>1, <2>3, <3>1, <3>2, ConstantsOK, RememberFrame
        DEF CheckoutClear, Frame, sem, Pcs
    <2> QED
      BY <1>1, <2>2, <2>3 DEF CheckoutClear
  <1>2. ASSUME CheckoutBind(r) PROVE Frame(r)
    BY <1>2, FinishFrame
    DEF CheckoutBind, Frame, Serialized, Begun, Pcs, db, sem
  <1>3. ASSUME CheckoutFails(r) PROVE Frame(r)
    BY <1>3, FinishFrame
    DEF CheckoutFails, Frame, Serialized, Begun, Pcs, db, sem
  <1> QED
    BY <1>1, <1>2, <1>3 DEF CheckoutStep

LEMMA StepTypes ==
  ASSUME IInv, NEW r \in Reqs, Step(r)
  PROVE  TypeOK'
  BY RunTypes, RmTypes, StopTypes, StartTypes, AssignTypes, CheckoutTypes DEF Step

LEMMA StepFrame ==
  ASSUME IInv, Serialized, NEW r \in Reqs, Step(r)
  PROVE  Frame(r)
  BY RunFrame, RmFrame, StopFrame, StartFrame, AssignFrame, CheckoutFrame DEF Step

LEMMA SubmitFrame ==
  ASSUME TypeOK, NEW r \in Reqs, NEW op \in Entry, NEW n \in Names,
         Submit(r, op, n) \/ SubmitRun(r, n)
  PROVE  Frame(r)
  <1>1. CASE Submit(r, op, n)
    BY <1>1 DEF Submit, Acquire, Frame, Idle, TypeOK, db, sem
  <1>2. CASE SubmitRun(r, n)
    BY <1>2 DEF SubmitRun, Frame, Idle, TypeOK, sem
  <1> QED
    BY <1>1, <1>2

LEMMA HangupFrame ==
  ASSUME TypeOK, NEW r \in Reqs, Hangup(r)
  PROVE  Frame(r)
  BY DEF Hangup, Release, Frame, Idle, TypeOK, db, sem

\* A framed step cannot take the mutex or the permit from another request.
LEMMA FrameKeeps ==
  ASSUME IInv, Serialized, NEW r \in Reqs, Frame(r)
  PROVE  TargetHeld' /\ StatusSeen' /\ Serialized'
  <1>1. TargetHeld'
    <2> SUFFICES ASSUME NEW s \in Reqs, req'[s].pc = "bind"
                 PROVE  dbLock' = s /\ row'[req'[s].name] # None
      BY DEF TargetHeld, Exists
    <2>1. CASE s = r
      BY <2>1 DEF Frame
    <2>2. CASE s # r
      <3>1. req'[s] = req[s]
        BY <2>2 DEF Frame
      <3>2. dbLock = s /\ row[req[s].name] # None /\ req[r].pc # "bind"
        BY <2>2, <3>1 DEF IInv, TargetHeld, Exists
      <3>3. ~DbFree
        BY <3>2, ConstantsOK DEF DbFree
      <3> QED
        BY <2>2, <3>1, <3>2, <3>3 DEF Frame
    <2> QED
      BY <2>1, <2>2
  <1>2. StatusSeen'
    BY DEF IInv, StatusSeen, Frame
  <1>3. Serialized'
    BY ConstantsOK DEF Serialized, Begun, Frame
  <1> QED
    BY <1>1, <1>2, <1>3

LEMMA RestartKeeps ==
  ASSUME Restart
  PROVE  TargetHeld' /\ StatusSeen' /\ Serialized'
  BY DEF Restart, Idle, TargetHeld, StatusSeen, Serialized, Begun

----------------------------------------------------------------------------
LEMMA InitInv == Init => IInv /\ Serialized
  BY DEF Init, IInv, TypeOK, TargetHeld, StatusSeen, Serialized, Begun, Idle

LEMMA NextInv == IInv /\ Serialized /\ [Next]_vars => IInv' /\ Serialized'
  <1> SUFFICES ASSUME IInv, Serialized, [Next]_vars
               PROVE  TypeOK' /\ TargetHeld' /\ StatusSeen' /\ Serialized'
    BY DEF IInv
  <1>1. ASSUME NEW r \in Reqs, NEW op \in Entry, NEW n \in Names, Submit(r, op, n)
        PROVE  TypeOK' /\ Frame(r)
    BY <1>1, SubmitTypes, SubmitFrame DEF IInv
  <1>2. ASSUME NEW r \in Reqs, NEW n \in Names, SubmitRun(r, n)
        PROVE  TypeOK' /\ Frame(r)
    <2>1. "run" \in Entry
      BY <1>2 DEF SubmitRun
    <2> QED
      BY <1>2, <2>1, SubmitRunTypes, SubmitFrame DEF IInv
  <1>3. ASSUME NEW r \in Reqs, Step(r)
        PROVE  TypeOK' /\ Frame(r)
    BY <1>3, StepTypes, StepFrame
  <1>4. ASSUME NEW r \in Reqs, Hangup(r)
        PROVE  TypeOK' /\ Frame(r)
    BY <1>4, HangupTypes, HangupFrame DEF IInv
  <1>5. CASE Restart
    BY <1>5, RestartTypes, RestartKeeps DEF IInv
  <1>6. CASE UNCHANGED vars
    BY <1>6 DEF vars, IInv, TypeOK, TargetHeld, StatusSeen, Serialized, Begun, Exists
  <1> QED
    BY <1>1, <1>2, <1>3, <1>4, <1>5, <1>6, FrameKeeps DEF Next

LEMMA InductiveInvariant == Spec => [](IInv /\ Serialized)
  BY InitInv, NextInv, PTL DEF Spec

\* Whatever the entry points in use and whatever fails, the variables stay in
\* their types: no handler writes a status through a row that is gone, and the
\* semaphore only ever holds requests.
THEOREM TypeCorrect == Spec => []TypeOK
  <1>1. IInv => TypeOK
    BY DEF IInv
  <1> QED
    BY <1>1, InductiveInvariant, PTL

\* The inductive invariant: besides, the target of a checkout that binds has
\* a row, and the status that an assign will write back is one.
THEOREM InvariantHolds == Spec => []IInv
  BY InductiveInvariant, PTL

\* While checkout holds the database mutex over its Docker probe its target
\* cannot be deleted, and no two checkouts bind at the same time.
THEOREM CheckoutTargetHeld == Spec => []TargetHeld
  <1>1. IInv => TargetHeld
    BY DEF IInv
  <1> QED
    BY <1>1, InductiveInvariant, PTL

\* The operations that take the project's permit are serialised for any number
\* of requests, also when clients hang up and coastd restarts in between.
THEOREM PermitSerializes == Spec => []Serialized
  BY InductiveInvariant, PTL
=============================================================================
