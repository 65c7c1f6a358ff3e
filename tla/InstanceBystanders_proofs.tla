---------------------- MODULE InstanceBystanders_proofs ----------------------
(***************************************************************************)
(* What coast doctor and the git watcher do to the instances the handlers  *)
(* work on, for every set of instances, requests, ports, containers and    *)
(* worktrees.                                                              *)
(***************************************************************************)
EXTENDS InstanceBystanders, InstanceOwnership_proofs

----------------------------------------------------------------------------
(* The shape of things: what a helper and a doctor remember, and that a    *)
(* pid is only ever recorded in a row of port_allocations.                 *)

Helper == [stage : HelperStage, name : Names \union {None}, cid : Cids \union {None}]

Doc == [pc    : DoctorPcs,
        rows  : SUBSET [name : Names, cid : Cids \union {None}, stopped : BOOLEAN],
        n     : Names \union {None},
        pids  : SUBSET [name : Names, port : Ports, out : BOOLEAN],
        boxes : SUBSET Names, alone : BOOLEAN, meddled : BOOLEAN]

\* Stages in which a helper has no request of its own under way.
Resting == {"sleep", "restart", "stop", "boot", "again"}

Helpful(r) ==
  /\ helper[r].stage # "none" => "watcher" \in Bystanders /\ helper[r].name \in Names
  /\ helper[r].stage \in Resting => req[r].pc = "idle"
  /\ helper[r].stage = "none" => helper[r] = NoHelper

Doctoring ==
  /\ doc \in Doc
  /\ doc.pc = "del" => doc.n \in Names
  /\ doc.alone => \A r \in Reqs : Free(r)

Linked == \A n \in Names : pid[n] \subseteq alloc[n]

ByInv ==
  /\ IInv /\ Serialized /\ Roles
  /\ helper \in [Reqs -> Helper] /\ \A r \in Reqs : Helpful(r)
  /\ Doctoring /\ Linked

\* The handlers' part of a step, and who takes it.
LEMMA HandlersMove ==
  ASSUME IInv, Serialized, Roles, Handlers
  PROVE  /\ Next
         /\ \E r \in Reqs : Others(r) /\ (req[r].pc # "idle" \/ helper[r].stage = "none")
  <1>1. PICK r \in Reqs :
          \/ /\ helper[r].stage = "none"
             /\ \/ \E op \in Entry, n \in Names : Submit(r, op, n)
                \/ \E n \in Names : SubmitRun(r, n)
          \/ Step(r)
          \/ Hangup(r)
    BY DEF Handlers
  <1>2. Next
    BY <1>1 DEF Next
  <1>3. CASE Step(r)
    <2>1. PICK n \in Names : Works(r, n)
      BY <1>3, StepWorks
    <2>2. Others(r) /\ req[r].pc # "idle"
      BY <1>3, <2>1, StepRole DEF Roles, Works
    <2> QED
      BY <1>2, <2>2
  <1>4. CASE Hangup(r)
    <2>1. Others(r) /\ req[r].pc # "idle"
      BY <1>4, HangupMoves DEF Hangup, Gone, IInv
    <2> QED
      BY <1>2, <2>1
  <1>5. CASE /\ helper[r].stage = "none"
             /\ \/ \E op \in Entry, n \in Names : Submit(r, op, n)
                \/ \E n \in Names : SubmitRun(r, n)
    <2>1. Others(r)
      BY <1>5 DEF Submit, SubmitRun, Others, IInv, TypeOK
    <2> QED
      BY <1>2, <1>5, <2>1
  <1> QED
    BY <1>1, <1>3, <1>4, <1>5

LEMMA LinkedNext ==
  ASSUME IInv, Serialized, Roles, Linked, [Next]_vars
  PROVE  Linked'
  <1> TypeOK
    BY DEF IInv
  <1>1. ASSUME UNCHANGED <<alloc, pid>> PROVE Linked'
    BY <1>1 DEF Linked
  <1>2. ASSUME NEW n \in Names, DeleteRow(n) PROVE Linked'
    BY <1>2 DEF Linked, DeleteRow, TypeOK
  <1>3. ASSUME NEW n \in Names, alloc' = alloc, pid' = [pid EXCEPT ![n] = {}] PROVE Linked'
    BY <1>3 DEF Linked, TypeOK
  <1>4. ASSUME NEW r \in Reqs, Step(r) PROVE Linked'
    <2>1. PICK n \in Names : Works(r, n)
      BY <1>4, StepWorks
    <2>2. req[r].name = n
      BY <2>1 DEF Works
    <2>3. CASE RunStep(r)
      <3>1. CASE RunInsert(r)
        BY <1>1, <2>2, <3>1 DEF RunInsert, Linked, TypeOK, db
      <3>2. CASE RunFinalize(r)
        BY <1>1, <2>2, <3>2, ConstantsOK DEF RunFinalize, Linked, TypeOK
      <3>3. CASE RunCleanDb(r)
        BY <1>2, <2>2, <3>3 DEF RunCleanDb
      <3> QED
        BY <1>1, <2>3, <3>1, <3>2, <3>3 DEF RunStep, RunJoinQueue, RunCheck, RunDangling,
           RunCreate, RunRecord, RunProvisionFails, RunCleanBox, db
    <2>4. CASE RmStep(r)
      BY <1>1, <1>2, <1>3, <2>2, <2>4 DEF RmStep, RmRead, RmQueued, RmMark, RmBox, RmDb,
         ClearCheckedOut, db
    <2>5. CASE StopStep(r)
      BY <1>1, <1>2, <1>3, <2>2, <2>5 DEF StopStep, StopBegin, StopBox, StopDb,
         ClearCheckedOut, db
    <2>6. CASE StartStep(r) \/ AssignStep(r)
      BY <1>1, <2>6 DEF StartStep, StartBegin, StartBox, StartFails, StartDb, AssignStep,
         AssignBegin, UnassignBegin, AssignBox, AssignFails, AssignDb, db
    <2>7. CASE CheckoutStep(r)
      BY <2>2, <2>7 DEF CheckoutStep, CheckoutClear, CheckoutBind, CheckoutFails, Linked, TypeOK
    <2> QED
      BY <1>4, <2>3, <2>4, <2>5, <2>6, <2>7 DEF Step
  <1>5. CASE Restart
    BY <1>5 DEF Restart, Linked
  <1> QED
    BY <1>1, <1>4, <1>5 DEF Next, Submit, SubmitRun, Hangup, vars, db
LEMMA DisturbMoves ==
  ASSUME doc \in Doc, Disturb
  PROVE  /\ doc' \in Doc /\ ~doc'.alone
         /\ doc'.pc = doc.pc /\ doc'.rows = doc.rows /\ doc'.n = doc.n
         /\ doc'.pids = doc.pids /\ doc'.boxes = doc.boxes /\ doc'.meddled = doc.meddled
  BY DEF Disturb, Doc

\* A helper goes on to another stage, with the container it will restart; or
\* it is done.
LEMMA HelperMoves ==
  ASSUME helper \in [Reqs -> Helper], NEW r \in Reqs
  PROVE  /\ \A stage \in HelperStage : HelperTo(r, stage) =>
              /\ helper' \in [Reqs -> Helper]
              /\ helper'[r].stage = stage
              /\ helper'[r].name = helper[r].name /\ helper'[r].cid = helper[r].cid
              /\ \A s \in Reqs \ {r} : helper'[s] = helper[s]
         /\ HelperGone(r) =>
              /\ helper' \in [Reqs -> Helper]
              /\ helper'[r] = NoHelper /\ helper'[r].stage = "none"
              /\ \A s \in Reqs \ {r} : helper'[s] = helper[s]
  BY DEF HelperTo, HelperGone, Helper, NoHelper, HelperStage

\* New helpers start in slots that were free, for instances of S.
LEMMA SpawnMoves ==
  ASSUME helper \in [Reqs -> Helper], NEW S, S \subseteq Names, Spawn(S)
  PROVE  /\ helper' \in [Reqs -> Helper]
         /\ \A r \in Reqs : \/ helper'[r] = helper[r]
                            \/ /\ Free(r) /\ helper'[r].name \in S
                               /\ helper'[r].stage = "sleep" /\ helper'[r].cid = None
  <1>1. PICK slot \in [S -> {r \in Reqs : Free(r)}] :
          helper' = [r \in Reqs |->
             IF \E n \in S : slot[n] = r
             THEN [stage |-> "sleep", cid |-> None, name |-> CHOOSE n \in S : slot[n] = r]
             ELSE helper[r]]
    BY DEF Spawn
  <1>2. ASSUME NEW r \in Reqs, \E n \in S : slot[n] = r
        PROVE  /\ Free(r) /\ helper'[r].name \in S /\ helper'[r] \in Helper
               /\ helper'[r].stage = "sleep" /\ helper'[r].cid = None
    <2>1. PICK n \in S : n = CHOOSE m \in S : slot[m] = r
      BY <1>2
    <2>2. helper'[r] = [stage |-> "sleep", cid |-> None, name |-> n]
      BY <1>1, <1>2, <2>1
    <2>3. Free(r)
      BY <1>2
    <2> QED
      BY <2>1, <2>2, <2>3 DEF Helper, HelperStage
  <1>3. ASSUME NEW r \in Reqs, ~\E n \in S : slot[n] = r
        PROVE  helper'[r] = helper[r]
    BY <1>1, <1>3
  <1> QED
    BY <1>1, <1>2, <1>3

\* Bystanders that leave the requests and the mutexes alone.
LEMMA Undisturbed ==
  ASSUME IInv, Serialized, Roles, TypeOK', UNCHANGED <<dbLock, permit, waiters, req>>,
         row' = row \/ Calm
  PROVE  IInv' /\ Serialized' /\ Roles'
  BY DEF IInv, TargetHeld, StatusSeen, Serialized, Begun, Roles, Role, Calm, Exists

LEMMA StandStill ==
  ASSUME IInv, Serialized, Roles, Linked, UNCHANGED vars
  PROVE  IInv' /\ Serialized' /\ Roles' /\ Linked'
  BY NextInv, RolesNext, LinkedNext

LEMMA HandlersShape ==
  ASSUME ByInv, Handlers
  PROVE  ByInv'
  <1>1. IInv' /\ Serialized' /\ Roles' /\ Linked'
    BY HandlersMove, NextInv, RolesNext, LinkedNext DEF ByInv
  <1>2. PICK r \in Reqs : Others(r) /\ (req[r].pc # "idle" \/ helper[r].stage = "none")
    BY HandlersMove DEF ByInv
  <1>3. Doctoring'
    BY DisturbMoves DEF ByInv, Doctoring, Handlers
  <1>4. ASSUME NEW s \in Reqs PROVE helper'[s] \in Helper /\ Helpful(s)'
    <2>1. Helpful(s) /\ helper[s] \in Helper
      BY DEF ByInv
    <2>2. \/ /\ helper[s].stage \in {"first", "second"} /\ req'[s].pc = "idle"
             /\ helper'[s] \in {[helper[s] EXCEPT !.stage = "restart"], NoHelper}
          \/ /\ ~(helper[s].stage \in {"first", "second"} /\ req'[s].pc = "idle")
             /\ helper'[s] = helper[s]
      BY DEF Handlers, HelpersFollow
    <2>3. NoHelper \in Helper /\ NoHelper.stage = "none"
      BY DEF NoHelper, Helper, HelperStage
    <2>4. /\ [helper[s] EXCEPT !.stage = "restart"] \in Helper
          /\ [helper[s] EXCEPT !.stage = "restart"].stage = "restart"
          /\ [helper[s] EXCEPT !.stage = "restart"].name = helper[s].name
      BY <2>1 DEF Helper, HelperStage
    <2>5. helper[s].stage \in Resting => req'[s].pc = "idle"
      BY <1>2, <2>1 DEF Others, Helpful, Resting
    <2> QED
      BY <2>1, <2>2, <2>3, <2>4, <2>5 DEF Helpful, Resting
  <1>5. helper' \in [Reqs -> Helper]
    BY <1>4 DEF Handlers, HelpersFollow
  <1> QED
    BY <1>1, <1>3, <1>4, <1>5 DEF ByInv

LEMMA RebootShape ==
  ASSUME ByInv, Reboot
  PROVE  ByInv'
  <1>1. Next
    BY DEF Reboot, Next
  <1>2. IInv' /\ Serialized' /\ Roles' /\ Linked'
    BY <1>1, NextInv, RolesNext, LinkedNext DEF ByInv
  <1>3. helper' = [r \in Reqs |-> NoHelper] /\ NoHelper \in Helper /\ NoHelper.stage = "none"
    BY DEF Reboot, NoHelper, Helper, HelperStage
  <1>4. doc' \in Doc /\ ~doc'.alone /\ doc'.pc = doc.pc /\ doc'.n = doc.n
    BY DEF Reboot, ByInv, Doctoring, Doc
  <1> QED
    BY <1>2, <1>3, <1>4 DEF ByInv, Doctoring, Helpful, Resting

LEMMA TreesShape ==
  ASSUME ByInv, (\E w \in Worktrees : DeleteWorktree(w)) \/ Tick \/ StartupScan
  PROVE  ByInv'
  <1>1. UNCHANGED vars /\ Disturb
    BY DEF DeleteWorktree, Tick, StartupScan
  <1>2. IInv' /\ Serialized' /\ Roles' /\ Linked' /\ Doctoring'
    BY <1>1, StandStill, DisturbMoves DEF ByInv, Doctoring
  <1>3. helper' = helper \/ ("watcher" \in Bystanders /\ Spawn(Orphans(disk)))
    BY DEF DeleteWorktree, Tick, StartupScan, watch
  <1>4. Orphans(disk) \subseteq Names
    BY DEF Orphans
  <1>5. helper' \in [Reqs -> Helper] /\ \A r \in Reqs : Helpful(r)'
    <2>1. CASE helper' = helper
      BY <1>1, <2>1 DEF ByInv, Helpful, vars
    <2>2. CASE "watcher" \in Bystanders /\ Spawn(Orphans(disk))
      BY <1>1, <1>4, <2>2, SpawnMoves DEF ByInv, Helpful, vars, Free, Resting
    <2> QED
      BY <1>3, <2>1, <2>2
  <1> QED
    BY <1>2, <1>5 DEF ByInv
\* try_unassign arrives like a request.
LEMMA AttemptMoves ==
  ASSUME IInv, NEW r \in Reqs, Attempt(r), helper[r].name \in Names
  PROVE  /\ Others(r) /\ UNCHANGED <<db, fwd, boxes, dbLock, sem>>
         /\ req' \in [Reqs -> Request \union {Idle}]
         /\ req'[r].op = "autoUnassign" /\ req'[r].name = helper[r].name
         /\ req'[r].pc = "waiting" /\ req'[r].seen = None
  <1>1. [Idle EXCEPT !.op = "autoUnassign", !.name = helper[r].name, !.pc = "waiting"] \in Request
    BY DEF Idle, Request, Ops, Ungated, Pcs
  <1> QED
    BY <1>1 DEF Attempt, Others, Idle, IInv, TypeOK

LEMMA AttemptKeeps ==
  ASSUME IInv, Serialized, Roles, NEW r \in Reqs, Attempt(r), helper[r].name \in Names
  PROVE  IInv' /\ Serialized' /\ Roles'
  <1>1. TypeOK'
    BY AttemptMoves DEF IInv, TypeOK, db, boxes, sem
  <1>2. Frame(r)
    BY AttemptMoves DEF Frame, Others, db, sem
  <1>3. Roles'
    BY AttemptMoves DEF Roles, Role, Others, RunPcs, RmPcs
  <1> QED
    BY <1>1, <1>2, <1>3, FrameKeeps DEF IInv

\* What stops or starts the container of a helper.
LEMMA RecoveryMoves ==
  ASSUME IInv, NEW r \in Reqs, RecoverStop(r) \/ RecoverBoot(r)
  PROVE  /\ UNCHANGED <<db, fwd, box, dbLock, sem, req>>
         /\ up' \in [Names -> BOOLEAN]
         /\ \A n \in Names : n # helper[r].name => up'[n] = up[n]
         /\ RecoverBoot(r) => \A n \in Names : up[n] => up'[n]
  BY DEF RecoverStop, RecoverBoot, IInv, TypeOK

LEMMA HelpersShape ==
  ASSUME ByInv, Helpers
  PROVE  ByInv'
  <1>1. PICK r \in Reqs : Attempt(r) \/ Recover(r) \/ RecoverStop(r) \/ RecoverBoot(r)
    BY DEF Helpers
  <1>2. Doctoring' /\ IInv /\ Serialized /\ Roles /\ Linked /\ Helpful(r) /\ helper[r] \in Helper
    BY DisturbMoves DEF ByInv, Doctoring, Helpers
  <1>3. CASE Attempt(r)
    <2>1. helper[r].name \in Names
      BY <1>2, <1>3 DEF Attempt, Helpful
    <2>2. IInv' /\ Serialized' /\ Roles' /\ Linked'
      BY <1>2, <1>3, <2>1, AttemptKeeps, AttemptMoves DEF Linked, db
    <2>3. /\ helper' \in [Reqs -> Helper] /\ helper'[r].stage \in {"first", "second"}
          /\ helper'[r].name = helper[r].name
          /\ \A s \in Reqs \ {r} : helper'[s] = helper[s] /\ req'[s] = req[s]
      BY <1>3, <2>1, HelperMoves, AttemptMoves DEF ByInv, Attempt, HelperStage, Others
    <2>4. \A s \in Reqs : Helpful(s)'
      BY <1>2, <1>3, <2>1, <2>3 DEF ByInv, Helpful, Resting, Attempt
    <2> QED
      BY <1>2, <2>2, <2>3, <2>4 DEF ByInv
  <1>4. CASE Recover(r)
    <2>1. IInv' /\ Serialized' /\ Roles' /\ Linked' /\ req' = req
      BY <1>2, <1>4, StandStill DEF Recover, vars
    <2>2. helper[r].name \in Names
      BY <1>2, <1>4 DEF Recover, Helpful
    <2>3. HasCid(helper[r].name) => row[helper[r].name].cid \in Cids \union {None}
      BY <1>2, <2>2, ExistingRow DEF HasCid, IInv
    <2>4. /\ helper' \in [Reqs -> Helper]
          /\ \/ helper'[r] = NoHelper /\ helper'[r].stage = "none"
             \/ helper'[r].stage = "stop" /\ helper'[r].name = helper[r].name
          /\ \A s \in Reqs \ {r} : helper'[s] = helper[s]
      <3>1. CASE HelperGone(r)
        BY <3>1, HelperMoves DEF ByInv
      <3>2. CASE /\ HasCid(helper[r].name)
                 /\ helper' = [helper EXCEPT ![r].stage = "stop",
                                             ![r].cid = row[helper[r].name].cid]
        <4>1. helper \in [Reqs -> Helper]
          BY DEF ByInv
        <4> QED
          BY <2>3, <3>2, <4>1 DEF Helper, HelperStage
      <3> QED
        BY <1>4, <3>1, <3>2 DEF Recover
    <2>5. \A s \in Reqs : Helpful(s)'
      BY <1>2, <1>4, <2>1, <2>2, <2>4 DEF ByInv, Helpful, Resting, Recover
    <2> QED
      BY <1>2, <2>1, <2>4, <2>5 DEF ByInv
  <1>5. CASE RecoverStop(r) \/ RecoverBoot(r)
    <2>1. /\ UNCHANGED <<db, fwd, box, dbLock, sem, req>>
          /\ up' \in [Names -> BOOLEAN]
      BY <1>2, <1>5, RecoveryMoves
    <2>2. TypeOK'
      BY <1>2, <2>1 DEF IInv, TypeOK, db, sem
    <2>3. IInv' /\ Serialized' /\ Roles' /\ Linked'
      BY <1>2, <2>1, <2>2, Undisturbed DEF Linked, db, sem
    <2>4. /\ helper' \in [Reqs -> Helper]
          /\ \/ helper'[r] = NoHelper /\ helper'[r].stage = "none"
             \/ helper'[r].stage \in {"boot", "again"} /\ helper'[r].name = helper[r].name
          /\ \A s \in Reqs \ {r} : helper'[s] = helper[s]
      <3>1. HelperGone(r) \/ HelperTo(r, "boot") \/ HelperTo(r, "again")
        BY <1>5 DEF RecoverStop, RecoverBoot
      <3> QED
        BY <3>1, HelperMoves DEF ByInv, HelperStage
    <2>5. \A s \in Reqs : Helpful(s)'
      BY <1>2, <1>5, <2>1, <2>4 DEF ByInv, Helpful, Resting, RecoverStop, RecoverBoot
    <2> QED
      BY <1>2, <2>1, <2>3, <2>4, <2>5 DEF ByInv
  <1> QED
    BY <1>1, <1>3, <1>4, <1>5

\* The doctor's own steps.
LEMMA DoctorShape ==
  ASSUME ByInv, Doctor
  PROVE  ByInv'
  <1>1. UNCHANGED <<dbLock, sem, req, watch>>
    BY DEF Doctor, DoctorComes, DoctorRow, DoctorDelete, DoctorReadsPids, DoctorClears,
           DoctorLists, DoctorRemoves, DoctorLeaves, DoctorOnly
  <1>2. ASSUME doc' \in Doc, doc'.pc = "del" => doc'.n \in Names,
               doc'.alone => doc.alone \/ \A r \in Reqs : Free(r)
        PROVE  Doctoring'
    BY <1>1, <1>2 DEF ByInv, Doctoring, Free, watch
  <1>3. helper' \in [Reqs -> Helper] /\ \A r \in Reqs : Helpful(r)'
    BY <1>1 DEF ByInv, Helpful, watch
  <1>4. ASSUME TypeOK', row' = row \/ Calm, Linked', Doctoring'
        PROVE  ByInv'
    BY <1>1, <1>3, <1>4, Undisturbed DEF ByInv, sem
  <1>5. TypeOK /\ IInv /\ Linked /\ doc \in Doc /\ (doc.pc = "del" => doc.n \in Names)
    BY DEF ByInv, IInv, Doctoring
  <1>6. ASSUME UNCHANGED <<db, fwd, boxes>>, Doctoring' PROVE ByInv'
    <2>1. TypeOK' /\ Linked' /\ row' = row
      BY <1>1, <1>5, <1>6 DEF db, boxes, sem, TypeOK, Linked
    <2> QED
      BY <1>4, <1>6, <2>1
  <1>7. CASE DoctorComes
    <2>1. {[name |-> n, cid |-> row[n].cid, stopped |-> Is(n, {"Stopped"})]
              : n \in {m \in Names : Exists(m)}}
            \subseteq [name : Names, cid : Cids \union {None}, stopped : BOOLEAN]
      <3>1. ASSUME NEW n \in Names, Exists(n)
            PROVE  [name |-> n, cid |-> row[n].cid, stopped |-> Is(n, {"Stopped"})]
                      \in [name : Names, cid : Cids \union {None}, stopped : BOOLEAN]
        <4>1. row[n].cid \in Cids \union {None}
          BY <1>5, <3>1, ExistingRow
        <4>2. Is(n, {"Stopped"}) \in BOOLEAN
          BY DEF Is
        <4> QED
          BY <4>1, <4>2
      <3> QED
        BY <3>1
    <2>2. doc' \in Doc /\ doc'.pc = "rows" /\ (doc'.alone => \A r \in Reqs : Free(r))
      BY <1>5, <1>7, <2>1 DEF DoctorComes, Doc, DoctorPcs
    <2> QED
      BY <1>2, <1>6, <1>7, <2>2 DEF DoctorComes, DoctorOnly
  <1>8. CASE DoctorRow
    <2>1. PICK e \in doc.rows :
            \/ doc' = [doc EXCEPT !.rows = @ \ {e}]
            \/ doc' = [doc EXCEPT !.rows = @ \ {e}, !.pc = "del", !.n = e.name]
      BY <1>5, <1>8 DEF DoctorRow, Doc
    <2>2. e.name \in Names
      BY <1>5 DEF Doc
    <2>3. /\ doc' \in Doc /\ (doc'.pc = "del" => doc'.n \in Names)
          /\ doc'.alone = doc.alone
      <3>1. doc.pc = "rows" /\ doc \in Doc
        BY <1>5, <1>8 DEF DoctorRow
      <3>2. CASE doc' = [doc EXCEPT !.rows = @ \ {e}]
        BY <3>1, <3>2 DEF Doc, DoctorPcs
      <3>3. CASE doc' = [doc EXCEPT !.rows = @ \ {e}, !.pc = "del", !.n = e.name]
        BY <2>2, <3>1, <3>3 DEF Doc, DoctorPcs
      <3> QED
        BY <2>1, <3>2, <3>3
    <2> QED
      BY <1>2, <1>6, <1>8, <2>3 DEF DoctorRow, DoctorOnly
  <1>9. CASE DoctorDelete
    <2>1. doc' \in Doc /\ doc'.pc = "rows" /\ doc'.alone = doc.alone
      BY <1>5, <1>9 DEF DoctorDelete, Doc, DoctorPcs
    <2>2. doc.n \in Names
      BY <1>5, <1>9 DEF DoctorDelete
    <2>3. /\ row' \in RowType /\ alloc' \in PortSets /\ pid' \in PortSets
          /\ fwd' \in FwdType /\ Linked'
      BY <1>5, <1>9, <2>2, DeleteRowType, KillType DEF DoctorDelete, DeleteRow, Linked, TypeOK
    <2>4. TypeOK'
      BY <1>1, <1>5, <1>9, <2>3 DEF DoctorDelete, TypeOK, boxes, sem, RowType, PortSets, FwdType
    <2> QED
      BY <1>2, <1>4, <1>9, <2>1, <2>3, <2>4 DEF DoctorDelete
  <1>10. CASE DoctorReadsPids
    <2>1. doc' \in Doc /\ doc'.pc = "clear" /\ doc'.alone = doc.alone
      BY <1>5, <1>10 DEF DoctorReadsPids, Doc, DoctorPcs
    <2> QED
      BY <1>2, <1>6, <1>10, <2>1 DEF DoctorReadsPids, DoctorOnly
  <1>11. CASE DoctorClears
    <2>1. doc' \in Doc /\ doc'.pc = "list" /\ doc'.alone = doc.alone
      BY <1>5, <1>11 DEF DoctorClears, Doc, DoctorPcs
    <2>2. row' \in RowType
      <3>1. ASSUME NEW n \in Names, Exists(n) PROVE [row[n] EXCEPT !.status = "Running"] \in Row
        BY <1>5, <3>1, ExistingRow, Statuses DEF Row
      <3> QED
        BY <1>5, <1>11, <3>1 DEF DoctorClears, RowType, TypeOK
    <2>3. fwd' \in FwdType /\ pid' \in PortSets /\ alloc' = alloc /\ Linked'
      BY <1>5, <1>11 DEF DoctorClears, FwdType, PortSets, TypeOK, Linked
    <2>4. TypeOK'
      BY <1>1, <1>5, <1>11, <2>2, <2>3
      DEF DoctorClears, TypeOK, boxes, sem, RowType, PortSets, FwdType
    <2> QED
      BY <1>2, <1>4, <1>11, <2>1, <2>3, <2>4 DEF DoctorClears
  <1>12. CASE DoctorLists
    <2>1. doc' \in Doc /\ doc'.pc = "boxes" /\ doc'.alone = doc.alone
      BY <1>5, <1>12 DEF DoctorLists, Doc, DoctorPcs
    <2> QED
      BY <1>2, <1>6, <1>12, <2>1 DEF DoctorLists, DoctorOnly
  <1>13. CASE DoctorRemoves
    <2>1. doc' \in Doc /\ doc'.pc = "boxes" /\ doc'.alone = doc.alone
      BY <1>5, <1>13 DEF DoctorRemoves, Doc, DoctorPcs
    <2>2. box' \in [Names -> Cids \union {None}] /\ up' \in [Names -> BOOLEAN]
      BY <1>5, <1>13, RemoveBoxType DEF DoctorRemoves, boxes, TypeOK, Doc
    <2>3. TypeOK' /\ Linked' /\ row' = row
      BY <1>1, <1>5, <1>13, <2>2 DEF DoctorRemoves, TypeOK, db, sem, Linked
    <2> QED
      BY <1>2, <1>4, <2>1, <2>3
  <1>14. CASE DoctorLeaves
    <2>1. doc' \in Doc /\ doc'.pc = "idle" /\ ~doc'.alone
      BY <1>5, <1>14 DEF DoctorLeaves, NoDoctor, Doc, DoctorPcs
    <2> QED
      BY <1>2, <1>6, <1>14, <2>1 DEF DoctorLeaves, DoctorOnly
  <1> QED
    BY <1>7, <1>8, <1>9, <1>10, <1>11, <1>12, <1>13, <1>14 DEF Doctor

LEMMA ByInvHolds == BSpec => []ByInv
  <1>1. BInit => ByInv
    <2> SUFFICES ASSUME BInit PROVE ByInv
      OBVIOUS
    <2>1. Init /\ helper = [r \in Reqs |-> NoHelper] /\ doc = NoDoctor
      BY DEF BInit
    <2>2. IInv /\ Serialized
      BY <2>1, InitInv
    <2>3. Roles /\ Linked
      BY <2>1 DEF Init, Roles, Role, Idle, RunPcs, RmPcs, Linked
    <2>4. NoHelper \in Helper /\ NoHelper.stage = "none"
      BY DEF NoHelper, Helper, HelperStage
    <2>5. Doctoring
      BY <2>1 DEF Doctoring, NoDoctor, Doc, DoctorPcs
    <2> QED
      BY <2>1, <2>2, <2>3, <2>4, <2>5 DEF ByInv, Helpful, Resting
  <1>2. ByInv /\ [BNext]_bvars => ByInv'
    <2>1. CASE UNCHANGED bvars
      <3>1. ByInv => ByInv'
        <4>1. ASSUME ByInv PROVE ByInv'
          <5>1. IInv' /\ Serialized' /\ Roles' /\ Linked'
            BY <2>1, <4>1, StandStill DEF bvars, ByInv
          <5> QED
            BY <2>1, <4>1, <5>1 DEF bvars, vars, watch, ByInv, Helpful, Doctoring, Free
        <4> QED
          BY <4>1
      <3> QED
        BY <3>1
    <2> QED
      BY <2>1, HandlersShape, RebootShape, TreesShape, HelpersShape, DoctorShape DEF BNext
  <1> QED
    BY <1>1, <1>2, PTL DEF BSpec

----------------------------------------------------------------------------
(* What is shown as up runs, or the watcher is about to start it again.    *)
(*                                                                         *)
(* As long as no doctor has meddled (Whole), an instance stays up once it  *)
(* is, with the container it has: the handlers see to that (LiveInv), and  *)
(* no forgotten row or forwarder makes the doctor do otherwise.  So the    *)
(* container a helper has stopped is still the one it starts (Repairing).  *)

Booting(n) == \E r \in Reqs : helper[r].stage = "boot" /\ helper[r].name = n

Repairing(r) ==
  helper[r].stage # "none" =>
    /\ Is(helper[r].name, CanAssign)
    /\ helper[r].stage \in {"stop", "boot"} => row[helper[r].name].cid = helper[r].cid

\* The rows whose forwarders the doctor saw dead while they were checked out.
SeenOut == doc.pc = "clear" => \A e \in doc.pids : e.out => Is(e.name, CanAssign)

RepairInv ==
  /\ \A n \in Names : Is(n, CanAssign) => up[n] \/ Booting(n)
  /\ \A r \in Reqs : Repairing(r)
  /\ SeenOut

Whole == doc.meddled \/ (LiveInv /\ RepairInv)

\* Docker fails only where no watcher depends on it.
RecoveriesWork == "docker" \in Faults => "watcher" \notin Bystanders

\* Whoever is up stays up, and whoever comes up runs.
StaysUp(n) ==
  /\ Is(n, CanAssign) => /\ Is(n, CanAssign)' /\ row'[n].cid = row[n].cid
                         /\ box'[n] = box[n] /\ up'[n] = up[n]
  /\ Is(n, CanAssign)' => Is(n, CanAssign) \/ up'[n]

LEMMA MildStays ==
  ASSUME NEW n \in Names, Mild(n)
  PROVE  StaysUp(n)
  BY DEF Mild, StaysUp, Is, Exists

LEMMA KeepsLiveStays ==
  ASSUME LiveInv, NEW r \in Reqs, NEW n \in Names, KeepsLive(r, n)
  PROVE  \A m \in Names : StaysUp(m)
  <1>1. ASSUME NEW m \in Names, Mild(m) PROVE StaysUp(m)
    BY <1>1, MildStays
  <1>2. ASSUME Making(r, n) \/ ~Exists(n), Awake(n)' PROVE StaysUp(n)
    <2>1. Lively(r, n)
      BY DEF LiveInv
    <2>2. ~Is(n, CanAssign)
      BY <1>2, <2>1 DEF Lively, Making, Is, CanAssign
    <2> QED
      BY <1>2, <2>2 DEF StaysUp, Awake
  <1> QED
    BY <1>1, <1>2 DEF KeepsLive

\* The handlers, as in InstanceContainers_proofs.
LEMMA NextStays ==
  ASSUME IInv, Serialized, Roles, LiveInv, NothingStops, Next
  PROVE  \A m \in Names : StaysUp(m)
  <1>1. ASSUME NEW r \in Reqs, Step(r) PROVE \A m \in Names : StaysUp(m)
    BY <1>1, StepLives, KeepsLiveStays
  <1>2. ASSUME NEW r \in Reqs, NEW op \in Entry, NEW n \in Names,
               Submit(r, op, n) \/ SubmitRun(r, n)
        PROVE  \A m \in Names : StaysUp(m)
    BY <1>2, SubmitLives, KeepsLiveStays
  <1>3. ASSUME NEW r \in Reqs, NEW n \in Names, SubmitRun(r, n)
        PROVE  \A m \in Names : StaysUp(m)
    <2>1. "run" \in Entry
      BY <1>3 DEF SubmitRun
    <2> QED
      BY <1>2, <1>3, <2>1
  <1>4. ASSUME NEW r \in Reqs, Hangup(r) PROVE \A m \in Names : StaysUp(m)
    BY <1>4, HangupLives, KeepsLiveStays
  <1>5. CASE Restart
    BY <1>5, RestartLives, MildStays DEF IInv
  <1> QED
    BY <1>1, <1>2, <1>3, <1>4, <1>5 DEF Next

\* Nothing of it depends on containers of instances that are up, or gone.
LEMMA LeftAlone ==
  ASSUME LiveInv, req' = req,
         \A n \in Names : \/ Mild(n)
                          \/ /\ row'[n] = row[n]
                             /\ ~Exists(n) \/ (Is(n, CanAssign) /\ box'[n] = box[n])
  PROVE  LiveInv'
  <1>1. ASSUME NEW n \in Names PROVE LiveRow(n)'
    <2>1. LiveRow(n)
      BY DEF LiveInv
    <2>2. CASE Mild(n)
      BY <2>1, <2>2, MildKeeps
    <2>3. CASE /\ row'[n] = row[n]
               /\ ~Exists(n) \/ (Is(n, CanAssign) /\ box'[n] = box[n])
      BY <2>1, <2>3 DEF LiveRow, Is, Exists, Reaches
    <2> QED
      BY <2>2, <2>3
  <1>2. ASSUME NEW n \in Names, NEW r \in Reqs PROVE Lively(r, n)' /\ OneMaker(r, n)'
    <2>1. Lively(r, n) /\ OneMaker(r, n)
      BY DEF LiveInv
    <2>2. CASE Mild(n)
      BY <2>1, <2>2 DEF Lively, OneMaker, Making, Mild, Is, Exists, CanAssign, Healthy,
                        Reaches, Sealed
    <2>3. CASE /\ row'[n] = row[n]
               /\ ~Exists(n) \/ (Is(n, CanAssign) /\ box'[n] = box[n])
      BY <2>1, <2>3 DEF Lively, OneMaker, Making, Is, Exists, CanAssign, Healthy,
                        Reaches, Sealed
    <2> QED
      BY <2>2, <2>3
  <1> QED
    BY <1>1, <1>2 DEF LiveInv

\* Repairs go on where whoever is up stays up and helpers carry on.
LEMMA RepairsGoOn ==
  ASSUME RepairInv, \A n \in Names : StaysUp(n), SeenOut',
         \A r \in Reqs : helper[r].stage # "none" => helper[r].name \in Names,
         \A r \in Reqs : /\ helper[r].stage = "boot" => helper'[r] = helper[r]
                         /\ helper'[r].stage # "none" =>
                              \/ Is(helper[r].name, CanAssign)' /\ helper'[r].stage = "sleep"
                              \/ /\ helper[r].stage # "none"
                                 /\ helper'[r].name = helper[r].name
                                 /\ helper'[r].cid = helper[r].cid
                                 /\ helper'[r].stage \in {"stop", "boot"} =>
                                       helper[r].stage = helper'[r].stage
  PROVE  RepairInv'
  <1>1. ASSUME NEW n \in Names, Is(n, CanAssign)' PROVE (up[n] \/ Booting(n))'
    BY <1>1 DEF RepairInv, StaysUp, Booting
  <1>2. ASSUME NEW r \in Reqs PROVE Repairing(r)'
    <2>1. Repairing(r)
      BY DEF RepairInv
    <2>2. CASE Is(helper[r].name, CanAssign)' /\ helper'[r].stage = "sleep"
      BY <2>2 DEF Repairing
    <2>3. CASE /\ helper[r].stage # "none"
               /\ helper'[r].name = helper[r].name
               /\ helper'[r].cid = helper[r].cid
               /\ helper'[r].stage \in {"stop", "boot"} => helper[r].stage = helper'[r].stage
      BY <2>1, <2>3 DEF Repairing, StaysUp, Is, Exists
    <2> QED
      BY <2>2, <2>3 DEF Repairing
  <1> QED
    BY <1>1, <1>2 DEF RepairInv

\* What the doctor has seen stays as it was where instances stay up.
LEMMA SeenStays ==
  ASSUME ByInv, SeenOut, \A n \in Names : StaysUp(n), doc'.pc = doc.pc, doc'.pids = doc.pids
  PROVE  SeenOut'
  <1>1. \A e \in doc.pids : e.name \in Names
    BY DEF ByInv, Doctoring, Doc
  <1> QED
    BY <1>1 DEF SeenOut, StaysUp

LEMMA HandlersWhole ==
  ASSUME ByInv, NothingStops, LiveInv, RepairInv, Handlers
  PROVE  LiveInv' /\ RepairInv'
  <1>1. IInv /\ Serialized /\ Roles /\ Next
    BY HandlersMove DEF ByInv
  <1>2. LiveInv' /\ \A n \in Names : StaysUp(n)
    BY <1>1, LiveNext, NextStays
  <1>3. SeenOut'
    BY <1>2, SeenStays, DisturbMoves DEF ByInv, Doctoring, Handlers, RepairInv
  <1>4. ASSUME NEW r \in Reqs
        PROVE  /\ helper[r].stage # "none" => helper[r].name \in Names
               /\ helper[r].stage = "boot" => helper'[r] = helper[r]
               /\ helper'[r].stage # "none" =>
                    /\ helper[r].stage # "none"
                    /\ helper'[r].name = helper[r].name
                    /\ helper'[r].cid = helper[r].cid
                    /\ helper'[r].stage \in {"stop", "boot"} => helper[r].stage = helper'[r].stage
    <2>1. Helpful(r) /\ helper[r] \in Helper
      BY DEF ByInv
    <2>2. helper'[r] \in {helper[r], [helper[r] EXCEPT !.stage = "restart"], NoHelper}
      BY DEF Handlers, HelpersFollow
    <2>3. helper[r].stage = "boot" => helper'[r] = helper[r]
      BY DEF Handlers, HelpersFollow
    <2>4. helper'[r] # helper[r] => helper[r].stage # "none"
      BY DEF Handlers, HelpersFollow
    <2> QED
      BY <2>1, <2>2, <2>3, <2>4 DEF Helpful, Helper, NoHelper
  <1> QED
    BY <1>2, <1>3, <1>4, RepairsGoOn

LEMMA RebootWhole ==
  ASSUME ByInv, LiveInv, RepairInv, Reboot
  PROVE  doc'.meddled \/ (LiveInv' /\ RepairInv')
  <1>1. TypeOK /\ Restart /\ doc \in Doc
    BY DEF Reboot, ByInv, IInv, Doctoring
  <1>2. LiveInv' /\ \A n \in Names : StaysUp(n)
    BY <1>1, RestartLives, MildStays
  <1>3. /\ doc'.pc = doc.pc /\ doc'.pids = doc.pids
        /\ doc'.meddled \/ \A r \in Reqs : helper[r].stage # "boot"
    BY <1>1 DEF Reboot, Doc
  <1>4. SeenOut'
    BY <1>2, <1>3, SeenStays DEF RepairInv
  <1>5. \A r \in Reqs : helper'[r].stage = "none"
    BY DEF Reboot, NoHelper
  <1>6. \A r \in Reqs : helper[r].stage # "none" => helper[r].name \in Names
    BY DEF ByInv, Helpful
  <1> QED
    BY <1>2, <1>3, <1>4, <1>5, <1>6, RepairsGoOn

LEMMA TreesWhole ==
  ASSUME ByInv, LiveInv, RepairInv,
         (\E w \in Worktrees : DeleteWorktree(w)) \/ Tick \/ StartupScan
  PROVE  LiveInv' /\ RepairInv'
  <1>1. UNCHANGED vars /\ Disturb
    BY DEF DeleteWorktree, Tick, StartupScan
  <1>2. \A n \in Names : Mild(n)
    BY <1>1 DEF vars, Mild
  <1>3. LiveInv' /\ \A n \in Names : StaysUp(n)
    BY <1>1, <1>2, LeftAlone, MildStays DEF vars
  <1>4. SeenOut'
    BY <1>1, <1>3, SeenStays, DisturbMoves DEF ByInv, Doctoring, RepairInv
  <1>5. helper' = helper \/ Spawn(Orphans(disk))
    BY DEF DeleteWorktree, Tick, StartupScan, watch
  <1>6. \A n \in Orphans(disk) : n \in Names /\ Is(n, CanAssign)'
    BY <1>1 DEF Orphans, Is, Exists, CanAssign, vars
  <1>7. ASSUME NEW r \in Reqs
        PROVE  /\ helper[r].stage # "none" => helper[r].name \in Names
               /\ \/ helper'[r] = helper[r]
                  \/ /\ helper[r].stage = "none"
                     /\ helper'[r].stage = "sleep" /\ Is(helper[r].name, CanAssign)'
    BY <1>5, <1>6, SpawnMoves DEF ByInv, Helpful, Free
  <1> QED
    BY <1>3, <1>4, <1>7, RepairsGoOn

LEMMA HelpersWhole ==
  ASSUME ByInv, RecoveriesWork, LiveInv, RepairInv, Helpers
  PROVE  LiveInv' /\ RepairInv'
  <1>1. PICK r \in Reqs : Attempt(r) \/ Recover(r) \/ RecoverStop(r) \/ RecoverBoot(r)
    BY DEF Helpers
  <1> DEFINE n == helper[r].name
  <1>2. /\ IInv /\ Serialized /\ Roles /\ helper \in [Reqs -> Helper]
        /\ Helpful(r) /\ helper[r] \in Helper /\ Repairing(r)
    BY DEF ByInv, RepairInv
  <1>3. n \in Names /\ Is(n, CanAssign) /\ "watcher" \in Bystanders
    BY <1>1, <1>2 DEF Helpful, Repairing, Attempt, Recover, RecoverStop, RecoverBoot
  <1>4. ASSUME \A m \in Names : StaysUp(m) PROVE SeenOut'
    BY <1>4, SeenStays, DisturbMoves DEF ByInv, Doctoring, Helpers, RepairInv
  <1>5. \A s \in Reqs : helper[s].stage # "none" => helper[s].name \in Names
    BY DEF ByInv, Helpful
  <1>6. CASE Attempt(r)
    <2>1. /\ Others(r) /\ UNCHANGED <<db, fwd, boxes, dbLock, sem>>
          /\ req'[r].op = "autoUnassign" /\ req'[r].name = n /\ req'[r].pc = "waiting"
          /\ req[r].pc = "idle"
      BY <1>2, <1>3, <1>6, AttemptMoves DEF Attempt, Helpful, Resting
    <2>2. KeepsLive(r, n)
      BY <1>3, <2>1, UnmovedBoxes DEF KeepsLive, Mild, Lively, Making, Sealed, db, boxes
    <2>3. LiveInv'
      BY <1>2, <1>3, <2>1, <2>2, KeepsLiveInv
    <2>4. \A m \in Names : StaysUp(m)
      BY <1>3, <2>2, KeepsLiveStays
    <2>5. /\ helper'[r].stage \in {"first", "second"} /\ helper[r].stage \in {"sleep", "again"}
          /\ helper'[r].name = n /\ helper'[r].cid = helper[r].cid
          /\ \A s \in Reqs \ {r} : helper'[s] = helper[s]
      BY <1>2, <1>6, HelperMoves DEF Attempt, HelperStage
    <2> QED
      BY <1>4, <1>5, <2>3, <2>4, <2>5, RepairsGoOn
  <1>7. CASE Recover(r)
    <2>1. UNCHANGED vars /\ \A m \in Names : Mild(m)
      BY <1>7 DEF Recover, vars, Mild
    <2>2. LiveInv' /\ \A m \in Names : StaysUp(m)
      BY <2>1, LeftAlone, MildStays DEF vars
    <2>3. SeenOut'
      BY <1>4, <2>2
    <2>4. \/ helper'[r].stage = "none"
          \/ /\ helper'[r].stage = "stop" /\ helper'[r].name = n
             /\ helper'[r].cid = row[n].cid
      <3>1. CASE HelperGone(r)
        BY <1>2, <3>1, HelperMoves
      <3>2. CASE helper' = [helper EXCEPT ![r].stage = "stop", ![r].cid = row[n].cid]
        BY <1>2, <3>2 DEF Helper
      <3> QED
        BY <1>7, <3>1, <3>2 DEF Recover
    <2>5. \A s \in Reqs \ {r} : helper'[s] = helper[s]
      BY <1>2, <1>7 DEF Recover, HelperGone
    <2>6. \A m \in Names : Is(m, CanAssign)' => up'[m] \/ Booting(m)'
      BY <1>7, <2>1, <2>5 DEF RepairInv, Booting, Recover, vars, Is, Exists
    <2>7. ASSUME NEW s \in Reqs PROVE Repairing(s)'
      <3>1. Repairing(s)
        BY DEF RepairInv
      <3>2. CASE s # r
        BY <2>1, <2>5, <3>1, <3>2 DEF Repairing, vars, Is, Exists
      <3>3. CASE s = r
        BY <1>3, <2>1, <2>4, <3>3 DEF Repairing, vars, Is, Exists
      <3> QED
        BY <3>2, <3>3
    <2> QED
      BY <2>2, <2>3, <2>6, <2>7 DEF RepairInv
  <1>8. CASE RecoverStop(r) \/ RecoverBoot(r)
    <2>1. /\ UNCHANGED <<db, fwd, box, dbLock, sem, req>>
          /\ \A m \in Names : m # n => up'[m] = up[m]
      BY <1>2, <1>8, RecoveryMoves
    <2>2. \A m \in Names : \/ Mild(m)
                           \/ row'[m] = row[m] /\ Is(m, CanAssign) /\ box'[m] = box[m]
      BY <1>3, <2>1 DEF Mild, db
    <2>3. LiveInv'
      BY <2>1, <2>2, LeftAlone
    <2>4. Reaches(n, helper[r].cid) /\ ("docker" \notin Faults)
      <3>1. row[n].cid = helper[r].cid
        BY <1>2, <1>8 DEF Repairing, RecoverStop, RecoverBoot
      <3>2. LiveRow(n)
        BY <1>3 DEF LiveInv
      <3> QED
        BY <1>3, <3>1, <3>2 DEF LiveRow, RecoveriesWork
    <2>5. \/ HelperTo(r, "boot") /\ RecoverStop(r)
          \/ HelperTo(r, "again") /\ RecoverBoot(r) /\ up' = [up EXCEPT ![n] = TRUE]
      BY <1>8, <2>4 DEF RecoverStop, RecoverBoot
    <2>6. /\ helper'[r].stage \in {"boot", "again"}
          /\ RecoverStop(r) => helper'[r].stage = "boot" /\ helper[r].stage = "stop"
          /\ helper'[r].name = n /\ helper'[r].cid = helper[r].cid
          /\ \A s \in Reqs \ {r} : helper'[s] = helper[s]
      BY <1>2, <2>5, HelperMoves DEF HelperStage, RecoverStop, RecoverBoot
    <2>7. SeenOut'
      <3>1. \A e \in doc.pids : e.name \in Names
        BY DEF ByInv, Doctoring, Doc
      <3>2. doc'.pc = doc.pc /\ doc'.pids = doc.pids
        BY DisturbMoves DEF ByInv, Doctoring, Helpers
      <3> QED
        BY <2>1, <3>1, <3>2 DEF RepairInv, SeenOut, Is, Exists, db
    <2>8. ASSUME NEW m \in Names, Is(m, CanAssign)' PROVE up'[m] \/ Booting(m)'
      <3>1. Is(m, CanAssign)
        BY <2>1, <2>8 DEF Is, Exists, db
      <3>2. up[m] \/ Booting(m)
        BY <3>1 DEF RepairInv
      <3>3. CASE RecoverStop(r)
        BY <2>1, <2>6, <3>2, <3>3 DEF Booting
      <3>4. CASE up' = [up EXCEPT ![n] = TRUE]
        <4>1. up'[n]
          BY <1>2, <1>3, <3>4 DEF IInv, TypeOK
        <4> QED
          BY <2>1, <2>6, <3>2, <4>1 DEF Booting
      <3> QED
        BY <2>5, <3>3, <3>4
    <2>9. ASSUME NEW s \in Reqs PROVE Repairing(s)'
      <3>1. Repairing(s)
        BY DEF RepairInv
      <3>2. CASE s # r
        BY <2>1, <2>6, <3>1, <3>2 DEF Repairing, db, Is, Exists
      <3>3. CASE s = r
        BY <1>2, <1>8, <2>1, <2>6, <3>3 DEF Repairing, RecoverStop, RecoverBoot, db, Is, Exists
      <3> QED
        BY <3>2, <3>3
    <2> QED
      BY <2>3, <2>7, <2>8, <2>9 DEF RepairInv
  <1> QED
    BY <1>1, <1>6, <1>7, <1>8

\* The doctor deletes a row that others have to do with only where it meddles,
\* and the rows it marks Running are of instances that are up.
LEMMA DoctorWhole ==
  ASSUME ByInv, LiveInv, RepairInv, Doctor
  PROVE  doc'.meddled \/ (LiveInv' /\ RepairInv')
  <1>1. /\ req' = req /\ helper' = helper /\ TypeOK /\ doc \in Doc
        /\ \A n \in Names : \A m : Is(n, m) \in BOOLEAN
    BY DEF Doctor, DoctorComes, DoctorRow, DoctorDelete, DoctorReadsPids, DoctorClears,
           DoctorLists, DoctorRemoves, DoctorLeaves, DoctorOnly, watch, ByInv, IInv,
           Doctoring, Is
  <1>2. /\ \A r \in Reqs : helper[r].stage # "none" => helper[r].name \in Names
        /\ \A e \in doc.pids : e.name \in Names
    BY DEF ByInv, Helpful, Doctoring, Doc
  <1>3. ASSUME \A n \in Names : StaysUp(n), SeenOut' PROVE RepairInv'
    BY <1>1, <1>2, <1>3, RepairsGoOn
  <1>4. ASSUME UNCHANGED <<db, boxes>>, SeenOut' PROVE LiveInv' /\ RepairInv'
    <2>1. \A n \in Names : Mild(n)
      BY <1>4 DEF db, boxes, Mild
    <2> QED
      BY <1>1, <1>3, <1>4, <2>1, LeftAlone, MildStays
  <1>5. ASSUME doc'.pc # "clear" PROVE SeenOut'
    BY <1>5 DEF SeenOut
  <1>6. CASE DoctorComes \/ DoctorRow \/ DoctorLists \/ DoctorLeaves
    <2>1. doc'.pc # "clear" /\ UNCHANGED <<db, boxes>>
      BY <1>1, <1>6 DEF DoctorComes, DoctorRow, DoctorLists, DoctorLeaves, NoDoctor,
                        DoctorOnly, Doc, boxes
    <2> QED
      BY <1>4, <1>5, <2>1
  <1>7. CASE DoctorReadsPids
    <2>1. /\ \A e \in doc'.pids : e.name \in Names /\ (e.out => Is(e.name, {"CheckedOut"}))
          /\ UNCHANGED <<db, boxes>>
      BY <1>1, <1>7 DEF DoctorReadsPids, DoctorOnly, Doc
    <2>2. SeenOut'
      BY <2>1 DEF SeenOut, Is, Exists, CanAssign, db
    <2> QED
      BY <1>4, <2>1, <2>2
  <1>8. CASE DoctorDelete
    <2>1. doc'.pc = "rows" /\ doc'.meddled = (doc.meddled \/ ~doc.alone)
      BY <1>1, <1>8 DEF DoctorDelete, Doc
    <2>2. CASE ~doc.alone
      BY <2>1, <2>2
    <2>3. CASE doc.alone
      <3>1. \A r \in Reqs : req[r].pc = "idle" /\ helper[r].stage = "none"
        BY <2>3 DEF ByInv, Doctoring, Free
      <3>2. /\ \A n \in Names : row'[n] = row[n] \/ row'[n] = None
            /\ UNCHANGED boxes
        BY <1>1, <1>8 DEF DoctorDelete, DeleteRow, TypeOK
      <3>3. ASSUME NEW n \in Names PROVE LiveRow(n)'
        BY <3>2 DEF LiveInv, LiveRow, Is, Exists, Reaches, boxes
      <3>4. ASSUME NEW n \in Names, NEW r \in Reqs PROVE Lively(r, n)' /\ OneMaker(r, n)'
        BY <1>1, <3>1 DEF Lively, OneMaker, Making, MakingPcs, Ahead, Sealed
      <3>5. RepairInv'
        <4>1. \A n \in Names : Is(n, CanAssign)' => up'[n] \/ Booting(n)'
          BY <1>1, <3>2 DEF RepairInv, Is, Exists, Booting, boxes
        <4>2. \A r \in Reqs : Repairing(r)'
          BY <1>1, <3>1 DEF Repairing
        <4> QED
          BY <1>5, <2>1, <4>1, <4>2 DEF RepairInv
      <3> QED
        BY <3>3, <3>4, <3>5 DEF LiveInv
    <2> QED
      BY <2>2, <2>3
  <1>9. CASE DoctorClears
    <2> DEFINE lost(n) == \E e \in doc.pids : e.name = n /\ e.out
    <2>1. doc.pc = "clear" /\ doc'.pc = "list" /\ UNCHANGED boxes
      BY <1>1, <1>9 DEF DoctorClears, Doc
    <2>2. ASSUME NEW n \in Names
          PROVE  row'[n] = row[n] \/ (Is(n, CanAssign) /\ row'[n] = [row[n] EXCEPT !.status = "Running"])
      <3>1. lost(n) => Is(n, CanAssign)
        BY <2>1 DEF RepairInv, SeenOut
      <3>2. Is(n, {"CheckedOut"}) => Is(n, CanAssign)
        BY DEF Is, CanAssign
      <3> QED
        BY <1>9, <3>1, <3>2 DEF DoctorClears
    <2>3. ASSUME NEW n \in Names PROVE Mild(n)
      <3>1. CASE row'[n] = row[n]
        BY <2>1, <3>1 DEF Mild, boxes
      <3>2. CASE Is(n, CanAssign) /\ row'[n] = [row[n] EXCEPT !.status = "Running"]
        <4>1. row[n] \in Row
          BY <1>1, <3>2, ExistingRow DEF Is
        <4>2. row'[n] \in Row /\ row'[n].status = "Running" /\ row'[n].cid = row[n].cid
          BY <3>2, <4>1, Statuses DEF Row
        <4> QED
          BY <2>1, <3>2, <4>2, ConstantsOK DEF Mild, Is, Exists, CanAssign, boxes
      <3> QED
        BY <2>2, <3>1, <3>2
    <2> QED
      BY <1>1, <1>3, <1>5, <2>1, <2>3, LeftAlone, MildStays
  <1>10. CASE DoctorRemoves
    <2>1. doc'.pc # "clear" /\ row' = row
      BY <1>1, <1>10 DEF DoctorRemoves, Doc, db
    <2>2. \A n \in Names : ~Exists(n) \/ (box'[n] = box[n] /\ up'[n] = up[n])
      BY <1>1, <1>10 DEF DoctorRemoves, RemoveBox, boxes, TypeOK, Doc
    <2>3. \A n \in Names : StaysUp(n)
      BY <2>1, <2>2 DEF StaysUp, Is, Exists
    <2>4. \A n \in Names : Mild(n) \/ (row'[n] = row[n] /\ ~Exists(n))
      BY <2>1, <2>2 DEF Mild
    <2> QED
      BY <1>1, <1>3, <1>5, <2>1, <2>3, <2>4, LeftAlone
  <1> QED
    BY <1>6, <1>7, <1>8, <1>9, <1>10 DEF Doctor

\* Once a doctor has meddled it has.
LEMMA MeddledStays ==
  ASSUME doc \in Doc, doc.meddled, [BNext]_bvars
  PROVE  doc'.meddled
  <1>1. CASE Handlers \/ Helpers \/ Tick \/ StartupScan \/ \E w \in Worktrees : DeleteWorktree(w)
    BY <1>1, DisturbMoves DEF Handlers, Helpers, Tick, StartupScan, DeleteWorktree
  <1>2. CASE Reboot
    BY <1>2 DEF Reboot, Doc
  <1>3. CASE Doctor
    BY <1>3 DEF Doctor, DoctorComes, DoctorRow, DoctorDelete, DoctorReadsPids,
                DoctorClears, DoctorLists, DoctorRemoves, DoctorLeaves, NoDoctor, Doc
  <1>4. CASE UNCHANGED bvars
    BY <1>4 DEF bvars
  <1> QED
    BY <1>1, <1>2, <1>3, <1>4 DEF BNext

LEMMA WholeHolds ==
  ASSUME NothingStops, RecoveriesWork
  PROVE  BSpec => [](ByInv /\ Whole)
  <1>1. BInit => Whole
    BY DEF BInit, Init, Whole, LiveInv, LiveRow, Lively, OneMaker, Making, MakingPcs, Ahead,
           Sealed, RepairInv, Repairing, SeenOut, NoHelper, NoDoctor, Is, Exists, Idle
  <1>2. ByInv /\ Whole /\ [BNext]_bvars => Whole'
    <2> SUFFICES ASSUME ByInv, Whole, [BNext]_bvars PROVE Whole'
      OBVIOUS
    <2>1. CASE doc.meddled
      BY <2>1, MeddledStays DEF Whole, ByInv, Doctoring
    <2>2. CASE LiveInv /\ RepairInv
      <3>1. CASE UNCHANGED bvars
        <4>1. \A n \in Names : Mild(n)
          BY <3>1 DEF bvars, vars, Mild
        <4>2. LiveInv' /\ \A n \in Names : StaysUp(n)
          BY <2>2, <3>1, <4>1, LeftAlone, MildStays DEF bvars, vars
        <4>3. SeenOut'
          BY <2>2, <3>1, <4>2, SeenStays DEF bvars, RepairInv
        <4>4. \A r \in Reqs : helper[r].stage # "none" => helper[r].name \in Names
          BY DEF ByInv, Helpful
        <4>5. helper' = helper
          BY <3>1 DEF bvars, watch
        <4> QED
          BY <2>2, <4>2, <4>3, <4>4, <4>5, RepairsGoOn DEF Whole
      <3> QED
        BY <2>2, <3>1, HandlersWhole, RebootWhole, TreesWhole, HelpersWhole, DoctorWhole
        DEF BNext, Whole
    <2> QED
      BY <2>1, <2>2 DEF Whole
  <1> QED
    BY <1>1, <1>2, ByInvHolds, PTL DEF BSpec

\* run, assign, unassign and checkout, the git watcher and coast doctor, with
\* crashes, hangups and whatever fails: unless a doctor has deleted a row that
\* others were working on, or coastd died while the watcher had a container
\* down, what is shown as up runs or is about to be started again.  (Docker
\* may fail where no watcher is about: a container the watcher has stopped and
\* cannot start stays down.)
THEOREM UpOrBeingRestarted ==
  ASSUME NothingStops, RecoveriesWork
  PROVE  BSpec => []LiveOrBeingRestarted
  <1>1. Whole => LiveOrBeingRestarted
    BY DEF Whole, LiveInv, LiveRow, RepairInv, Booting, LiveOrBeingRestarted, Healthy,
           Is, CanAssign
  <1> QED
    BY <1>1, WholeHolds, PTL

----------------------------------------------------------------------------
(* A doctor nobody gets in the way of.                                     *)

\* The row of n and its container fit; the doctor has read that row right.
RowFits(n) ==
  Exists(n) => IF row[n].cid # None THEN box[n] = row[n].cid ELSE Is(n, {"Stopped"})

ReadRight(e) ==
  Exists(e.name) /\ row[e.name].cid = e.cid /\ (e.stopped <=> Is(e.name, {"Stopped"}))

\* What is still to be looked at, and what has been found.
AloneInv ==
  doc.alone =>
    /\ \A e \in doc.rows : ReadRight(e) /\ (doc.pc = "del" => e.name # doc.n)
    /\ doc.pc \in {"rows", "del"} =>
         \A n \in Names : \/ RowFits(n)
                          \/ \E e \in doc.rows : e.name = n
                          \/ doc.pc = "del" /\ doc.n = n
    /\ doc.pc \in {"clear", "list", "boxes"} => doc.rows = {} /\ \A n \in Names : RowFits(n)
    /\ doc.pc = "clear" => \A e \in doc.pids : e.out => Is(e.name, {"CheckedOut"})
    /\ doc.pc = "boxes" => \A n \in Names : box[n] # None => Exists(n) \/ n \in doc.boxes

LEMMA AloneRow ==
  ASSUME ByInv, AloneInv, doc.alone, "docker" \notin Faults, DoctorRow
  PROVE  AloneInv'
  <1>1. UNCHANGED <<row, box>> /\ doc \in Doc /\ doc.pc = "rows"
    BY DEF DoctorRow, DoctorOnly, ByInv, Doctoring, db, boxes
  <1>2. PICK e \in doc.rows :
          LET keep == IF e.cid = None THEN e.stopped ELSE Reaches(e.name, e.cid)
          IN  \/ keep /\ doc' = [doc EXCEPT !.rows = @ \ {e}]
              \/ ~keep /\ doc' = [doc EXCEPT !.rows = @ \ {e}, !.pc = "del", !.n = e.name]
    BY <1>1 DEF DoctorRow, Doc
  <1>3. doc'.rows = doc.rows \ {e}
    BY <1>1, <1>2 DEF Doc
  <1>4. \A f \in doc.rows : ReadRight(f) /\ f.name \in Names
    BY <1>1 DEF AloneInv, Doc
  <1>5. ASSUME NEW f \in doc.rows, f.name = e.name PROVE f = e
    <2>1. f.cid = e.cid /\ (f.stopped <=> e.stopped)
      BY <1>4, <1>5 DEF ReadRight
    <2>2. /\ f \in [name : Names, cid : Cids \union {None}, stopped : BOOLEAN]
          /\ e \in [name : Names, cid : Cids \union {None}, stopped : BOOLEAN]
      BY <1>1 DEF Doc
    <2> QED
      BY <1>5, <2>1, <2>2
  <1>6. \A f \in doc'.rows : ReadRight(f)' /\ f.name # e.name
    BY <1>1, <1>3, <1>4, <1>5 DEF ReadRight, Is, Exists
  <1>7. \A n \in Names : RowFits(n)' <=> RowFits(n)
    BY <1>1 DEF RowFits, Is, Exists
  <1>8. \A n \in Names : RowFits(n) \/ \E f \in doc.rows : f.name = n
    BY <1>1 DEF AloneInv
  <1>9. \A n \in Names : RowFits(n) \/ n = e.name \/ \E f \in doc'.rows : f.name = n
    BY <1>3, <1>8
  <1>10. CASE /\ IF e.cid = None THEN e.stopped ELSE Reaches(e.name, e.cid)
              /\ doc' = [doc EXCEPT !.rows = @ \ {e}]
    <2>1. doc'.pc = "rows"
      BY <1>1, <1>10 DEF Doc
    <2>2. RowFits(e.name)
      BY <1>4, <1>10 DEF ReadRight, RowFits, Reaches
    <2>3. \A n \in Names : RowFits(n)' \/ \E f \in doc'.rows : f.name = n
      BY <1>7, <1>9, <2>2
    <2> QED
      BY <1>6, <2>1, <2>3 DEF AloneInv
  <1>11. CASE doc' = [doc EXCEPT !.rows = @ \ {e}, !.pc = "del", !.n = e.name]
    <2>1. doc'.pc = "del" /\ doc'.n = e.name
      BY <1>1, <1>11 DEF Doc
    <2> QED
      BY <1>6, <1>7, <1>9, <2>1 DEF AloneInv
  <1> QED
    BY <1>2, <1>10, <1>11

LEMMA AloneDoctor ==
  ASSUME ByInv, AloneInv, doc.alone, "docker" \notin Faults, Doctor, ~DoctorComes
  PROVE  AloneInv'
  <1>1. TypeOK /\ doc \in Doc
    BY DEF ByInv, IInv, Doctoring
  <1>2. ASSUME UNCHANGED <<row, box>>
        PROVE  \A n \in Names : RowFits(n)' <=> RowFits(n)
    BY <1>2 DEF RowFits, Is, Exists
  <1>3. CASE DoctorRow
    BY <1>3, AloneRow
  <1>4. CASE DoctorDelete
    <2>1. /\ doc.pc = "del" /\ doc.n \in Names /\ doc'.pc = "rows" /\ doc'.rows = doc.rows
      BY <1>1, <1>4 DEF DoctorDelete, Doc, ByInv, Doctoring
    <2>2. /\ box' = box /\ row'[doc.n] = None
          /\ \A n \in Names \ {doc.n} : row'[n] = row[n]
      BY <1>1, <1>4, <2>1 DEF DoctorDelete, DeleteRow, TypeOK, boxes
    <2>3. \A e \in doc.rows : ReadRight(e) /\ e.name \in Names \ {doc.n}
      BY <1>1, <2>1 DEF AloneInv, Doc
    <2>4. \A e \in doc.rows : ReadRight(e)'
      BY <2>2, <2>3 DEF ReadRight, Is, Exists
    <2>5. \A n \in Names : RowFits(n)' \/ \E e \in doc.rows : e.name = n
      BY <2>1, <2>2 DEF AloneInv, RowFits, Is, Exists
    <2> QED
      BY <2>1, <2>4, <2>5 DEF AloneInv
  <1>5. CASE DoctorReadsPids
    <2>1. /\ UNCHANGED <<row, box>> /\ doc.pc = "rows" /\ doc.rows = {}
          /\ doc'.pc = "clear" /\ doc'.rows = doc.rows
          /\ \A e \in doc'.pids : e.out => Is(e.name, {"CheckedOut"})
      BY <1>1, <1>5 DEF DoctorReadsPids, DoctorOnly, Doc, db, boxes
    <2>2. \A n \in Names : RowFits(n)
      BY <2>1 DEF AloneInv
    <2>3. \A e \in doc'.pids : e.out => Is(e.name, {"CheckedOut"})'
      BY <2>1 DEF Is, Exists
    <2> QED
      BY <1>2, <2>1, <2>2, <2>3 DEF AloneInv
  <1>6. CASE DoctorClears
    <2> DEFINE lost(n) == \E e \in doc.pids : e.name = n /\ e.out
    <2>1. doc.pc = "clear" /\ doc'.pc = "list" /\ doc'.rows = doc.rows /\ box' = box
      BY <1>1, <1>6 DEF DoctorClears, Doc, boxes
    <2>2. ASSUME NEW n \in Names
          PROVE  \/ row'[n] = row[n]
                 \/ Is(n, {"CheckedOut"}) /\ row'[n] = [row[n] EXCEPT !.status = "Running"]
      <3>1. lost(n) => Is(n, {"CheckedOut"})
        BY <2>1 DEF AloneInv
      <3> QED
        BY <1>6, <3>1 DEF DoctorClears
    <2>3. ASSUME NEW n \in Names PROVE RowFits(n)'
      <3>1. RowFits(n)
        BY <2>1 DEF AloneInv
      <3>2. CASE row'[n] = row[n]
        BY <2>1, <3>1, <3>2 DEF RowFits, Is, Exists
      <3>3. CASE Is(n, {"CheckedOut"}) /\ row'[n] = [row[n] EXCEPT !.status = "Running"]
        <4>1. row[n] \in Row /\ row[n].cid # None
          BY <1>1, <3>1, <3>3, ExistingRow DEF Is, RowFits
        <4>2. row'[n].cid = row[n].cid
          BY <3>3, <4>1 DEF Row
        <4> QED
          BY <2>1, <3>1, <3>3, <4>1, <4>2 DEF RowFits, Is
      <3> QED
        BY <2>2, <3>2, <3>3
    <2>4. doc.rows = {}
      BY <2>1 DEF AloneInv
    <2> QED
      BY <2>1, <2>3, <2>4 DEF AloneInv
  <1>7. CASE DoctorLists
    <2>1. /\ UNCHANGED <<row, box>> /\ doc.pc = "list" /\ doc'.pc = "boxes"
          /\ doc'.rows = doc.rows /\ doc'.boxes = {n \in Names : box[n] # None}
      BY <1>1, <1>7 DEF DoctorLists, DoctorOnly, Doc, db, boxes
    <2>2. doc.rows = {} /\ \A n \in Names : RowFits(n)
      BY <2>1 DEF AloneInv
    <2> QED
      BY <1>2, <2>1, <2>2 DEF AloneInv
  <1>8. CASE DoctorRemoves
    <2>1. /\ doc.pc = "boxes" /\ doc'.pc = "boxes" /\ doc'.rows = doc.rows /\ row' = row
          /\ doc.boxes \subseteq Names
      BY <1>1, <1>8 DEF DoctorRemoves, Doc, db
    <2>2. PICK n \in doc.boxes :
            /\ IF Exists(n) THEN UNCHANGED boxes ELSE RemoveBox(n)
            /\ doc' = [doc EXCEPT !.boxes = @ \ {n}]
      BY <1>8 DEF DoctorRemoves
    <2>3. doc'.boxes = doc.boxes \ {n}
      BY <1>1, <2>2 DEF Doc
    <2>4. /\ Exists(n) => box' = box
          /\ ~Exists(n) => box' = [box EXCEPT ![n] = None]
      BY <2>2 DEF RemoveBox, boxes
    <2>5. \A m \in Names : (m # n \/ Exists(n)) => box'[m] = box[m]
      BY <1>1, <2>1, <2>4 DEF TypeOK
    <2>6. ~Exists(n) => box'[n] = None
      BY <1>1, <2>1, <2>4 DEF TypeOK
    <2>7. doc.rows = {} /\ \A m \in Names : RowFits(m)
      BY <2>1 DEF AloneInv
    <2>8. \A m \in Names : RowFits(m)'
      BY <2>1, <2>5, <2>7 DEF RowFits, Is, Exists
    <2>9. \A m \in Names : box'[m] # None => Exists(m)' \/ m \in doc'.boxes
      BY <2>1, <2>3, <2>5, <2>6 DEF AloneInv, Exists
    <2> QED
      BY <2>1, <2>7, <2>8, <2>9 DEF AloneInv
  <1>9. CASE DoctorLeaves
    BY <1>9 DEF DoctorLeaves, NoDoctor, AloneInv
  <1> QED
    BY <1>3, <1>4, <1>5, <1>6, <1>7, <1>8, <1>9 DEF Doctor

\* The doctor reads all rows at once, and reads them right.
LEMMA AloneComes ==
  ASSUME ByInv, DoctorComes
  PROVE  AloneInv'
  <1>1. /\ row' = row /\ doc'.pc = "rows" /\ doc \in Doc
        /\ doc'.rows = {[name |-> n, cid |-> row[n].cid, stopped |-> Is(n, {"Stopped"})]
                            : n \in {m \in Names : Exists(m)}}
    BY DEF DoctorComes, ByInv, Doctoring, Doc, db
  <1>2. ASSUME NEW e \in doc'.rows PROVE ReadRight(e)'
    <2>1. PICK n \in {m \in Names : Exists(m)} :
            e = [name |-> n, cid |-> row[n].cid, stopped |-> Is(n, {"Stopped"})]
      BY <1>1
    <2>2. Exists(n) /\ e.name = n /\ e.cid = row[n].cid /\ e.stopped = Is(n, {"Stopped"})
      BY <2>1
    <2> QED
      BY <1>1, <2>2 DEF ReadRight, Is, Exists
  <1>3. ASSUME NEW n \in Names, Exists(n)' PROVE \E e \in doc'.rows : e.name = n
    <2>1. n \in {m \in Names : Exists(m)}
      BY <1>1, <1>3 DEF Exists
    <2> DEFINE e == [name |-> n, cid |-> row[n].cid, stopped |-> Is(n, {"Stopped"})]
    <2>2. e \in doc'.rows
      BY <1>1, <2>1
    <2>3. e.name = n
      OBVIOUS
    <2> QED
      BY <2>2, <2>3
  <1>4. \A n \in Names : RowFits(n)' \/ \E e \in doc'.rows : e.name = n
    BY <1>3 DEF RowFits
  <1> QED
    BY <1>1, <1>2, <1>4 DEF AloneInv

LEMMA AloneHolds ==
  ASSUME "docker" \notin Faults
  PROVE  BSpec => [](ByInv /\ AloneInv)
  <1>1. BInit => AloneInv
    BY DEF BInit, NoDoctor, AloneInv
  <1>2. ASSUME ByInv, AloneInv, [BNext]_bvars PROVE AloneInv'
    <2>1. CASE ~doc'.alone
      BY <2>1 DEF AloneInv
    <2>2. CASE Doctor
      <3>1. CASE DoctorComes
        BY <1>2, <3>1, AloneComes
      <3>2. CASE ~DoctorComes /\ doc.alone
        BY <1>2, <2>2, <3>2, AloneDoctor
      <3>3. CASE ~DoctorComes /\ ~doc.alone
        <4>1. doc \in Doc
          BY <1>2 DEF ByInv, Doctoring
        <4>2. ~doc'.alone
          BY <2>2, <3>3, <4>1 DEF Doctor, DoctorRow, DoctorDelete, DoctorReadsPids,
                DoctorClears, DoctorLists, DoctorRemoves, DoctorLeaves, NoDoctor, Doc
        <4> QED
          BY <2>1, <4>2
      <3> QED
        BY <3>1, <3>2, <3>3
    <2>3. CASE UNCHANGED bvars
      BY <1>2, <2>3 DEF bvars, vars, AloneInv, ReadRight, RowFits, Is, Exists
    <2>4. CASE Handlers \/ Helpers \/ Tick \/ StartupScan \/ \E w \in Worktrees : DeleteWorktree(w)
      BY <1>2, <2>1, <2>4, DisturbMoves DEF ByInv, Doctoring, Handlers, Helpers, Tick,
                                           StartupScan, DeleteWorktree
    <2>5. CASE Reboot
      BY <1>2, <2>1, <2>5 DEF Reboot, ByInv, Doctoring, Doc
    <2> QED
      BY <1>2, <2>2, <2>3, <2>4, <2>5 DEF BNext
  <1> QED
    BY <1>1, <1>2, ByInvHolds, PTL DEF BSpec

\* The rows and the containers a doctor nobody gets in the way of leaves.
LEMMA HealedRows ==
  ASSUME ByInv, AloneInv, doc.alone, DoctorLeaves
  PROVE  \A n \in Names : Coherent(n)
  <1>1. doc.pc = "boxes" /\ doc.boxes = {}
    BY DEF DoctorLeaves
  <1>2. \A n \in Names : RowFits(n) /\ (box[n] # None => Exists(n))
    BY <1>1 DEF AloneInv
  <1> QED
    BY <1>2 DEF RowFits, Coherent, HasCid

\* The same of every instance, with whatever Docker and coastd may do.
THEOREM DoctorsHealRows ==
  ASSUME "docker" \notin Faults
  PROVE  BSpec => [][DoctorLeaves /\ doc.alone => \A n \in Names : Coherent(n)]_bvars
  <1>1. ByInv /\ AloneInv /\ [BNext]_bvars
          => [DoctorLeaves /\ doc.alone => \A n \in Names : Coherent(n)]_bvars
    BY HealedRows
  <1> QED
    BY <1>1, AloneHolds, PTL DEF BSpec

----------------------------------------------------------------------------
(* No forwarder is lost: as long as no doctor has meddled, one that lives  *)
(* serves an instance shown as up and is recorded there.                   *)

Known(n) == Unbound(n) \/ (Is(n, CanAssign) /\ \A p \in Ports : fwd[p] = n => p \in pid[n])

AllKnown == \A n \in Names : Known(n)

\* Where an instance that can be assigned to stays one, no pid is forgotten
\* and no forwarder starts.
LEMMA KnownStays ==
  ASSUME NEW n \in Names, Known(n), Is(n, CanAssign) => Is(n, CanAssign)',
         \A p \in Ports : fwd'[p] = n => fwd[p] = n /\ (p \in pid[n] => p \in pid'[n])
  PROVE  Known(n)'
  BY DEF Known, Unbound

\* checkout forgets pids only of forwarders it kills, or never starts.
LEMMA CheckoutKnows ==
  ASSUME ByInv, AllKnown, NEW r \in Reqs, CheckoutStep(r),
         \A n \in Names : Is(n, CanAssign) => Is(n, CanAssign)'
  PROVE  AllKnown'
  <1>1. PICK n \in Names : Works(r, n)
    BY StepWorks DEF ByInv, Step
  <1>2. TypeOK /\ Linked /\ req[r].name = n /\ IInv
    BY <1>1, WorksFacts DEF ByInv
  <1>3. CASE CheckoutClear(r)
    <2>1. ASSUME NEW m \in Names PROVE Known(m)'
      <3>1. Known(m)
        BY DEF AllKnown
      <3>2. CASE m \in CheckedOut
        <4> SUFFICES ASSUME NEW p \in Ports, fwd'[p] = m PROVE FALSE
          BY DEF Known, Unbound
        <4>1. fwd[p] = m
          BY <1>3, ConstantsOK DEF CheckoutClear, KillRecorded
        <4>2. p \in pid[m]
          BY <3>1, <4>1 DEF Known, Unbound
        <4>3. fwd'[p] = None
          BY <1>3, <3>2, <4>1, <4>2 DEF CheckoutClear, KillRecorded
        <4> QED
          BY <4>3, ConstantsOK
      <3>3. CASE m \notin CheckedOut
        <4>1. pid'[m] = pid[m] /\ \A p \in Ports : fwd'[p] = m => fwd[p] = m
          BY <1>3, <3>3, ConstantsOK DEF CheckoutClear, KillRecorded
        <4> QED
          BY <3>1, <4>1, KnownStays
      <3> QED
        BY <3>2, <3>3
    <2> QED
      BY <2>1 DEF AllKnown
  <1>4. CASE CheckoutBind(r)
    <2>1. Exists(n)
      BY <1>2, <1>4 DEF CheckoutBind, IInv, TargetHeld
    <2>2. RowSet(n, "CheckedOut")
      BY <1>2, <1>4, <2>1, SetMoves, Statuses DEF CheckoutBind
    <2>3. Is(n, CanAssign)'
      BY <2>2 DEF RowSet, Is, Exists, CanAssign
    <2>4. /\ pid'[n] = alloc[n] /\ \A m \in Names \ {n} : pid'[m] = pid[m]
          /\ \A p \in Ports : fwd'[p] = IF p \in alloc[n] THEN n ELSE fwd[p]
      BY <1>2, <1>4 DEF CheckoutBind, TypeOK
    <2>5. ASSUME NEW m \in Names \ {n} PROVE Known(m)'
      BY <2>4, KnownStays DEF AllKnown
    <2>6. \A p \in Ports : fwd'[p] = n => p \in pid'[n]
      <3>1. Known(n)
        BY DEF AllKnown
      <3> QED
        BY <1>2, <2>4, <3>1 DEF Known, Unbound, Linked
    <2> QED
      BY <2>3, <2>5, <2>6 DEF AllKnown, Known
  <1>5. CASE CheckoutFails(r)
    <2>1. fwd' = fwd /\ \A m \in Names \ {n} : pid'[m] = pid[m]
      BY <1>2, <1>5 DEF CheckoutFails, TypeOK
    <2>2. ASSUME NEW m \in Names \ {n} PROVE Known(m)'
      BY <2>1, KnownStays DEF AllKnown
    <2>3. Known(n)
      BY DEF AllKnown
    <2>4. CASE pid' = pid
      BY <2>1, <2>2, <2>3, <2>4, KnownStays DEF AllKnown
    <2>5. CASE \A p \in alloc[n] : fwd[p] = None
      <3>1. Unbound(n)
        BY <1>2, <2>3, <2>5, ConstantsOK DEF Known, Unbound, Linked
      <3> QED
        BY <2>1, <2>2, <3>1 DEF AllKnown, Known, Unbound
    <2> QED
      BY <1>5, <1>2, <2>4, <2>5 DEF CheckoutFails
  <1> QED
    BY <1>3, <1>4, <1>5 DEF CheckoutStep

\* run starts no forwarder and works on no instance that has one; assign and
\* unassign leave forwarders and pids alone.
LEMMA WorkKnows ==
  ASSUME ByInv, LiveInv, AllKnown, NEW r \in Reqs, RunStep(r) \/ AssignStep(r),
         \A n \in Names : Is(n, CanAssign) => Is(n, CanAssign)'
  PROVE  AllKnown'
  <1>1. PICK n \in Names : Works(r, n)
    BY StepWorks DEF ByInv, Step
  <1>2. KeepsForward(r, n)
    BY <1>1, RunForwards, AssignForwards DEF ByInv
  <1>3. ~Binding(r, n)
    BY DEF Binding, RunStep, RunJoinQueue, RunCheck, RunDangling, RunInsert, RunCreate,
           RunRecord, RunProvisionFails, RunFinalize, RunCleanBox, RunCleanDb, AssignStep,
           AssignBegin, UnassignBegin, AssignBox, AssignFails, AssignDb, Admitted
  <1>4. ASSUME NEW m \in Names, Quiet(m) PROVE Known(m)'
    BY <1>4, KnownStays DEF Quiet, AllKnown
  <1>5. Known(n)
    BY DEF AllKnown
  <1>6. CASE Begins(r, n) \/ Returns(r, n)
    <2>1. fwd' = fwd /\ pid' = pid
      BY <1>6 DEF Begins, Returns
    <2> QED
      BY <2>1, KnownStays DEF AllKnown
  <1>7. CASE Makes(r, n)
    <2>1. ~Is(n, CanAssign)
      <3>1. Lively(r, n)
        BY DEF LiveInv
      <3> QED
        BY <1>7, <3>1 DEF Makes, Lively, Making, Is, Exists, CanAssign
    <2>2. Known(n)'
      BY <1>5, <1>7, <2>1 DEF Known, Unbound, Makes
    <2> QED
      BY <1>2, <1>4, <2>2 DEF KeepsForward, AllKnown
  <1> QED
    BY <1>2, <1>3, <1>4, <1>6, <1>7 DEF KeepsForward, Binds, AllKnown

LEMMA HandlersKnow ==
  ASSUME ByInv, LiveInv, NothingStops, AllKnown, Next
  PROVE  AllKnown'
  <1>1. \A n \in Names : Is(n, CanAssign) => Is(n, CanAssign)'
    BY NextStays DEF ByInv, StaysUp
  <1>2. ASSUME NEW r \in Reqs, Step(r) PROVE AllKnown'
    <2>1. RunStep(r) \/ AssignStep(r) \/ CheckoutStep(r)
      BY <1>2, NothingElse DEF ByInv, Roles
    <2> QED
      BY <1>1, <2>1, WorkKnows, CheckoutKnows
  <1>3. ASSUME UNCHANGED <<pid, fwd>> PROVE AllKnown'
    BY <1>1, <1>3, KnownStays DEF AllKnown
  <1>4. CASE Restart
    <2>1. ASSUME NEW n \in Names PROVE Known(n)'
      <3>1. TypeOK
        BY DEF ByInv, IInv
      <3>2. \A p \in Ports : fwd'[p] = n => Is(n, CanAssign) /\ p \in pid'[n]
        BY <1>4, <3>1, RestartMoves, ConstantsOK DEF Is, CanAssign
      <3> QED
        BY <1>1, <3>2 DEF Known, Unbound
    <2> QED
      BY <2>1 DEF AllKnown
  <1> QED
    BY <1>2, <1>3, <1>4 DEF Next, Submit, SubmitRun, Hangup, db

\* The doctor kills what it deletes, and clears only the pids it has killed.
LEMMA DoctorKnows ==
  ASSUME ByInv, AllKnown, Doctor
  PROVE  AllKnown'
  <1>1. TypeOK /\ doc \in Doc
    BY DEF ByInv, IInv, Doctoring
  <1>2. ASSUME UNCHANGED <<row, pid, fwd>> PROVE AllKnown'
    BY <1>2 DEF AllKnown, Known, Unbound, Is, Exists
  <1>3. CASE DoctorDelete
    <2>1. doc.n \in Names
      BY <1>3 DEF ByInv, Doctoring, DoctorDelete
    <2>2. ASSUME NEW n \in Names PROVE Known(n)'
      <3>1. Known(n)
        BY DEF AllKnown
      <3>2. \A p \in Ports : fwd'[p] = n => fwd[p] = n /\ ~(n = doc.n /\ p \in pid[n])
        BY <1>3, ConstantsOK DEF DoctorDelete, KillRecorded
      <3>3. CASE n = doc.n
        BY <3>1, <3>2, <3>3 DEF Known, Unbound
      <3>4. CASE n # doc.n
        <4>1. row'[n] = row[n] /\ pid'[n] = pid[n]
          BY <1>1, <1>3, <2>1, <3>4 DEF DoctorDelete, DeleteRow, TypeOK
        <4> QED
          BY <3>1, <3>2, <4>1 DEF Known, Unbound, Is, Exists
      <3> QED
        BY <3>3, <3>4
    <2> QED
      BY <2>2 DEF AllKnown
  <1>4. CASE DoctorClears
    <2> DEFINE gone(n) == {p \in Ports : \E e \in doc.pids : e.name = n /\ e.port = p}
    <2>1. ASSUME NEW n \in Names PROVE Known(n)'
      <3>1. Known(n)
        BY DEF AllKnown
      <3>2. /\ pid'[n] = pid[n] \ gone(n)
            /\ \A p \in Ports :
                 fwd'[p] = IF fwd[p] # None /\ p \in gone(fwd[p]) THEN None ELSE fwd[p]
        BY <1>4 DEF DoctorClears
      <3>3. \A p \in Ports : fwd'[p] = n => fwd[p] = n /\ p \notin gone(n)
        BY <3>2, ConstantsOK
      <3>4. Is(n, CanAssign) => Is(n, CanAssign)'
        <4>1. CASE row'[n] = row[n]
          BY <4>1 DEF Is, Exists
        <4>2. CASE Exists(n) /\ row'[n] = [row[n] EXCEPT !.status = "Running"]
          <5>1. row[n] \in Row
            BY <1>1, <4>2, ExistingRow
          <5>2. row'[n] \in Row /\ row'[n].status = "Running"
            BY <4>2, <5>1, Statuses DEF Row
          <5> QED
            BY <5>2, ConstantsOK DEF Is, Exists, CanAssign
        <4> QED
          BY <1>4, <4>1, <4>2 DEF DoctorClears
      <3> HIDE DEF gone
      <3> QED
        BY <3>1, <3>2, <3>3, <3>4, KnownStays
    <2> QED
      BY <2>1 DEF AllKnown
  <1> QED
    BY <1>2, <1>3, <1>4 DEF Doctor, DoctorComes, DoctorRow, DoctorReadsPids, DoctorLists,
         DoctorRemoves, DoctorLeaves, DoctorOnly, db

LEMMA KnownHolds ==
  ASSUME NothingStops, RecoveriesWork
  PROVE  BSpec => [](ByInv /\ Whole /\ (doc.meddled \/ AllKnown))
  <1>1. BInit => AllKnown
    BY ConstantsOK DEF BInit, Init, AllKnown, Known, Unbound
  <1>2. ByInv /\ Whole /\ (doc.meddled \/ AllKnown) /\ [BNext]_bvars
          => (doc.meddled \/ AllKnown)'
    <2> SUFFICES ASSUME ByInv, Whole, doc.meddled \/ AllKnown, [BNext]_bvars
                 PROVE  doc'.meddled \/ AllKnown'
      OBVIOUS
    <2>1. CASE doc.meddled
      BY <2>1, MeddledStays DEF ByInv, Doctoring
    <2>2. CASE ~doc.meddled
      <3>1. AllKnown /\ LiveInv
        BY <2>2 DEF Whole
      <3>2. CASE Next
        BY <3>1, <3>2, HandlersKnow
      <3>3. CASE Doctor
        BY <3>1, <3>3, DoctorKnows
      <3>4. CASE UNCHANGED <<row, pid, fwd>>
        BY <3>1, <3>4 DEF AllKnown, Known, Unbound, Is, Exists
      <3>5. Handlers => Next
        BY HandlersMove DEF ByInv
      <3> QED
        BY <3>2, <3>3, <3>4, <3>5 DEF BNext, Reboot, Next, Tick, StartupScan, DeleteWorktree,
             Helpers, Attempt, Recover, RecoverStop, RecoverBoot, db, vars, bvars
    <2> QED
      BY <2>1, <2>2
  <1> QED
    BY <1>1, <1>2, WholeHolds, PTL DEF BSpec

\* coast doctor, which no test runs against a live daemon: where Docker answers
\* and instances are not stopped, whatever crashes, hangups and failures have
\* left, a doctor nobody gets in the way of leaves rows with their container,
\* containers with their row and, if no doctor has meddled, no forwarder
\* without its instance.
THEOREM DoctorsHeal ==
  ASSUME NothingStops, "docker" \notin Faults
  PROVE  BSpec => DoctorHeals
  <1>1. RecoveriesWork
    BY DEF RecoveriesWork
  <1>2. ASSUME ByInv, AloneInv, doc.meddled \/ AllKnown, DoctorLeaves, doc.alone
        PROVE  /\ \A n \in Names : Coherent(n)
               /\ ~doc.meddled => \A p \in Ports : fwd[p] # None => Exists(fwd[p])
    <2>1. fwd \in [Ports -> Names \union {None}]
      BY <1>2 DEF ByInv, IInv, TypeOK
    <2>2. ASSUME ~doc.meddled, NEW p \in Ports, fwd[p] # None PROVE Exists(fwd[p])
      BY <1>2, <2>1, <2>2 DEF AllKnown, Known, Unbound, Is
    <2> QED
      BY <1>2, <2>2, HealedRows
  <1>3. ByInv /\ AloneInv /\ (doc.meddled \/ AllKnown) /\ [BNext]_bvars
          => [DoctorLeaves /\ doc.alone =>
                /\ \A n \in Names : Coherent(n)
                /\ ~doc.meddled => \A p \in Ports : fwd[p] # None => Exists(fwd[p])]_bvars
    BY <1>2
  <1> QED
    BY <1>1, <1>3, AloneHolds, KnownHolds, PTL DEF BSpec, DoctorHeals

----------------------------------------------------------------------------
(* The worktrees, and what the watcher has seen of them.                   *)

TreeInv ==
  /\ wt \in [Names -> Worktrees \union {None}]
  /\ disk \subseteq Worktrees
  /\ listing = None \/ listing \subseteq Worktrees
  /\ booted \in BOOLEAN
  /\ \A n \in Names : wt[n] # None => Exists(n)

LEMMA TreeNext ==
  ASSUME ByInv, TreeInv, [BNext]_bvars
  PROVE  TreeInv'
  <1>1. TypeOK /\ doc \in Doc
    BY DEF ByInv, IInv, Doctoring
  <1>2. ASSUME UNCHANGED <<wt, disk, listing, booted>>, \A n \in Names : Exists(n) => Exists(n)'
        PROVE  TreeInv'
    BY <1>2 DEF TreeInv
  <1>3. CASE Handlers
    <2>1. PICK w \in Worktrees :
            /\ wt' = [n \in Names |-> IF row'[n] = None \/ Unassigned(n) THEN None
                                      ELSE IF Assigned(n) THEN w ELSE wt[n]]
            /\ disk' = IF \E n \in Names : Assigned(n) THEN disk \union {w} ELSE disk
      BY <1>3 DEF Handlers, WorktreesFollow
    <2>2. ASSUME NEW n \in Names
          PROVE  /\ wt'[n] \in Worktrees \union {None}
                 /\ wt'[n] # None => row'[n] # None
      <3>1. wt'[n] \in {None, w, wt[n]} /\ (row'[n] = None => wt'[n] = None)
        BY <2>1
      <3> QED
        BY <3>1 DEF TreeInv
    <2>3. wt' \in [Names -> Worktrees \union {None}]
      BY <2>1, <2>2
    <2> QED
      BY <1>3, <2>1, <2>2, <2>3 DEF TreeInv, Handlers, Exists
  <1>4. CASE Reboot
    <2>1. \A n \in Names : Exists(n) => Exists(n)'
      BY <1>1, <1>4, RestartMoves DEF Reboot, Exists
    <2> QED
      BY <1>4, <2>1 DEF Reboot, TreeInv, trees
  <1>5. CASE (\E w \in Worktrees : DeleteWorktree(w)) \/ Tick \/ StartupScan
    BY <1>5 DEF TreeInv, DeleteWorktree, Tick, StartupScan, vars, trees, watch, Exists
  <1>6. CASE Helpers
    <2>1. row' = row
      BY <1>6 DEF Helpers, Attempt, Recover, RecoverStop, RecoverBoot, vars, db
    <2> QED
      BY <1>2, <1>6, <2>1 DEF Helpers, trees, Exists
  <1>7. CASE DoctorDelete
    <2>1. doc.n \in Names
      BY <1>7 DEF ByInv, Doctoring, DoctorDelete
    <2>2. /\ wt' = [wt EXCEPT ![doc.n] = None] /\ UNCHANGED <<disk, listing, booted>>
          /\ row' = [row EXCEPT ![doc.n] = None]
      BY <1>7 DEF DoctorDelete, DeleteRow, watch
    <2> QED
      BY <1>1, <2>1, <2>2 DEF TreeInv, Exists, TypeOK
  <1>8. CASE DoctorClears
    <2>1. ASSUME NEW n \in Names, Exists(n) PROVE row'[n] # None
      <3>1. row[n] \in Row /\ [row[n] EXCEPT !.status = "Running"] \in Row
        BY <1>1, <2>1, ExistingRow, Statuses DEF Row
      <3>2. row'[n] \in {row[n], [row[n] EXCEPT !.status = "Running"]}
        BY <1>8 DEF DoctorClears
      <3> QED
        BY <3>1, <3>2, ConstantsOK
    <2> QED
      BY <1>2, <1>8, <2>1 DEF DoctorClears, trees, watch, Exists
  <1>9. CASE \/ DoctorComes \/ DoctorRow \/ DoctorReadsPids \/ DoctorLists \/ DoctorRemoves
             \/ DoctorLeaves
    BY <1>2, <1>9 DEF DoctorComes, DoctorRow, DoctorReadsPids, DoctorLists, DoctorRemoves,
                      DoctorLeaves, DoctorOnly, db, trees, watch, Exists
  <1>10. CASE UNCHANGED bvars
    BY <1>2, <1>10 DEF bvars, vars, trees, watch, Exists
  <1> QED
    BY <1>3, <1>4, <1>5, <1>6, <1>7, <1>8, <1>9, <1>10 DEF BNext, Doctor

\* What is known of bystanders and worktrees; no worktree outlives the row it
\* is assigned to, also when the doctor deletes it.
THEOREM BystandersTypeCorrect == BSpec => []BTypeOK
  <1>1. BInit => TreeInv
    BY DEF BInit, TreeInv
  <1>2. ByInv /\ TreeInv => BTypeOK
    BY DEF ByInv, Doctoring, Helpful, Helper, Doc, TreeInv, BTypeOK
  <1> QED
    BY <1>1, <1>2, TreeNext, ByInvHolds, PTL DEF BSpec

\* The bystanders ask for neither the permit nor the mutex, and what the
\* handlers rely on of both still holds: of those that take the permit one is
\* at work, and the row of a checkout that binds is there.
THEOREM HandlersUndisturbed == BSpec => [](IInv /\ Serialized)
  <1>1. ByInv => IInv /\ Serialized
    BY DEF ByInv
  <1> QED
    BY <1>1, ByInvHolds, PTL
=============================================================================
