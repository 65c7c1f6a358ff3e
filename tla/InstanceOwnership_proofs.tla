---------------------- MODULE InstanceOwnership_proofs ----------------------
(***************************************************************************)
(* Who owns the canonical ports, for every set of instances, requests,     *)
(* ports and containers, where every operation but checkout goes through   *)
(* an entry point that takes the permit.                                   *)
(***************************************************************************)
EXTENDS InstanceContainers_proofs

\* rm over the socket and stop and start over HTTP are not in use, and coastd
\* does not crash.  Everything else may fail.
GatedOnly ==
  /\ Entry \subseteq Gated \union {"checkout", "release"}
  /\ "crash" \notin Faults

\* What an instance called n may look like on its own.
Sound(n) ==
  /\ Is(n, {"CheckedOut"}) => Owns(n) /\ alloc[n] # {}
  /\ alloc[n] \in {{}, Canonical[n]}

\* n is between two worktrees and goes back to the status seen.
Away(n, seen) ==
  /\ Is(n, {"Assigning", "Unassigning"})
  /\ seen = "CheckedOut" => Owns(n) /\ alloc[n] # {}

Untouched == UNCHANGED <<row, alloc, pid, fwd>>

\* A step that works on n and on no other instance.
Local(n) ==
  /\ \A m \in Names \ {n} : row'[m] = row[m] /\ alloc'[m] = alloc[m] /\ pid'[m] = pid[m]
  /\ \A p \in Ports : fwd'[p] = fwd[p] \/ fwd[p] \in {n, None}

\* What a step of r, which has a gated operation on n, may do.
GatedEffect(r, n) ==
  /\ \A s \in Reqs \ {r} : req'[s] = req[s]
  /\ \/ req'[r].pc = "idle" /\ req'[r].op = None
     \/ /\ req'[r].op = req[r].op /\ req'[r].name = n
        /\ req'[r].pc \notin {"idle", "bind"}
  /\ Untouched \/ (DbFree /\ permit = r /\ Local(n))
  /\ Sound(n)'
  /\ req'[r].pc \in {"assignBox", "assignDb"} => Away(n, req[r].seen)'

\* OwnInv says that of every instance and of every request.
Own(r) ==
  /\ req[r].pc # "idle" => req[r].op \in Entry
  /\ req[r].op \in {"checkout", "release"} => req[r].pc \in {"waiting", "bind"}
  /\ req[r].pc = "bind" => Is(req[r].name, {"Running"}) /\ alloc[req[r].name] # {}
  /\ req[r].pc \in {"assignBox", "assignDb"} => Away(req[r].name, req[r].seen)

LEMMA OwnParts ==
  /\ OwnInv  <=> (\A n \in Names : Sound(n))  /\ (\A r \in Reqs : Own(r))
  /\ OwnInv' <=> (\A n \in Names : Sound(n)') /\ (\A r \in Reqs : Own(r)')
  BY DEF OwnInv, Sound, Own, Away, CheckedOutOwnsPorts

LEMMA UntouchedKeeps ==
  ASSUME NEW n, Untouched
  PROVE  /\ Sound(n) => Sound(n)'
         /\ \A seen : Away(n, seen) => Away(n, seen)'
         /\ Is(n, {"Running"}) /\ alloc[n] # {} => (Is(n, {"Running"}) /\ alloc[n] # {})'
  BY DEF Untouched, Sound, Away, Is, Exists, Owns

\* A step on n does not disturb the ports of another instance.
LEMMA LocalKeeps ==
  ASSUME TypeOK, NEW n \in Names, NEW m \in Names \ {n}, Local(n)
  PROVE  /\ Sound(m) => Sound(m)'
         /\ \A seen : Away(m, seen) => Away(m, seen)'
  <1>1. Owns(m) => Owns(m)'
    BY ConstantsOK DEF Owns, Local, TypeOK
  <1> QED
    BY <1>1 DEF Local, Sound, Away, Is, Exists

\* The permit keeps the other handlers away, the mutex the checkouts.
LEMMA GatedEffectKeeps ==
  ASSUME IInv, Serialized, OwnInv, GatedOnly,
         NEW r \in Reqs, NEW n \in Names, req[r].pc # "idle", req[r].op \in Gated,
         GatedEffect(r, n)
  PROVE  OwnInv'
  <1> TypeOK /\ TargetHeld
    BY DEF IInv
  <1> (\A m \in Names : Sound(m)) /\ (\A s \in Reqs : Own(s))
    BY OwnParts
  <1>1. ASSUME NEW m \in Names PROVE Sound(m)'
    <2>1. CASE m = n
      BY <2>1 DEF GatedEffect
    <2>2. CASE m # n
      BY <2>2, UntouchedKeeps, LocalKeeps DEF GatedEffect
    <2> QED
      BY <2>1, <2>2
  <1>2. Own(r)'
    <2>1. CASE req'[r].pc = "idle" /\ req'[r].op = None
      BY <2>1, ConstantsOK DEF Own, Ops, Ungated
    <2>2. CASE /\ req'[r].op = req[r].op /\ req'[r].name = n
               /\ req'[r].pc \notin {"idle", "bind"}
      <3>1. req[r].op \in Entry /\ req[r].op \notin {"checkout", "release"}
        BY DEF Own, Gated
      <3> QED
        BY <2>2, <3>1 DEF Own, GatedEffect, Away, Is, Exists, Owns
    <2> QED
      BY <2>1, <2>2 DEF GatedEffect
  <1>3. ASSUME NEW s \in Reqs \ {r} PROVE Own(s)'
    <2>1. req'[s] = req[s] /\ Own(s)
      BY DEF GatedEffect
    <2>2. CASE Untouched
      BY <2>1, <2>2, UntouchedKeeps DEF Own
    <2>3. CASE DbFree /\ permit = r
      <3>1. req[s].pc # "bind"
        BY <2>3, ConstantsOK DEF TargetHeld, DbFree
      <3>2. req[s].pc \notin {"assignBox", "assignDb"}
        BY <2>1, <2>3 DEF Own, GatedOnly, Serialized, Begun
      <3> QED
        BY <2>1, <3>1, <3>2 DEF Own
    <2> QED
      BY <2>2, <2>3 DEF GatedEffect
  <1> QED
    BY <1>1, <1>2, <1>3, OwnParts

----------------------------------------------------------------------------
(* Every step of a gated operation has such an effect.                     *)

\* The situation of every lemma below: r serves a gated operation on n.
Serves(r, n) ==
  /\ IInv /\ Serialized /\ OwnInv
  /\ r \in Reqs /\ n \in Names
  /\ req[r].pc # "idle" /\ req[r].op \in Gated /\ req[r].name = n

LEMMA ServesFacts ==
  ASSUME NEW r, NEW n, Serves(r, n)
  PROVE  /\ TypeOK /\ r \in Reqs /\ n \in Names /\ req[r].name = n
         /\ req[r].op \in Gated /\ req[r].op # None
         /\ Sound(n) /\ Own(r)
         /\ Begun(r) => permit = r
         /\ \A ops : Admitted(r, ops) => permit = r
  BY OwnParts, ConstantsOK DEF Serves, IInv, Serialized, Admitted, Ops

\* The three ways a step leaves the request.
LEMMA Moves ==
  ASSUME NEW r, NEW n, Serves(r, n)
  PROVE  /\ \A pc : Goto(r, pc) =>
               /\ \A s \in Reqs \ {r} : req'[s] = req[s]
               /\ req'[r].op = req[r].op /\ req'[r].name = n
               /\ req'[r].pc = pc /\ req'[r].seen = req[r].seen
         /\ \A pc : Remember(r, pc) =>
               /\ \A s \in Reqs \ {r} : req'[s] = req[s]
               /\ req'[r].op = req[r].op /\ req'[r].name = n
               /\ req'[r].pc = pc /\ req'[r].seen = row[n].status
         /\ Finish(r) =>
               /\ \A s \in Reqs \ {r} : req'[s] = req[s]
               /\ req'[r].pc = "idle" /\ req'[r].op = None
  <1>1. req[r] \in Request /\ r \in Reqs /\ req[r].name = n /\ TypeOK
    BY ServesFacts, Serving DEF Serves
  <1>2. ASSUME NEW pc, Goto(r, pc)
        PROVE  /\ \A s \in Reqs \ {r} : req'[s] = req[s]
               /\ req'[r].op = req[r].op /\ req'[r].name = n
               /\ req'[r].pc = pc /\ req'[r].seen = req[r].seen
    BY <1>1, <1>2 DEF Goto, TypeOK, Request
  <1>3. ASSUME NEW pc, Remember(r, pc)
        PROVE  /\ \A s \in Reqs \ {r} : req'[s] = req[s]
               /\ req'[r].op = req[r].op /\ req'[r].name = n
               /\ req'[r].pc = pc /\ req'[r].seen = row[n].status
    BY <1>1, <1>3 DEF Remember, TypeOK, Request
  <1>4. ASSUME Finish(r)
        PROVE  /\ \A s \in Reqs \ {r} : req'[s] = req[s]
               /\ req'[r].pc = "idle" /\ req'[r].op = None
    BY <1>1, <1>4 DEF Finish, TypeOK, Idle
  <1> QED
    BY <1>2, <1>3, <1>4

\* A step that changes no row, allocation, pid or forwarder.
LEMMA StillEffect ==
  ASSUME NEW r, NEW n, Serves(r, n), Untouched,
         \/ Finish(r)
         \/ \E pc : /\ Goto(r, pc) \/ Remember(r, pc)
                    /\ pc \notin {"idle", "bind", "assignBox", "assignDb"}
         \/ Goto(r, "assignDb") /\ req[r].pc = "assignBox"
  PROVE  GatedEffect(r, n)
  <1>1. Sound(n)'
    BY ServesFacts, UntouchedKeeps
  <1>2. CASE Finish(r)
    BY <1>1, <1>2, Moves DEF GatedEffect
  <1>3. CASE \E pc : /\ Goto(r, pc) \/ Remember(r, pc)
                     /\ pc \notin {"idle", "bind", "assignBox", "assignDb"}
    BY <1>1, <1>3, Moves DEF GatedEffect
  <1>4. CASE Goto(r, "assignDb") /\ req[r].pc = "assignBox"
    <2>1. Away(n, req[r].seen)'
      BY <1>4, Moves, ServesFacts DEF Own, Away, Untouched, Is, Exists, Owns
    <2> QED
      BY <1>1, <1>4, <2>1, Moves DEF GatedEffect
  <1> QED
    BY <1>2, <1>3, <1>4

\* A step that writes, with the mutex and the permit, what leaves n not
\* checked out.
LEMMA WriteEffect ==
  ASSUME NEW r, NEW n, Serves(r, n), DbFree, permit = r, Local(n),
         ~Is(n, {"CheckedOut"})', alloc'[n] \in {{}, Canonical[n]},
         \/ Finish(r)
         \/ \E pc : /\ Goto(r, pc) \/ Remember(r, pc)
                    /\ pc \notin {"idle", "bind", "assignBox", "assignDb"}
  PROVE  GatedEffect(r, n)
  <1>1. Sound(n)'
    BY DEF Sound
  <1> QED
    BY <1>1, Moves DEF GatedEffect

\* kill_socat and the deletion of a row reach the forwarders of n only.
LEMMA KillLocal ==
  ASSUME TypeOK, NEW n \in Names
  PROVE  \A p \in Ports : KillRecorded({n})[p] = fwd[p] \/ fwd[p] = n
  BY DEF KillRecorded

LEMMA DeleteRowLocal ==
  ASSUME TypeOK, NEW n \in Names, DeleteRow(n),
         \A p \in Ports : fwd'[p] = fwd[p] \/ fwd[p] = n
  PROVE  Local(n) /\ ~Is(n, {"CheckedOut"})' /\ alloc'[n] = {}
  BY DEF DeleteRow, Local, Is, Exists, TypeOK

LEMMA ClearLocal ==
  ASSUME TypeOK, NEW n \in Names, Exists(n), NEW s \in Status \ {"CheckedOut"},
         ClearCheckedOut(n, s)
  PROVE  Local(n) /\ ~Is(n, {"CheckedOut"})' /\ alloc' = alloc
  <1>1. row'[n].status = s
    BY ExistingRow DEF ClearCheckedOut, SetStatus, TypeOK, Row
  <1> QED
    BY <1>1, KillLocal DEF ClearCheckedOut, SetStatus, Local, Is, TypeOK

LEMMA SetLocal ==
  ASSUME TypeOK, NEW n \in Names, NEW s \in Status,
         row' = SetStatus(n, s) \/ row' = TrySetStatus(n, s),
         UNCHANGED <<alloc, pid, fwd>>
  PROVE  /\ Local(n)
         /\ Exists(n) => row'[n] # None /\ row'[n].status = s
         /\ row' = TrySetStatus(n, s) /\ ~Exists(n) => row' = row
  <1>1. Exists(n) => /\ [row[n] EXCEPT !.status = s].status = s
                     /\ [row[n] EXCEPT !.status = s] \in Row
    BY ExistingRow DEF Row
  <1> QED
    BY <1>1, ConstantsOK DEF SetStatus, TrySetStatus, Local, TypeOK

LEMMA RunEffect ==
  ASSUME NEW r, NEW n, Serves(r, n), RunStep(r)
  PROVE  GatedEffect(r, n)
  <1> /\ TypeOK /\ r \in Reqs /\ n \in Names /\ req[r].name = n
      /\ Sound(n) /\ Own(r)
    BY ServesFacts
  <1>1. CASE \/ RunJoinQueue(r) \/ RunCheck(r) \/ RunDangling(r) \/ RunCreate(r)
             \/ RunProvisionFails(r) \/ RunCleanBox(r)
    <2>1. Untouched
      BY <1>1 DEF RunJoinQueue, RunCheck, RunDangling, RunCreate,
                  RunProvisionFails, RunCleanBox, Untouched, db
    <2>2. CASE RunCreate(r)
      <3>1. \/ \E c : req' = [req EXCEPT ![r].pc = "record", ![r].cid = c]
            \/ \E c : req' = [req EXCEPT ![r].pc = "cleanBox", ![r].cid = c]
            \/ Goto(r, "cleanBox")
        BY <2>2 DEF RunCreate
      <3>2. req[r] \in Request
        BY Serving DEF Serves
      <3>3. /\ \A s \in Reqs \ {r} : req'[s] = req[s]
            /\ req'[r].op = req[r].op /\ req'[r].name = n
            /\ req'[r].pc \in {"record", "cleanBox"}
        BY <3>1, <3>2, Moves DEF TypeOK, Request
      <3>4. Sound(n)'
        BY <2>1, UntouchedKeeps
      <3> QED
        BY <2>1, <3>3, <3>4 DEF GatedEffect
    <2>3. CASE ~RunCreate(r)
      <3>1. \/ Finish(r)
            \/ \E pc : Goto(r, pc) /\ pc \notin {"idle", "bind", "assignBox", "assignDb"}
        BY <1>1, <2>3 DEF RunJoinQueue, RunCheck, RunDangling,
                          RunProvisionFails, RunCleanBox
      <3> QED
        BY <2>1, <3>1, StillEffect
    <2> QED
      BY <2>2, <2>3
  <1>2. ASSUME RunInsert(r) \/ RunRecord(r) \/ RunFinalize(r) \/ RunCleanDb(r)
        PROVE  DbFree /\ permit = r
    BY <1>2, ServesFacts DEF RunInsert, RunRecord, RunFinalize, RunCleanDb, Begun
  <1>3. CASE RunInsert(r)
    <2>1. CASE Untouched
      BY <1>3, <2>1, StillEffect DEF RunInsert
    <2>2. CASE ~Untouched
      <3>1. Local(n) /\ ~Is(n, {"CheckedOut"})' /\ alloc'[n] = {}
        BY <1>3, <2>2 DEF RunInsert, Untouched, Local, Is, TypeOK, db
      <3> QED
        BY <1>2, <1>3, <3>1, WriteEffect DEF RunInsert
    <2> QED
      BY <2>1, <2>2
  <1>4. CASE RunRecord(r)
    <2>1. Local(n)
      BY <1>4 DEF RunRecord, Local, TypeOK
    <2>2. Sound(n)'
      <3>1. Is(n, {"CheckedOut"})' => Is(n, {"CheckedOut"})
        BY <1>4, ExistingRow DEF RunRecord, Is, Exists, TypeOK, Row
      <3> QED
        BY <1>4, <3>1 DEF RunRecord, Sound, Owns
    <2> QED
      BY <1>2, <1>4, <2>1, <2>2, Moves DEF RunRecord, GatedEffect
  <1>5. CASE RunFinalize(r)
    <2>1. CASE Untouched
      BY <1>5, <2>1, StillEffect DEF RunFinalize
    <2>2. CASE ~Untouched
      <3>1. /\ Exists(n) /\ alloc[n] \intersect Canonical[n] = {}
            /\ alloc' = [alloc EXCEPT ![n] = @ \union Canonical[n]]
            /\ UNCHANGED <<pid, fwd>>
        BY <1>5, <2>2 DEF RunFinalize, Untouched
      <3>2. PICK s \in {"Running", "Idle"} : row' = SetStatus(n, s)
        BY <1>5, <2>2 DEF RunFinalize, Untouched
      <3>3. row'[n].status = s /\ \A m \in Names \ {n} : row'[m] = row[m]
        BY <3>1, <3>2, ExistingRow DEF SetStatus, TypeOK, Row
      <3>4. alloc'[n] \in {{}, Canonical[n]}
        BY <3>1 DEF Sound, TypeOK
      <3>5. Local(n) /\ ~Is(n, {"CheckedOut"})'
        BY <3>1, <3>3 DEF Local, Is, TypeOK
      <3> QED
        BY <1>2, <1>5, <3>4, <3>5, WriteEffect DEF RunFinalize
    <2> QED
      BY <2>1, <2>2
  <1>6. CASE RunCleanDb(r)
    <2>1. Local(n) /\ ~Is(n, {"CheckedOut"})' /\ alloc'[n] = {}
      BY <1>6, DeleteRowLocal DEF RunCleanDb
    <2> QED
      BY <1>2, <1>6, <2>1, WriteEffect DEF RunCleanDb
  <1> QED
    BY <1>1, <1>3, <1>4, <1>5, <1>6 DEF RunStep

LEMMA RmEffect ==
  ASSUME NEW r, NEW n, Serves(r, n), RmStep(r)
  PROVE  GatedEffect(r, n)
  <1> /\ TypeOK /\ r \in Reqs /\ n \in Names /\ req[r].name = n
      /\ Sound(n) /\ Own(r)
    BY ServesFacts
  <1>1. CASE RmRead(r)
    <2>1. Untouched
      BY <1>1 DEF RmRead, Untouched, db
    <2>2. \/ Finish(r)
          \/ \E pc \in {"rmQueued", "rmMark", "rmBox"} : Remember(r, pc)
      BY <1>1 DEF RmRead
    <2> QED
      BY <2>1, <2>2, StillEffect
  <1>2. CASE RmBox(r)
    BY <1>2, StillEffect DEF RmBox, Untouched, db
  <1>3. ASSUME RmQueued(r) \/ RmMark(r) \/ RmDb(r)
        PROVE  DbFree /\ permit = r
    BY <1>3, ServesFacts DEF RmQueued, RmMark, RmDb, Begun
  <1>4. CASE RmQueued(r)
    <2>1. Local(n) /\ ~Is(n, {"CheckedOut"})' /\ alloc'[n] = {}
      BY <1>4, DeleteRowLocal DEF RmQueued
    <2> QED
      BY <1>3, <1>4, <2>1, WriteEffect DEF RmQueued
  <1>5. CASE RmMark(r)
    <2>1. CASE Untouched
      BY <1>5, <2>1, StillEffect DEF RmMark
    <2>2. CASE row' = TrySetStatus(n, "Stopping") /\ Goto(r, "rmBox")
               /\ UNCHANGED <<alloc, pid, fwd>>
      <3>1. Local(n) /\ ~Is(n, {"CheckedOut"})'
        BY <2>2, SetLocal DEF Is, Exists, Status, Transitional
      <3> QED
        BY <1>3, <1>5, <2>2, <3>1, WriteEffect DEF Sound
    <2>3. CASE Is(n, {"CheckedOut"}) /\ ClearCheckedOut(n, "Stopping") /\ Goto(r, "rmBox")
      <3>1. Local(n) /\ ~Is(n, {"CheckedOut"})' /\ alloc' = alloc
        BY <2>3, ClearLocal DEF Is, Status, Transitional
      <3> QED
        BY <1>3, <1>5, <2>3, <3>1, WriteEffect DEF Sound
    <2> QED
      BY <1>5, <2>1, <2>2, <2>3 DEF RmMark, Untouched, db
  <1>6. CASE RmDb(r)
    <2>1. \A p \in Ports : fwd'[p] = fwd[p] \/ fwd[p] = n
      BY <1>6, KillLocal DEF RmDb
    <2>2. Local(n) /\ ~Is(n, {"CheckedOut"})' /\ alloc'[n] = {}
      BY <1>6, <2>1, DeleteRowLocal DEF RmDb
    <2> QED
      BY <1>3, <1>6, <2>2, WriteEffect DEF RmDb
  <1> QED
    BY <1>1, <1>2, <1>4, <1>5, <1>6 DEF RmStep

LEMMA StopEffect ==
  ASSUME NEW r, NEW n, Serves(r, n), StopStep(r)
  PROVE  GatedEffect(r, n)
  <1> /\ TypeOK /\ r \in Reqs /\ n \in Names /\ req[r].name = n
      /\ Sound(n) /\ Own(r)
    BY ServesFacts
  <1>1. CASE StopBox(r)
    BY <1>1, StillEffect DEF StopBox, Untouched, db
  <1>2. ASSUME StopBegin(r) \/ StopDb(r)
        PROVE  DbFree /\ permit = r
    BY <1>2, ServesFacts DEF StopBegin, StopDb, Begun
  <1>3. CASE StopBegin(r)
    <2>1. CASE Finish(r) /\ Untouched
      BY <2>1, StillEffect
    <2>2. CASE DeleteRow(n) /\ Finish(r) /\ UNCHANGED fwd
      <3>1. Local(n) /\ ~Is(n, {"CheckedOut"})' /\ alloc'[n] = {}
        BY <2>2, DeleteRowLocal
      <3> QED
        BY <1>2, <1>3, <2>2, <3>1, WriteEffect
    <2>3. CASE Is(n, {"CheckedOut"}) /\ ClearCheckedOut(n, "Stopping")
               /\ Remember(r, "stopBox")
      <3>1. Local(n) /\ ~Is(n, {"CheckedOut"})' /\ alloc' = alloc
        BY <2>3, ClearLocal DEF Is, Status, Transitional
      <3> QED
        BY <1>2, <1>3, <2>3, <3>1, WriteEffect DEF Sound
    <2>4. CASE Exists(n) /\ row' = SetStatus(n, "Stopping")
               /\ Remember(r, "stopBox") /\ UNCHANGED <<alloc, pid, fwd>>
      <3>1. Local(n) /\ ~Is(n, {"CheckedOut"})'
        BY <2>4, SetLocal DEF Is, Status, Transitional
      <3> QED
        BY <1>2, <1>3, <2>4, <3>1, WriteEffect DEF Sound
    <2> QED
      BY <1>3, <2>1, <2>2, <2>3, <2>4 DEF StopBegin, Untouched, db, Is
  <1>4. CASE StopDb(r)
    <2>1. row'[n] = None \/ row'[n].status = "Stopped"
      BY <1>4, ExistingRow DEF StopDb, TrySetStatus, SetStatus, Exists, TypeOK, Row
    <2>2. \A m \in Names \ {n} : row'[m] = row[m]
      BY <1>4 DEF StopDb, TrySetStatus, SetStatus, TypeOK
    <2>3. Local(n) /\ ~Is(n, {"CheckedOut"})'
      BY <1>4, <2>1, <2>2, KillLocal DEF StopDb, Local, Is, Exists, TypeOK
    <2> QED
      BY <1>2, <1>4, <2>3, WriteEffect DEF StopDb, Sound
  <1> QED
    BY <1>1, <1>3, <1>4 DEF StopStep

LEMMA StartEffect ==
  ASSUME NEW r, NEW n, Serves(r, n), StartStep(r)
  PROVE  GatedEffect(r, n)
  <1> /\ TypeOK /\ r \in Reqs /\ n \in Names /\ req[r].name = n
      /\ Sound(n) /\ Own(r)
    BY ServesFacts
  <1>1. permit = r
    BY ServesFacts DEF StartStep, StartBegin, StartBox, StartFails, StartDb, Begun
  <1>2. CASE StartBox(r)
    BY <1>2, StillEffect DEF StartBox, Untouched, db
  <1>3. ASSUME UNCHANGED <<alloc, pid, fwd>>, DbFree,
               NEW s \in {"Starting", "Stopped", "Running"},
               \/ row' = TrySetStatus(n, s)
               \/ Exists(n) /\ row' = SetStatus(n, s),
               \/ Finish(r)
               \/ Remember(r, "startBox")
        PROVE  GatedEffect(r, n)
    <2>1. Local(n) /\ ~Is(n, {"CheckedOut"})'
      BY <1>3, SetLocal DEF Is, Exists, Status, Transitional
    <2> QED
      BY <1>1, <1>3, <2>1, WriteEffect DEF Sound
  <1>4. CASE StartBegin(r)
    <2>1. CASE Untouched
      BY <1>4, <2>1, StillEffect DEF StartBegin
    <2>2. CASE ~Untouched
      BY <1>3, <1>4, <2>2 DEF StartBegin, Untouched, Is
    <2> QED
      BY <2>1, <2>2
  <1>5. CASE StartFails(r)
    <2>1. CASE Untouched
      BY <1>5, <2>1, StillEffect DEF StartFails
    <2>2. CASE ~Untouched
      BY <1>3, <1>5, <2>2 DEF StartFails, Revert, Untouched
    <2> QED
      BY <2>1, <2>2
  <1>6. CASE StartDb(r)
    BY <1>3, <1>6 DEF StartDb
  <1> QED
    BY <1>2, <1>4, <1>5, <1>6 DEF StartStep

\* An instance that was checked out when its assign began has kept its
\* forwarders, so giving CheckedOut back is sound.
LEMMA AssignEffect ==
  ASSUME NEW r, NEW n, Serves(r, n), AssignStep(r)
  PROVE  GatedEffect(r, n)
  <1> /\ TypeOK /\ r \in Reqs /\ n \in Names /\ req[r].name = n
      /\ Sound(n) /\ Own(r)
    BY ServesFacts
  <1>1. permit = r
    BY ServesFacts DEF AssignStep, AssignBegin, UnassignBegin, AssignBox,
                       AssignFails, AssignDb, Begun
  <1>2. ASSUME Untouched, Finish(r)
        PROVE  GatedEffect(r, n)
    BY <1>2, StillEffect
  <1>3. ASSUME DbFree, Exists(n), NEW s \in {"Assigning", "Unassigning"},
               row' = SetStatus(n, s), UNCHANGED <<alloc, pid, fwd>>,
               Finish(r) \/ Remember(r, "assignBox")
        PROVE  GatedEffect(r, n)
    <2>1. Local(n) /\ row'[n] # None /\ row'[n].status = s
      BY <1>3, SetLocal DEF Status, Transitional
    <2>2. Sound(n)' /\ Is(n, {"Assigning", "Unassigning"})'
      BY <1>3, <2>1 DEF Sound, Is, Exists
    <2>3. CASE Finish(r)
      BY <1>1, <1>3, <2>1, <2>2, <2>3, Moves DEF GatedEffect
    <2>4. CASE Remember(r, "assignBox")
      <3>1. req'[r].seen = row[n].status
        BY <2>4, Moves
      <3>2. req'[r].seen = "CheckedOut" => Owns(n)' /\ alloc'[n] # {}
        BY <1>3, <3>1 DEF Sound, Is, Owns
      <3>3. Away(n, req[r].seen)'
        BY <2>2, <3>2 DEF Away
      <3> QED
        BY <1>1, <1>3, <2>1, <2>2, <2>4, <3>3, Moves DEF GatedEffect
    <2> QED
      BY <1>3, <2>3, <2>4
  <1>4. ASSUME DbFree, Away(n, req[r].seen), NEW s \in Status,
               s = "CheckedOut" => req[r].seen = "CheckedOut",
               row' = TrySetStatus(n, s), UNCHANGED <<alloc, pid, fwd>>, Finish(r)
        PROVE  GatedEffect(r, n)
    <2>1. Local(n) /\ row'[n] # None /\ row'[n].status = s
      BY <1>4, SetLocal DEF Away, Is
    <2>2. Sound(n)'
      BY <1>4, <2>1 DEF Sound, Away, Is, Owns
    <2> QED
      BY <1>1, <1>4, <2>1, <2>2, Moves DEF GatedEffect
  <1>5. req[r].pc \in {"assignBox", "assignDb"} =>
          req[r].seen \in Status /\ Away(n, req[r].seen)
    BY DEF Serves, IInv, StatusSeen, Own
  <1>6. CASE AssignBegin(r)
    BY <1>2, <1>3, <1>6 DEF AssignBegin, Untouched, Is
  <1>7. CASE UnassignBegin(r)
    BY <1>2, <1>3, <1>7 DEF UnassignBegin, Untouched, Is
  <1>8. CASE AssignBox(r)
    BY <1>8, StillEffect DEF AssignBox, Untouched, db
  <1>9. CASE AssignFails(r)
    BY <1>2, <1>4, <1>5, <1>9 DEF AssignFails, Revert, Untouched
  <1>10. CASE AssignDb(r)
    BY <1>4, <1>5, <1>10 DEF AssignDb, After, Status
  <1> QED
    BY <1>6, <1>7, <1>8, <1>9, <1>10 DEF AssignStep

----------------------------------------------------------------------------
(* Checkout, which works on several instances and without the permit.      *)

LEMMA CheckoutClearKeeps ==
  ASSUME IInv, OwnInv, NEW r \in Reqs, CheckoutClear(r)
  PROVE  OwnInv'
  <1> DEFINE n   == req[r].name
             out == CheckedOut
  <1> TypeOK /\ TargetHeld /\ n \in Names
    BY Serving DEF IInv, CheckoutClear, Admitted
  <1> (\A m \in Names : Sound(m)) /\ (\A s \in Reqs : Own(s))
    BY OwnParts
  <1>1. /\ DbFree /\ alloc' = alloc
        /\ \A m \in Names \ out : row'[m] = row[m] /\ pid'[m] = pid[m]
        /\ \A m \in out : row'[m] = [row[m] EXCEPT !.status = "Running"]
        /\ \A p \in Ports : fwd'[p] = fwd[p] \/ fwd[p] \in out
    BY DEF CheckoutClear, CheckedOut, KillRecorded
  <1>2. ASSUME NEW m \in out PROVE row'[m] # None /\ row'[m].status = "Running"
    <2>1. row[m] \in Row
      BY ExistingRow DEF CheckedOut, Is
    <2>2. /\ [row[m] EXCEPT !.status = "Running"] \in Row
          /\ [row[m] EXCEPT !.status = "Running"].status = "Running"
      BY <2>1 DEF Row, Status
    <2>3. row'[m] = [row[m] EXCEPT !.status = "Running"]
      BY <1>1
    <2> QED
      BY <2>2, <2>3, ConstantsOK
  <1>3. ASSUME NEW m \in Names PROVE Sound(m)'
    BY <1>1, <1>2 DEF Sound, CheckedOut, Is, Exists
  <1>4. Own(r)'
    <2>1. CASE Finish(r)
      BY <2>1, ConstantsOK DEF Finish, Idle, TypeOK, Own, Ops, Ungated
    <2>2. CASE /\ req[r].op = "checkout" /\ alloc[n] # {}
               /\ Is(n, {"Running", "CheckedOut"}) /\ Remember(r, "bind")
      <3>1. Own(r) /\ req[r].pc # "idle"
        BY DEF CheckoutClear, Admitted
      <3>2. req'[r].op = "checkout" /\ req'[r].name = n /\ req'[r].pc = "bind"
        <4>1. req[r] \in Request
          BY <3>1, Serving
        <4> QED
          BY <2>2, <4>1 DEF Remember, TypeOK, Request
      <3>3. row'[n] # None /\ row'[n].status = "Running"
        BY <1>1, <1>2, <2>2 DEF CheckedOut, Is, Exists
      <3>4. "checkout" \in Entry
        BY <2>2, <3>1 DEF Own
      <3> QED
        BY <1>1, <2>2, <3>2, <3>3, <3>4 DEF Own, Is, Exists
    <2> QED
      BY <2>1, <2>2 DEF CheckoutClear
  <1>5. ASSUME NEW s \in Reqs \ {r} PROVE Own(s)'
    <2>1. req'[s] = req[s] /\ Own(s)
      BY DEF CheckoutClear, Finish, Remember, TypeOK
    <2>2. req[s].pc # "bind"
      BY <1>1, ConstantsOK DEF TargetHeld, DbFree
    <2>3. CASE req[s].pc \in {"assignBox", "assignDb"}
      <3> DEFINE m == req[s].name
      <3>1. m \in Names /\ Away(m, req[s].seen)
        BY <2>1, <2>3, Serving DEF Own
      <3>2. m \in Names \ out
        BY <3>1 DEF Away, CheckedOut, Is
      <3>3. \A p \in Ports : fwd[p] = m => fwd'[p] = m
        BY <1>1, <3>2
      <3>4. alloc[m] \subseteq Ports
        BY <3>1 DEF TypeOK
      <3> QED
        BY <1>1, <2>1, <2>2, <3>1, <3>2, <3>3, <3>4 DEF Own, Away, Is, Exists, Owns
    <2> QED
      BY <2>1, <2>2, <2>3 DEF Own
  <1> QED
    BY <1>3, <1>4, <1>5, OwnParts

\* The last step of a checkout, whether its ports could be bound or not: the
\* mutex kept every other handler from the rows since the first.
LEMMA CheckoutEndKeeps ==
  ASSUME IInv, OwnInv, NEW r \in Reqs, CheckoutBind(r) \/ CheckoutFails(r)
  PROVE  OwnInv'
  <1> DEFINE n == req[r].name
  <1> req[r].pc = "bind"
    BY DEF CheckoutBind, CheckoutFails
  <1> TypeOK /\ TargetHeld /\ n \in Names
    BY Serving DEF IInv
  <1> (\A m \in Names : Sound(m)) /\ (\A s \in Reqs : Own(s))
    BY OwnParts
  <1>1. Is(n, {"Running"}) /\ alloc[n] # {} /\ alloc' = alloc /\ Finish(r)
    BY DEF Own, CheckoutBind, CheckoutFails
  <1>2. PICK k \in Names : k = n
    OBVIOUS
  <1>3. Local(k) /\ Sound(k)'
    <2>1. CASE CheckoutBind(r)
      <3>1. /\ pid' = [pid EXCEPT ![k] = alloc[k]]
            /\ \A p \in alloc[k] : fwd[p] = None
            /\ fwd' = [p \in Ports |-> IF p \in alloc[k] THEN k ELSE fwd[p]]
            /\ row' = SetStatus(k, "CheckedOut")
        BY <1>2, <2>1 DEF CheckoutBind
      <3>2. Local(k)
        BY <1>1, <3>1 DEF Local, SetStatus, TypeOK
      <3>3. Owns(k)'
        BY <1>1, <3>1 DEF Owns, TypeOK
      <3> QED
        BY <1>1, <1>2, <3>2, <3>3 DEF Sound
    <2>2. CASE CheckoutFails(r)
      BY <1>1, <1>2, <2>2 DEF CheckoutFails, Local, Sound, Is, Exists, TypeOK
    <2> QED
      BY <2>1, <2>2
  <1>4. ASSUME NEW m \in Names PROVE Sound(m)'
    <2>1. CASE m = k
      BY <1>3, <2>1
    <2>2. CASE m # k
      BY <1>3, <2>2, LocalKeeps
    <2> QED
      BY <2>1, <2>2
  <1>5. Own(r)'
    BY <1>1, ConstantsOK DEF Finish, Idle, TypeOK, Own, Ops, Ungated
  <1>6. ASSUME NEW s \in Reqs \ {r} PROVE Own(s)'
    <2>1. req'[s] = req[s] /\ Own(s)
      BY <1>1 DEF Finish, TypeOK
    <2>2. req[s].pc # "bind"
      BY DEF TargetHeld
    <2>3. CASE req[s].pc \in {"assignBox", "assignDb"}
      <3>1. req[s].name \in Names /\ Away(req[s].name, req[s].seen)
        BY <2>1, <2>3, Serving DEF Own
      <3>2. req[s].name # k
        BY <1>1, <1>2, <3>1 DEF Away, Is
      <3>3. PICK m \in Names \ {k} : m = req[s].name
        BY <3>1, <3>2
      <3>4. PICK seen : seen = req[s].seen
        OBVIOUS
      <3>5. Away(m, seen)'
        BY <1>3, <3>1, <3>3, <3>4, LocalKeeps
      <3> QED
        BY <2>1, <2>2, <3>3, <3>4, <3>5 DEF Own
    <2> QED
      BY <2>1, <2>2, <2>3 DEF Own
  <1> QED
    BY <1>4, <1>5, <1>6, OwnParts

----------------------------------------------------------------------------
(* Requests that arrive and clients that hang up.                          *)

LEMMA ArrivalKeeps ==
  ASSUME IInv, OwnInv, NEW r \in Reqs, NEW op \in Entry, NEW n \in Names,
         Submit(r, op, n) \/ SubmitRun(r, n)
  PROVE  OwnInv'
  <1> TypeOK /\ TargetHeld
    BY DEF IInv
  <1> (\A m \in Names : Sound(m)) /\ (\A s \in Reqs : Own(s))
    BY OwnParts
  <1>1. \A s \in Reqs \ {r} : req'[s] = req[s]
    BY DEF Submit, SubmitRun, TypeOK
  <1>2. Own(r)'
    <2>1. CASE Submit(r, op, n)
      <3>1. req'[r].op = op /\ req'[r].pc = "waiting"
        BY <2>1 DEF Submit, Idle, TypeOK
      <3> QED
        BY <3>1 DEF Own
    <2>2. CASE SubmitRun(r, n)
      <3>1. req'[r].op = "run" /\ req'[r].pc = "arrived" /\ "run" \in Entry
        BY <2>2 DEF SubmitRun, Idle, TypeOK
      <3> QED
        BY <3>1 DEF Own
    <2> QED
      BY <2>1, <2>2
  <1>3. CASE Submit(r, op, n)
    <2>1. Untouched
      BY <1>3 DEF Submit, Untouched, db
    <2> QED
      BY <1>1, <1>2, <2>1, UntouchedKeeps, OwnParts DEF Own
  <1>4. CASE SubmitRun(r, n)
    <2>1. /\ DbFree /\ ~Exists(n) /\ alloc' = alloc
          /\ Local(n) /\ ~Is(n, {"CheckedOut"})'
      BY <1>4 DEF SubmitRun, Local, Is, TypeOK
    <2>2. ASSUME NEW m \in Names PROVE Sound(m)'
      BY <2>1, LocalKeeps DEF Sound
    <2>3. ASSUME NEW s \in Reqs \ {r} PROVE Own(s)'
      <3>1. req'[s] = req[s] /\ Own(s)
        BY <1>1
      <3>2. req[s].pc # "bind"
        BY <2>1, ConstantsOK DEF TargetHeld, DbFree
      <3>3. CASE req[s].pc \in {"assignBox", "assignDb"}
        <4>1. req[s].name \in Names /\ Away(req[s].name, req[s].seen)
          BY <3>1, <3>3, Serving DEF Own
        <4>2. PICK m \in Names \ {n} : m = req[s].name
          BY <2>1, <4>1 DEF Away, Is
        <4>3. PICK seen : seen = req[s].seen
          OBVIOUS
        <4>4. Away(m, seen)'
          BY <2>1, <4>1, <4>2, <4>3, LocalKeeps
        <4> QED
          BY <3>1, <3>2, <4>2, <4>3, <4>4 DEF Own
      <3> QED
        BY <3>1, <3>2, <3>3 DEF Own
    <2> QED
      BY <1>2, <2>2, <2>3, OwnParts
  <1> QED
    BY <1>3, <1>4

LEMMA HangupKeeps ==
  ASSUME IInv, OwnInv, NEW r \in Reqs, Hangup(r)
  PROVE  OwnInv'
  <1> (\A m \in Names : Sound(m)) /\ (\A s \in Reqs : Own(s))
    BY OwnParts
  <1>1. Untouched /\ req' = [req EXCEPT ![r] = Idle] /\ req \in [Reqs -> Request \union {Idle}]
    BY DEF Hangup, Untouched, db, IInv, TypeOK
  <1>2. \A m \in Names : Sound(m)'
    BY <1>1, UntouchedKeeps
  <1>3. ASSUME NEW s \in Reqs PROVE Own(s)'
    <2>1. CASE s = r
      BY <1>1, <2>1, ConstantsOK DEF Own, Idle, Ops, Ungated
    <2>2. CASE s # r
      <3>1. req'[s] = req[s] /\ Own(s)
        BY <1>1, <2>2
      <3> QED
        BY <1>1, <3>1, UntouchedKeeps DEF Own
    <2> QED
      BY <2>1, <2>2
  <1> QED
    BY <1>2, <1>3, OwnParts

\* Only checkout runs without the permit.
LEMMA StepKeeps ==
  ASSUME IInv, Serialized, OwnInv, GatedOnly, NEW r \in Reqs, Step(r)
  PROVE  OwnInv'
  <1>1. req[r].pc # "idle"
    BY DEF Step, RunStep, RmStep, StopStep, StartStep, AssignStep, CheckoutStep,
           RunJoinQueue, RunCheck, RunDangling, RunInsert, RunCreate, RunRecord,
           RunProvisionFails, RunFinalize, RunCleanBox, RunCleanDb, RmRead,
           RmQueued, RmMark, RmBox, RmDb, StopBegin, StopBox, StopDb, StartBegin,
           StartBox, StartFails, StartDb, AssignBegin, UnassignBegin, AssignBox,
           AssignFails, AssignDb, CheckoutClear, CheckoutBind, CheckoutFails, Admitted
  <1>2. CASE CheckoutStep(r)
    BY <1>2, CheckoutClearKeeps, CheckoutEndKeeps DEF CheckoutStep
  <1>3. CASE RunStep(r) \/ RmStep(r) \/ StopStep(r) \/ StartStep(r) \/ AssignStep(r)
    <2>1. req[r].op \notin {"checkout", "release"}
      <3>1. Own(r)
        BY OwnParts
      <3>2. CASE RunStep(r)
        BY <3>1, <3>2 DEF Own, RunStep, RunJoinQueue, RunCheck, RunDangling,
           RunInsert, RunCreate, RunRecord, RunProvisionFails, RunFinalize,
           RunCleanBox, RunCleanDb, Admitted
      <3>3. CASE RmStep(r)
        BY <3>1, <3>3 DEF Own, RmStep, RmRead, RmQueued, RmMark, RmBox, RmDb, Admitted
      <3>4. CASE StopStep(r) \/ StartStep(r)
        BY <3>1, <3>4 DEF Own, StopStep, StopBegin, StopBox, StopDb,
           StartStep, StartBegin, StartBox, StartFails, StartDb, Admitted
      <3>5. CASE AssignStep(r)
        BY <3>1, <3>5 DEF Own, AssignStep, AssignBegin, UnassignBegin, AssignBox,
           AssignFails, AssignDb, Admitted
      <3> QED
        BY <1>3, <3>2, <3>3, <3>4, <3>5
    <2>2. req[r].op \in Gated
      BY <1>1, <2>1, OwnParts DEF Own, GatedOnly
    <2>3. PICK n \in Names : n = req[r].name
      BY <1>1, Serving DEF IInv
    <2>4. Serves(r, n)
      BY <1>1, <2>2, <2>3 DEF Serves
    <2>5. GatedEffect(r, n)
      BY <1>3, <2>4, RunEffect, RmEffect, StopEffect, StartEffect, AssignEffect
    <2> QED
      BY <1>1, <2>2, <2>5, GatedEffectKeeps
  <1> QED
    BY <1>2, <1>3 DEF Step

LEMMA OwnNext ==
  ASSUME IInv, Serialized, OwnInv, GatedOnly, [Next]_vars
  PROVE  OwnInv'
  <1>1. ASSUME NEW r \in Reqs, NEW n \in Names, SubmitRun(r, n)
        PROVE  OwnInv'
    BY <1>1, ArrivalKeeps DEF SubmitRun
  <1>2. CASE UNCHANGED vars
    BY <1>2 DEF vars, db, boxes, sem, OwnInv, CheckedOutOwnsPorts, Is, Exists, Owns
  <1>3. ~Restart
    BY DEF Restart, GatedOnly
  <1> QED
    BY <1>1, <1>2, <1>3, ArrivalKeeps, HangupKeeps, StepKeeps DEF Next

LEMMA OwnInit == Init => OwnInv
  BY ConstantsOK DEF Init, OwnInv, CheckedOutOwnsPorts, Is, Exists, Idle, Ops, Ungated

LEMMA OwnInductive ==
  ASSUME GatedOnly
  PROVE  Spec => []OwnInv
  <1>1. IInv /\ Serialized /\ OwnInv /\ [Next]_vars => OwnInv'
    BY OwnNext
  <1> QED
    BY <1>1, OwnInit, InductiveInvariant, PTL DEF Spec

\* checkout, assign, unassign, stop and rm together: with any number of
\* instances and requests, occupied ports, failing Docker calls and clients
\* that hang up, a checked out instance has its forwarders, all of them.
THEOREM CheckoutIsWhole ==
  ASSUME GatedOnly
  PROVE  Spec => []CheckedOutOwnsPorts
  <1>1. OwnInv => CheckedOutOwnsPorts
    BY DEF OwnInv
  <1> QED
    BY <1>1, OwnInductive, PTL

\* Two instances whose builds share a canonical port are never checked out
\* together, although assign gives CheckedOut back to instances that no
\* checkout has seen in between.
THEOREM CheckoutIsExclusive ==
  ASSUME GatedOnly
  PROVE  Spec => []OneCheckedOut
  <1>1. OwnInv => OneCheckedOut
    BY DEF OwnInv, OneCheckedOut, CheckedOutOwnsPorts, Owns
  <1> QED
    BY <1>1, OwnInductive, PTL
----------------------------------------------------------------------------
(* Every live forwarder is recorded, where instances are never stopped.    *)

\* The statuses an instance may be checked out from or rest in.
AtRest == {"Running", "Idle", "CheckedOut"}

\* r is to give n back a status to rest in.  At any time either n rests, or
\* one request has this token, or it is lost (a failed write, a hangup, a
\* crash) and n never rests again.
Token(r, n) ==
  req[r].name = n /\ req[r].pc \in {"assignBox", "assignDb"} /\ req[r].seen \in AtRest

Binding(r, n) == req[r].name = n /\ req[r].pc = "bind"

\* Nothing forwards to n.
Unbound(n) == \A p \in Ports : fwd[p] # n

Recorded(n) ==
  \/ Unbound(n)
  \/ /\ Is(n, {"CheckedOut", "Assigning", "Unassigning"})
     /\ \A p \in Ports : fwd[p] = n => p \in pid[n]

Tokens(r, n) ==
  /\ Token(r, n) => /\ ~Is(n, AtRest)
                    /\ req[r].seen # "CheckedOut" => Unbound(n)
                    /\ \A s \in Reqs \ {r} : ~Token(s, n)
  /\ Binding(r, n) => Is(n, {"Running"})

ForwardInv == \A n \in Names : Recorded(n) /\ \A r \in Reqs : Tokens(r, n)

\* A step that leaves the row and the pids of n and starts no forwarder to it.
Quiet(n) ==
  /\ row'[n] = row[n] /\ pid'[n] = pid[n]
  /\ \A p \in Ports : fwd'[p] = n => fwd[p] = n

\* What a step of r may do to n: nothing of interest; work on an instance
\* that nobody assigns or checks out; take the token, or whatever is in its
\* place; give it back; bind the ports, or fail to.
Begins(r, n) ==
  /\ DbFree /\ UNCHANGED <<pid, fwd>> /\ Exists(n)
  /\ \E s \in {"Assigning", "Unassigning"} : RowSet(n, s)
  /\ ReadAt(r, n, "assignBox") \/ Gone(r)
  /\ ~Token(r, n)

Returns(r, n) ==
  /\ DbFree /\ UNCHANGED <<pid, fwd>> /\ Gone(r)
  /\ req[r].pc \in {"assignBox", "assignDb"}
  /\ RowSet(n, req[r].seen) \/ RowSet(n, After(req[r].seen))

Makes(r, n) ==
  /\ Making(r, n) \/ ~Exists(n)
  /\ ~Token(r, n)' /\ ~Binding(r, n)'
  /\ \A p \in Ports : fwd'[p] = n => fwd[p] = n

Binds(r, n) ==
  /\ Binding(r, n) /\ Gone(r)
  /\ \/ row'[n] = row[n] /\ \A p \in Ports : fwd'[p] = n => fwd[p] = n
     \/ RowSet(n, "CheckedOut") /\ \A p \in Ports : fwd'[p] = n => fwd[p] = n \/ p \in pid'[n]

KeepsForward(r, n) ==
  /\ \A m \in Names \ {n} : Quiet(m)
  /\ \/ /\ Quiet(n)
        /\ Token(r, n)' => Token(r, n) /\ req'[r].seen = req[r].seen
        /\ ~Binding(r, n)'
     \/ Begins(r, n)
     \/ Returns(r, n)
     \/ Makes(r, n)
     \/ Binds(r, n)

\* Nobody binds while the mutex can be had, and only one at a time.
LEMMA NobodyBinds ==
  ASSUME IInv, NEW r \in Reqs, NEW s \in Reqs \ {r}, NEW n \in Names, NEW m \in Names,
         DbFree \/ Binding(r, n)
  PROVE  ~Binding(s, m)
  BY ConstantsOK DEF IInv, TargetHeld, DbFree, Binding

LEMMA KeepsForwardInv ==
  ASSUME IInv, Roles, LiveInv, ForwardInv, NEW r \in Reqs, NEW n \in Names, Others(r),
         req[r].pc = "idle" \/ req[r].name = n,
         req'[r].pc = "idle" \/ req'[r].name = n, KeepsForward(r, n)
  PROVE  ForwardInv'
  <1>1. ASSUME NEW m \in Names, Quiet(m) PROVE Recorded(m)' /\ (Unbound(m) => Unbound(m)')
    <2>1. Recorded(m)
      BY DEF ForwardInv
    <2> QED
      BY <1>1, <2>1 DEF Recorded, Unbound, Quiet, Is, Exists
  <1>2. ASSUME NEW s \in Reqs \ {r}, NEW m \in Names
        PROVE  /\ Token(s, m)' <=> Token(s, m)
               /\ Binding(s, m)' <=> Binding(s, m)
               /\ req'[s] = req[s]
               /\ Tokens(s, m)
    BY DEF Others, Token, Binding, ForwardInv
  <1>3. ASSUME NEW m \in Names \ {n} PROVE ~Token(r, m)' /\ ~Binding(r, m)' /\ ~Token(r, m)
    BY <1>3 DEF Token, Binding
  <1>4. ASSUME NEW m \in Names \ {n}, NEW s \in Reqs PROVE Tokens(s, m)'
    <2>1. Quiet(m) /\ Tokens(s, m)
      BY DEF KeepsForward, ForwardInv
    <2>2. CASE s = r
      BY <1>3, <2>2 DEF Tokens
    <2>3. CASE s # r
      <3>1. Token(s, m)' => \A t \in Reqs \ {s} : ~Token(t, m)'
        BY <1>2, <1>3, <2>3 DEF Tokens
      <3> QED
        BY <1>1, <1>2, <2>1, <2>3, <3>1 DEF Tokens, Quiet, Is, Exists
    <2> QED
      BY <2>2, <2>3
  <1>5. Tokens(r, n) /\ Recorded(n)
    BY DEF ForwardInv
  <1>6. CASE /\ Quiet(n) /\ ~Binding(r, n)'
             /\ Token(r, n)' => Token(r, n) /\ req'[r].seen = req[r].seen
    <2>1. ASSUME NEW s \in Reqs PROVE Tokens(s, n)'
      <3>1. Token(s, n)' => Token(s, n) /\ req'[s].seen = req[s].seen
        BY <1>2, <1>6
      <3>2. Binding(s, n)' => Binding(s, n)
        BY <1>2, <1>6
      <3>3. Tokens(s, n)
        BY DEF ForwardInv
      <3>4. Token(s, n)' => \A t \in Reqs \ {s} : ~Token(t, n)'
        BY <1>2, <1>6, <3>1, <3>3 DEF Tokens
      <3> QED
        BY <1>1, <1>6, <3>1, <3>2, <3>3, <3>4 DEF Tokens, Quiet, Is, Exists
    <2> QED
      BY <1>1, <1>4, <1>6, <2>1 DEF KeepsForward, ForwardInv
  <1>7. CASE Begins(r, n)
    <2>1. PICK st \in {"Assigning", "Unassigning"} : RowSet(n, st)
      BY <1>7 DEF Begins
    <2>2. Is(n, {"Assigning", "Unassigning"})' /\ ~Is(n, AtRest)'
      BY <2>1 DEF RowSet, Is, Exists, AtRest
    <2>3. (Unbound(n)' <=> Unbound(n)) /\ Recorded(n)'
      BY <1>5, <1>7, <2>2 DEF Begins, Recorded, Unbound, Is
    <2>4. /\ ~Binding(r, n)'
          /\ Token(r, n)' => Is(n, AtRest) /\ req'[r].seen = row[n].status
      BY <1>7 DEF Begins, Gone, Idle, ReadAt, Token, Binding, Is
    <2>5. Tokens(r, n)'
      <3>1. Token(r, n)' => \A t \in Reqs \ {r} : ~Token(t, n)'
        BY <1>2, <2>4 DEF Tokens
      <3>2. Token(r, n)' /\ req'[r].seen # "CheckedOut" => Unbound(n)'
        BY <1>5, <2>3, <2>4 DEF Recorded, Is, AtRest
      <3> QED
        BY <2>2, <2>4, <3>1, <3>2 DEF Tokens
    <2>6. ASSUME NEW s \in Reqs \ {r} PROVE Tokens(s, n)'
      <3>1. ~Binding(s, n)'
        BY <1>2, <1>7, NobodyBinds DEF Begins
      <3>2. Token(s, n) => ~Token(r, n)'
        BY <1>2, <2>4 DEF Tokens
      <3>3. Token(s, n)' => \A t \in Reqs \ {s} : ~Token(t, n)'
        BY <1>2, <3>2 DEF Tokens
      <3> QED
        BY <1>2, <2>2, <2>3, <3>1, <3>3 DEF Tokens
    <2> QED
      BY <1>1, <1>4, <2>3, <2>5, <2>6 DEF KeepsForward, ForwardInv
  <1>8. CASE Returns(r, n)
    <2>1. PICK st \in {req[r].seen, After(req[r].seen)} : RowSet(n, st)
      BY <1>8 DEF Returns
    <2>2. /\ Unbound(n)' <=> Unbound(n)
          /\ pid' = pid /\ fwd' = fwd /\ row'[n] # None /\ row'[n].status = st
      BY <1>8, <2>1 DEF Returns, RowSet, Unbound
    <2>3. req[r].name = n /\ req[r].seen \in CanAssign
      BY <1>8 DEF Returns, Roles, Role
    <2>4. /\ st \in AtRest <=> Token(r, n)
          /\ st \in {"Running", "Idle"} => req[r].seen \in {"Running", "Idle"}
          /\ st \in AtRest \union {"Assigning", "Unassigning"}
      BY <1>8, <2>3 DEF Returns, Token, AtRest, After, CanAssign
    <2>5. Is(n, {"CheckedOut", "Assigning", "Unassigning"})
            \/ Unbound(n)
      BY <1>5 DEF Recorded
    <2>6. \A p \in Ports : fwd[p] = n => p \in pid[n]
      BY <1>5 DEF Recorded, Unbound
    <2>7. Recorded(n)'
      <3>1. CASE st \in {"Running", "Idle"}
        BY <1>5, <2>2, <2>4, <3>1 DEF Recorded, Tokens, AtRest
      <3>2. CASE st \in {"CheckedOut", "Assigning", "Unassigning"}
        BY <2>2, <2>6, <3>2 DEF Recorded, Is, Exists
      <3> QED
        BY <2>4, <3>1, <3>2 DEF AtRest
    <2>8. ~Token(r, n)' /\ ~Binding(r, n)'
      BY <1>8 DEF Returns, Gone, Idle, Token, Binding
    <2>9. ASSUME NEW s \in Reqs \ {r} PROVE Tokens(s, n)'
      <3>1. ~Binding(s, n)'
        BY <1>2, <1>8, NobodyBinds DEF Returns
      <3>2. Token(s, n) => ~Token(r, n)
        BY <1>5 DEF Tokens
      <3>3. Token(s, n)' => ~Is(n, AtRest)'
        BY <1>2, <2>2, <2>4, <3>2 DEF Is
      <3>4. Token(s, n)' => \A t \in Reqs \ {s} : ~Token(t, n)'
        BY <1>2, <2>8 DEF Tokens
      <3> QED
        BY <1>2, <2>2, <3>1, <3>3, <3>4 DEF Tokens
    <2> QED
      BY <1>1, <1>4, <2>7, <2>8, <2>9 DEF KeepsForward, ForwardInv, Tokens
  <1>9. CASE Makes(r, n)
    <2>1. ~Is(n, CanAssign)
      <3>1. Lively(r, n)
        BY DEF LiveInv
      <3> QED
        BY <1>9, <3>1 DEF Makes, Lively, Making, Is, Exists, CanAssign
    <2>2. Unbound(n)'
      BY <1>5, <1>9, <2>1 DEF Recorded, Unbound, Makes, Is, CanAssign
    <2>3. ASSUME NEW s \in Reqs \ {r} PROVE ~Token(s, n) /\ ~Binding(s, n)
      BY <1>9, <2>3, Unconcerned DEF Makes, Token, Binding
    <2>4. ASSUME NEW s \in Reqs PROVE Tokens(s, n)'
      BY <1>2, <1>9, <2>3 DEF Makes, Tokens
    <2> QED
      BY <1>1, <1>4, <2>2, <2>4 DEF KeepsForward, ForwardInv, Recorded
  <1>10. CASE Binds(r, n)
    <2>1. Is(n, {"Running"}) /\ Unbound(n)
      BY <1>5, <1>10 DEF Binds, Tokens, Recorded, Is
    <2>2. Recorded(n)'
      BY <1>10, <2>1 DEF Binds, RowSet, Recorded, Unbound, Is, Exists
    <2>3. ASSUME NEW s \in Reqs PROVE ~Token(s, n)' /\ ~Binding(s, n)'
      <3>1. CASE s = r
        BY <1>10, <3>1 DEF Binds, Gone, Idle, Token, Binding
      <3>2. CASE s # r
        BY <1>2, <1>10, <2>1, <3>2, NobodyBinds DEF Binds, Tokens, Is, AtRest
      <3> QED
        BY <3>1, <3>2
    <2> QED
      BY <1>1, <1>4, <2>2, <2>3 DEF KeepsForward, ForwardInv, Tokens
  <1> QED
    BY <1>6, <1>7, <1>8, <1>9, <1>10 DEF KeepsForward

----------------------------------------------------------------------------
LEMMA QuietRest ==
  ASSUME NEW n \in Names, UNCHANGED <<pid, fwd>>, RowsBut(n)
  PROVE  \A m \in Names \ {n} : Quiet(m)
  BY DEF RowsBut, Quiet

LEMMA RunForwards ==
  ASSUME NEW r, NEW n, Works(r, n), Roles, LiveInv, RunStep(r)
  PROVE  KeepsForward(r, n)
  <1> USE WorksFacts
  <1>1. Making(r, n)
    BY DEF Works, Roles, Role, RunPcs, RunStep, RunJoinQueue, RunCheck, RunDangling,
           RunInsert, RunCreate, RunRecord, RunProvisionFails, RunFinalize,
           RunCleanBox, RunCleanDb, Admitted, Making, MakingPcs, Ahead, Sealed
  <1>2. fwd' = fwd
    BY DEF RunStep, RunJoinQueue, RunCheck, RunDangling, RunInsert, RunCreate,
           RunRecord, RunProvisionFails, RunFinalize, RunCleanBox, RunCleanDb
  <1>3. RowsBut(n) /\ \A m \in Names \ {n} : pid'[m] = pid[m]
    <2>1. CASE \/ RunJoinQueue(r) \/ RunCheck(r) \/ RunDangling(r) \/ RunCreate(r)
               \/ RunProvisionFails(r) \/ RunCleanBox(r)
      BY <2>1 DEF RunJoinQueue, RunCheck, RunDangling, RunCreate, RunProvisionFails,
                  RunCleanBox, db, RowsBut
    <2>2. CASE RunInsert(r) \/ RunRecord(r) \/ RunFinalize(r)
      BY <2>2 DEF RunInsert, RunRecord, RunFinalize, SetStatus, db, RowsBut, TypeOK
    <2>3. CASE RunCleanDb(r)
      BY <2>3 DEF RunCleanDb, DeleteRow, RowsBut, TypeOK
    <2> QED
      BY <2>1, <2>2, <2>3 DEF RunStep
  <1>4. ~Token(r, n)' /\ ~Binding(r, n)'
    <2>1. \/ Finish(r)
          \/ \E pc \in {"waiting"} \union RunPcs : Goto(r, pc)
          \/ \E c : req' = [req EXCEPT ![r].pc = "record", ![r].cid = c]
          \/ \E c : req' = [req EXCEPT ![r].pc = "cleanBox", ![r].cid = c]
      BY DEF RunStep, RunPcs, RunJoinQueue, RunCheck, RunDangling, RunInsert,
             RunCreate, RunRecord, RunProvisionFails, RunFinalize, RunCleanBox, RunCleanDb
    <2>2. req'[r].pc \in {"idle", "waiting"} \union RunPcs
      <3>1. CASE Finish(r)
        BY <3>1, FinishMoves DEF Gone, Idle
      <3>2. CASE \E pc \in {"waiting"} \union RunPcs : Goto(r, pc)
        <4>1. PICK pc \in {"waiting"} \union RunPcs : Goto(r, pc)
          BY <3>2
        <4>2. req'[r].pc = pc
          BY <4>1, GotoMoves DEF MovedTo
        <4> QED
          BY <4>1, <4>2
      <3>3. ASSUME NEW c, req' = [req EXCEPT ![r].pc = "record", ![r].cid = c]
            PROVE  req'[r].pc = "record"
        BY <3>3, CreateMoves
      <3>4. ASSUME NEW c, req' = [req EXCEPT ![r].pc = "cleanBox", ![r].cid = c]
            PROVE  req'[r].pc = "cleanBox"
        BY <3>4, CreateMoves
      <3>5. req'[r].pc \in {"record", "cleanBox"}
              \/ Finish(r) \/ \E pc \in {"waiting"} \union RunPcs : Goto(r, pc)
        BY <2>1, <3>3, <3>4
      <3> QED
        BY <3>1, <3>2, <3>5 DEF RunPcs
    <2> QED
      BY <2>2 DEF Token, Binding, RunPcs
  <1> QED
    BY <1>1, <1>2, <1>3, <1>4 DEF KeepsForward, Quiet, Makes, RowsBut

LEMMA AssignForwards ==
  ASSUME NEW r, NEW n, Works(r, n), Roles, AssignStep(r)
  PROVE  KeepsForward(r, n)
  <1> USE WorksFacts
  <1>1. UNCHANGED <<pid, fwd>> /\ Role(r)
    BY DEF Roles, AssignStep, AssignBegin, UnassignBegin, AssignBox, AssignFails,
           AssignDb, db
  <1>2. ASSUME RowsBut(n), Begins(r, n) \/ Returns(r, n)
        PROVE  KeepsForward(r, n)
    BY <1>1, <1>2, QuietRest DEF KeepsForward
  <1>3. ASSUME row' = row,
               \/ Gone(r)
               \/ req[r].pc = "assignBox" /\ MovedTo(r, "assignDb")
        PROVE  KeepsForward(r, n)
    <2>1. /\ Token(r, n)' => Token(r, n) /\ req'[r].seen = req[r].seen
          /\ ~Binding(r, n)'
      BY <1>3 DEF Gone, Idle, MovedTo, Token, Binding
    <2> QED
      BY <1>1, <1>3, <2>1 DEF KeepsForward, Quiet
  <1>4. CASE AssignBegin(r) \/ UnassignBegin(r)
    <2>1. DbFree /\ ~Token(r, n)
      BY <1>4 DEF AssignBegin, UnassignBegin, Admitted, Token
    <2>2. CASE row' = row /\ Finish(r)
      BY <1>3, <2>2, FinishMoves
    <2>3. CASE /\ Is(n, CanAssign)
               /\ row' = SetStatus(n, "Assigning") \/ row' = SetStatus(n, "Unassigning")
               /\ Finish(r) \/ Remember(r, "assignBox")
      <3>1. \E s \in {"Assigning", "Unassigning"} : RowSet(n, s)
        BY <2>3, SetMoves, Statuses DEF Is, Transitional
      <3>2. ReadAt(r, n, "assignBox") \/ Gone(r)
        BY <2>3, FinishMoves, RememberMoves
      <3> QED
        BY <1>1, <1>2, <2>1, <2>3, <3>1, <3>2 DEF Begins, RowSet
    <2> QED
      BY <1>4, <2>2, <2>3 DEF AssignBegin, UnassignBegin
  <1>5. CASE AssignBox(r)
    BY <1>3, <1>5, GotoMoves DEF AssignBox, db
  <1>6. CASE AssignFails(r) \/ AssignDb(r)
    <2>1. Gone(r) /\ req[r].pc \in {"assignBox", "assignDb"}
      BY <1>6, FinishMoves DEF AssignFails, AssignDb
    <2>2. req[r].seen \in Status /\ After(req[r].seen) \in Status
      BY <1>1, <2>1, Statuses DEF Role, After, CanAssign
    <2>3. CASE row' = row
      BY <1>3, <2>1, <2>3
    <2>4. CASE row' # row
      <3>1. DbFree /\ (row' = TrySetStatus(n, req[r].seen)
                         \/ row' = TrySetStatus(n, After(req[r].seen)))
        BY <1>6, <2>4 DEF AssignFails, AssignDb, Revert
      <3>2. RowSet(n, req[r].seen) \/ RowSet(n, After(req[r].seen))
        BY <2>2, <2>4, <3>1, TrySetMoves
      <3> QED
        BY <1>1, <1>2, <2>1, <3>1, <3>2 DEF Returns, RowSet
    <2> QED
      BY <2>3, <2>4
  <1> QED
    BY <1>4, <1>5, <1>6 DEF AssignStep

\* A checkout kills every forwarder of the instances it clears, because every
\* one of them is recorded.
LEMMA ClearForwards ==
  ASSUME NEW r, NEW n, Works(r, n), Roles, LiveInv, ForwardInv, CheckoutClear(r)
  PROVE  ForwardInv'
  <1> USE WorksFacts
  <1>1. DbFree /\ IInv /\ Others(r)
    <2>1. Gone(r) \/ ReadAt(r, n, "bind")
      BY FinishMoves, RememberMoves DEF CheckoutClear
    <2> QED
      BY <2>1 DEF CheckoutClear, Works, Gone, ReadAt
  <1>2. ASSUME NEW m \in Names, ~Is(m, {"CheckedOut"}) PROVE Quiet(m)
    <2>1. row'[m] = row[m]
      BY <1>2, ClearMoves
    <2>2. pid'[m] = pid[m]
      BY <1>2 DEF CheckoutClear, CheckedOut
    <2>3. \A p \in Ports : fwd'[p] = m => fwd[p] = m
      BY ConstantsOK DEF CheckoutClear, KillRecorded
    <2> QED
      BY <2>1, <2>2, <2>3 DEF Quiet
  <1>3. ASSUME NEW m \in Names, Is(m, {"CheckedOut"})
        PROVE  Unbound(m)' /\ Is(m, {"Running"})' /\ \A s \in Reqs : ~Token(s, m)
    <2>1. Is(m, {"Running"})'
      BY <1>3, ClearMoves DEF Is, Exists
    <2>2. \A p \in Ports : fwd[p] = m => p \in pid[m]
      BY DEF ForwardInv, Recorded, Unbound
    <2>3. Unbound(m)'
      <3> SUFFICES ASSUME NEW p \in Ports, fwd'[p] = m PROVE FALSE
        BY DEF Unbound
      <3>1. fwd[p] = m /\ m \in CheckedOut
        BY <1>3, ConstantsOK DEF CheckoutClear, KillRecorded, CheckedOut
      <3>2. fwd'[p] = None
        BY <2>2, <3>1 DEF CheckoutClear, KillRecorded
      <3> QED
        BY <3>2, ConstantsOK
    <2>4. \A s \in Reqs : ~Token(s, m)
      BY <1>3 DEF ForwardInv, Tokens, Is, AtRest
    <2> QED
      BY <2>1, <2>3, <2>4
  <1>4. ASSUME NEW s \in Reqs, NEW m \in Names
        PROVE  /\ Token(s, m)' => Token(s, m) /\ req'[s].seen = req[s].seen
               /\ Binding(s, m)' => Is(m, {"Running"})'
    <2>1. CASE s = r
      <3>1. CASE Finish(r)
        BY <2>1, <3>1, FinishMoves DEF Gone, Idle, Token, Binding
      <3>2. CASE Remember(r, "bind") /\ Is(n, {"Running", "CheckedOut"})
        <4>1. ReadAt(r, n, "bind")
          BY <3>2, RememberMoves
        <4>2. Is(n, {"Running"})'
          BY <1>2, <1>3, <3>2 DEF Quiet, Is, Exists
        <4> QED
          BY <2>1, <4>1, <4>2 DEF ReadAt, Token, Binding
      <3> QED
        BY <3>1, <3>2 DEF CheckoutClear, Works
    <2>2. CASE s # r
      <3>1. ~Binding(s, m)
        BY <1>1, <2>2, NobodyBinds
      <3> QED
        BY <1>1, <2>2, <3>1 DEF Others, Token, Binding
    <2> QED
      BY <2>1, <2>2
  <1>5. ASSUME NEW m \in Names PROVE Recorded(m)'
    <2>1. CASE Is(m, {"CheckedOut"})
      BY <1>3, <2>1 DEF Recorded
    <2>2. CASE ~Is(m, {"CheckedOut"})
      <3>1. Recorded(m)
        BY DEF ForwardInv
      <3> QED
        BY <1>2, <2>2, <3>1 DEF Recorded, Unbound, Quiet, Is, Exists
    <2> QED
      BY <2>1, <2>2
  <1>6. ASSUME NEW m \in Names, NEW s \in Reqs PROVE Tokens(s, m)'
    <2>1. Tokens(s, m)
      BY DEF ForwardInv
    <2>2. Token(s, m)' => \A t \in Reqs \ {s} : ~Token(t, m)'
      BY <1>4, <2>1 DEF Tokens
    <2>3. Token(s, m)' => ~Is(m, {"CheckedOut"})
      BY <1>3, <1>4
    <2>4. Token(s, m)' => ~Is(m, AtRest)' /\ (req'[s].seen # "CheckedOut" => Unbound(m)')
      BY <1>2, <1>4, <2>1, <2>3 DEF Tokens, Unbound, Quiet, Is, Exists
    <2> QED
      BY <1>4, <2>2, <2>4 DEF Tokens
  <1> QED
    BY <1>5, <1>6 DEF ForwardInv

LEMMA EndForwards ==
  ASSUME NEW r, NEW n, Works(r, n), CheckoutBind(r) \/ CheckoutFails(r)
  PROVE  KeepsForward(r, n)
  <1> USE WorksFacts
  <1>1. Binding(r, n) /\ Gone(r)
    BY FinishMoves DEF CheckoutBind, CheckoutFails, Binding
  <1>2. CASE CheckoutBind(r)
    <2>1. Exists(n)
      BY <1>2 DEF CheckoutBind, Works, IInv, TargetHeld
    <2>2. RowSet(n, "CheckedOut")
      BY <1>2, <2>1, SetMoves, Statuses DEF CheckoutBind
    <2>3. /\ pid'[n] = alloc[n] /\ \A m \in Names \ {n} : pid'[m] = pid[m]
          /\ \A p \in Ports : fwd'[p] = IF p \in alloc[n] THEN n ELSE fwd[p]
      BY <1>2 DEF CheckoutBind, TypeOK
    <2> QED
      BY <1>1, <2>2, <2>3 DEF KeepsForward, Binds, Quiet, RowSet, RowsBut
  <1>3. CASE CheckoutFails(r)
    <2>1. /\ row' = row /\ fwd' = fwd
          /\ \A m \in Names \ {n} : pid'[m] = pid[m]
      BY <1>3 DEF CheckoutFails, TypeOK
    <2> QED
      BY <1>1, <2>1 DEF KeepsForward, Binds, Quiet
  <1> QED
    BY <1>2, <1>3

LEMMA ForwardNext ==
  ASSUME IInv, Serialized, Roles, LiveInv, ForwardInv, NothingStops, [Next]_vars
  PROVE  ForwardInv'
  <1> TypeOK
    BY DEF IInv
  <1>1. ASSUME NEW r \in Reqs, Step(r) PROVE ForwardInv'
    <2>1. PICK n \in Names : Works(r, n)
      BY <1>1, StepWorks
    <2>2. Others(r) /\ req[r].name = n
      BY <1>1, <2>1, StepRole DEF Roles, Works
    <2>3. req'[r].pc = "idle" \/ req'[r].name = n
      BY <1>1, <2>1, StepName
    <2>4. CASE CheckoutClear(r)
      BY <2>1, <2>4, ClearForwards
    <2>5. CASE ~CheckoutClear(r)
      <3>1. KeepsForward(r, n)
        BY <1>1, <2>1, <2>5, NothingElse, RunForwards, AssignForwards, EndForwards
        DEF Roles, CheckoutStep
      <3> QED
        BY <2>2, <2>3, <3>1, KeepsForwardInv
    <2> QED
      BY <2>4, <2>5
  <1>2. ASSUME NEW r \in Reqs, NEW op \in Entry, NEW n \in Names, Submit(r, op, n)
        PROVE  ForwardInv'
    <2>1. /\ Others(r) /\ UNCHANGED <<row, pid, fwd>> /\ req[r].pc = "idle"
          /\ req'[r].name = n /\ req'[r].pc = "waiting"
      BY <1>2, ArrivalMoves DEF Submit, db
    <2>2. KeepsForward(r, n)
      BY <2>1 DEF KeepsForward, Quiet, Token, Binding
    <2> QED
      BY <2>1, <2>2, KeepsForwardInv
  <1>3. ASSUME NEW r \in Reqs, NEW n \in Names, SubmitRun(r, n)
        PROVE  ForwardInv'
    <2>1. "run" \in Entry /\ req[r].pc = "idle"
      BY <1>3 DEF SubmitRun
    <2>2. /\ Others(r) /\ ~Exists(n) /\ RowFresh(n, "Enqueued") /\ UNCHANGED <<pid, fwd>>
          /\ req'[r].name = n /\ req'[r].pc = "arrived"
      BY <1>3, <2>1, ArrivalMoves
    <2>3. KeepsForward(r, n)
      BY <2>2, QuietRest DEF KeepsForward, RowFresh, Makes, Token, Binding
    <2> QED
      BY <2>1, <2>2, <2>3, KeepsForwardInv
  <1>4. ASSUME NEW r \in Reqs, Hangup(r) PROVE ForwardInv'
    <2>1. PICK n \in Names : req[r].name = n
      BY <1>4, Serving DEF Hangup
    <2>2. Gone(r) /\ UNCHANGED <<row, pid, fwd>>
      BY <1>4, HangupMoves DEF db
    <2>3. KeepsForward(r, n)
      BY <2>2 DEF KeepsForward, Quiet, Gone, Idle, Token, Binding
    <2> QED
      BY <2>1, <2>2, <2>3, KeepsForwardInv DEF Gone, Idle
  <1>5. CASE Restart
    <2>1. ASSUME NEW n \in Names PROVE Recorded(n)'
      <3>1. CASE Unbound(n)'
        BY <3>1 DEF Recorded
      <3>2. CASE ~Unbound(n)'
        <4>1. Is(n, {"CheckedOut"}) /\ \A p \in Ports : fwd'[p] = n => p \in pid'[n]
          BY <1>5, <3>2, RestartMoves, ConstantsOK DEF Unbound
        <4>2. row'[n] = row[n]
          BY <1>5, <3>2, RestartMoves DEF Unbound
        <4> QED
          BY <4>1, <4>2 DEF Recorded, Is, Exists
      <3> QED
        BY <3>1, <3>2
    <2>2. ASSUME NEW n \in Names, NEW r \in Reqs PROVE Tokens(r, n)'
      BY <1>5, RestartMoves DEF Tokens, Token, Binding, Idle
    <2> QED
      BY <2>1, <2>2 DEF ForwardInv
  <1>6. CASE UNCHANGED vars
    BY <1>6 DEF vars, ForwardInv, Recorded, Tokens, Token, Binding, Unbound, Is, Exists
  <1> QED
    BY <1>1, <1>2, <1>3, <1>4, <1>5, <1>6 DEF Next

\* Every live forwarder is recorded as a pid of the instance it serves, which
\* is checked out or between two worktrees, also when two unassigns overlap,
\* when Docker calls fail and when coastd restarts: whoever clears or deletes
\* that instance later finds the process and kills it.
THEOREM ForwardersAreRecorded ==
  ASSUME NothingStops
  PROVE  Spec => []ForwardersAccountedFor
  <1>1. Init => ForwardInv
    BY ConstantsOK DEF Init, ForwardInv, Recorded, Unbound, Tokens, Token, Binding, Idle
  <1>2. IInv /\ Serialized /\ Roles /\ LiveInv /\ ForwardInv /\ [Next]_vars => ForwardInv'
    BY ForwardNext
  <1>3. IInv /\ ForwardInv => ForwardersAccountedFor
    <2> SUFFICES ASSUME IInv, ForwardInv, NEW p \in Ports, fwd[p] # None
                 PROVE  /\ p \in pid[fwd[p]]
                        /\ Is(fwd[p], {"CheckedOut", "Assigning", "Unassigning"})
      BY DEF ForwardersAccountedFor
    <2>1. PICK n \in Names : n = fwd[p]
      BY DEF IInv, TypeOK
    <2> QED
      BY <2>1 DEF ForwardInv, Recorded, Unbound
  <1> QED
    BY <1>1, <1>2, <1>3, LiveHolds, PTL DEF Spec
----------------------------------------------------------------------------
(* A status that says somebody is at work has somebody at work, where      *)
(* every write that takes it back can be made.                             *)

\* No crash and no client that hangs up over HTTP; and the write that reverts a
\* status, which is skipped if the mutex is taken, always finds it free: nobody
\* reads at that instant and no checkout keeps it.  autoUnassign is out
\* because without the permit it may begin from a status that somebody is
\* going to take back, and then restores that one.
RevertsWork ==
  /\ Faults \intersect {"crash", "contend"} = {}
  /\ Entry \intersect {"checkout", "autoUnassign"} = {}
  /\ "hangup" \in Faults => Entry \intersect Http = {}

SwitchPcs == {"assignBox", "assignDb"}
MakePcs   == {"create", "record"}
TendPcs   == (RunPcs \ {"autoAssign"}) \union RmPcs \union SwitchPcs
               \union {"stopBox", "stopDb", "startBox", "startDb"}

\* r will yet give n a status to rest in, or delete it; r is switching the
\* worktree of n; r will yet give the row of n a container id, or delete it.
Tends(r, n) ==
  /\ req[r].name = n
  /\ req[r].pc \in TendPcs \/ (req[r].pc = "waiting" /\ req[r].op = "run")

Switching(r, n) == req[r].name = n /\ req[r].pc \in SwitchPcs

Fills(r, n) ==
  req[r].name = n /\ req[r].op = "run" /\ req[r].pc \in Ahead \union MakePcs

Tended(n) == Is(n, Transitional) => \E r \in Reqs : Tends(r, n)

Filled(n) == Exists(n) /\ row[n].cid = None => \E r \in Reqs : Fills(r, n)

\* An instance between two worktrees is so because of a request that holds the
\* permit; or because an unassign has left it so, which did not find a container
\* id in the row, and then nobody is about to write one.
Switched(n) ==
  Is(n, {"Assigning", "Unassigning"}) =>
    \/ \E r \in Reqs : Switching(r, n)
    \/ /\ row[n].cid = None
       /\ \A r \in Reqs : req[r].name = n => req[r].pc \notin MakePcs

\* So what an assign remembers is a status to rest in.
Orderly(r) ==
  /\ req[r].pc \in SwitchPcs => req[r].op \in Gated /\ req[r].seen \in AtRest
  /\ req[r].pc = "record" => req[r].cid \in Cids

TendInv ==
  /\ DbFree
  /\ \A n \in Names : Tended(n) /\ Filled(n) /\ Switched(n)
  /\ \A r \in Reqs : Orderly(r)

\* What a step of r on n may do to n: make a new row that r will fill; write a
\* container id; write a status to rest in; write a status r will take back;
\* begin to switch; leave a row without an id to those who will fill it; or
\* pass the row by.
Raises(r, n) ==
  /\ Fills(r, n)'
  /\ row'[n].cid = None /\ row'[n].status \notin {"Assigning", "Unassigning"}

Stores(r, n) ==
  /\ Tends(r, n)'
  /\ req[r].name = n /\ req[r].pc = "record"
  /\ Exists(n) /\ row'[n].status = row[n].status /\ row'[n].cid # None

Rests(r, n) ==
  /\ ~Fills(r, n)
  /\ \E s \in AtRest \union {"Stopped"} : RowSet(n, s)

Turns(r, n) ==
  /\ ~Fills(r, n) /\ Tends(r, n)'
  /\ \E s \in {"Starting", "Stopping"} : RowSet(n, s)

Switches(r, n) ==
  /\ ~Fills(r, n) /\ Switching(r, n)'
  /\ \E s \in {"Assigning", "Unassigning"} : RowSet(n, s)

Strands(r, n) ==
  /\ ~Tends(r, n) /\ permit = r /\ Gone(r)
  /\ RowSet(n, "Unassigning") /\ row[n].cid = None

Passes(r, n) ==
  /\ row'[n] = row[n]
  /\ Tends(r, n) => Tends(r, n)'
  /\ Fills(r, n) => Fills(r, n)'
  /\ Switching(r, n) => Switching(r, n)'
  /\ req'[r].pc \in MakePcs => req[r].pc \in MakePcs /\ req[r].name = n

KeepsTended(r, n) ==
  /\ RowsBut(n) /\ Orderly(r)'
  /\ \/ ~Exists(n)'
     \/ Raises(r, n)
     \/ Stores(r, n)
     \/ Rests(r, n)
     \/ Turns(r, n)
     \/ Switches(r, n)
     \/ Strands(r, n)
     \/ Passes(r, n)

LEMMA FillsTends ==
  ASSUME NEW r, NEW n, Fills(r, n)
  PROVE  Tends(r, n)
  BY DEF Fills, Tends, Ahead, MakePcs, TendPcs, RunPcs

LEMMA SwitchingTends ==
  ASSUME NEW r, NEW n, Switching(r, n)
  PROVE  Tends(r, n) /\ ~Fills(r, n)
  BY DEF Switching, Tends, TendPcs, Fills, SwitchPcs, Ahead, MakePcs

\* Whoever is making a container, or switching a worktree, has the permit.
LEMMA MakersPermit ==
  ASSUME Serialized, Roles, NEW r \in Reqs,
         req[r].pc \in MakePcs \/ (Orderly(r) /\ req[r].pc \in SwitchPcs)
  PROVE  permit = r
  BY DEF Serialized, Roles, Role, Begun, MakePcs, SwitchPcs, RunPcs, Gated, Orderly

LEMMA KeepsTendInv ==
  ASSUME Serialized, Roles, TendInv, NEW r \in Reqs, NEW n \in Names, Others(r),
         req[r].pc = "idle" \/ req[r].name = n,
         req'[r].pc = "idle" \/ req'[r].name = n,
         DbFree', KeepsTended(r, n)
  PROVE  TendInv'
  <1>1. ASSUME NEW m \in Names, NEW s \in Reqs \ {r}
        PROVE  /\ Tends(s, m) => Tends(s, m)'
               /\ Fills(s, m) => Fills(s, m)'
               /\ Switching(s, m) => Switching(s, m)'
               /\ req'[s] = req[s]
    BY <1>1 DEF Others, Tends, Fills, Switching
  <1>2. ASSUME NEW m \in Names \ {n}
        PROVE  Tended(m)' /\ Filled(m)' /\ Switched(m)'
    <2>1. row'[m] = row[m] /\ Tended(m) /\ Filled(m) /\ Switched(m)
      BY DEF KeepsTended, RowsBut, TendInv
    <2>2. ~Tends(r, m) /\ ~Fills(r, m) /\ ~Switching(r, m)
      BY <1>2 DEF Tends, Fills, Switching, TendPcs, RunPcs, RmPcs, SwitchPcs, Ahead, MakePcs
    <2>3. req'[r].name = m => req'[r].pc \notin MakePcs
      BY <1>2 DEF MakePcs
    <2>4. Tended(m)'
      BY <1>1, <2>1, <2>2 DEF Tended, Is, Exists
    <2>5. Filled(m)'
      BY <1>1, <2>1, <2>2 DEF Filled, Exists
    <2>6. Switched(m)'
      <3>1. CASE \E s \in Reqs : Switching(s, m)
        BY <1>1, <2>2, <3>1 DEF Switched
      <3>2. CASE \A s \in Reqs : ~Switching(s, m)
        BY <1>1, <2>1, <2>3, <3>2 DEF Switched, Is, Exists
      <3> QED
        BY <3>1, <3>2
    <2> QED
      BY <2>4, <2>5, <2>6
  <1>3. ASSUME NEW s \in Reqs, Tends(s, n), ~Tends(r, n) \/ Tends(r, n)' PROVE Tended(n)'
    BY <1>1, <1>3 DEF Tended
  <1>4. ASSUME NEW s \in Reqs, Fills(s, n), ~Fills(r, n) \/ Fills(r, n)' PROVE Filled(n)'
    BY <1>1, <1>4 DEF Filled
  <1>5. Tended(n) /\ Filled(n) /\ Switched(n)
    BY DEF TendInv
  <1>6. Tended(n)' /\ Filled(n)' /\ Switched(n)'
    <2>1. CASE ~Exists(n)'
      BY <2>1 DEF Tended, Filled, Switched, Is
    <2>2. CASE Raises(r, n)
      <3>1. Tends(r, n)'
        BY <2>2 DEF Raises, Fills, Tends, Ahead, MakePcs, TendPcs, RunPcs
      <3> QED
        BY <2>2, <3>1 DEF Raises, Tended, Filled, Switched, Is
    <2>3. CASE Stores(r, n)
      <3>1. Tended(n)' /\ Filled(n)'
        BY <2>3 DEF Stores, Tended, Filled
      <3>2. ASSUME Is(n, {"Assigning", "Unassigning"})'
            PROVE  \E s \in Reqs : Switching(s, n)'
        <4>1. Is(n, {"Assigning", "Unassigning"}) /\ req[r].name = n /\ req[r].pc \in MakePcs
          BY <2>3, <3>2 DEF Stores, Is, MakePcs
        <4>2. PICK s \in Reqs : Switching(s, n)
          BY <1>5, <4>1 DEF Switched
        <4>3. s # r
          BY <4>1, <4>2 DEF Switching, SwitchPcs, MakePcs
        <4> QED
          BY <1>1, <4>2, <4>3
      <3> QED
        BY <3>1, <3>2 DEF Switched
    <2>4. CASE Rests(r, n)
      <3>1. Filled(n)'
        BY <1>4, <1>5, <2>4 DEF Rests, RowSet, Filled
      <3> QED
        BY <2>4, <3>1 DEF Rests, RowSet, AtRest, Tended, Switched, Is, Transitional
    <2>5. CASE Turns(r, n)
      <3>1. Filled(n)'
        BY <1>4, <1>5, <2>5 DEF Turns, RowSet, Filled
      <3> QED
        BY <2>5, <3>1 DEF Turns, RowSet, Tended, Switched, Is
    <2>6. CASE Switches(r, n)
      <3>1. Filled(n)'
        BY <1>4, <1>5, <2>6 DEF Switches, RowSet, Filled
      <3>2. Tends(r, n)'
        BY <2>6 DEF Switches, Switching, Tends, TendPcs
      <3> QED
        BY <2>6, <3>1, <3>2 DEF Switches, Tended, Switched
    <2>7. CASE Strands(r, n)
      <3>1. PICK s \in Reqs : Fills(s, n)
        BY <1>5, <2>7 DEF Strands, RowSet, Filled
      <3>2. ~Fills(r, n) /\ Tends(s, n)
        BY <2>7, <3>1, FillsTends DEF Strands
      <3>3. Filled(n)' /\ Tended(n)'
        BY <1>3, <1>4, <2>7, <3>1, <3>2 DEF Strands
      <3>4. ASSUME NEW t \in Reqs, req'[t].name = n PROVE req'[t].pc \notin MakePcs
        <4>1. CASE t = r
          BY <2>7, <4>1 DEF Strands, Gone, Idle, MakePcs
        <4>2. CASE t # r
          BY <1>1, <2>7, <4>2, MakersPermit DEF Strands
        <4> QED
          BY <4>1, <4>2
      <3>5. row'[n].cid = None
        BY <2>7 DEF Strands, RowSet
      <3> QED
        BY <3>3, <3>4, <3>5 DEF Switched
    <2>8. CASE Passes(r, n)
      <3>1. row'[n] = row[n]
        BY <2>8 DEF Passes
      <3>2. Tended(n)'
        BY <1>3, <1>5, <2>8, <3>1 DEF Passes, Tended, Is, Exists
      <3>3. Filled(n)'
        BY <1>4, <1>5, <2>8, <3>1 DEF Passes, Filled, Exists
      <3>4. Switched(n)'
        <4>1. CASE \E s \in Reqs : Switching(s, n)
          BY <1>1, <2>8, <4>1 DEF Switched, Passes
        <4>2. CASE \A s \in Reqs : ~Switching(s, n)
          BY <1>1, <1>5, <2>8, <3>1, <4>2 DEF Switched, Passes, Is, Exists
        <4> QED
          BY <4>1, <4>2
      <3> QED
        BY <3>2, <3>3, <3>4
    <2> QED
      BY <2>1, <2>2, <2>3, <2>4, <2>5, <2>6, <2>7, <2>8 DEF KeepsTended
  <1>7. ASSUME NEW s \in Reqs PROVE Orderly(s)'
    BY <1>1 DEF KeepsTended, TendInv, Orderly, Others
  <1> QED
    BY <1>2, <1>6, <1>7 DEF TendInv

LEMMA CreatesWith ==
  ASSUME NEW r, NEW n, Works(r, n),
         \E pc \in {"record", "cleanBox"}, c \in Cids :
            req' = [req EXCEPT ![r].pc = pc, ![r].cid = c]
  PROVE  /\ req'[r].op = req[r].op /\ req'[r].name = n
         /\ req'[r].pc \in {"record", "cleanBox"} /\ req'[r].cid \in Cids
  <1>1. PICK pc \in {"record", "cleanBox"}, c \in Cids :
           req' = [req EXCEPT ![r].pc = pc, ![r].cid = c]
    OBVIOUS
  <1>2. req[r] \in Request /\ TypeOK /\ r \in Reqs /\ req[r].name = n
    BY WorksFacts
  <1>3. req'[r] = [req[r] EXCEPT !.pc = pc, !.cid = c]
    BY <1>1, <1>2 DEF TypeOK
  <1> QED
    BY <1>2, <1>3 DEF Request

LEMMA RunTends ==
  ASSUME NEW r, NEW n, Works(r, n), Role(r), Orderly(r), RunStep(r)
  PROVE  KeepsTended(r, n)
  <1> USE WorksFacts
  <1>0. req[r].op = "run" /\ req[r].pc \notin SwitchPcs
    BY DEF Role, RunPcs, RunStep, RunJoinQueue, RunCheck, RunDangling, RunInsert,
           RunCreate, RunRecord, RunProvisionFails, RunFinalize, RunCleanBox,
           RunCleanDb, Admitted, SwitchPcs
  <1>1. ASSUME row' = row, NEW pc \in Ahead, MovedTo(r, pc)
        PROVE  KeepsTended(r, n)
    <2>1. Fills(r, n)' /\ Orderly(r)'
      BY <1>0, <1>1 DEF MovedTo, Fills, Orderly, Ahead, SwitchPcs
    <2>2. Tends(r, n)' /\ req'[r].pc \notin MakePcs
      BY <1>0, <1>1 DEF MovedTo, Tends, Ahead, MakePcs, TendPcs, RunPcs
    <2>3. Passes(r, n)
      BY <1>0, <1>1, <2>1, <2>2 DEF Passes, Switching
    <2> QED
      BY <1>1, <2>1, <2>3 DEF KeepsTended, RowsBut
  <1>2. CASE \/ RunJoinQueue(r) \/ RunDangling(r) \/ RunProvisionFails(r)
             \/ RunCleanBox(r)
    <2>1. row' = row /\ \E pc \in Ahead : MovedTo(r, pc)
      BY <1>2, GotoMoves DEF RunJoinQueue, RunDangling, RunProvisionFails,
                             RunCleanBox, Ahead, db
    <2> QED
      BY <1>1, <2>1
  <1>3. CASE RunCheck(r)
    <2>1. CASE Exists(n)
      BY <1>1, <1>3, <2>1, GotoMoves DEF RunCheck, Ahead, db
    <2>2. CASE ~Exists(n)
      <3>1. row' = row /\ Gone(r)
        BY <1>3, <2>2, FinishMoves DEF RunCheck, db
      <3> QED
        BY <2>2, <3>1 DEF Gone, Idle, KeepsTended, RowsBut, Orderly, SwitchPcs, Exists
    <2> QED
      BY <2>1, <2>2
  <1>4. CASE RunInsert(r)
    <2>1. \/ RowFresh(n, "Provisioning") /\ MovedTo(r, "create")
          \/ row' = row /\ MovedTo(r, "cleanBox")
      BY <1>4, FreshMoves, GotoMoves, Statuses DEF RunInsert, db, Transitional
    <2>2. CASE RowFresh(n, "Provisioning") /\ MovedTo(r, "create")
      <3>1. Fills(r, n)' /\ Orderly(r)'
        BY <1>0, <2>2 DEF MovedTo, Fills, Orderly, MakePcs, SwitchPcs
      <3> QED
        BY <2>2, <3>1 DEF RowFresh, KeepsTended, Raises
    <2> QED
      BY <1>1, <2>1, <2>2 DEF Ahead
  <1>5. CASE RunCreate(r)
    <2>1. row' = row /\ req[r].pc \in MakePcs
      BY <1>5 DEF RunCreate, db, MakePcs
    <2>2. CASE Goto(r, "cleanBox")
      BY <1>1, <2>1, <2>2, GotoMoves DEF Ahead
    <2>3. CASE \E pc \in {"record", "cleanBox"}, c \in Cids :
                 req' = [req EXCEPT ![r].pc = pc, ![r].cid = c]
      <3>1. /\ req'[r].op = req[r].op /\ req'[r].name = n
            /\ req'[r].pc \in {"record", "cleanBox"} /\ req'[r].cid \in Cids
        BY <2>3, CreatesWith
      <3>2. Fills(r, n)' /\ Orderly(r)' /\ Tends(r, n)'
        BY <1>0, <3>1 DEF Fills, Tends, Orderly, Ahead, MakePcs, SwitchPcs, TendPcs, RunPcs
      <3> QED
        BY <1>0, <2>1, <3>2 DEF KeepsTended, RowsBut, Passes, Switching
    <2> QED
      BY <1>5, <2>2, <2>3 DEF RunCreate
  <1>6. CASE RunRecord(r)
    <2>1. CASE ~Exists(n)
      BY <1>1, <1>6, <2>1, GotoMoves DEF RunRecord, Ahead
    <2>2. CASE Exists(n)
      <3>1. MovedTo(r, "finalize") /\ req[r].pc = "record"
        BY <1>6, <2>2, GotoMoves DEF RunRecord
      <3>2. /\ RowsBut(n)
            /\ row'[n] # None /\ row'[n].status = row[n].status /\ row'[n].cid = req[r].cid
        BY <1>6, <2>2, RecordMoves DEF RunRecord
      <3>3. Tends(r, n)' /\ Orderly(r)'
        BY <3>1 DEF MovedTo, Tends, Orderly, TendPcs, RunPcs, SwitchPcs
      <3>4. Stores(r, n)
        BY <2>2, <3>1, <3>2, <3>3 DEF Stores, Orderly, Works
      <3> QED
        BY <2>2, <3>2, <3>3, <3>4 DEF KeepsTended
    <2> QED
      BY <2>1, <2>2
  <1>7. CASE RunFinalize(r)
    <2>1. CASE Goto(r, "cleanBox") /\ UNCHANGED row
      BY <1>1, <2>1, GotoMoves DEF Ahead
    <2>2. CASE /\ Exists(n) /\ \E s \in {"Running", "Idle"} : row' = SetStatus(n, s)
               /\ Finish(r) \/ Goto(r, "autoAssign")
      <3>1. \E s \in {"Running", "Idle"} : RowSet(n, s)
        BY <2>2, SetMoves, Statuses
      <3>2. Orderly(r)'
        BY <2>2, FinishMoves, GotoMoves DEF Gone, Idle, MovedTo, Orderly, SwitchPcs
      <3>3. ~Fills(r, n)
        BY <1>7 DEF RunFinalize, Fills, Ahead, MakePcs
      <3> QED
        BY <3>1, <3>2, <3>3 DEF KeepsTended, Rests, AtRest, RowSet
    <2> QED
      BY <1>7, <2>1, <2>2 DEF RunFinalize
  <1>8. CASE RunCleanDb(r)
    <2>1. RowGone(n) /\ Gone(r)
      BY <1>8, DeleteMoves, FinishMoves DEF RunCleanDb
    <2> QED
      BY <2>1 DEF RowGone, Gone, Idle, KeepsTended, Orderly, SwitchPcs, Exists
  <1> QED
    BY <1>2, <1>3, <1>4, <1>5, <1>6, <1>7, <1>8 DEF RunStep

\* The other handlers make no rows and switch no worktrees, but for assign.
LEMMA PlainTends ==
  ASSUME NEW r, NEW n, Works(r, n), ~Fills(r, n), ~Switching(r, n),
         req'[r].pc \notin SwitchPcs \union MakePcs,
         \/ RowGone(n)
         \/ row' = row /\ (~Exists(n) \/ ~Tends(r, n) \/ Tends(r, n)')
         \/ \E s \in AtRest \union {"Stopped"} : RowSet(n, s)
         \/ Tends(r, n)' /\ \E s \in {"Starting", "Stopping"} : RowSet(n, s)
  PROVE  KeepsTended(r, n)
  <1>1. Orderly(r)'
    BY DEF Orderly, MakePcs
  <1>2. CASE RowGone(n)
    BY <1>1, <1>2 DEF RowGone, KeepsTended, Exists
  <1>3. CASE row' = row /\ (~Exists(n) \/ ~Tends(r, n) \/ Tends(r, n)')
    BY <1>1, <1>3 DEF KeepsTended, RowsBut, Passes, Exists
  <1>4. CASE \E s \in AtRest \union {"Stopped"} : RowSet(n, s)
    BY <1>1, <1>4 DEF KeepsTended, Rests, RowSet
  <1>5. CASE Tends(r, n)' /\ \E s \in {"Starting", "Stopping"} : RowSet(n, s)
    BY <1>1, <1>5 DEF KeepsTended, Turns, RowSet
  <1> QED
    BY <1>2, <1>3, <1>4, <1>5

LEMMA RmTends ==
  ASSUME NEW r, NEW n, Works(r, n), Role(r), RmStep(r)
  PROVE  KeepsTended(r, n)
  <1> USE WorksFacts
  <1>1. ~Fills(r, n) /\ ~Switching(r, n)
    BY DEF Role, RmPcs, RmStep, RmRead, RmQueued, RmMark, RmBox, RmDb, Admitted,
           Fills, Switching, SwitchPcs
  <1>2. ASSUME NEW pc \in RmPcs, MovedTo(r, pc) \/ ReadAt(r, n, pc)
        PROVE  Tends(r, n)' /\ req'[r].pc \notin SwitchPcs \union MakePcs
    BY <1>2 DEF MovedTo, ReadAt, RmPcs, Tends, TendPcs, SwitchPcs, MakePcs
  <1>3. ASSUME Gone(r)
        PROVE  req'[r].pc \notin SwitchPcs \union MakePcs
    BY <1>3 DEF Gone, Idle, SwitchPcs, MakePcs
  <1>4. CASE RmRead(r)
    <2>1. row' = row
      BY <1>4 DEF RmRead, db
    <2>2. (~Exists(n) /\ Gone(r)) \/ \E pc \in RmPcs : ReadAt(r, n, pc)
      BY <1>4, FinishMoves, RememberMoves DEF RmRead, RmPcs
    <2> QED
      BY <1>1, <1>2, <1>3, <2>1, <2>2, PlainTends
  <1>5. CASE RmQueued(r) \/ RmDb(r)
    <2>1. RowGone(n) /\ Gone(r)
      BY <1>5, DeleteMoves, FinishMoves DEF RmQueued, RmDb
    <2> QED
      BY <1>1, <1>3, <2>1, PlainTends
  <1>6. CASE RmMark(r)
    <2>1. \/ row' = row /\ ~Exists(n) /\ (Gone(r) \/ MovedTo(r, "rmBox"))
          \/ (row' = row \/ RowSet(n, "Stopping")) /\ MovedTo(r, "rmBox")
      BY <1>6, SetMoves, TrySetMoves, FinishMoves, GotoMoves, Statuses
      DEF RmMark, ClearCheckedOut, Is, db, Transitional
    <2> QED
      BY <1>1, <1>2, <1>3, <2>1, PlainTends DEF RmPcs
  <1>7. CASE RmBox(r)
    <2>1. row' = row /\ MovedTo(r, "rmDb")
      BY <1>7, GotoMoves DEF RmBox, db
    <2> QED
      BY <1>1, <1>2, <2>1, PlainTends DEF RmPcs
  <1> QED
    BY <1>4, <1>5, <1>6, <1>7 DEF RmStep

LEMMA StopTends ==
  ASSUME NEW r, NEW n, Works(r, n), Role(r), StopStep(r)
  PROVE  KeepsTended(r, n)
  <1> USE WorksFacts
  <1>1. ~Fills(r, n) /\ ~Switching(r, n)
    BY DEF Role, StopStep, StopBegin, StopBox, StopDb, Admitted,
           Fills, Switching, SwitchPcs
  <1>2. ASSUME NEW pc \in {"stopBox", "stopDb"}, MovedTo(r, pc) \/ ReadAt(r, n, pc)
        PROVE  Tends(r, n)' /\ req'[r].pc \notin SwitchPcs \union MakePcs
    BY <1>2 DEF MovedTo, ReadAt, Tends, TendPcs, SwitchPcs, MakePcs
  <1>3. ASSUME Gone(r)
        PROVE  req'[r].pc \notin SwitchPcs \union MakePcs
    BY <1>3 DEF Gone, Idle, SwitchPcs, MakePcs
  <1>4. CASE StopBegin(r)
    <2>1. ~Tends(r, n)
      BY <1>4 DEF StopBegin, Admitted, Tends, TendPcs, RunPcs, RmPcs, SwitchPcs
    <2>2. \/ (row' = row \/ RowGone(n)) /\ Gone(r)
          \/ RowSet(n, "Stopping") /\ ReadAt(r, n, "stopBox")
      BY <1>4, SetMoves, DeleteMoves, FinishMoves, RememberMoves, Statuses
      DEF StopBegin, ClearCheckedOut, Is, db, Transitional
    <2> QED
      BY <1>1, <1>2, <1>3, <2>1, <2>2, PlainTends
  <1>5. CASE StopBox(r)
    <2>1. row' = row /\ MovedTo(r, "stopDb")
      BY <1>5, GotoMoves DEF StopBox, db
    <2> QED
      BY <1>1, <1>2, <2>1, PlainTends
  <1>6. CASE StopDb(r)
    <2>1. Gone(r) /\ (RowSet(n, "Stopped") \/ (~Exists(n) /\ row' = row))
      BY <1>6, TrySetMoves, FinishMoves, Statuses DEF StopDb
    <2> QED
      BY <1>1, <1>3, <2>1, PlainTends
  <1> QED
    BY <1>4, <1>5, <1>6 DEF StopStep

LEMMA RevertWrites ==
  ASSUME NEW r, NEW n, Works(r, n), DbFree, RevertsWork, NEW s \in Status, Revert(n, s)
  PROVE  RowSet(n, s) \/ (~Exists(n) /\ row' = row)
  BY WorksFacts, TrySetMoves DEF Revert, RevertsWork

LEMMA StartTends ==
  ASSUME NEW r, NEW n, Works(r, n), Role(r), DbFree, RevertsWork, StartStep(r)
  PROVE  KeepsTended(r, n)
  <1> USE WorksFacts
  <1>1. ~Fills(r, n) /\ ~Switching(r, n)
    BY DEF Role, StartStep, StartBegin, StartBox, StartFails, StartDb, Admitted,
           Fills, Switching, SwitchPcs
  <1>2. ASSUME NEW pc \in {"startBox", "startDb"}, MovedTo(r, pc) \/ ReadAt(r, n, pc)
        PROVE  Tends(r, n)' /\ req'[r].pc \notin SwitchPcs \union MakePcs
    BY <1>2 DEF MovedTo, ReadAt, Tends, TendPcs, SwitchPcs, MakePcs
  <1>3. ASSUME Gone(r)
        PROVE  req'[r].pc \notin SwitchPcs \union MakePcs
    BY <1>3 DEF Gone, Idle, SwitchPcs, MakePcs
  <1>4. CASE StartBegin(r)
    <2>1. ~Tends(r, n)
      BY <1>4 DEF StartBegin, Admitted, Tends, TendPcs, RunPcs, RmPcs, SwitchPcs
    <2>2. \/ row' = row /\ Gone(r)
          \/ RowSet(n, "Starting") /\ ReadAt(r, n, "startBox")
      BY <1>4, SetMoves, FinishMoves, RememberMoves, Statuses
      DEF StartBegin, Is, Transitional
    <2> QED
      BY <1>1, <1>2, <1>3, <2>1, <2>2, PlainTends
  <1>5. CASE StartBox(r)
    <2>1. row' = row /\ MovedTo(r, "startDb")
      BY <1>5, GotoMoves DEF StartBox, db
    <2> QED
      BY <1>1, <1>2, <2>1, PlainTends
  <1>6. CASE StartFails(r) \/ StartDb(r)
    <2>1. Gone(r)
      BY <1>6, FinishMoves DEF StartFails, StartDb
    <2>2. \/ RowSet(n, "Stopped") \/ RowSet(n, "Running")
          \/ ~Exists(n) /\ row' = row
      BY <1>6, RevertWrites, TrySetMoves, Statuses DEF StartFails, StartDb
    <2> QED
      BY <1>1, <1>3, <2>1, <2>2, PlainTends DEF AtRest
  <1> QED
    BY <1>4, <1>5, <1>6 DEF StartStep

\* What the permit holder finds when it is about to switch n is at rest: the
\* request that is switching n would have the permit as well.
LEMMA FindsRest ==
  ASSUME NEW r, NEW n, Works(r, n), Roles, TendInv, permit = r,
         req[r].pc \notin SwitchPcs, Is(n, CanAssign), HasCid(n)
  PROVE  row[n].status \in AtRest
  <1>1. ASSUME NEW s \in Reqs, Switching(s, n) PROVE FALSE
    <2>1. permit = s
      BY <1>1, MakersPermit DEF Switching, TendInv, Works
    <2> QED
      BY <1>1, <2>1 DEF Switching
  <1>2. ~Is(n, {"Assigning", "Unassigning"})
    BY <1>1, WorksFacts DEF TendInv, Switched, HasCid
  <1> QED
    BY <1>2 DEF Is, CanAssign, AtRest

LEMMA AssignTends ==
  ASSUME NEW r, NEW n, Works(r, n), Roles, Asked, TendInv, RevertsWork, AssignStep(r)
  PROVE  KeepsTended(r, n)
  <1> USE WorksFacts
  <1>1. Role(r) /\ Orderly(r) /\ DbFree
    BY DEF Roles, TendInv
  <1>2. ASSUME Gone(r) PROVE Orderly(r)' /\ req'[r].pc \notin SwitchPcs \union MakePcs
    BY <1>2 DEF Gone, Idle, Orderly, SwitchPcs, MakePcs
  <1>3. CASE AssignBegin(r) \/ UnassignBegin(r)
    <2>1. /\ req[r].op \in {"run", "assign", "unassign"} /\ req[r].pc \in {"waiting", "autoAssign"}
          /\ req[r].pc = "waiting" => req[r].op # "run"
      BY <1>1, <1>3 DEF AssignBegin, UnassignBegin, Admitted, Role, RunPcs, Asked, Works, RevertsWork
    <2>2. permit = r
      BY <1>3, <2>1 DEF AssignBegin, UnassignBegin, Admitted, Gated, Works, Serialized, Begun
    <2>3. ~Fills(r, n) /\ ~Tends(r, n) /\ ~Switching(r, n) /\ req[r].pc \notin SwitchPcs
      BY <2>1 DEF Fills, Tends, Switching, Ahead, MakePcs, TendPcs, RunPcs, RmPcs, SwitchPcs
    <2>4. CASE row' = row /\ Finish(r)
      BY <1>2, <2>3, <2>4, FinishMoves, PlainTends
    <2>5. CASE /\ Is(n, CanAssign) /\ HasCid(n) /\ Remember(r, "assignBox")
               /\ \E s \in {"Assigning", "Unassigning"} : row' = SetStatus(n, s)
      <3>1. \E s \in {"Assigning", "Unassigning"} : RowSet(n, s)
        BY <2>5, SetMoves, Statuses DEF HasCid, Transitional
      <3>2. ReadAt(r, n, "assignBox") /\ row[n].status \in AtRest
        BY <2>2, <2>3, <2>5, RememberMoves, FindsRest
      <3>3. Switching(r, n)' /\ Orderly(r)'
        BY <2>1, <3>2 DEF ReadAt, Switching, SwitchPcs, Orderly, Gated
      <3> QED
        BY <2>3, <3>1, <3>3 DEF KeepsTended, Switches, RowSet
    <2>6. CASE /\ Is(n, CanAssign) /\ row[n].cid = None /\ Finish(r)
               /\ row' = SetStatus(n, "Unassigning")
      <3>1. RowSet(n, "Unassigning") /\ Gone(r)
        BY <2>6, SetMoves, FinishMoves, Statuses DEF Is, Transitional
      <3> QED
        BY <1>2, <2>2, <2>3, <2>6, <3>1 DEF KeepsTended, Strands, RowSet
    <2>7. HasCid(n) \/ row[n].cid = None \/ ~Exists(n)
      BY DEF HasCid
    <2> QED
      BY <1>3, <2>4, <2>5, <2>6, <2>7 DEF AssignBegin, UnassignBegin, Is
  <1>4. CASE AssignBox(r)
    <2>1. row' = row /\ MovedTo(r, "assignDb") /\ req[r].pc = "assignBox"
      BY <1>4, GotoMoves DEF AssignBox, db
    <2>2. /\ Orderly(r)' /\ Switching(r, n)' /\ Tends(r, n)' /\ ~Fills(r, n)
          /\ req'[r].pc \notin MakePcs
      BY <1>1, <2>1 DEF MovedTo, Orderly, Switching, SwitchPcs, Tends, TendPcs,
                        Fills, Ahead, MakePcs
    <2> QED
      BY <2>1, <2>2 DEF KeepsTended, RowsBut, Passes
  <1>5. CASE AssignFails(r) \/ AssignDb(r)
    <2>1. Gone(r) /\ req[r].pc \in SwitchPcs
      BY <1>5, FinishMoves DEF AssignFails, AssignDb, SwitchPcs
    <2>2. req[r].seen \in AtRest /\ After(req[r].seen) \in AtRest /\ ~Fills(r, n)
      BY <1>1, <2>1 DEF Orderly, After, AtRest, Fills, SwitchPcs, Ahead, MakePcs
    <2>3. (\E s \in AtRest : RowSet(n, s)) \/ (~Exists(n) /\ row' = row)
      BY <1>1, <1>5, <2>2, RevertWrites, TrySetMoves, Statuses
      DEF AssignFails, AssignDb, AtRest
    <2> QED
      BY <1>2, <2>1, <2>2, <2>3 DEF KeepsTended, Rests, RowSet, RowsBut, Exists
  <1> QED
    BY <1>3, <1>4, <1>5 DEF AssignStep

\* Without checkouts nobody keeps the mutex, and what is left of their handler
\* is the release.
LEMMA OnlyReleases ==
  ASSUME NEW r, NEW n, Works(r, n), Role(r), RevertsWork, Step(r)
  PROVE  /\ dbLock' = dbLock \/ DbFree'
         /\ CheckoutStep(r) => CheckoutClear(r) /\ req[r].op = "release" /\ Gone(r)
  <1>1. req[r].op # "checkout"
    BY DEF Role, Works, RevertsWork
  <1>2. ASSUME CheckoutStep(r)
        PROVE  CheckoutClear(r) /\ req[r].op = "release" /\ Gone(r) /\ dbLock' = dbLock
    <2>1. CheckoutClear(r) /\ req[r].op = "release"
      BY <1>1, <1>2 DEF CheckoutStep, CheckoutClear, CheckoutBind, CheckoutFails,
                        Admitted, Role
    <2>2. Finish(r) /\ dbLock' = dbLock
      BY <2>1 DEF CheckoutClear
    <2> QED
      BY <2>1, <2>2, FinishMoves
  <1>3. ASSUME ~CheckoutStep(r) PROVE dbLock' = dbLock
    BY <1>3 DEF Step, RunStep, RmStep, StopStep, StartStep, AssignStep,
           RunJoinQueue, RunCheck, RunDangling, RunInsert, RunCreate, RunRecord,
           RunProvisionFails, RunFinalize, RunCleanBox, RunCleanDb, RmRead,
           RmQueued, RmMark, RmBox, RmDb, StopBegin, StopBox, StopDb, StartBegin,
           StartBox, StartFails, StartDb, AssignBegin, UnassignBegin, AssignBox,
           AssignFails, AssignDb
  <1> QED
    BY <1>2, <1>3

LEMMA ReleaseTends ==
  ASSUME NEW r, NEW n, Works(r, n), TendInv, DbFree',
         CheckoutClear(r), req[r].op = "release", Gone(r)
  PROVE  TendInv'
  <1> USE WorksFacts
  <1>1. ASSUME NEW m \in Names
        PROVE  /\ ~Tends(r, m) /\ ~Fills(r, m) /\ ~Switching(r, m)
               /\ req'[r].name = m => req'[r].pc \notin MakePcs
    BY DEF CheckoutClear, Admitted, Tends, Fills, Switching, TendPcs, RunPcs, RmPcs,
           SwitchPcs, Ahead, MakePcs, Gone, Idle
  <1>2. ASSUME NEW m \in Names, NEW s \in Reqs
        PROVE  /\ Tends(s, m) => Tends(s, m)'
               /\ Fills(s, m) => Fills(s, m)'
               /\ Switching(s, m) => Switching(s, m)'
               /\ req'[s].name = m /\ req'[s].pc \in MakePcs =>
                     req[s].name = m /\ req[s].pc \in MakePcs
    BY <1>1 DEF Gone, Others, Tends, Fills, Switching
  <1>3. ASSUME NEW m \in Names
        PROVE  /\ Is(m, Transitional)' => Is(m, Transitional)
               /\ Is(m, {"Assigning", "Unassigning"})' => Is(m, {"Assigning", "Unassigning"})
               /\ Exists(m)' => Exists(m) /\ row'[m].cid = row[m].cid
    BY ClearMoves DEF Is, Exists, Transitional
  <1>4. ASSUME NEW m \in Names PROVE Tended(m)' /\ Filled(m)' /\ Switched(m)'
    <2>1. Tended(m) /\ Filled(m) /\ Switched(m)
      BY DEF TendInv
    <2>2. Tended(m)'
      BY <1>2, <1>3, <2>1 DEF Tended
    <2>3. Filled(m)'
      BY <1>2, <1>3, <2>1 DEF Filled
    <2>4. Switched(m)'
      BY <1>2, <1>3, <2>1 DEF Switched, Is
    <2> QED
      BY <2>2, <2>3, <2>4
  <1>5. ASSUME NEW s \in Reqs PROVE Orderly(s)'
    BY DEF Gone, Others, Idle, TendInv, Orderly, SwitchPcs
  <1> QED
    BY <1>4, <1>5 DEF TendInv

LEMMA TendNext ==
  ASSUME IInv, Serialized, Roles, Asked, TendInv, RevertsWork, [Next]_vars
  PROVE  TendInv'
  <1> TypeOK /\ DbFree
    BY DEF IInv, TendInv
  <1>1. ASSUME NEW r \in Reqs, Step(r) PROVE TendInv'
    <2>1. PICK n \in Names : Works(r, n)
      BY <1>1, StepWorks
    <2>2. Others(r) /\ req[r].name = n /\ Role(r) /\ Orderly(r)
      BY <1>1, <2>1, StepRole DEF Roles, Works, TendInv
    <2>3. req'[r].pc = "idle" \/ req'[r].name = n
      BY <1>1, <2>1, StepName
    <2>4. DbFree'
      BY <1>1, <2>1, <2>2, OnlyReleases DEF DbFree
    <2>5. CASE CheckoutStep(r)
      BY <1>1, <2>1, <2>2, <2>4, <2>5, OnlyReleases, ReleaseTends
    <2>6. CASE ~CheckoutStep(r)
      <3>1. KeepsTended(r, n)
        BY <1>1, <2>1, <2>2, <2>6, RunTends, RmTends, StopTends, StartTends,
           AssignTends DEF Step
      <3> QED
        BY <2>2, <2>3, <2>4, <3>1, KeepsTendInv
    <2> QED
      BY <2>5, <2>6
  <1>2. ASSUME NEW r \in Reqs, NEW op \in Entry, NEW n \in Names, Submit(r, op, n)
        PROVE  TendInv'
    <2>1. /\ Others(r) /\ row' = row /\ dbLock' = dbLock /\ req[r].pc = "idle"
          /\ req'[r].name = n /\ req'[r].pc = "waiting"
      BY <1>2, ArrivalMoves DEF Submit, db
    <2>2. KeepsTended(r, n)
      BY <2>1 DEF KeepsTended, RowsBut, Passes, Orderly, Tends, Fills, Switching,
                  TendPcs, RunPcs, RmPcs, SwitchPcs, Ahead, MakePcs
    <2>3. DbFree'
      BY <2>1 DEF DbFree
    <2> QED
      BY <2>1, <2>2, <2>3, KeepsTendInv
  <1>3. ASSUME NEW r \in Reqs, NEW n \in Names, SubmitRun(r, n)
        PROVE  TendInv'
    <2>1. "run" \in Entry /\ req[r].pc = "idle" /\ dbLock' = dbLock
      BY <1>3 DEF SubmitRun
    <2>2. /\ Others(r) /\ RowFresh(n, "Enqueued")
          /\ req'[r].op = "run" /\ req'[r].name = n /\ req'[r].pc = "arrived"
      BY <1>3, <2>1, ArrivalMoves
    <2>3. KeepsTended(r, n)
      BY <2>2 DEF KeepsTended, RowFresh, Raises, Orderly, Fills, SwitchPcs, Ahead
    <2>4. DbFree'
      BY <2>1 DEF DbFree
    <2> QED
      BY <2>1, <2>2, <2>3, <2>4, KeepsTendInv
  <1>4. ASSUME NEW r \in Reqs, Hangup(r) PROVE FALSE
    <2>1. "hangup" \in Faults /\ req[r].op \in Http /\ req[r].pc # "idle"
      BY <1>4, HangupMoves DEF Hangup
    <2> QED
      BY <2>1 DEF Asked, RevertsWork
  <1>5. ~Restart
    BY DEF Restart, RevertsWork
  <1>6. CASE UNCHANGED vars
    BY <1>6 DEF vars, TendInv, DbFree, Tended, Filled, Switched, Orderly, Tends,
                Fills, Switching, Is, Exists
  <1> QED
    BY <1>1, <1>2, <1>3, <1>4, <1>5, <1>6 DEF Next

\* Where a failure can always be written down and nobody vanishes, Enqueued,
\* Provisioning, Assigning, Unassigning, Starting and Stopping never outlive the
\* request that is to end them, over the socket and over HTTP and whatever
\* fails: not even when an unassign leaves without writing a status back.
THEOREM NobodyIsLeftBehind ==
  ASSUME RevertsWork
  PROVE  Spec => []TransitionalIsOwned
  <1>1. Init => TendInv
    BY DEF Init, TendInv, DbFree, Tended, Filled, Switched, Orderly, Is, Exists, Idle,
           SwitchPcs
  <1>2. IInv /\ Serialized /\ Roles /\ Asked /\ TendInv /\ [Next]_vars => TendInv'
    BY TendNext
  <1>3. Roles /\ TendInv => TransitionalIsOwned
    <2> SUFFICES ASSUME Roles, TendInv, NEW n \in Names, Is(n, Transitional)
                 PROVE  \E r \in Reqs : WorksOn(r, n) /\ req[r].op \notin {"checkout", "release"}
      BY DEF TransitionalIsOwned
    <2>1. PICK r \in Reqs : Tends(r, n)
      BY DEF TendInv, Tended
    <2>2. Role(r) /\ Orderly(r)
      BY DEF Roles, TendInv
    <2>3. req[r].op \notin {"checkout", "release"}
      BY <2>1, <2>2 DEF Tends, TendPcs, Role, RunPcs, RmPcs, SwitchPcs, Orderly, Gated
    <2>4. WorksOn(r, n)
      BY <2>1 DEF Tends, TendPcs, RunPcs, RmPcs, SwitchPcs, WorksOn
    <2> QED
      BY <2>3, <2>4
  <1> QED
    BY <1>1, <1>2, <1>3, AskedHolds, PTL DEF Spec
=============================================================================
