----------------------------- MODULE Update_proofs -----------------------------
(***************************************************************************)
(* What prepare-for-update guarantees when preparations come one at a time *)
(* and a request is not preempted between the flag and the registry: for   *)
(* every set of operations and instances and every other fault.  And what  *)
(* updaters guarantee of the binaries, the versions and the flag, however  *)
(* many there are and whatever fails.                                      *)
(***************************************************************************)
EXTENDS SelfUpdate, TLAPS

OneAtATime == "preempt" \notin Faults /\ \A p, u \in Preps : p = u

\* The free slots are well typed.
LEMMA IdleTypes == IdleOp \in Operation /\ IdlePrep \in Preparation
  BY DEF IdleOp, IdlePrep, Operation, Preparation, OpPcs, PrepPcs, Status

LEMMA InitType == Init => TypeOK
  BY IdleTypes DEF Init, TypeOK, Status

\* A preparation that moves on and keeps or replaces what it knows.
LEMMA PrepMoves ==
  ASSUME TypeOK, NEW p \in Preps, NEW pc \in PrepPcs
  PROVE  /\ [prep EXCEPT ![p].pc = pc] \in [Preps -> Preparation]
         /\ \A b \in BOOLEAN :
              /\ [prep EXCEPT ![p].pc = pc, ![p].timedOut = b] \in [Preps -> Preparation]
              /\ [prep EXCEPT ![p].pc = pc, ![p].safe = b] \in [Preps -> Preparation]
         /\ \A S \in SUBSET StaleRow :
              [prep EXCEPT ![p].pc = pc, ![p].stale = S] \in [Preps -> Preparation]
  BY DEF TypeOK, Preparation

\* A request's step keeps every variable well typed.
LEMMA OpType ==
  ASSUME TypeOK, NEW o \in Ops, OpStep(o)
  PROVE  TypeOK'
  <1> USE DEF TypeOK, Operation, OpPcs
  <1>1. CASE OpEnter(o)
    BY <1>1 DEF OpEnter, forwarding
  <1>2. CASE OpCheck(o)
    BY <1>2 DEF OpCheck, forwarding
  <1>3. CASE OpRegister(o)
    BY <1>3 DEF OpRegister, forwarding
  <1>4. CASE OpMark(o)
    <2> PICK i \in Insts :
          /\ row' = [row EXCEPT ![i] = "Busy"]
          /\ \/ /\ op' = [op EXCEPT ![o] = [pc |-> "busy", inst |-> i, seen |-> row[i]]]
                /\ UNCHANGED <<pid, port>>
             \/ /\ op' = [op EXCEPT ![o] = [pc |-> "busy", inst |-> i, seen |-> "Running"]]
                /\ port' = Kill({pid[i]})
                /\ pid'  = [pid EXCEPT ![i] = None]
          /\ UNCHANGED <<quiescing, registry, prep>>
      BY <1>4 DEF OpMark
    <2> QED
      BY DEF Status, Kill
  <1>5. CASE OpEnd(o)
    BY <1>5 DEF OpEnd, DropGuard, IdleOp, Status
  <1>6. CASE OpCheckout(o)
    <2>1. PICK i \in Insts : OpCheckout(o)!(i)
      BY <1>6 DEF OpCheckout
    <2>2. /\ op' \in [Ops -> Operation] /\ registry' \subseteq Ops
          /\ UNCHANGED <<quiescing, prep>>
      BY <2>1, IdleTypes DEF DropGuard
    <2>3. /\ row' \in [Insts -> Status] /\ pid' \in [Insts -> Socats \union {None}]
          /\ port' \in Socats \union {None}
      BY <2>1 DEF Status, Kill, CheckedOut
    <2> QED
      BY <2>2, <2>3
  <1>7. CASE OpReturn(o) \/ OpHangup(o)
    BY <1>7 DEF OpReturn, OpHangup, DropGuard, IdleOp, Status, forwarding
  <1> QED
    BY <1>1, <1>2, <1>3, <1>4, <1>5, <1>6, <1>7 DEF OpStep

\* A preparation's step keeps every variable well typed.
LEMMA PrepType ==
  ASSUME TypeOK, NEW p \in Preps, PrepStep(p)
  PROVE  TypeOK'
  <1> USE DEF TypeOK
  <1>1. CASE PrepBegin(p) \/ PrepDrained(p)
    <2>0. PICK pc \in PrepPcs : prep' = [prep EXCEPT ![p].pc = pc]
      BY <1>1 DEF PrepBegin, PrepDrained, PrepGoto, PrepPcs
    <2>1. prep' \in [Preps -> Preparation]
      BY <2>0, PrepMoves
    <2>2. quiescing' \in BOOLEAN /\ UNCHANGED <<registry, op, row, pid, port>>
      BY <1>1 DEF PrepBegin, PrepDrained, forwarding
    <2> QED
      BY <2>1, <2>2
  <1>2. CASE PrepTimesOut(p)
    BY <1>2, PrepMoves DEF PrepTimesOut, forwarding, PrepPcs
  <1>3. CASE PrepKill(p)
    BY <1>3, PrepMoves DEF PrepKill, PrepGoto, PrepPcs
  <1>4. CASE PrepRead(p)
    <2>1. PICK S \in SUBSET {i \in Insts : pid[i] # None} :
             prep' = [prep EXCEPT ![p].pc = "clear",
                        ![p].stale = {[inst |-> i, pid |-> pid[i], seen |-> row[i]]
                                         : i \in S}]
      <3> DEFINE all == {i \in Insts : pid[i] # None /\ (row[i] # "CheckedOut" \/ pid[i] # port)}
      <3>1. all \subseteq {i \in Insts : pid[i] # None}
        OBVIOUS
      <3>2. \E S \in {all} \union
                     (IF "linger" \in Faults THEN {all \ CheckedOut} ELSE {}) :
              prep' = [prep EXCEPT ![p].pc = "clear",
                         ![p].stale = {[inst |-> i, pid |-> pid[i], seen |-> row[i]]
                                          : i \in S}]
        BY <1>4 DEF PrepRead
      <3> HIDE DEF all
      <3>3. PICK S \in {all, all \ CheckedOut} :
              prep' = [prep EXCEPT ![p].pc = "clear",
                         ![p].stale = {[inst |-> i, pid |-> pid[i], seen |-> row[i]]
                                          : i \in S}]
        BY <3>2
      <3> QED
        BY <3>1, <3>3
    <2>2. UNCHANGED <<quiescing, registry, op, row, pid, port>>
      BY <1>4 DEF PrepRead, forwarding
    <2>3. {[inst |-> i, pid |-> pid[i], seen |-> row[i]] : i \in S} \subseteq StaleRow
      BY <2>1 DEF StaleRow
    <2>4. prep' \in [Preps -> Preparation]
      BY <2>1, <2>3, PrepMoves DEF PrepPcs
    <2> QED
      BY <2>2, <2>4
  <1>5. CASE PrepClear(p)
    <2>1. prep' \in [Preps -> Preparation]
      BY <1>5, PrepMoves DEF PrepClear, PrepPcs
    <2>2. row' \in [Insts -> Status] /\ pid' \in [Insts -> Socats \union {None}]
      BY <1>5 DEF PrepClear, Status
    <2>3. port' \in Socats \union {None} /\ UNCHANGED <<quiescing, registry, op>>
      BY <1>5 DEF PrepClear, Kill
    <2> QED
      BY <2>1, <2>2, <2>3
  <1>6. CASE PrepRows(p) \/ PrepOps(p)
    <2>1. UNCHANGED <<quiescing, registry, op, row, pid, port>>
      BY <1>6 DEF PrepRows, PrepOps, forwarding
    <2>2. prep' \in [Preps -> Preparation]
      BY <1>6 DEF PrepRows, PrepOps, PrepPcs, Preparation
    <2> QED
      BY <2>1, <2>2
  <1>7. CASE PrepReturn(p)
    <2>1. \/ prep' = [prep EXCEPT ![p].pc = "promised"]
          \/ prep' = [prep EXCEPT ![p] = IdlePrep]
      BY <1>7 DEF PrepReturn, PrepGoto
    <2>2. quiescing' \in BOOLEAN /\ UNCHANGED <<registry, op, row, pid, port>>
      BY <1>7 DEF PrepReturn, forwarding
    <2>3. [prep EXCEPT ![p].pc = "promised"] \in [Preps -> Preparation]
      BY PrepMoves DEF PrepPcs
    <2>4. [prep EXCEPT ![p] = IdlePrep] \in [Preps -> Preparation]
      BY IdleTypes
    <2>5. prep' \in [Preps -> Preparation]
      BY <2>1, <2>3, <2>4
    <2> QED
      BY <2>2, <2>5
  <1> QED
    BY <1>1, <1>2, <1>3, <1>4, <1>5, <1>6, <1>7 DEF PrepStep

LEMMA RestartType ==
  ASSUME TypeOK, StartAgain
  PROVE  TypeOK'
  BY IdleTypes DEF TypeOK, StartAgain, Status, CheckedOut

LEMMA NextType == TypeOK /\ [Next]_pvars => TypeOK'
  <1> SUFFICES ASSUME TypeOK, [Next]_pvars PROVE TypeOK'
    OBVIOUS
  <1>1. ASSUME NEW p \in Preps, PrepAbandoned(p) \/ ApplyFails(p) PROVE TypeOK'
    BY <1>1, IdleTypes DEF PrepAbandoned, ApplyFails, TypeOK, forwarding
  <1>2. CASE UNCHANGED pvars
    BY <1>2 DEF pvars, TypeOK
  <1> QED
    BY <1>1, <1>2, OpType, PrepType, RestartType DEF Next, Apply, Crash

\* Every variable of the preparation keeps its type.
THEOREM PrepTypeCorrect == Spec => []TypeOK
  <1> QED
    BY InitType, NextType, PTL DEF Spec

----------------------------------------------------------------------------

LEMMA InitGate == Init => GateInv
  BY DEF Init, GateInv, IdleOp, IdlePrep

\* A request only enters while no preparation has the flag up, and marks an
\* instance only when it is in the registry.
LEMMA OpGate ==
  ASSUME TypeOK, GateInv, OneAtATime, NEW o \in Ops, OpStep(o)
  PROVE  GateInv'
  <1> USE DEF GateInv
  <1>1. CASE OpEnter(o)
    BY <1>1 DEF OpEnter, forwarding, TypeOK
  <1>2. CASE OpCheck(o) \/ OpRegister(o)
    BY <1>2 DEF OpCheck, OpRegister, OneAtATime
  <1>3. CASE OpMark(o)
    <2>1. o \in registry
      BY <1>3 DEF OpMark
    <2>2. /\ \A a \in Ops : op'[a].pc = IF a = o THEN "busy" ELSE op[a].pc
          /\ UNCHANGED <<quiescing, registry, prep>>
          /\ op[o].pc = "entered"
      BY <1>3 DEF OpMark, TypeOK
    <2> QED
      BY <2>1, <2>2
  <1>4. ASSUME DropGuard(o), UNCHANGED <<quiescing, prep>>, o \in registry
        PROVE  GateInv'
    <2>1. /\ \A a \in Ops : op'[a].pc = IF a = o THEN "idle" ELSE op[a].pc
          /\ registry' = registry \ {o}
      BY <1>4 DEF DropGuard, TypeOK, IdleOp
    <2> QED
      BY <1>4, <2>1
  <1>5. CASE OpEnd(o) \/ OpCheckout(o) \/ OpReturn(o) \/ OpHangup(o)
    <2>1. o \in registry
      BY <1>5 DEF OpEnd, OpCheckout, OpReturn, OpHangup
    <2>2. DropGuard(o) /\ UNCHANGED <<quiescing, prep>>
      BY <1>5 DEF OpEnd, OpCheckout, OpReturn, OpHangup
    <2> QED
      BY <1>4, <2>1, <2>2
  <1> QED
    BY <1>1, <1>2, <1>3, <1>5 DEF OpStep

\* The only preparation there is moves on.
LEMMA PrepGate ==
  ASSUME TypeOK, GateInv, OneAtATime, NEW p \in Preps,
         PrepStep(p) \/ PrepAbandoned(p) \/ ApplyFails(p)
  PROVE  GateInv'
  <1>0. \A u \in Preps : u = p
    BY DEF OneAtATime
  <1> USE <1>0 DEF GateInv, TypeOK, Preparation, forwarding
  <1>1. CASE PrepBegin(p)
    BY <1>1 DEF PrepBegin, PrepGoto
  <1>2. CASE PrepDrained(p) \/ PrepTimesOut(p)
    BY <1>2 DEF PrepDrained, PrepTimesOut, PrepGoto
  <1>3. CASE PrepKill(p)
    BY <1>3 DEF PrepKill, PrepGoto
  <1>4. CASE PrepRead(p)
    <2>1. /\ prep'[p].pc = "clear" /\ prep'[p].timedOut = prep[p].timedOut
          /\ prep[p].pc = "read"
          /\ UNCHANGED <<quiescing, registry, op>>
      BY <1>4 DEF PrepRead
    <2> QED
      BY <2>1
  <1>5. CASE PrepClear(p)
    <2>1. /\ prep'[p].pc = "rows" /\ prep'[p].timedOut = prep[p].timedOut
          /\ prep[p].pc = "clear"
          /\ UNCHANGED <<quiescing, registry, op>>
      BY <1>5 DEF PrepClear
    <2> QED
      BY <2>1
  <1>6. CASE PrepRows(p) \/ PrepOps(p)
    BY <1>6 DEF PrepRows, PrepOps
  <1>7. CASE PrepReturn(p)
    BY <1>7 DEF PrepReturn, PrepGoto, IdlePrep
  <1>8. CASE PrepAbandoned(p) \/ ApplyFails(p)
    BY <1>8 DEF PrepAbandoned, ApplyFails, IdlePrep
  <1> QED
    BY <1>1, <1>2, <1>3, <1>4, <1>5, <1>6, <1>7, <1>8 DEF PrepStep

LEMMA NextGate == TypeOK /\ GateInv /\ OneAtATime /\ [Next]_pvars => GateInv'
  <1> SUFFICES ASSUME TypeOK, GateInv, OneAtATime, [Next]_pvars PROVE GateInv'
    OBVIOUS
  <1>1. ASSUME StartAgain PROVE GateInv'
    BY <1>1 DEF StartAgain, GateInv, IdleOp, IdlePrep
  <1>2. CASE UNCHANGED pvars
    BY <1>2 DEF pvars, GateInv
  <1> QED
    BY <1>1, <1>2, OpGate, PrepGate DEF Next, Apply, Crash

\* Once a client has been told that the daemon is ready, no operation is under
\* way and no instance is in a transitional status.
THEOREM PromiseIsQuiet ==
  ASSUME OneAtATime
  PROVE  Spec => []QuietWhenPromised
  <1>1. TypeOK /\ GateInv => QuietWhenPromised
    BY DEF QuietWhenPromised, GateInv, Promised
  <1>2. TypeOK /\ GateInv /\ [Next]_pvars => GateInv'
    BY NextGate
  <1> QED
    BY <1>1, <1>2, InitType, NextType, InitGate, PTL DEF Spec

----------------------------------------------------------------------------
\* The preparation implements a barrier that is sealed only with nobody inside
\* and lets nobody in while it is sealed.
THEOREM ImplementsBarrier ==
  ASSUME OneAtATime
  PROVE  Spec => SealsAreKept
  <1> USE DEF Barrier!Init, Barrier!Next, Barrier!Enter, Barrier!Leave,
              Barrier!Seal, Barrier!Unseal, Barrier!Crash, Barrier!bvars
  <1>1. Init => Barrier!Init
    BY DEF Init, Promised, IdlePrep
  <1>2. ASSUME TypeOK, GateInv, [Next]_pvars PROVE [Barrier!Next]_(Barrier!bvars)
    <2>1. ASSUME NEW o \in Ops, OpStep(o) PROVE [Barrier!Next]_(Barrier!bvars)
      <3>1. Promised' = Promised
        BY <2>1 DEF OpStep, OpEnter, OpCheck, OpRegister, OpMark, OpEnd, OpCheckout,
                    OpReturn, OpHangup, Promised
      <3>2. CASE OpEnter(o)
        <4>1. ~Promised
          BY <1>2, <3>2 DEF OpEnter, Promised, GateInv
        <4>2. o \notin registry /\ registry' = registry \union {o}
          BY <1>2, <3>2 DEF OpEnter, GateInv
        <4> QED
          BY <3>1, <4>1, <4>2
      <3>3. ~OpCheck(o) /\ ~OpRegister(o)
        BY <1>2 DEF OpCheck, OpRegister, OneAtATime, GateInv
      <3>4. CASE OpMark(o)
        BY <3>1, <3>4 DEF OpMark
      <3>5. CASE OpEnd(o) \/ OpCheckout(o) \/ OpReturn(o) \/ OpHangup(o)
        <4>1. o \in registry /\ registry' = registry \ {o}
          <5>1. op[o].pc \in {"entered", "busy"} /\ DropGuard(o)
            BY <3>5 DEF OpEnd, OpCheckout, OpReturn, OpHangup
          <5> QED
            BY <1>2, <5>1 DEF DropGuard, GateInv
        <4> QED
          BY <3>1, <4>1
      <3> QED
        BY <2>1, <3>2, <3>3, <3>4, <3>5 DEF OpStep
    <2>2. ASSUME NEW p \in Preps, PrepStep(p) \/ PrepAbandoned(p) \/ ApplyFails(p)
          PROVE  [Barrier!Next]_(Barrier!bvars)
      <3>1. UNCHANGED registry
        BY <2>2 DEF PrepStep, PrepBegin, PrepDrained, PrepTimesOut, PrepKill, PrepRead,
                    PrepClear, PrepRows, PrepOps, PrepReturn, PrepAbandoned, ApplyFails
      <3>2. CASE Promised' = Promised
        BY <3>1, <3>2
      <3>3. CASE Promised /\ ~Promised'
        BY <3>1, <3>3 DEF Promised
      <3>4. CASE ~Promised /\ Promised'
        <4>1. GateInv'
          BY <1>2, <2>2, PrepGate
        <4>2. registry = {}
          BY <3>1, <3>4, <4>1 DEF GateInv, Promised
        <4> QED
          BY <3>1, <3>4, <4>2 DEF Promised
      <3> QED
        BY <3>2, <3>3, <3>4 DEF Promised
    <2>3. ASSUME StartAgain PROVE [Barrier!Next]_(Barrier!bvars)
      BY <2>3 DEF StartAgain, Promised, IdlePrep
    <2>4. CASE UNCHANGED pvars
      BY <2>4 DEF pvars, Promised
    <2> QED
      BY <1>2, <2>1, <2>2, <2>3, <2>4 DEF Next, Apply, Crash
  <1>3. TypeOK /\ GateInv /\ [Next]_pvars => GateInv'
    BY NextGate
  <1> QED
    BY <1>1, <1>2, <1>3, InitType, NextType, InitGate, PTL
       DEF Spec, SealsAreKept, Barrier!Spec

----------------------------------------------------------------------------
(* Who is checked out has the canonical port, where a preparation waits    *)
(* until the registry is empty, is not abandoned, and finds the forwarders *)
(* it has killed dead.                                                     *)

Undisturbed == OneAtATime /\ Faults \intersect {"timeout", "linger", "abandon"} = {}

Reconciling == \E p \in Preps : prep[p].pc \in {"read", "clear"}

\* o will bring an instance back to where it is checked out.
Returns(o) == op[o].pc = "busy" /\ op[o].seen = "CheckedOut"

HasPort(i) == pid[i] # None /\ (pid[i] = port \/ Reconciling)

\* No process is recorded twice; an operation has its instance to itself.
PidsApart == \A i, j \in Insts : pid[i] # None /\ pid[i] = pid[j] => i = j
OpsApart ==
    /\ \A o \in Ops : op[o].pc = "busy" => op[o].inst \in Insts /\ row[op[o].inst] = "Busy"
    /\ \A o, a \in Ops :
          op[o].pc = "busy" /\ op[a].pc = "busy" /\ op[o].inst = op[a].inst => o = a
Holders ==
    /\ \A i \in Insts : row[i] = "CheckedOut" => HasPort(i)
    /\ \A o \in Ops : Returns(o) => HasPort(op[o].inst)
KilledFirst ==
    /\ Reconciling => port = None
    /\ \A p \in Preps : prep[p].pc = "clear" =>
          \A i \in Insts : row[i] = "CheckedOut" =>
             \E e \in prep[p].stale : e.inst = i /\ e.seen = "CheckedOut"
    /\ \A p \in Preps : ~prep[p].timedOut

PortInv == PidsApart /\ OpsApart /\ Holders /\ KilledFirst

LEMMA InitPort == Init => PortInv
  BY DEF Init, PortInv, PidsApart, OpsApart, Holders, KilledFirst, Reconciling, Returns,
         HasPort, IdleOp, IdlePrep

\* While a preparation reconciles, no operation is under way.
LEMMA QuietWhileReconciling ==
  ASSUME GateInv, PortInv, Reconciling
  PROVE  \A o \in Ops : op[o].pc \notin {"entered", "busy", "checked"}
  BY DEF GateInv, PortInv, KilledFirst, Reconciling

\* A request's step while nobody reconciles leaves the preparations alone.
LEMMA OpPort ==
  ASSUME Undisturbed, TypeOK, GateInv, PortInv, NEW o \in Ops, OpStep(o)
  PROVE  PortInv'
  <1> USE DEF PortInv, PidsApart, OpsApart, Holders, KilledFirst
  <1>1. prep' = prep /\ (Reconciling' <=> Reconciling)
    BY DEF OpStep, OpEnter, OpCheck, OpRegister, OpMark, OpEnd, OpCheckout, OpReturn,
           OpHangup, Reconciling
  <1>2. ~OpCheck(o) /\ ~OpRegister(o)
    BY DEF OpCheck, OpRegister, Undisturbed, OneAtATime, GateInv
  <1>3. CASE OpEnter(o) \/ OpReturn(o) \/ OpHangup(o)
    <2>1. /\ UNCHANGED <<row, pid, port>>
          /\ op' \in [Ops -> Operation] /\ op'[o].pc # "busy"
          /\ \A a \in Ops : a # o => op'[a] = op[a]
      BY <1>3, IdleTypes DEF OpEnter, OpReturn, OpHangup, DropGuard, forwarding, TypeOK,
                             IdleOp, Operation, OpPcs
    <2>2. \A i \in Insts : HasPort(i)' <=> HasPort(i)
      BY <1>1, <2>1 DEF HasPort
    <2>3. \A a \in Ops : op'[a].pc = "busy" => a # o /\ op[a] = op'[a]
      BY <2>1
    <2>4. \A a \in Ops : Returns(a)' => Returns(a) /\ op'[a] = op[a]
      BY <2>3 DEF Returns
    <2>5. PidsApart' /\ KilledFirst'
      BY <1>1, <2>1
    <2>6. OpsApart'
      BY <2>1, <2>3
    <2>7. ASSUME NEW a \in Ops, Returns(a)' PROVE HasPort(op[a].inst)' /\ op'[a] = op[a]
      BY <2>2, <2>4, <2>7 DEF Returns
    <2>8. Holders'
      BY <2>1, <2>2, <2>7
    <2> QED
      BY <2>5, <2>6, <2>8
  <1>4. CASE OpMark(o)
    <2>0. ~Reconciling
      BY <1>4, QuietWhileReconciling DEF OpMark
    <2>1. PICK i \in Insts :
            /\ row[i] # "Busy" /\ row' = [row EXCEPT ![i] = "Busy"]
            /\ \/ /\ op' = [op EXCEPT ![o] = [pc |-> "busy", inst |-> i, seen |-> row[i]]]
                  /\ UNCHANGED <<pid, port>>
               \/ /\ op' = [op EXCEPT ![o] = [pc |-> "busy", inst |-> i, seen |-> "Running"]]
                  /\ row[i] = "CheckedOut"
                  /\ port' = Kill({pid[i]})
                  /\ pid'  = [pid EXCEPT ![i] = None]
      BY <1>4 DEF OpMark
    <2>2. /\ op'[o].pc = "busy" /\ op'[o].inst = i
          /\ \A a \in Ops : a # o => op'[a] = op[a]
          /\ \A j \in Insts : row'[j] = IF j = i THEN "Busy" ELSE row[j]
      BY <2>1 DEF TypeOK
    <2>3. \A a \in Ops : a # o /\ op[a].pc = "busy" => op[a].inst # i
      BY <2>1
    <2>4. OpsApart'
      BY <2>2, <2>3
    <2>5. CASE UNCHANGED <<pid, port>> /\ op'[o].seen = row[i]
      <3>1. \A j \in Insts : HasPort(j)' <=> HasPort(j)
        BY <1>1, <2>5 DEF HasPort
      <3>2. Holders'
        BY <2>2, <2>5, <3>1 DEF Returns
      <3> QED
        BY <1>1, <2>0, <2>4, <2>5, <3>2 DEF Reconciling
    <2>6. CASE /\ op'[o].seen = "Running" /\ row[i] = "CheckedOut"
               /\ port' = Kill({pid[i]}) /\ pid' = [pid EXCEPT ![i] = None]
      <3>1. pid[i] = port /\ port # None
        BY <2>0, <2>6 DEF HasPort
      <3>2. \A j \in Insts : j # i => ~HasPort(j)
        BY <2>0, <3>1 DEF HasPort
      <3>3. \A j \in Insts : pid'[j] = IF j = i THEN None ELSE pid[j]
        BY <2>6 DEF TypeOK
      <3>4. Holders'
        BY <2>2, <2>3, <2>6, <3>2 DEF Returns
      <3> QED
        BY <1>1, <2>0, <2>4, <3>3, <3>4 DEF Reconciling
    <2> QED
      BY <2>1, <2>5, <2>6 DEF TypeOK
  <1>5. CASE OpEnd(o)
    <2>0. ~Reconciling
      BY <1>5, QuietWhileReconciling DEF OpEnd
    <2>1. /\ op[o].pc = "busy" /\ op[o].inst \in Insts
          /\ UNCHANGED <<pid, port>>
          /\ op'[o].pc = "idle"
          /\ \A a \in Ops : a # o => op'[a] = op[a]
          /\ \A j \in Insts : row'[j] = IF j = op[o].inst THEN op[o].seen ELSE row[j]
      BY <1>5 DEF OpEnd, DropGuard, TypeOK, IdleOp
    <2>2. \A j \in Insts : HasPort(j)' <=> HasPort(j)
      BY <1>1, <2>1 DEF HasPort
    <2>3. OpsApart'
      BY <2>1
    <2>4. Holders'
      BY <2>1, <2>2 DEF Returns
    <2> QED
      BY <1>1, <2>0, <2>1, <2>3, <2>4 DEF Reconciling
  <1>6. CASE OpCheckout(o)
    <2>0. ~Reconciling
      BY <1>6, QuietWhileReconciling DEF OpCheckout
    <2>1. PICK i \in Insts : OpCheckout(o)!(i)
      BY <1>6 DEF OpCheckout
    <2> DEFINE port1 == Kill({pid[j] : j \in CheckedOut})
               pid1  == [j \in Insts |-> IF j \in CheckedOut THEN None ELSE pid[j]]
               row1  == [j \in Insts |-> IF j \in CheckedOut THEN "Running" ELSE row[j]]
    <2>2. /\ row[i] # "Busy"
          /\ \/ /\ port1 = None
                /\ \E s \in Socats :
                      /\ Fresh(s)
                      /\ port' = s
                      /\ pid'  = [pid1 EXCEPT ![i] = s]
                      /\ row'  = [row1 EXCEPT ![i] = "CheckedOut"]
             \/ /\ port1 # None
                /\ port' = port1 /\ pid' = pid1 /\ row' = row1
          /\ op' = [op EXCEPT ![o] = IdleOp]
      BY <2>1 DEF DropGuard
    <2>3. /\ op'[o].pc = "idle"
          /\ \A a \in Ops : a # o => op'[a] = op[a]
      BY <2>2 DEF TypeOK, IdleOp
    <2>4. \A j \in Insts : row[j] = "Busy" => row'[j] = "Busy"
      <3>1. row' = row1 \/ row' = [row1 EXCEPT ![i] = "CheckedOut"]
        BY <2>2
      <3>2. \A j \in Insts : row[j] = "Busy" => row1[j] = "Busy" /\ j # i
        BY <2>2 DEF CheckedOut
      <3> QED
        BY <3>1, <3>2
    <2>5. OpsApart'
      BY <2>3, <2>4
    <2>6. CASE port1 # None /\ port' = port1 /\ pid' = pid1 /\ row' = row1
      <3>1. port' = port
        BY <2>6 DEF Kill
      <3>2. \A j \in Insts : row'[j] # "CheckedOut"
        BY <2>6 DEF CheckedOut
      <3>3. \A a \in Ops : Returns(a)' => Returns(a) /\ op'[a] = op[a] /\ a # o
        BY <2>3 DEF Returns
      <3>4. \A a \in Ops : Returns(a) => op[a].inst \in Insts \ CheckedOut
        BY DEF Returns, CheckedOut
      <3>5. \A j \in Insts \ CheckedOut : HasPort(j) => HasPort(j)'
        BY <1>1, <2>6, <3>1 DEF HasPort
      <3>6. Holders'
        BY <3>2, <3>3, <3>4, <3>5
      <3>7. PidsApart'
        BY <2>6
      <3> QED
        BY <1>1, <2>0, <2>5, <3>6, <3>7 DEF Reconciling
    <2>7. CASE port1 = None /\ \E s \in Socats :
                      /\ Fresh(s)
                      /\ port' = s
                      /\ pid'  = [pid1 EXCEPT ![i] = s]
                      /\ row'  = [row1 EXCEPT ![i] = "CheckedOut"]
      <3>1. PICK s \in Socats :
                      /\ Fresh(s)
                      /\ port' = s
                      /\ pid'  = [pid1 EXCEPT ![i] = s]
                      /\ row'  = [row1 EXCEPT ![i] = "CheckedOut"]
        BY <2>7
      <3>2. /\ \A j \in Insts : pid'[j] = IF j = i THEN s
                                          ELSE IF j \in CheckedOut THEN None ELSE pid[j]
            /\ \A j \in Insts : row'[j] = "CheckedOut" => j = i
            /\ \A j \in Insts : pid[j] # s
            /\ s # None
        BY <3>1, PrepConstantsOK DEF CheckedOut, Fresh
      <3>3. PidsApart'
        BY <3>2
      <3>4. HasPort(i)'
        BY <3>1, <3>2 DEF HasPort
      <3>5. port = None \/ \E j \in CheckedOut : pid[j] = port
        BY <2>7 DEF Kill
      <3>6. \A a \in Ops : ~Returns(a)
        <4> SUFFICES ASSUME NEW a \in Ops, Returns(a) PROVE FALSE
          OBVIOUS
        <4>1. op[a].inst \in Insts /\ pid[op[a].inst] = port /\ port # None
          BY <2>0 DEF Returns, HasPort
        <4>2. PICK j \in CheckedOut : pid[j] = port
          BY <3>5, <4>1
        <4>3. j = op[a].inst
          BY <4>1, <4>2 DEF CheckedOut
        <4> QED
          BY <4>2, <4>3 DEF Returns, CheckedOut
      <3>7. \A a \in Ops : ~Returns(a)'
        BY <2>3, <3>6 DEF Returns
      <3>8. Holders'
        BY <3>2, <3>4, <3>7
      <3> QED
        BY <1>1, <2>0, <2>5, <3>3, <3>8 DEF Reconciling
    <2> QED
      BY <2>2, <2>6, <2>7
  <1> QED
    BY <1>2, <1>3, <1>4, <1>5, <1>6 DEF OpStep

\* The only preparation there is kills, reads and clears with nobody about.
LEMMA PrepPort ==
  ASSUME Undisturbed, TypeOK, GateInv, PortInv, NEW p \in Preps,
         PrepStep(p) \/ PrepAbandoned(p) \/ ApplyFails(p)
  PROVE  PortInv'
  <1>0. /\ \A u \in Preps : u = p
        /\ Reconciling <=> prep[p].pc \in {"read", "clear"}
        /\ Reconciling' <=> prep'[p].pc \in {"read", "clear"}
    BY DEF Undisturbed, OneAtATime, Reconciling
  <1>1. ~PrepAbandoned(p) /\ ~PrepTimesOut(p)
    BY DEF PrepAbandoned, PrepTimesOut, Undisturbed
  <1>2. prep[p].pc \notin {"idle", "drain"} => \A o \in Ops : op[o].pc \notin {"entered", "busy"}
    BY DEF GateInv, PortInv, KilledFirst
  <1> USE <1>0 DEF PortInv, PidsApart, OpsApart, Holders, KilledFirst
  <1>3. CASE \/ PrepBegin(p) \/ PrepDrained(p) \/ PrepRows(p) \/ PrepOps(p)
             \/ PrepReturn(p) \/ ApplyFails(p)
    <2>1. /\ prep[p].pc \notin {"read", "clear"} /\ prep'[p].pc \notin {"read", "clear"}
          /\ ~prep'[p].timedOut
          /\ UNCHANGED <<op, row, pid, port>>
      BY <1>3 DEF PrepBegin, PrepDrained, PrepRows, PrepOps, PrepReturn, ApplyFails, PrepGoto,
                  forwarding, TypeOK, Preparation, IdlePrep
    <2>2. \A i \in Insts : HasPort(i)' <=> HasPort(i)
      BY <2>1 DEF HasPort
    <2>3. Holders'
      BY <2>1, <2>2 DEF Returns
    <2> QED
      BY <2>1, <2>3
  <1>4. CASE PrepKill(p)
    <2>1. /\ prep[p].pc = "kill" /\ prep'[p].pc = "read" /\ ~prep'[p].timedOut
          /\ port' = None
          /\ UNCHANGED <<op, row, pid>>
      BY <1>4 DEF PrepKill, PrepGoto, TypeOK, Preparation
    <2>2. \A i \in Insts : HasPort(i) => HasPort(i)'
      BY <2>1 DEF HasPort
    <2>3. Holders'
      BY <2>1, <2>2 DEF Returns
    <2> QED
      BY <2>1, <2>3
  <1>5. CASE PrepRead(p)
    <2>1. /\ prep[p].pc = "read" /\ prep'[p].pc = "clear" /\ ~prep'[p].timedOut
          /\ UNCHANGED <<op, row, pid, port>>
      BY <1>5 DEF PrepRead, forwarding, TypeOK, Preparation
    <2>2. \A i \in Insts : HasPort(i) => HasPort(i)'
      BY <2>1 DEF HasPort
    <2>3. Holders'
      BY <2>1, <2>2 DEF Returns
    <2>4. prep'[p].stale =
             {[inst |-> i, pid |-> pid[i], seen |-> row[i]] :
                 i \in {j \in Insts : pid[j] # None /\ (row[j] # "CheckedOut" \/ pid[j] # port)}}
      BY <1>5 DEF PrepRead, Undisturbed, TypeOK, Preparation
    <2>5. ASSUME NEW i \in Insts, row'[i] = "CheckedOut"
          PROVE  \E e \in prep'[p].stale : e.inst = i /\ e.seen = "CheckedOut"
      <3>1. pid[i] # None /\ pid[i] # port
        BY <2>1, <2>5 DEF HasPort
      <3>2. [inst |-> i, pid |-> pid[i], seen |-> row[i]] \in prep'[p].stale
        BY <2>4, <3>1
      <3>3. row[i] = "CheckedOut"
        BY <2>1, <2>5
      <3> DEFINE e == [inst |-> i, pid |-> pid[i], seen |-> row[i]]
      <3>4. e \in prep'[p].stale /\ e.inst = i /\ e.seen = "CheckedOut"
        BY <3>2, <3>3
      <3> HIDE DEF e
      <3> QED
        BY <3>4
    <2> QED
      BY <2>1, <2>3, <2>5
  <1>6. CASE PrepClear(p)
    <2>1. /\ prep[p].pc = "clear" /\ prep'[p].pc = "rows" /\ ~prep'[p].timedOut
          /\ UNCHANGED op
          /\ \A i \in Insts : pid'[i] \in {None, pid[i]}
      BY <1>6 DEF PrepClear, TypeOK, Preparation
    <2>2. \A i \in Insts :
             row'[i] = IF i \in {e.inst : e \in {f \in prep[p].stale : f.seen = "CheckedOut"}}
                       THEN "Running" ELSE row[i]
      BY <1>6 DEF PrepClear
    <2>3. \A i \in Insts : row'[i] # "CheckedOut"
      BY <2>1, <2>2
    <2>4. \A o \in Ops : op[o].pc # "busy"
      BY <1>2, <2>1
    <2> QED
      BY <2>1, <2>3, <2>4 DEF Returns
  <1> QED
    BY <1>1, <1>3, <1>4, <1>5, <1>6 DEF PrepStep

\* coastd starts again: whoever gets the port has a process of its own.
LEMMA RestartPort ==
  ASSUME TypeOK, PortInv, StartAgain
  PROVE  PortInv'
  <1> USE DEF PortInv, PidsApart, OpsApart, Holders, KilledFirst
  <1>1. /\ \A o \in Ops : op'[o].pc = "idle"
        /\ \A p \in Preps : prep'[p].pc = "idle" /\ ~prep'[p].timedOut
    BY DEF StartAgain, IdleOp, IdlePrep
  <1>2. ~Reconciling' /\ \A o \in Ops : ~Returns(o)'
    BY <1>1 DEF Reconciling, Returns
  <1>3. CASE CheckedOut = {}
    BY <1>1, <1>2, <1>3 DEF StartAgain, CheckedOut, Reconciling
  <1>4. CASE CheckedOut # {}
    <2>1. PICK i \in CheckedOut, s \in Socats :
               /\ Fresh(s)
               /\ port' = s
               /\ pid'  = [pid EXCEPT ![i] = s]
               /\ row'  = [j \in Insts |-> IF j \in CheckedOut \ {i}
                                           THEN "Running" ELSE row[j]]
      BY <1>4 DEF StartAgain
    <2>2. /\ i \in Insts
          /\ \A j \in Insts : pid'[j] = IF j = i THEN s ELSE pid[j]
          /\ \A j \in Insts : pid[j] # s
          /\ s # None
      BY <2>1, PrepConstantsOK DEF CheckedOut, Fresh, TypeOK
    <2>3. \A j \in Insts : row'[j] = "CheckedOut" => j = i
      BY <2>1 DEF CheckedOut
    <2>4. PidsApart'
      BY <2>2
    <2>5. HasPort(i)'
      BY <2>1, <2>2 DEF HasPort
    <2> QED
      BY <1>1, <1>2, <2>3, <2>4, <2>5
  <1> QED
    BY <1>3, <1>4

LEMMA NextPort == Undisturbed /\ TypeOK /\ GateInv /\ PortInv /\ [Next]_pvars => PortInv'
  <1> SUFFICES ASSUME Undisturbed, TypeOK, GateInv, PortInv, [Next]_pvars PROVE PortInv'
    OBVIOUS
  <1>1. CASE UNCHANGED pvars
    BY <1>1 DEF pvars, PortInv, PidsApart, OpsApart, Holders, KilledFirst, Reconciling, Returns,
                HasPort
  <1> QED
    BY <1>1, OpPort, PrepPort, RestartPort DEF Next, Apply, Crash

\* reconcile_stale_checkout_state against checkout, assign and stop: outside
\* the reconciliation itself, who is checked out is who has the port; whatever
\* the docker calls do, whoever hangs up and whenever coastd dies.
THEOREM CheckedOutHasThePort ==
  ASSUME Undisturbed
  PROVE  Spec => []CheckoutHasPort
  <1>1. PortInv => CheckoutHasPort
    BY DEF PortInv, Holders, HasPort, CheckoutHasPort, Reconciling
  <1>2. TypeOK /\ GateInv /\ [Next]_pvars => GateInv'
    BY NextGate DEF Undisturbed
  <1>3. TypeOK /\ GateInv /\ PortInv /\ [Next]_pvars => PortInv'
    BY NextPort
  <1> QED
    BY <1>1, <1>2, <1>3, InitType, NextType, InitGate, InitPort, PTL DEF Spec

----------------------------------------------------------------------------
(* The updaters.                                                           *)

Updater == [pc : UpdPcs, how : {"cli", "http"}, file : Files]

LEMMA NoUpdType == NoUpd \in Updater
  BY DEF NoUpd, Updater, UpdPcs, Files

LEMMA SuInitType == SuInit => SuTypeOK
  BY InitType, NoUpdType DEF SuInit, SuTypeOK, Updater, Versions, Files

\* An updater moves on, or is done.
LEMMA UpdMoves ==
  ASSUME SuTypeOK, NEW u \in Preps
  PROVE  /\ \A pc \in UpdPcs : [upd EXCEPT ![u].pc = pc] \in [Preps -> Updater]
         /\ [upd EXCEPT ![u] = NoUpd] \in [Preps -> Updater]
         /\ \A pc \in UpdPcs : [Survivors EXCEPT ![u].pc = pc] \in [Preps -> Updater]
         /\ Survivors \in [Preps -> Updater]
  BY NoUpdType DEF SuTypeOK, Survivors, Updater

\* What giving up does to the memory of coastd and to the updater.
LEMMA FailType ==
  ASSUME SuTypeOK, NEW u \in Preps, Fail(u)
  PROVE  TypeOK' /\ upd' \in [Preps -> Updater]
  <1>1. CASE upd[u].how = "cli"
    <2>1. upd' = [upd EXCEPT ![u].pc = "kill"] /\ UNCHANGED pvars
      BY <1>1 DEF Fail, UpdTo
    <2>2. "kill" \in UpdPcs
      BY DEF UpdPcs
    <2>3. upd' \in [Preps -> Updater]
      BY <2>1, <2>2, UpdMoves
    <2> QED
      BY <2>1, <2>3 DEF SuTypeOK, TypeOK, pvars
  <1>2. CASE upd[u].how # "cli"
    BY <1>2, UpdMoves, IdleTypes DEF Fail, SuTypeOK, TypeOK, forwarding
  <1> QED
    BY <1>1, <1>2

LEMMA UpdType ==
  ASSUME SuTypeOK, NEW u \in Preps, UpdStep(u) \/ Quit(u) \/ \E how \in Hows : Ask(u, how)
  PROVE  SuTypeOK'
  <1>1. UNCHANGED pvars => TypeOK'
    BY DEF pvars, SuTypeOK, TypeOK
  <1>2. SuTypeOK <=> /\ TypeOK /\ bin \in [Files -> Versions] /\ bak \in [Files -> Versions]
                     /\ out \subseteq Files /\ alive \in Versions
                     /\ upd \in [Preps -> Updater] /\ events \subseteq {"met", "move", "quit", "exec"}
    BY DEF SuTypeOK, Updater
  <1>3. SuTypeOK' <=> /\ TypeOK' /\ bin' \in [Files -> Versions] /\ bak' \in [Files -> Versions]
                     /\ out' \subseteq Files /\ alive' \in Versions
                     /\ upd' \in [Preps -> Updater] /\ events' \subseteq {"met", "move", "quit", "exec"}
    BY DEF SuTypeOK, Updater
  <1>4. upd[u].file \in Files /\ upd[u] \in Updater
    BY <1>2 DEF Updater
  <1>5. \A pc \in UpdPcs : UpdTo(u, pc) => upd' \in [Preps -> Updater]
    BY UpdMoves DEF UpdTo
  <1>6. ASSUME NEW how \in Hows, Ask(u, how) PROVE SuTypeOK'
    <2>1. /\ UNCHANGED <<bin, bak, out, alive>>
          /\ events' \subseteq {"met", "move", "quit", "exec"}
      BY <1>2, <1>6 DEF Ask, MayMeet, Happens, disk
    <2>2. upd' \in [Preps -> Updater]
      <3>1. [NoUpd EXCEPT !.pc = "unpack"] \in Updater
        BY NoUpdType DEF Updater, UpdPcs
      <3>2. [NoUpd EXCEPT !.pc = "prep", !.how = how] \in Updater
        BY NoUpdType, SuConstantsOK DEF Updater, UpdPcs
      <3> QED
        BY <1>2, <1>6, <3>1, <3>2 DEF Ask
    <2>3. TypeOK'
      BY <1>1, <1>2, <1>6, PrepType DEF Ask, PrepStep
    <2> QED
      BY <1>2, <1>3, <2>1, <2>2, <2>3
  <1>7. CASE Answered(u)
    <2>1. upd' \in [Preps -> Updater]
      <3>1. "unpack" \in UpdPcs
        BY DEF UpdPcs
      <3>2. UpdTo(u, "unpack") \/ upd' = [upd EXCEPT ![u] = NoUpd]
        BY <1>7 DEF Answered
      <3> QED
        BY <1>5, <3>1, <3>2, UpdMoves
    <2> QED
      BY <1>1, <1>2, <1>3, <1>7, <2>1 DEF Answered, disk, MayMeet, Happens
  <1>8. CASE Unpack(u)
    <2>1. TypeOK' /\ upd' \in [Preps -> Updater]
      BY <1>1, <1>5, <1>8, FailType DEF Unpack, UpdPcs
    <2> QED
      BY <1>2, <1>3, <1>8, <2>1 DEF Unpack
  <1>9. CASE Backup(u)
    <2>1. TypeOK' /\ upd' \in [Preps -> Updater]
      BY <1>1, <1>5, <1>9, FailType DEF Backup, UpdPcs
    <2>2. bin' \in [Files -> Versions] /\ bak' \in [Files -> Versions]
      BY <1>2, <1>4, <1>9 DEF Backup, Versions
    <2> QED
      BY <1>2, <1>3, <1>9, <2>1, <2>2 DEF Backup, Happens
  <1>10. CASE Move(u)
    <2>1. TypeOK' /\ upd' \in [Preps -> Updater]
      BY <1>1, <1>5, <1>10, FailType DEF Move, UpdPcs
    <2>2. bin' \in [Files -> Versions] /\ bak' \in [Files -> Versions]
      BY <1>2, <1>4, <1>10 DEF Move, Versions
    <2> QED
      BY <1>2, <1>3, <1>10, <2>1, <2>2 DEF Move, Happens
  <1>11. CASE DropBackup(u) \/ Clean(u)
    <2>1. upd' \in [Preps -> Updater]
      BY <1>2, <1>11 DEF DropBackup, Clean, UpdTo, Updater, UpdPcs, Files
    <2>2. bin' \in [Files -> Versions] /\ bak' \in [Files -> Versions]
      BY <1>2, <1>11 DEF DropBackup, Clean, Versions
    <2> QED
      BY <1>1, <1>2, <1>3, <1>11, <2>1, <2>2 DEF DropBackup, Clean
  <1>12. CASE KillDaemon(u)
    <2>1. upd' \in [Preps -> Updater]
      <3>1. "start" \in UpdPcs
        BY DEF UpdPcs
      <3>2. upd' = [upd EXCEPT ![u] = NoUpd] \/ upd' = [Survivors EXCEPT ![u].pc = "start"]
        BY <1>12 DEF KillDaemon
      <3> QED
        BY <3>1, <3>2, UpdMoves
    <2>2. TypeOK'
      BY <1>1, <1>2, <1>12, IdleTypes DEF KillDaemon, TypeOK, forwarding
    <2> QED
      BY <1>2, <1>3, <1>12, <2>1, <2>2 DEF KillDaemon, disk, Versions
  <1>13. CASE StartDaemon(u) \/ ExecDaemon(u) \/ Quit(u)
    <2>1. upd' \in [Preps -> Updater]
      BY <1>13, UpdMoves DEF StartDaemon, ExecDaemon, Quit
    <2>2. TypeOK'
      BY <1>1, <1>2, <1>13, RestartType DEF StartDaemon, ExecDaemon, Quit
    <2>3. alive' \in Versions
      BY <1>2, <1>13 DEF StartDaemon, ExecDaemon, Quit, Files
    <2> QED
      BY <1>2, <1>3, <1>13, <2>1, <2>2, <2>3 DEF StartDaemon, ExecDaemon, Quit, disk, Happens
  <1> QED
    BY <1>6, <1>7, <1>8, <1>9, <1>10, <1>11, <1>12, <1>13 DEF UpdStep

LEMMA SuNextType == SuTypeOK /\ [SuNext]_suvars => SuTypeOK'
  <1> SUFFICES ASSUME SuTypeOK, [SuNext]_suvars PROVE SuTypeOK'
    OBVIOUS
  <1>1. CASE InDaemon
    <2>1. TypeOK'
      BY <1>1, OpType, PrepType DEF InDaemon, SuTypeOK
    <2> QED
      BY <1>1, <2>1 DEF InDaemon, SuTypeOK, disk
  <1>2. CASE UNCHANGED suvars
    BY <1>2 DEF suvars, pvars, SuTypeOK, TypeOK
  <1> QED
    BY <1>1, <1>2, UpdType DEF SuNext

\* Every variable of an update keeps its type.
THEOREM UpdateTypeCorrect == SuSpec => []SuTypeOK
  <1> QED
    BY SuInitType, SuNextType, PTL DEF SuSpec

----------------------------------------------------------------------------
(* At work on the files there is one updater, unless two have met.         *)

Working(u) == upd[u].pc \notin {"idle", "prep"}

Apart == "met" \in events \/ \A u, v \in Preps : Working(u) /\ Working(v) => u = v

\* The step of an updater leaves the others as they are, but for those of
\* coastd, which may be over.
LEMMA OthersStay ==
  ASSUME SuTypeOK, NEW u \in Preps, UpdStep(u) \/ Quit(u) \/ \E how \in Hows : Ask(u, how)
  PROVE  /\ \A v \in Preps \ {u} : upd'[v] = upd[v] \/ upd'[v] = NoUpd
         /\ events \subseteq events'
         /\ Working(u)' => Working(u) \/ MayMeet(u)
  <1>1. upd \in [Preps -> Updater]
    BY DEF SuTypeOK, Updater
  <1>2. CASE Answered(u) \/ Clean(u) \/ DropBackup(u)
    BY <1>1, <1>2 DEF Answered, Clean, DropBackup, UpdTo, On, MayMeet, Happens, Working, NoUpd
  <1>3. Fail(u) => \A v \in Preps \ {u} : upd'[v] = upd[v]
    BY <1>1 DEF Fail, UpdTo
  <1>4. CASE Unpack(u) \/ Backup(u) \/ Move(u)
    BY <1>1, <1>3, <1>4 DEF Unpack, Backup, Move, UpdTo, On, Happens, Working
  <1>5. CASE KillDaemon(u)
    BY <1>1, <1>5 DEF KillDaemon, Survivors, On, Working
  <1>6. CASE StartDaemon(u) \/ Quit(u)
    BY <1>1, <1>6 DEF StartDaemon, Quit, On, Working, Happens, NoUpd
  <1>7. CASE ExecDaemon(u)
    BY <1>1, <1>7 DEF ExecDaemon, Survivors, On, Working, Happens
  <1>8. ASSUME NEW how \in Hows, Ask(u, how)
        PROVE  /\ \A v \in Preps \ {u} : upd'[v] = upd[v] \/ upd'[v] = NoUpd
               /\ events \subseteq events'
               /\ Working(u)' => Working(u) \/ MayMeet(u)
    BY <1>1, <1>8 DEF Ask, On, MayMeet, Happens, Working, NoUpd
  <1> QED
    BY <1>2, <1>4, <1>5, <1>6, <1>7, <1>8 DEF UpdStep

\* Where a step takes an updater.
LEMMA UpdGoes ==
  ASSUME SuTypeOK, NEW u \in Preps
  PROVE  /\ \A pc : UpdTo(u, pc) =>
               /\ upd'[u].pc = pc /\ upd'[u].file = upd[u].file /\ upd'[u].how = upd[u].how
               /\ \A v \in Preps \ {u} : upd'[v] = upd[v]
         /\ upd' = [upd EXCEPT ![u] = NoUpd] =>
               /\ upd'[u].pc = "idle"
               /\ \A v \in Preps \ {u} : upd'[v] = upd[v]
         /\ upd' = [Survivors EXCEPT ![u].pc = "start"] => upd'[u].pc = "start"
         /\ Fail(u) =>
               /\ upd'[u].pc = IF upd[u].how = "cli" THEN "kill" ELSE "idle"
               /\ \A v \in Preps \ {u} : upd'[v] = upd[v]
  <1>1. upd \in [Preps -> Updater] /\ Survivors \in [Preps -> Updater]
    BY NoUpdType DEF SuTypeOK, Updater, Survivors
  <1>2. ASSUME NEW pc, UpdTo(u, pc)
        PROVE  /\ upd'[u].pc = pc /\ upd'[u].file = upd[u].file /\ upd'[u].how = upd[u].how
               /\ \A v \in Preps \ {u} : upd'[v] = upd[v]
    BY <1>1, <1>2 DEF UpdTo, Updater
  <1>3. upd' = [upd EXCEPT ![u] = NoUpd] =>
               /\ upd'[u].pc = "idle"
               /\ \A v \in Preps \ {u} : upd'[v] = upd[v]
    BY <1>1 DEF NoUpd
  <1>4. upd' = [Survivors EXCEPT ![u].pc = "start"] => upd'[u].pc = "start"
    BY <1>1 DEF Updater
  <1>5. Fail(u) =>
               /\ upd'[u].pc = IF upd[u].how = "cli" THEN "kill" ELSE "idle"
               /\ \A v \in Preps \ {u} : upd'[v] = upd[v]
    BY <1>2, <1>3 DEF Fail
  <1> QED
    BY <1>2, <1>3, <1>4, <1>5

LEMMA NextApart == SuTypeOK /\ Apart /\ [SuNext]_suvars => Apart'
  <1> SUFFICES ASSUME SuTypeOK, Apart, [SuNext]_suvars PROVE Apart'
    OBVIOUS
  <1>1. CASE InDaemon \/ UNCHANGED suvars
    BY <1>1 DEF InDaemon, suvars, Apart, Working
  <1>2. ASSUME NEW u \in Preps, UpdStep(u) \/ Quit(u) \/ \E how \in Hows : Ask(u, how),
               "met" \notin events'
        PROVE  Apart'
    <2>1. /\ \A v \in Preps \ {u} : Working(v)' => Working(v)
          /\ "met" \notin events
      BY <1>2, OthersStay DEF Working, NoUpd
    <2>2. Working(u)' => Working(u) \/ \A v \in Preps \ {u} : ~Working(v)
      BY <1>2, OthersStay DEF MayMeet, Happens, Working
    <2> QED
      BY <2>1, <2>2 DEF Apart
  <1> QED
    BY <1>1, <1>2 DEF SuNext, Apart

----------------------------------------------------------------------------
(* A binary is there, or its .old is.                                      *)

Kept ==
    /\ \A f \in Files : bin[f] # "none" \/ bak[f] # "none"
    /\ \A u \in Preps : On(u, "drop") => bin[upd[u].file] # "none"

LEMMA UpdKept ==
  ASSUME SuTypeOK, Kept, NEW u \in Preps, UpdStep(u) \/ Quit(u) \/ \E how \in Hows : Ask(u, how),
         \A v \in Preps \ {u} : ~Working(v) \/ ~Working(u)
  PROVE  Kept'
  <1>1. upd \in [Preps -> Updater] /\ upd[u].file \in Files
    BY DEF SuTypeOK, Updater
  <1>2. bin \in [Files -> Versions] /\ bak \in [Files -> Versions]
    BY DEF SuTypeOK
  <1>3. \A v \in Preps \ {u} : On(v, "drop")' => On(v, "drop") /\ upd'[v] = upd[v]
    BY OthersStay DEF On, NoUpd
  <1>4. CASE UNCHANGED <<bin, bak>> /\ ~On(u, "drop")'
    <2>1. \A v \in Preps : On(v, "drop")' => v # u
      BY <1>4
    <2>2. \A v \in Preps : On(v, "drop")' => On(v, "drop") /\ upd'[v] = upd[v]
      BY <1>3, <2>1
    <2>3. \A v \in Preps : On(v, "drop") => bin[upd[v].file] # "none"
      BY DEF Kept
    <2> QED
      BY <1>4, <2>2, <2>3 DEF Kept
  <1>5. ASSUME Working(u)
        PROVE  \A v \in Preps \ {u} : ~On(v, "drop")'
    BY <1>3, <1>5 DEF Working, On
  <1>6. Fail(u) => ~On(u, "drop")'
    BY UpdGoes DEF On
  <1>7. CASE Answered(u) \/ Unpack(u) \/ Clean(u) \/ KillDaemon(u) \/ StartDaemon(u)
             \/ ExecDaemon(u) \/ Quit(u) \/ \E how \in Hows : Ask(u, how)
    <2>1. UNCHANGED <<bin, bak>>
      BY <1>7 DEF Answered, Unpack, Clean, KillDaemon, StartDaemon, ExecDaemon, Quit, Ask, disk
    <2>2. CASE Answered(u) \/ Unpack(u) \/ Clean(u)
      BY <1>4, <1>6, UpdGoes, <2>1, <2>2 DEF Answered, Unpack, Clean, On
    <2>3. CASE KillDaemon(u) \/ StartDaemon(u) \/ Quit(u)
      BY <1>4, <2>1, <2>3, UpdGoes DEF KillDaemon, StartDaemon, Quit, On
    <2>4. CASE ExecDaemon(u) \/ \E how \in Hows : Ask(u, how)
      <3>1. ExecDaemon(u) => upd'[u].pc # "drop"
        <4>1. Survivors[u].pc \in {"idle", upd[u].pc}
          BY DEF Survivors, NoUpd
        <4> QED
          BY <4>1, UpdGoes DEF ExecDaemon, On
      <3>2. ASSUME NEW how \in Hows, Ask(u, how) PROVE upd'[u].pc # "drop"
        <4>1. upd'[u] \in {[NoUpd EXCEPT !.pc = "unpack"], [NoUpd EXCEPT !.pc = "prep", !.how = how]}
          BY <1>1, <3>2 DEF Ask
        <4> QED
          BY <4>1 DEF NoUpd
      <3> QED
        BY <1>4, <2>1, <2>4, <3>1, <3>2 DEF On
    <2> QED
      BY <1>7, <2>2, <2>3, <2>4
  <1>8. CASE Backup(u)
    <2>1. ~On(u, "drop")' /\ Working(u)
      BY <1>6, <1>8, UpdGoes DEF Backup, On, Working
    <2>2. \A f \in Files : bin'[f] # "none" \/ bak'[f] # "none"
      BY <1>1, <1>2, <1>8 DEF Backup, Kept
    <2> QED
      BY <1>5, <2>1, <2>2 DEF Kept
  <1>9. CASE Move(u)
    <2>1. Working(u)
      BY <1>9 DEF Move, On, Working
    <2>2. \A f \in Files : bin'[f] # "none" \/ bak'[f] # "none"
      BY <1>1, <1>2, <1>9 DEF Move, Kept
    <2>3. On(u, "drop")' => bin'[upd'[u].file] # "none"
      BY <1>1, <1>2, <1>6, <1>9, UpdGoes DEF Move
    <2> QED
      BY <1>5, <2>1, <2>2, <2>3 DEF Kept
  <1>10. CASE DropBackup(u)
    <2>1. On(u, "drop") /\ Working(u) /\ ~On(u, "drop")'
      BY <1>1, <1>10 DEF DropBackup, On, Working
    <2>2. \A f \in Files : bin'[f] # "none" \/ bak'[f] # "none"
      BY <1>1, <1>2, <1>10, <2>1 DEF DropBackup, Kept
    <2> QED
      BY <1>5, <2>1, <2>2 DEF Kept
  <1> QED
    BY <1>7, <1>8, <1>9, <1>10 DEF UpdStep

LEMMA NextKept ==
  ASSUME SuTypeOK, Apart, "met" \in events \/ Kept, [SuNext]_suvars
  PROVE  "met" \in events' \/ Kept'
  <1>1. CASE InDaemon \/ UNCHANGED suvars
    BY <1>1 DEF InDaemon, suvars, disk, Kept, On
  <1>2. ASSUME NEW u \in Preps, UpdStep(u) \/ Quit(u) \/ \E how \in Hows : Ask(u, how)
        PROVE  "met" \in events' \/ Kept'
    BY <1>2, OthersStay, UpdKept DEF Apart
  <1> QED
    BY <1>1, <1>2 DEF SuNext

\* replace_binary: the program can always be had back: unless two updaters
\* have met, each binary or its .old is there, whatever fails and whoever is
\* interrupted.
THEOREM ProgramIsNeverLost == SuSpec => []NothingLost
  <1>1. SuInit => Apart /\ Kept
    BY DEF SuInit, Apart, Kept, Working, On, NoUpd
  <1>2. ("met" \in events \/ Kept) => NothingLost
    BY DEF Kept, NothingLost
  <1>3. SuTypeOK /\ Apart /\ ("met" \in events \/ Kept) /\ [SuNext]_suvars
           => ("met" \in events \/ Kept)'
    BY NextKept
  <1> QED
    BY <1>1, <1>2, <1>3, SuInitType, SuNextType, NextApart, PTL DEF SuSpec

----------------------------------------------------------------------------
(* Where nothing has gone wrong, one version is installed and runs.        *)

Steady  == bin["coast"] = bin["coastd"] /\ bin["coast"] # "none"
Current == Steady /\ alive = bin["coastd"]
Replacing(u, pc, f) == On(u, pc) /\ upd[u].file = f

\* What the one updater at work has come to.
StageFits(u) ==
    /\ On(u, "unpack") => alive = bin["coastd"]
    /\ upd[u].pc \notin {"backup", "move", "drop"} => Steady
    /\ Replacing(u, "backup", "coast") => Steady
    /\ Replacing(u, "move", "coast") \/ Replacing(u, "drop", "coast") => bin["coastd"] # "none"
    /\ On(u, "drop") => bin[upd[u].file] = "new"
    /\ upd[u].pc \in {"backup", "move", "drop"} /\ upd[u].file = "coastd" => bin["coast"] = "new"
    /\ Replacing(u, "backup", "coastd") => bin["coastd"] # "none"
    /\ On(u, "start") => alive = "none"

Versioned ==
    /\ \A u \in Preps : upd[u].pc \in {"prep", "unpack"} => upd[u].file = "coast"
    /\ \A u \in Preps : Working(u) => StageFits(u)
    /\ (\A u \in Preps : ~Working(u)) => Current
    /\ alive = "none" => \E u \in Preps : On(u, "start")

\* It is enough to look at the updater that takes the step.
LEMMA OneAtWork ==
  ASSUME SuTypeOK, NEW u \in Preps, Versioned,
         \A v \in Preps \ {u} : upd'[v] = upd[v] \/ upd'[v] = NoUpd,
         \A v \in Preps \ {u} : ~Working(v),
         upd'[u].pc \in {"prep", "unpack"} => upd'[u].file = "coast",
         Working(u)' => StageFits(u)',
         ~Working(u)' => Current',
         alive' = "none" => On(u, "start")'
  PROVE  Versioned'
  <1>1. \A v \in Preps \ {u} : ~Working(v)'
    BY DEF Working, NoUpd
  <1>2. \A v \in Preps : Working(v)' => StageFits(v)'
    BY <1>1
  <1>3. \A v \in Preps : upd'[v].pc \in {"prep", "unpack"} => upd'[v].file = "coast"
    BY DEF Versioned, NoUpd
  <1>4. (\A v \in Preps : ~Working(v)') => Current'
    OBVIOUS
  <1>5. alive' = "none" => \E v \in Preps : On(v, "start")'
    OBVIOUS
  <1> QED
    BY <1>2, <1>3, <1>4, <1>5 DEF Versioned

LEMMA UpdVersioned ==
  ASSUME SuTypeOK, Apart, Versioned, NEW u \in Preps,
         UpdStep(u) \/ Quit(u) \/ \E how \in Hows : Ask(u, how),
         events = {}, events' = {}
  PROVE  Versioned'
  <1>1. upd \in [Preps -> Updater] /\ upd[u].file \in Files
    BY DEF SuTypeOK, Updater
  <1>2. bin \in [Files -> Versions] /\ bak \in [Files -> Versions]
    BY DEF SuTypeOK
  <1>3. \A v \in Preps \ {u} : upd'[v] = upd[v] \/ upd'[v] = NoUpd
    BY OthersStay
  <1>4. Working(u) => \A v \in Preps \ {u} : ~Working(v)
    BY DEF Apart
  <1>5. ~Working(u) /\ (\A v \in Preps \ {u} : ~Working(v)) => Current
    BY DEF Versioned
  <1>6. alive = "none" => ~Current /\ \A v \in Preps : Working(v) => On(v, "start")
    BY DEF Versioned, Current, Steady, Apart, Working, On
  <1>7. Working(u) => StageFits(u)
    BY DEF Versioned
  <1>8. Fail(u) => /\ ~On(u, "start")' /\ upd'[u].pc \notin {"prep", "unpack", "backup", "move", "drop"}
                   /\ Working(u)' <=> upd[u].how = "cli"
    BY UpdGoes DEF On, Working
  <1>9. CASE Answered(u) /\ UpdTo(u, "unpack")
    <2>1. /\ On(u, "prep") /\ UNCHANGED <<bin, alive>>
          /\ upd'[u].pc = "unpack" /\ upd'[u].file = upd[u].file
          /\ \A v \in Preps \ {u} : ~Working(v)
      <3>1. upd'[u].pc = "unpack" /\ upd'[u].file = upd[u].file
        BY <1>9, UpdGoes
      <3>2. MayMeet(u)
        BY <1>9, <3>1, UpdGoes DEF Answered
      <3> QED
        BY <1>9, <3>1, <3>2 DEF Answered, MayMeet, Happens, Working, disk
    <2>2. Current
      BY <1>5, <2>1 DEF Working, On
    <2>3. alive # "none"
      BY <1>6, <2>2
    <2>4. StageFits(u)' /\ ~On(u, "start")' /\ Working(u)'
      BY <2>1, <2>2 DEF StageFits, Replacing, On, Current, Steady, Working
    <2> QED
      BY <1>3, <2>1, <2>3, <2>4, OneAtWork DEF Versioned, On
  <1>10. ASSUME ~Working(u), UNCHANGED <<bin, alive>>, ~Working(u)',
                upd'[u].pc = "prep" => upd'[u].file = "coast",
                \A v \in Preps \ {u} : upd'[v] = upd[v]
         PROVE  Versioned'
    <2>1. \A v \in Preps : (Working(v)' => Working(v) /\ upd'[v] = upd[v]) /\ (Working(v) => Working(v)')
      BY <1>10 DEF Working
    <2>2. \A v \in Preps : Working(v)' => StageFits(v)'
      BY <1>10, <2>1 DEF Versioned, StageFits, Replacing, On, Steady
    <2>3. (\A v \in Preps : ~Working(v)') => Current'
      BY <1>10, <2>1 DEF Versioned, Current, Steady
    <2>4. alive' = "none" => \E v \in Preps : On(v, "start")'
      <3>1. \A v \in Preps : On(v, "start") => upd'[v] = upd[v]
        BY <1>10 DEF On, Working
      <3> QED
        BY <1>10, <3>1 DEF Versioned, On
    <2>5. \A v \in Preps : upd'[v].pc \in {"prep", "unpack"} => upd'[v].file = "coast"
      BY <1>10 DEF Versioned, Working
    <2> QED
      BY <2>2, <2>3, <2>4, <2>5 DEF Versioned
  <1>11. CASE Answered(u) /\ upd' = [upd EXCEPT ![u] = NoUpd]
    <2>1. ~Working(u) /\ UNCHANGED <<bin, alive>> /\ upd'[u].pc = "idle"
      BY <1>11, UpdGoes DEF Answered, Working, On, disk
    <2> QED
      BY <1>10, <1>11, <2>1, UpdGoes DEF Working
  <1>12. ASSUME NEW how \in Hows, Ask(u, how) PROVE Versioned'
    <2>1. ~Working(u) /\ UNCHANGED <<bin, alive>>
      BY <1>12 DEF Ask, Working, On, disk
    <2>2. alive # "none"
      <3> SUFFICES ASSUME alive = "none" PROVE FALSE
        OBVIOUS
      <3>1. PICK v \in Preps : On(v, "start")
        BY DEF Versioned
      <3>2. v # u /\ v \in Preps \ {u} /\ upd[v].pc \notin {"idle", "prep"}
        BY <2>1, <3>1 DEF On, Working
      <3>3. MayMeet(u)
        BY <1>12 DEF Ask
      <3> QED
        BY <3>2, <3>3 DEF MayMeet, Happens
    <2>3. upd' = [upd EXCEPT ![u] = [NoUpd EXCEPT !.pc = "prep", !.how = how]]
      BY <1>12, <2>2 DEF Ask
    <2>4. upd'[u].pc = "prep" /\ upd'[u].file = "coast" /\ \A v \in Preps \ {u} : upd'[v] = upd[v]
      BY <1>1, <2>3 DEF NoUpd
    <2> QED
      BY <1>10, <2>1, <2>4 DEF Working
  <1>13. CASE Unpack(u)
    <2>1. On(u, "unpack") /\ Working(u) /\ UNCHANGED <<bin, alive>>
          /\ upd[u].file = "coast" /\ Steady /\ alive = bin["coastd"]
      BY <1>7, <1>13 DEF Unpack, On, Working, StageFits, Versioned
    <2>2. CASE UpdTo(u, "backup")
      <3>1. upd'[u].pc = "backup" /\ upd'[u].file = "coast"
        BY <2>1, <2>2, UpdGoes
      <3>2. StageFits(u)' /\ Working(u)' /\ ~On(u, "start")'
        BY <2>1, <3>1 DEF StageFits, Replacing, On, Working, Steady
      <3> QED
        BY <1>3, <1>4, <2>1, <3>1, <3>2, OneAtWork DEF Steady
    <2>3. CASE Fail(u)
      <3>1. Working(u)' => StageFits(u)'
        BY <1>8, <2>1, <2>3 DEF StageFits, Replacing, On, Steady
      <3>2. Current' /\ alive' # "none"
        BY <2>1 DEF Current, Steady
      <3> QED
        BY <1>3, <1>4, <1>8, <2>1, <2>3, <3>1, <3>2, OneAtWork
    <2> QED
      BY <1>13, <2>2, <2>3 DEF Unpack
  <1>14. CASE Backup(u)
    <2>1. /\ On(u, "backup") /\ Working(u) /\ UNCHANGED alive
          /\ upd'[u].pc = "move" /\ upd'[u].file = upd[u].file
          /\ \A f \in Files : f # upd[u].file => bin'[f] = bin[f]
      BY <1>1, <1>2, <1>14, UpdGoes DEF Backup, Happens, On, Working
    <2>2. alive # "none"
      BY <1>6, <2>1 DEF On
    <2>3. StageFits(u)' /\ Working(u)' /\ ~On(u, "start")'
      BY <1>1, <1>7, <2>1 DEF StageFits, Replacing, On, Working, Steady, Files
    <2> QED
      BY <1>3, <1>4, <2>1, <2>2, <2>3, OneAtWork
  <1>15. CASE Move(u)
    <2>1. /\ On(u, "move") /\ Working(u) /\ UNCHANGED alive
          /\ upd'[u].pc = "drop" /\ upd'[u].file = upd[u].file
          /\ \A f \in Files : bin'[f] = IF f = upd[u].file THEN "new" ELSE bin[f]
      BY <1>1, <1>2, <1>15, UpdGoes DEF Move, Happens, On, Working
    <2>2. alive # "none"
      BY <1>6, <2>1 DEF On
    <2>3. StageFits(u)' /\ Working(u)' /\ ~On(u, "start")'
      BY <1>1, <1>7, <2>1 DEF StageFits, Replacing, On, Working, Steady, Files
    <2> QED
      BY <1>3, <1>4, <2>1, <2>2, <2>3, OneAtWork
  <1>16. CASE DropBackup(u)
    <2>1. /\ On(u, "drop") /\ Working(u) /\ UNCHANGED <<bin, alive>>
          /\ upd'[u].pc = IF upd[u].file = "coast" THEN "backup" ELSE "clean"
          /\ upd'[u].file = "coastd"
      BY <1>1, <1>16 DEF DropBackup, On, Working, Updater
    <2>2. alive # "none"
      BY <1>6, <2>1 DEF On
    <2>3. StageFits(u)' /\ Working(u)' /\ ~On(u, "start")'
      BY <1>1, <1>7, <2>1 DEF StageFits, Replacing, On, Working, Steady, Files
    <2> QED
      BY <1>3, <1>4, <2>1, <2>2, <2>3, OneAtWork
  <1>17. CASE Clean(u)
    <2>1. /\ On(u, "clean") /\ Working(u) /\ UNCHANGED <<bin, alive>>
          /\ upd'[u].pc \in {"kill", "exec"}
      BY <1>17, UpdGoes DEF Clean, On, Working
    <2>2. alive # "none"
      BY <1>6, <2>1 DEF On
    <2>3. StageFits(u)' /\ Working(u)' /\ ~On(u, "start")'
      BY <1>1, <1>7, <2>1 DEF StageFits, Replacing, On, Working, Steady, Files
    <2> QED
      BY <1>3, <1>4, <2>1, <2>2, <2>3, OneAtWork
  <1>18. CASE KillDaemon(u)
    <2>1. On(u, "kill") /\ Working(u) /\ UNCHANGED bin
      BY <1>18 DEF KillDaemon, On, Working, disk
    <2>2. alive # "none"
      BY <1>6, <2>1 DEF On
    <2>3. alive' = "none" /\ upd'[u].pc = "start"
      BY <1>18, <2>2, UpdGoes DEF KillDaemon
    <2>4. StageFits(u)' /\ Working(u)' /\ On(u, "start")'
      BY <1>7, <2>1, <2>3 DEF StageFits, Replacing, On, Working, Steady
    <2> QED
      BY <1>3, <1>4, <2>1, <2>3, <2>4, OneAtWork
  <1>19. CASE StartDaemon(u)
    <2>1. On(u, "start") /\ Working(u) /\ UNCHANGED bin /\ upd'[u].pc = "idle"
      BY <1>19, UpdGoes DEF StartDaemon, On, Working, disk
    <2>2. Steady /\ alive = "none"
      BY <1>7, <2>1 DEF StageFits, On
    <2>3. alive' = bin["coastd"]
      BY <1>19, <2>2 DEF StartDaemon, Steady
    <2>4. Current' /\ alive' # "none" /\ ~Working(u)'
      BY <2>1, <2>2, <2>3 DEF Current, Steady, Working
    <2> QED
      BY <1>3, <1>4, <2>1, <2>4, OneAtWork
  <1>20. CASE ExecDaemon(u)
    <2>1. On(u, "exec") /\ Working(u) /\ UNCHANGED bin /\ alive' = bin["coastd"] /\ upd' = Survivors
      BY <1>20 DEF ExecDaemon, On, Working, disk, Happens
    <2>2. Steady
      BY <1>7, <2>1 DEF StageFits, On
    <2>3. Current' /\ alive' # "none"
      BY <2>1, <2>2 DEF Current, Steady
    <2>4. upd'[u].pc \in {"idle", "exec"}
      BY <2>1 DEF Survivors, NoUpd, On
    <2>5. Working(u)' => StageFits(u)'
      BY <2>3, <2>4 DEF StageFits, Replacing, On, Current, Steady
    <2> QED
      BY <1>3, <1>4, <2>1, <2>3, <2>4, <2>5, OneAtWork
  <1>21. ~Quit(u)
    BY DEF Quit, Happens
  <1>22. Answered(u) => UpdTo(u, "unpack") \/ upd' = [upd EXCEPT ![u] = NoUpd]
    BY DEF Answered
  <1> QED
    BY <1>9, <1>11, <1>12, <1>13, <1>14, <1>15, <1>16, <1>17, <1>18, <1>19, <1>20, <1>21, <1>22
       DEF UpdStep

LEMMA NextVersioned ==
  ASSUME SuTypeOK, Apart, events = {} => Versioned, [SuNext]_suvars
  PROVE  events' = {} => Versioned'
  <1>1. CASE InDaemon \/ UNCHANGED suvars
    BY <1>1 DEF InDaemon, suvars, disk, Versioned, Working, StageFits, Replacing, On, Current, Steady
  <1>2. ASSUME NEW u \in Preps, UpdStep(u) \/ Quit(u) \/ \E how \in Hows : Ask(u, how)
        PROVE  events' = {} => Versioned'
    BY <1>2, OthersStay, UpdVersioned
  <1> QED
    BY <1>1, <1>2 DEF SuNext

\* apply_update: where nothing has gone wrong both binaries are of the same
\* version as soon as nobody is replacing them, and so is coastd when nobody
\* is about to restart it.
THEOREM VersionsAgree == SuSpec => []SameVersion
  <1>1. SuInit => Apart /\ (events = {} => Versioned)
    BY DEF SuInit, Apart, Versioned, Working, On, NoUpd, Current, Steady, Files
  <1>2. ASSUME events = {} => Versioned PROVE SameVersion
    <2>1. ASSUME Versioned PROVE
          /\ (\A u \in Preps : upd[u].pc \notin {"backup", "move", "drop"})
                => bin["coast"] = bin["coastd"]
          /\ (\A u \in Preps : upd[u].pc \in {"idle", "prep"}) => alive = bin["coastd"]
      <3>1. CASE \A u \in Preps : ~Working(u)
        BY <2>1, <3>1 DEF Versioned, Current, Steady
      <3>2. CASE \E u \in Preps : Working(u)
        <4>1. PICK u \in Preps : Working(u) /\ StageFits(u)
          BY <2>1, <3>2 DEF Versioned
        <4> QED
          BY <4>1 DEF Working, StageFits, Steady
      <3> QED
        BY <3>1, <3>2
    <2> QED
      BY <1>2, <2>1 DEF SameVersion
  <1>3. SuTypeOK /\ Apart /\ (events = {} => Versioned) /\ [SuNext]_suvars
           => (events = {} => Versioned)'
    BY NextVersioned
  <1> QED
    BY <1>1, <1>2, <1>3, SuInitType, SuNextType, NextApart, PTL DEF SuSpec

----------------------------------------------------------------------------
(* The flag is up for a preparation or an update that is under way.        *)

FlagRaised ==
    /\ quiescing => \E u \in Preps : prep[u].pc # "idle"
    /\ \A u \in Preps : prep[u].pc # "idle" => upd[u].pc \notin {"idle", "start"}

NobodyHome == alive = "none" => ~quiescing /\ \A u \in Preps : prep[u].pc = "idle"

Smooth == events \intersect {"quit", "exec"} = {}

FlagInv == NobodyHome /\ (Smooth => FlagRaised)

\* In coastd, a preparation that does not begin neither raises the flag nor
\* leaves it up when it gives up.
LEMMA DaemonFlag ==
  ASSUME SuTypeOK, FlagInv, InDaemon
  PROVE  FlagInv'
  <1>1. alive' # "none" /\ UNCHANGED <<upd, events>>
    BY DEF InDaemon
  <1>2. ASSUME NEW o \in Ops, OpStep(o) PROVE UNCHANGED <<quiescing, prep>>
    BY <1>2 DEF OpStep, OpEnter, OpCheck, OpRegister, OpMark, OpEnd, OpCheckout, OpReturn,
                OpHangup, DropGuard
  <1>3. ASSUME NEW p \in Preps, PrepStep(p), ~PrepBegin(p)
        PROVE  /\ prep[p].pc # "idle" /\ \A u \in Preps \ {p} : prep'[u] = prep[u]
               /\ \/ UNCHANGED quiescing /\ prep'[p].pc # "idle"
                  \/ ~quiescing'
    <2> USE DEF SuTypeOK, TypeOK, Preparation
    <2>1. CASE PrepDrained(p) \/ PrepTimesOut(p) \/ PrepKill(p) \/ PrepRows(p) \/ PrepOps(p)
      BY <2>1 DEF PrepDrained, PrepTimesOut, PrepKill, PrepRows, PrepOps, PrepGoto
    <2>2. CASE PrepRead(p)
      BY <2>2 DEF PrepRead
    <2>3. CASE PrepClear(p)
      BY <2>3 DEF PrepClear
    <2>4. CASE PrepReturn(p)
      BY <2>4 DEF PrepReturn, PrepGoto
    <2> QED
      BY <1>3, <2>1, <2>2, <2>3, <2>4 DEF PrepStep
  <1>4. CASE UNCHANGED <<quiescing, prep>>
    BY <1>1, <1>4 DEF FlagInv, NobodyHome, Smooth, FlagRaised
  <1>5. ASSUME NEW p \in Preps, PrepStep(p), ~PrepBegin(p) PROVE FlagInv'
    <2>1. Smooth => FlagRaised'
      BY <1>1, <1>3, <1>5 DEF FlagInv, FlagRaised
    <2> QED
      BY <1>1, <2>1 DEF FlagInv, NobodyHome, Smooth
  <1> QED
    BY <1>2, <1>4, <1>5 DEF InDaemon

LEMMA UpdFlag ==
  ASSUME SuTypeOK, FlagInv, NEW u \in Preps,
         UpdStep(u) \/ Quit(u) \/ \E how \in Hows : Ask(u, how)
  PROVE  FlagInv'
  <1>1. /\ upd \in [Preps -> Updater] /\ upd[u] \in Updater
        /\ prep \in [Preps -> Preparation]
    BY DEF SuTypeOK, Updater, TypeOK
  <1>2. \A v \in Preps \ {u} : upd'[v] = upd[v] \/ upd'[v] = NoUpd
    BY OthersStay
  <1>3. Smooth' => Smooth
    BY OthersStay DEF Smooth
  <1>4. ASSUME UNCHANGED <<quiescing, prep, alive>>, \A v \in Preps \ {u} : upd'[v] = upd[v],
               prep[u].pc # "idle" => upd'[u].pc \notin {"idle", "start"}
        PROVE  FlagInv'
    <2>1. NobodyHome'
      BY <1>4 DEF FlagInv, NobodyHome
    <2>2. Smooth => FlagRaised'
      BY <1>4 DEF FlagInv, FlagRaised
    <2> QED
      BY <1>3, <2>1, <2>2 DEF FlagInv
  <1>5. ASSUME ~quiescing', \A v \in Preps : prep'[v].pc = "idle" PROVE FlagInv'
    BY <1>5 DEF FlagInv, FlagRaised, NobodyHome
  <1>6. StartAgain => FlagInv'
    BY <1>5 DEF StartAgain, IdlePrep
  <1>7. ASSUME Smooth, prep[u].pc # "idle" PROVE upd[u].pc \notin {"idle", "start"}
    BY <1>7 DEF FlagInv, FlagRaised
  <1>8. ASSUME Fail(u), UNCHANGED alive PROVE FlagInv'
    <2>1. CASE upd[u].how = "cli"
      <3>1. UNCHANGED <<quiescing, prep>>
        BY <1>8, <2>1 DEF Fail, pvars
      <3>2. upd'[u].pc = "kill" /\ \A v \in Preps \ {u} : upd'[v] = upd[v]
        BY <1>8, <2>1, UpdGoes
      <3> QED
        BY <1>4, <1>8, <3>1, <3>2
    <2>2. CASE upd[u].how # "cli"
      <3>1. /\ ~quiescing' /\ prep'[u].pc = "idle"
            /\ \A v \in Preps \ {u} : prep'[v] = prep[v]
        BY <1>1, <1>8, <2>2 DEF Fail, IdlePrep
      <3>2. \A v \in Preps \ {u} : upd'[v] = upd[v]
        BY <1>8, UpdGoes
      <3>3. NobodyHome'
        BY <1>8, <3>1 DEF FlagInv, NobodyHome
      <3>4. Smooth => FlagRaised'
        BY <3>1, <3>2 DEF FlagInv, FlagRaised
      <3> QED
        BY <1>3, <3>3, <3>4 DEF FlagInv
    <2> QED
      BY <2>1, <2>2
  <1>9. CASE Answered(u)
    <2>1. UNCHANGED <<quiescing, prep, alive>>
      BY <1>9 DEF Answered, pvars
    <2>2. \/ UpdTo(u, "unpack")
          \/ prep[u].pc = "idle" /\ upd' = [upd EXCEPT ![u] = NoUpd]
      BY <1>9 DEF Answered
    <2> QED
      BY <1>4, <2>1, <2>2, UpdGoes
  <1>10. CASE Unpack(u) \/ Backup(u) \/ Move(u)
    <2>1. UNCHANGED alive
      BY <1>10 DEF Unpack, Backup, Move
    <2>2. \/ Fail(u)
          \/ (UpdTo(u, "backup") \/ UpdTo(u, "move") \/ UpdTo(u, "drop")) /\ UNCHANGED <<quiescing, prep>>
      BY <1>10 DEF Unpack, Backup, Move, pvars
    <2> QED
      BY <1>4, <1>8, <2>1, <2>2, UpdGoes
  <1>11. CASE DropBackup(u)
    <2>1. upd'[u].pc \in {"backup", "clean"} /\ \A v \in Preps \ {u} : upd'[v] = upd[v]
      BY <1>1, <1>11 DEF DropBackup, Updater
    <2> QED
      BY <1>4, <1>11, <2>1 DEF DropBackup, pvars
  <1>12. CASE Clean(u)
    <2>1. UpdTo(u, "kill") \/ UpdTo(u, "exec")
      BY <1>12 DEF Clean
    <2> QED
      BY <1>4, <1>12, <2>1, UpdGoes DEF Clean, pvars
  <1>13. CASE KillDaemon(u)
    <2>1. CASE alive = "none"
      <3>1. \A v \in Preps : prep[v].pc = "idle"
        BY <2>1 DEF FlagInv, NobodyHome
      <3> QED
        BY <1>4, <1>13, <2>1, <3>1, UpdGoes DEF KillDaemon, pvars
    <2>2. CASE alive # "none"
      BY <1>5, <1>13, <2>2 DEF KillDaemon, IdlePrep
    <2> QED
      BY <2>1, <2>2
  <1>14. CASE StartDaemon(u)
    <2>1. CASE StartAgain
      BY <1>6, <2>1
    <2>2. CASE UNCHANGED <<pvars, alive>>
      <3>1. /\ \A v \in Preps \ {u} : upd'[v] = upd[v]
            /\ On(u, "start")
        BY <1>14, UpdGoes DEF StartDaemon
      <3>2. NobodyHome'
        BY <2>2 DEF FlagInv, NobodyHome, pvars
      <3>3. Smooth => FlagRaised'
        BY <1>7, <2>2, <3>1 DEF FlagInv, FlagRaised, pvars, On
      <3> QED
        BY <1>3, <3>2, <3>3 DEF FlagInv
    <2> QED
      BY <1>14, <2>1, <2>2 DEF StartDaemon
  <1>15. CASE ExecDaemon(u)
    <2>1. CASE StartAgain
      BY <1>6, <2>1
    <2>2. CASE Happens("exec") /\ UNCHANGED <<pvars, alive>>
      BY <2>2 DEF Happens, FlagInv, NobodyHome, Smooth, pvars
    <2> QED
      BY <1>15, <2>1, <2>2 DEF ExecDaemon
  <1>16. CASE Quit(u)
    BY <1>16 DEF Quit, Happens, FlagInv, NobodyHome, Smooth, pvars
  <1>17. ASSUME NEW how \in Hows, Ask(u, how) PROVE FlagInv'
    <2>1. UNCHANGED alive /\ On(u, "idle")
      BY <1>17 DEF Ask
    <2>2. CASE alive = "none"
      <3>1. upd' = [upd EXCEPT ![u] = [NoUpd EXCEPT !.pc = "unpack"]] /\ UNCHANGED pvars
        BY <1>17, <2>2 DEF Ask
      <3>2. upd'[u].pc = "unpack" /\ \A v \in Preps \ {u} : upd'[v] = upd[v]
        BY <1>1, <3>1 DEF NoUpd
      <3> QED
        BY <1>4, <2>1, <3>1, <3>2 DEF pvars
    <2>3. CASE alive # "none"
      <3>1. upd' = [upd EXCEPT ![u] = [NoUpd EXCEPT !.pc = "prep", !.how = how]] /\ PrepBegin(u)
        BY <1>17, <2>3 DEF Ask
      <3>2. upd'[u].pc = "prep" /\ \A v \in Preps \ {u} : upd'[v] = upd[v]
        BY <1>1, <3>1 DEF NoUpd
      <3>3. prep'[u].pc = "drain" /\ \A v \in Preps \ {u} : prep'[v] = prep[v]
        BY <1>1, <3>1 DEF PrepBegin, PrepGoto, Preparation
      <3>4. Smooth => FlagRaised'
        BY <3>2, <3>3 DEF FlagInv, FlagRaised
      <3> QED
        BY <1>3, <2>1, <2>3, <3>4 DEF FlagInv, NobodyHome
    <2> QED
      BY <2>2, <2>3
  <1> QED
    BY <1>9, <1>10, <1>11, <1>12, <1>13, <1>14, <1>15, <1>16, <1>17 DEF UpdStep

LEMMA NextFlag == SuTypeOK /\ FlagInv /\ [SuNext]_suvars => FlagInv'
  <1>1. FlagInv /\ UNCHANGED suvars => FlagInv'
    BY DEF suvars, pvars, FlagInv, NobodyHome, Smooth, FlagRaised
  <1> QED
    BY <1>1, DaemonFlag, UpdFlag DEF SuNext

\* handle_prepare_for_update, apply_update: coastd turns requests away only
\* while a preparation goes on or somebody is updating it, unless an updater
\* was interrupted or coastd could not replace itself.
THEOREM ClosedOnlyForUpdates == SuSpec => []ClosedForUpdate
  <1>1. SuInit => FlagInv
    BY DEF SuInit, Init, FlagInv, NobodyHome, Smooth, FlagRaised, IdlePrep
  <1>2. FlagInv => ClosedForUpdate
    BY DEF FlagInv, FlagRaised, Smooth, ClosedForUpdate, On
  <1> QED
    BY <1>1, <1>2, SuInitType, SuNextType, NextFlag, PTL DEF SuSpec
=============================================================================
