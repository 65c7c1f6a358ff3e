------------------------ MODULE ShellsAndBuilds_proofs ------------------------
(***************************************************************************)
(* Agent shells, builds and the instances made from them, and the          *)
(* Coastfiles the builds are made from, for any number of them and         *)
(* whatever entry points are used.                                         *)
(***************************************************************************)
EXTENDS AgentShells, Builds, CoastfileLayers, FiniteSetTheorems, SequenceTheorems, TLAPS

----------------------------------------------------------------------------
(* AgentShells: at most one shell of an instance is active.                *)
(*                                                                         *)
(* OneActive is not inductive by itself: a request that resolved its shell *)
(* long ago activates a row by its id.  ShInv adds that such a row, if it  *)
(* is still there, is of the instance the request is about, which holds    *)
(* because the ids of rows only grow.                                      *)

\* What a request remembers of its shell stays true of it.
Remembered ==
    \A c \in Clients :
        /\ client[c].pc \in {"open", "enter", "look", "set", "heal"} => client[c].inst \in Names
        /\ client[c].pc = "enter" => client[c].sid \in Sids
        /\ client[c].pc \in {"look", "set"} =>
              /\ client[c].row \in RowIds
              /\ shell[client[c].row].inst \in {NoOne, client[c].inst}

ShInv == ShTypeOK /\ Remembered /\ OneActive

----------------------------------------------------------------------------
(* Rows                                                                    *)

\* Activating a row leaves rows rows, of the instances they were of.
LEMMA ActivatedKeeps ==
    ASSUME NEW f \in [RowIds -> Shell \union {NoShell}], NEW n \in Names, NEW row
    PROVE  /\ Activated(f, n, row) \in [RowIds -> Shell \union {NoShell}]
           /\ \A r \in RowIds : Activated(f, n, row)[r].inst = f[r].inst
           /\ \A r \in RowIds : f[r] = NoShell <=> Activated(f, n, row)[r] = NoShell
<1> DEFINE g == Activated(f, n, row)
<1>1. ASSUME NEW r \in RowIds
      PROVE  /\ g[r] \in Shell \union {NoShell}
             /\ g[r].inst = f[r].inst
             /\ f[r] = NoShell <=> g[r] = NoShell
  <2>1. f[r] \in Shell \union {NoShell} /\ NoOne \notin Names
        BY ShellConstantsOK
  <2>2. g[r] = IF r = row THEN (IF f[r] = NoShell THEN NoShell
                                ELSE [f[r] EXCEPT !.active = TRUE])
               ELSE IF f[r].inst = n THEN [f[r] EXCEPT !.active = FALSE] ELSE f[r]
        BY DEF Activated
  <2>3. CASE f[r] = NoShell
        BY <2>1, <2>2, <2>3 DEF NoShell
  <2>4. CASE f[r] \in Shell
    <3>1. f[r].inst \in Names /\ f[r] # NoShell
          BY <2>1, <2>4 DEF Shell, NoShell
    <3>2. \A b \in BOOLEAN : /\ [f[r] EXCEPT !.active = b] \in Shell
                             /\ [f[r] EXCEPT !.active = b].inst = f[r].inst
          BY <2>4 DEF Shell
    <3>3. \A s \in Shell : s # NoShell
          BY <2>1 DEF Shell, NoShell
    <3> QED BY <2>2, <2>4, <3>1, <3>2, <3>3
  <2> QED BY <2>1, <2>3, <2>4
<1>2. g = [r \in RowIds |-> g[r]]
      BY DEF Activated
<1> HIDE DEF g
<1>3. g \in [RowIds -> Shell \union {NoShell}]
      BY <1>1, <1>2
<1> QED BY <1>1, <1>3 DEF g

\* After it the row is the only one of its instance that is active, and those
\* of other instances are as they were, if the row is of that instance.
LEMMA ActivatedAlone ==
    ASSUME NEW f \in [RowIds -> Shell \union {NoShell}], NEW n \in Names, NEW row,
           row \in RowIds => f[row].inst \in {NoOne, n},
           NEW m \in Names, NEW q \in RowIds,
           Activated(f, n, row)[q].inst = m, Activated(f, n, row)[q].active
    PROVE  IF m = n THEN q = row ELSE f[q].active
<1>1. f[q].inst = m /\ f[q] # NoShell
  <2>1. f[q].inst = m
        BY ActivatedKeeps
  <2> QED BY <2>1, ShellConstantsOK DEF NoShell
<1>2. Activated(f, n, row)[q] = IF q = row THEN [f[q] EXCEPT !.active = TRUE]
                                ELSE IF f[q].inst = n THEN [f[q] EXCEPT !.active = FALSE]
                                ELSE f[q]
      BY <1>1 DEF Activated
<1>3. f[q] \in Shell
      BY <1>1
<1>4. CASE m = n
  <2>1. q # row => Activated(f, n, row)[q].active = FALSE
        BY <1>1, <1>2, <1>3, <1>4 DEF Shell
  <2> QED BY <2>1, <1>4
<1>5. CASE m # n
  <2>1. q # row
        BY <1>1, <1>5, ShellConstantsOK
  <2> QED BY <2>1, <1>1, <1>2, <1>5
<1> QED BY <1>4, <1>5

----------------------------------------------------------------------------
(* The invariant                                                           *)

\* No row, no request.
LEMMA ShInvInit == ShInit => ShInv
<1> SUFFICES ASSUME ShInit PROVE ShInv
    OBVIOUS
<1>1. ShTypeOK
  <2>1. NoShell \in Shell \union {NoShell} /\ NoPty \in Pty \union {NoPty}
        OBVIOUS
  <2>2. NoClient \in Client
        BY DEF NoClient, Client
  <2> QED BY <2>1, <2>2, ShellConstantsOK DEF ShInit, ShTypeOK, NoClient, RowIds
<1>2. Remembered
      BY DEF ShInit, Remembered, NoClient
<1>3. OneActive
      BY ShellConstantsOK DEF ShInit, OneActive, ActiveIn, Rows, NoShell
<1> QED BY <1>1, <1>2, <1>3 DEF ShInv

\* A step that leaves the rows alone, but for those it ends.
LEMMA RowsEnd ==
    ASSUME ShInv, ShTypeOK', \A r \in RowIds : shell'[r] \in {shell[r], NoShell}
    PROVE  OneActive'
<1> SUFFICES ASSUME NEW n \in Names, NEW q \in ActiveIn(n)', NEW r \in ActiveIn(n)'
             PROVE  q = r
    BY DEF OneActive
<1>1. \A p \in RowIds : shell'[p].inst = n => shell'[p] = shell[p]
      BY ShellConstantsOK DEF NoShell
<1>2. q \in ActiveIn(n) /\ r \in ActiveIn(n)
      BY <1>1 DEF ActiveIn, Rows
<1> QED BY <1>2 DEF ShInv, OneActive

\* A step of one request, or of none: the others' rows are only ended.
LEMMA RememberedOf ==
    ASSUME Remembered, NEW c \in Clients,
           \A d \in Clients \ {c} :
               /\ client'[d] = client[d]
               /\ client[d].pc \in {"look", "set"} =>
                     shell'[client[d].row].inst \in {NoOne, shell[client[d].row].inst},
           /\ client'[c].pc \in {"open", "enter", "look", "set", "heal"} => client'[c].inst \in Names
           /\ client'[c].pc = "enter" => client'[c].sid \in Sids
           /\ client'[c].pc \in {"look", "set"} =>
                 /\ client'[c].row \in RowIds
                 /\ shell'[client'[c].row].inst \in {NoOne, client'[c].inst}
    PROVE  Remembered'
BY DEF Remembered

RequestsTyped == client \in [Clients -> Client] /\ \A d \in Clients : client[d].row <= lastRow

\* One request is given another state, or ends.
LEMMA ClientTyped ==
    ASSUME ShTypeOK, NEW c \in Clients, NEW v \in Client,
           client' = [client EXCEPT ![c] = v], lastRow' = lastRow, v.row <= lastRow
    PROVE  RequestsTyped'
BY DEF ShTypeOK, RequestsTyped

LEMMA ClientOver ==
    ASSUME ShTypeOK, NEW c \in Clients, Finish(c), lastRow' \in RowIds \union {0},
           lastRow <= lastRow'
    PROVE  RequestsTyped'
<1>1. NoClient \in Client /\ NoClient.row = 0
      BY DEF NoClient, Client
<1>2. \A d \in Clients : client[d] \in Client /\ client[d].row <= lastRow'
  <2>1. \A d \in Clients : client[d].row \in Nat /\ client[d].row <= lastRow
        BY DEF ShTypeOK, Client, RowIds
  <2>2. lastRow \in Nat /\ lastRow' \in Nat
        BY ShellConstantsOK DEF ShTypeOK, RowIds
  <2> QED BY <2>1, <2>2 DEF ShTypeOK
<1>3. 0 <= lastRow'
      BY ShellConstantsOK DEF RowIds
<1> QED BY <1>1, <1>2, <1>3 DEF Finish, RequestsTyped, ShTypeOK

\* What EnterRow makes where the instance is there.
NewShell(c, r, k) ==
    LET n == client[c].inst
        f == [shell EXCEPT ![r] = [inst |-> n, num |-> k, active |-> FALSE,
                                   sid |-> client[c].sid]]
    IN  /\ r = lastRow + 1 /\ lastRow' = r
        /\ shell' = IF client[c].active THEN Activated(f, n, r) ELSE f

\* A request begins.
LEMMA ClientBegins ==
    ASSUME ShTypeOK, NEW c \in Clients, NEW v \in Client, Start(c, v),
           lastRow' = lastRow, v.row <= lastRow
    PROVE  RequestsTyped'
BY ClientTyped DEF Start

\* Every step keeps rows, sessions and requests well typed.
LEMMA ShTypeStep == ShInv /\ [ShNext]_shvars => ShTypeOK'
<1> SUFFICES ASSUME ShInv, [ShNext]_shvars PROVE ShTypeOK'
    OBVIOUS
<1>1. /\ ShTypeOK /\ Remembered
      /\ \A d \in Clients : client[d] \in Client /\ client[d].row <= lastRow
      /\ lastRow \in RowIds \union {0} /\ lastRow \in Nat
      BY ShellConstantsOK DEF ShInv, ShTypeOK, RowIds
<1>2. ASSUME NEW c \in Clients, ClientStep(c) PROVE ShTypeOK'
  <2>1. CASE OpenPty(c)
    <3>1. PICK s \in Sids :
              /\ sess' = sess \union {s}
              /\ pty' = [pty EXCEPT ![s] = [inst |-> client[c].inst, child |-> "up",
                                            reader |-> "reading"]]
              /\ IF client[c].agent
                 THEN client' = [client EXCEPT ![c].pc = "enter", ![c].sid = s]
                 ELSE Finish(c)
          BY <2>1 DEF OpenPty
    <3>2. client[c].inst \in Names
          BY <1>1, <2>1 DEF OpenPty, Remembered
    <3>3. pty' \in [Sids -> Pty \union {NoPty}] /\ sess' \subseteq Sids
          BY <1>1, <3>1, <3>2 DEF ShTypeOK, Pty
    <3>4. RequestsTyped'
      <4>1. CASE Finish(c)
            BY <1>1, <2>1, <4>1, ClientOver DEF OpenPty
      <4>2. CASE client' = [client EXCEPT ![c].pc = "enter", ![c].sid = s]
        <5>1. PICK v : v = [client[c] EXCEPT !.pc = "enter", !.sid = s]
              OBVIOUS
        <5>2. v \in Client /\ v.row = client[c].row
              BY <1>1, <5>1 DEF Client
        <5>3. client' = [client EXCEPT ![c] = v]
              BY <4>2, <5>1
        <5> QED BY <1>1, <2>1, <5>2, <5>3, ClientTyped DEF OpenPty
      <4> QED BY <3>1, <4>1, <4>2
    <3> QED BY <1>1, <2>1, <3>3, <3>4 DEF OpenPty, ShTypeOK, RequestsTyped
  <2>2. CASE EnterRow(c)
    <3> DEFINE n == client[c].inst
    <3>1. n \in Names /\ client[c].sid \in Sids
          BY <1>1, <2>2 DEF EnterRow, Remembered
    <3>2. CASE UNCHANGED <<shell, lastRow>>
      <4>1. RequestsTyped'
            BY <1>1, <2>2, <3>2, ClientOver DEF EnterRow
      <4> QED BY <1>1, <2>2, <3>2, <4>1 DEF EnterRow, ShTypeOK, RequestsTyped
    <3>3. CASE \E r \in RowIds, k \in RowIds : NewShell(c, r, k)
      <4>1. PICK r \in RowIds, k \in RowIds : NewShell(c, r, k)
            BY <3>3
      <4>2. r = lastRow + 1 /\ lastRow' = r
            BY <4>1 DEF NewShell
      <4> DEFINE f == [shell EXCEPT ![r] = [inst |-> n, num |-> k, active |-> FALSE,
                                            sid |-> client[c].sid]]
      <4>3. /\ f \in [RowIds -> Shell \union {NoShell}]
            /\ \A q \in RowIds : q # r => f[q] = shell[q]
            BY <1>1, <3>1 DEF ShTypeOK, Shell
      <4>4. shell' = f \/ shell' = Activated(f, n, r)
            BY <4>1 DEF NewShell
      <4> HIDE DEF f, n
      <4>5. /\ shell' \in [RowIds -> Shell \union {NoShell}]
            /\ \A q \in RowIds : q # r /\ shell[q] = NoShell => shell'[q] = NoShell
            BY <3>1, <4>3, <4>4, ActivatedKeeps
      <4>6. \A q \in RowIds : q > lastRow' => shell'[q] = NoShell
            BY <1>1, <4>2, <4>5 DEF ShTypeOK, RowIds
      <4>7. RequestsTyped'
            BY <1>1, <2>2, <4>2, ClientOver DEF EnterRow
      <4> QED BY <1>1, <2>2, <4>2, <4>5, <4>6, <4>7 DEF EnterRow, ShTypeOK, RequestsTyped
    <3> QED BY <2>2, <3>2, <3>3 DEF EnterRow, NewShell, NewRow
  <2>3. CASE Look(c)
    <3>1. RequestsTyped'
      <4>1. CASE Finish(c)
            BY <1>1, <2>3, <4>1, ClientOver DEF Look
      <4>2. CASE client' = [client EXCEPT ![c].pc = "set", ![c].sid = NoOne]
        <5>1. PICK v : v = [client[c] EXCEPT !.pc = "set", !.sid = NoOne]
              OBVIOUS
        <5>2. v \in Client /\ v.row = client[c].row
              BY <1>1, <5>1 DEF Client
        <5>3. client' = [client EXCEPT ![c] = v]
              BY <4>2, <5>1
        <5> QED BY <1>1, <2>3, <5>2, <5>3, ClientTyped DEF Look
      <4> QED BY <2>3, <4>1, <4>2 DEF Look
    <3> QED BY <1>1, <2>3, <3>1 DEF Look, ShTypeOK, RequestsTyped
  <2>4. CASE SetActive(c)
    <3>1. RequestsTyped'
          BY <1>1, <2>4, ClientOver DEF SetActive
    <3>2. shell' = Activated(shell, client[c].inst, client[c].row) /\ client[c].inst \in Names
          BY <1>1, <2>4 DEF SetActive, Remembered
    <3>3. /\ shell' \in [RowIds -> Shell \union {NoShell}]
          /\ \A r \in RowIds : shell[r] = NoShell => shell'[r] = NoShell
          BY <1>1, <3>2, ActivatedKeeps DEF ShTypeOK
    <3> QED BY <1>1, <2>4, <3>1, <3>3 DEF SetActive, ShTypeOK, RequestsTyped
  <2>5. CASE KillSession(c)
    <3>1. RequestsTyped'
          BY <1>1, <2>5, ClientOver DEF KillSession
    <3> QED BY <1>1, <2>5, <3>1 DEF KillSession, ShTypeOK, RequestsTyped
  <2>6. CASE Heal(c)
    <3>1. RequestsTyped'
          BY <1>1, <2>6, ClientOver DEF Heal
    <3>2. /\ shell' \in [RowIds -> Shell \union {NoShell}]
          /\ \A r \in RowIds : shell[r] = NoShell => shell'[r] = NoShell
      <4>1. client[c].inst \in Names
            BY <1>1, <2>6 DEF Heal, Remembered
      <4>2. CASE UNCHANGED shell
            BY <1>1, <4>2 DEF ShTypeOK
      <4>3. CASE \E r \in RowIds : shell' = Activated(shell, client[c].inst, r)
            BY <1>1, <4>1, <4>3, ActivatedKeeps DEF ShTypeOK
      <4> QED BY <2>6, <4>2, <4>3 DEF Heal, Rows
    <3> QED BY <1>1, <2>6, <3>1, <3>2 DEF Heal, ShTypeOK, RequestsTyped
  <2> QED BY <1>2, <2>1, <2>2, <2>3, <2>4, <2>5, <2>6 DEF ClientStep
<1>3. ASSUME NEW c \in Clients, ShellRequest(c) PROVE ShTypeOK'
  <2>0. 0 <= lastRow
        BY <1>1
  <2>1. ASSUME NEW n \in Names, NEW agent \in BOOLEAN, NEW active \in BOOLEAN,
               SpawnBegin(c, n, agent, active)
        PROVE  ShTypeOK'
    <3>1. PICK v : v = [NoClient EXCEPT !.pc = "open", !.inst = n, !.agent = agent,
                                        !.active = active]
          OBVIOUS
    <3>2. v \in Client /\ v.row = 0
          BY <3>1 DEF Client, NoClient
    <3>3. RequestsTyped'
          BY <1>1, <2>0, <2>1, <3>1, <3>2, ClientBegins DEF SpawnBegin
    <3> QED BY <1>1, <2>1, <3>3 DEF SpawnBegin, ShTypeOK, RequestsTyped
  <2>2. ASSUME NEW n \in Names, Snapshot(c, n) PROVE ShTypeOK'
    <3>1. PICK v : v = [NoClient EXCEPT !.pc = "heal", !.inst = n,
                                        !.seen = {s \in sess : pty[s].inst = n}]
          OBVIOUS
    <3>2. v \in Client /\ v.row = 0
          BY <1>1, <3>1 DEF Client, NoClient, ShTypeOK
    <3>3. RequestsTyped'
          BY <1>1, <2>0, <2>2, <3>1, <3>2, ClientBegins DEF Snapshot
    <3> QED BY <1>1, <2>2, <3>3 DEF Snapshot, ShTypeOK, RequestsTyped
  <2>3. ASSUME NEW n \in Names, NEW r \in RowIds, Resolve(c, n, r) PROVE ShTypeOK'
    <3>1. PICK v : v = [NoClient EXCEPT !.pc = "look", !.inst = n, !.row = r,
                                        !.sid = shell[r].sid]
          OBVIOUS
    <3>2. shell[r] \in Shell /\ r <= lastRow
      <4>1. shell[r] # NoShell
            BY <2>3, ShellConstantsOK DEF Resolve, NoShell
      <4> QED BY <1>1, <4>1 DEF ShTypeOK, RowIds
    <3>3. v \in Client /\ v.row = r
          BY <3>1, <3>2 DEF Client, NoClient, Shell
    <3>4. RequestsTyped'
          BY <1>1, <2>3, <3>1, <3>2, <3>3, ClientBegins DEF Resolve
    <3> QED BY <1>1, <2>3, <3>4 DEF Resolve, ShTypeOK, RequestsTyped
  <2>4. ASSUME NEW n \in Names, NEW r \in RowIds, CloseShell(c, n, r) PROVE ShTypeOK'
    <3>1. PICK v : v = [NoClient EXCEPT !.pc = "kill", !.sid = shell[r].sid]
          OBVIOUS
    <3>2. shell[r].sid \in Sids \union {NoOne}
          BY <1>1 DEF ShTypeOK, Shell, NoShell
    <3>3. v \in Client /\ v.row = 0
          BY <3>1, <3>2 DEF Client, NoClient
    <3>4. RequestsTyped'
          BY <1>1, <2>0, <2>4, <3>1, <3>3, ClientBegins DEF CloseShell
    <3> QED BY <1>1, <2>4, <3>4 DEF CloseShell, ShTypeOK, RequestsTyped
  <2> QED BY <1>3, <2>1, <2>2, <2>3, <2>4 DEF ShellRequest
<1>4. ASSUME NEW n \in Names, Stop(n) \/ Rm(n) \/ Begins(n) \/ \E r \in RowIds : PickShell(n, r)
      PROVE  ShTypeOK'
  <2>1. CASE Stop(n) \/ Rm(n)
        BY <1>1, <2>1 DEF Stop, Rm, EndShells, ShTypeOK
  <2>2. CASE Begins(n)
        BY <1>1, <2>2 DEF Begins, ShTypeOK
  <2>3. ASSUME NEW r \in RowIds, PickShell(n, r) PROVE ShTypeOK'
    <3>1. /\ shell' \in [RowIds -> Shell \union {NoShell}]
          /\ \A q \in RowIds : shell[q] = NoShell => shell'[q] = NoShell
          BY <1>1, <2>3, ActivatedKeeps DEF PickShell, ShTypeOK
    <3> QED BY <1>1, <2>3, <3>1 DEF PickShell, ShTypeOK
  <2> QED BY <1>4, <2>1, <2>2, <2>3
<1>5. ASSUME NEW s \in Sids, ChildExits(s) \/ ReaderStep(s) \/ DeleteSession(s)
      PROVE  ShTypeOK'
  <2>1. CASE ChildExits(s)
    <3>1. pty[s] \in Pty
          BY <1>1, <2>1 DEF ChildExits, ShTypeOK, NoPty
    <3> QED BY <1>1, <2>1, <3>1 DEF ChildExits, ShTypeOK, Pty
  <2>2. CASE ReaderStep(s)
    <3>1. pty[s] \in Pty
          BY <1>1, <2>2 DEF ReaderStep, ReaderEnds, ReaderChecks, ReaderDrops, ShTypeOK, NoPty
    <3> QED BY <1>1, <2>2, <3>1 DEF ReaderStep, ReaderEnds, ReaderChecks, ReaderDrops,
                                    ShTypeOK, Pty
  <2>3. CASE DeleteSession(s)
        BY <1>1, <2>3 DEF DeleteSession, ShTypeOK
  <2> QED BY <1>5, <2>1, <2>2, <2>3
<1>6. CASE RestartShells
  <2>1. NoClient \in Client /\ NoClient.row = 0 /\ 0 <= lastRow
        BY <1>1, ShellConstantsOK DEF NoClient, Client
  <2> QED BY <1>1, <1>6, <2>1 DEF RestartShells, ShTypeOK
<1>7. CASE UNCHANGED shvars
      BY <1>1, <1>7 DEF shvars, ShTypeOK
<1> QED BY <1>2, <1>3, <1>4, <1>5, <1>6, <1>7 DEF ShNext

\* Rows that were there stay with their instance, or end.
LEMMA RowsKept ==
    ASSUME ShInv, [ShNext]_shvars, NEW q \in RowIds, q <= lastRow
    PROVE  shell'[q].inst \in {NoOne, shell[q].inst}
<1>1. ShTypeOK /\ Remembered /\ lastRow \in Nat
      BY ShellConstantsOK DEF ShInv, ShTypeOK, RowIds
<1> DEFINE Kept == shell'[q].inst \in {NoOne, shell[q].inst}
<1>2. ASSUME shell'[q] \in {shell[q], NoShell} PROVE Kept
      BY <1>2 DEF NoShell
<1>3. ASSUME NEW n \in Names, NEW row, shell' = Activated(shell, n, row) PROVE Kept
      BY <1>1, <1>3, ActivatedKeeps DEF ShTypeOK
<1>4. ASSUME NEW c \in Clients, ClientStep(c) PROVE Kept
  <2>1. CASE OpenPty(c) \/ Look(c) \/ KillSession(c)
        BY <1>2, <2>1 DEF OpenPty, Look, KillSession
  <2>2. CASE EnterRow(c)
    <3>1. CASE UNCHANGED shell
          BY <1>2, <3>1
    <3>2. CASE \E r \in RowIds, k \in RowIds : NewShell(c, r, k)
      <4>1. PICK r \in RowIds, k \in RowIds : NewShell(c, r, k)
            BY <3>2
      <4> DEFINE f == [shell EXCEPT ![r] = [inst |-> client[c].inst, num |-> k,
                                            active |-> FALSE, sid |-> client[c].sid]]
      <4>2. client[c].inst \in Names /\ client[c].sid \in Sids /\ q # r
            BY <1>1, <2>2, <4>1 DEF EnterRow, Remembered, NewShell, RowIds
      <4>3. f \in [RowIds -> Shell \union {NoShell}] /\ f[q] = shell[q]
            BY <1>1, <4>2 DEF ShTypeOK, Shell
      <4>4. shell' = f \/ shell' = Activated(f, client[c].inst, r)
            BY <4>1 DEF NewShell
      <4> HIDE DEF f
      <4> QED BY <4>2, <4>3, <4>4, ActivatedKeeps
    <3> QED BY <2>2, <3>1, <3>2 DEF EnterRow, NewShell, NewRow
  <2>3. CASE SetActive(c)
        BY <1>1, <1>3, <2>3 DEF SetActive, Remembered
  <2>4. CASE Heal(c)
        BY <1>1, <1>2, <1>3, <2>4 DEF Heal, Remembered
  <2> QED BY <1>4, <2>1, <2>2, <2>3, <2>4 DEF ClientStep
<1>5. ASSUME NEW c \in Clients, ShellRequest(c) PROVE Kept
      BY <1>1, <1>2, <1>5 DEF ShellRequest, SpawnBegin, Snapshot, Resolve, CloseShell, ShTypeOK
<1>6. ASSUME NEW n \in Names, Stop(n) \/ Rm(n) PROVE Kept
      BY <1>2, <1>6 DEF Stop, Rm, EndShells
<1>7. ASSUME NEW n \in Names, NEW r \in RowIds, PickShell(n, r) PROVE Kept
      BY <1>3, <1>7 DEF PickShell
<1>8. CASE UNCHANGED shell
      BY <1>2, <1>8
<1>9. \/ \E c \in Clients : ClientStep(c) \/ ShellRequest(c)
      \/ \E n \in Names : Stop(n) \/ Rm(n) \/ \E r \in RowIds : PickShell(n, r)
      \/ UNCHANGED shell
      BY DEF ShNext, Begins, ChildExits, ReaderStep, ReaderEnds, ReaderChecks, ReaderDrops,
             DeleteSession, RestartShells, shvars
<1> QED BY <1>4, <1>5, <1>6, <1>7, <1>8, <1>9

----------------------------------------------------------------------------
(* What is remembered                                                      *)

\* Rows keep their instance, and a request takes up only rows of its own.
LEMMA RememberedStep == ShInv /\ [ShNext]_shvars => Remembered'
<1> SUFFICES ASSUME ShInv, [ShNext]_shvars PROVE Remembered'
    OBVIOUS
<1>1. /\ ShTypeOK /\ Remembered
      /\ \A d \in Clients : client[d] \in Client /\ client[d].row <= lastRow
      BY DEF ShInv, ShTypeOK
<1>2. \A d \in Clients : client[d].pc \in {"look", "set"} =>
          shell'[client[d].row].inst \in {NoOne, shell[client[d].row].inst}
      BY <1>1, RowsKept DEF Remembered
<1>3. ASSUME NEW c \in Clients, Finish(c) PROVE Remembered'
  <2>1. client'[c].pc = "idle" /\ \A d \in Clients \ {c} : client'[d] = client[d]
        BY <1>1, <1>3 DEF Finish, ShTypeOK, NoClient
  <2> QED BY <1>1, <1>2, <2>1, RememberedOf
<1>4. ASSUME UNCHANGED client PROVE Remembered'
      BY <1>1, <1>2, <1>4 DEF Remembered
<1>5. ASSUME NEW c \in Clients, ClientStep(c) PROVE Remembered'
  <2>1. CASE OpenPty(c)
    <3>1. PICK s \in Sids : client[c].agent =>
              client' = [client EXCEPT ![c].pc = "enter", ![c].sid = s]
          BY <2>1 DEF OpenPty
    <3>2. CASE client[c].agent
      <4>1. /\ client'[c].pc = "enter" /\ client'[c].sid = s
            /\ client'[c].inst = client[c].inst
            /\ \A d \in Clients \ {c} : client'[d] = client[d]
            BY <1>1, <3>1, <3>2 DEF ShTypeOK, Client
      <4>2. client[c].inst \in Names
            BY <1>1, <2>1 DEF OpenPty, Remembered
      <4> QED BY <1>1, <1>2, <4>1, <4>2, RememberedOf
    <3>3. CASE ~client[c].agent
          BY <1>3, <2>1, <3>3 DEF OpenPty
    <3> QED BY <3>2, <3>3
  <2>2. CASE Look(c)
    <3>1. CASE client' = [client EXCEPT ![c].pc = "set", ![c].sid = NoOne]
      <4>1. /\ client'[c].pc = "set" /\ client'[c].row = client[c].row
            /\ client'[c].inst = client[c].inst
            /\ \A d \in Clients \ {c} : client'[d] = client[d]
            BY <1>1, <3>1 DEF ShTypeOK, Client
      <4>2. /\ client[c].inst \in Names /\ client[c].row \in RowIds
            /\ shell'[client[c].row].inst \in {NoOne, client[c].inst}
            BY <1>1, <1>2, <2>2 DEF Look, Remembered
      <4> QED BY <1>1, <1>2, <4>1, <4>2, RememberedOf
    <3> QED BY <1>3, <2>2, <3>1 DEF Look
  <2>3. CASE EnterRow(c) \/ SetActive(c) \/ KillSession(c) \/ Heal(c)
        BY <1>3, <2>3 DEF EnterRow, SetActive, KillSession, Heal
  <2> QED BY <1>5, <2>1, <2>2, <2>3 DEF ClientStep
<1>6. ASSUME NEW c \in Clients, ShellRequest(c) PROVE Remembered'
  <2>1. PICK n \in Names :
            \/ \E agent, active \in BOOLEAN : SpawnBegin(c, n, agent, active)
            \/ Snapshot(c, n)
            \/ \E r \in RowIds : Resolve(c, n, r) \/ CloseShell(c, n, r)
        BY <1>6 DEF ShellRequest
  <2>2. ASSUME NEW v, Start(c, v), v.pc \in {"open", "heal", "look"} => v.inst = n,
               v.pc \notin {"enter", "set"},
               v.pc = "look" => v.row \in RowIds /\ shell'[v.row].inst \in {NoOne, n}
        PROVE  Remembered'
    <3>1. client'[c] = v /\ \A d \in Clients \ {c} : client'[d] = client[d]
          BY <1>1, <2>2 DEF Start, ShTypeOK
    <3> QED BY <1>1, <1>2, <2>2, <3>1, RememberedOf
  <2>3. ASSUME NEW agent \in BOOLEAN, NEW active \in BOOLEAN, SpawnBegin(c, n, agent, active)
        PROVE  Remembered'
    <3>1. PICK v : v = [NoClient EXCEPT !.pc = "open", !.inst = n, !.agent = agent,
                                        !.active = active]
          OBVIOUS
    <3>2. v.pc = "open" /\ v.inst = n /\ Start(c, v)
          BY <2>3, <3>1 DEF SpawnBegin, NoClient
    <3> QED BY <2>2, <3>2
  <2>4. CASE Snapshot(c, n)
    <3>1. PICK v : v = [NoClient EXCEPT !.pc = "heal", !.inst = n,
                                        !.seen = {s \in sess : pty[s].inst = n}]
          OBVIOUS
    <3>2. v.pc = "heal" /\ v.inst = n /\ Start(c, v)
          BY <2>4, <3>1 DEF Snapshot, NoClient
    <3> QED BY <2>2, <3>2
  <2>5. ASSUME NEW r \in RowIds, Resolve(c, n, r) PROVE Remembered'
    <3>1. PICK v : v = [NoClient EXCEPT !.pc = "look", !.inst = n, !.row = r,
                                        !.sid = shell[r].sid]
          OBVIOUS
    <3>2. v.pc = "look" /\ v.inst = n /\ v.row = r /\ Start(c, v)
          BY <2>5, <3>1 DEF Resolve, NoClient
    <3>3. shell'[r].inst = n
          BY <2>5 DEF Resolve
    <3> QED BY <2>2, <3>2, <3>3
  <2>6. ASSUME NEW r \in RowIds, CloseShell(c, n, r) PROVE Remembered'
    <3>1. PICK v : v = [NoClient EXCEPT !.pc = "kill", !.sid = shell[r].sid]
          OBVIOUS
    <3>2. v.pc = "kill" /\ Start(c, v)
          BY <2>6, <3>1 DEF CloseShell, NoClient
    <3> QED BY <2>2, <3>2
  <2> QED BY <2>1, <2>3, <2>4, <2>5, <2>6
<1>7. CASE RestartShells
      BY <1>7 DEF RestartShells, Remembered, NoClient
<1>8. \/ \E c \in Clients : ClientStep(c) \/ ShellRequest(c)
      \/ RestartShells \/ UNCHANGED client
      BY DEF ShNext, Begins, ChildExits, ReaderStep, ReaderEnds, ReaderChecks, ReaderDrops,
             DeleteSession, Stop, Rm, EndShells, PickShell, shvars
<1> QED BY <1>4, <1>5, <1>6, <1>7, <1>8

----------------------------------------------------------------------------
(* One active shell                                                        *)

OneIn(f) == \A n \in Names : \A q, r \in RowIds :
                f[q].inst = n /\ f[q].active /\ f[r].inst = n /\ f[r].active => q = r

\* OneActive as a statement about the rows alone.
LEMMA OneInRows == /\ OneActive <=> OneIn(shell)
                   /\ OneActive' <=> OneIn(shell')
BY DEF OneActive, OneIn, ActiveIn, Rows

\* Activating a row of the instance keeps it so.
LEMMA ActivatedOne ==
    ASSUME NEW f \in [RowIds -> Shell \union {NoShell}], NEW n \in Names, NEW row,
           row \in RowIds => f[row].inst \in {NoOne, n}, OneIn(f)
    PROVE  OneIn(Activated(f, n, row))
<1> SUFFICES ASSUME NEW m \in Names, NEW q \in RowIds, NEW r \in RowIds,
                    Activated(f, n, row)[q].inst = m, Activated(f, n, row)[q].active,
                    Activated(f, n, row)[r].inst = m, Activated(f, n, row)[r].active
             PROVE  q = r
    BY DEF OneIn
<1>1. IF m = n THEN q = row /\ r = row ELSE f[q].active /\ f[r].active
      BY ActivatedAlone
<1>2. f[q].inst = m /\ f[r].inst = m
      BY ActivatedKeeps
<1> QED BY <1>1, <1>2 DEF OneIn

\* Every step leaves at most one active shell in an instance.
LEMMA OneActiveStep == ShInv /\ [ShNext]_shvars => OneActive'
<1> SUFFICES ASSUME ShInv, [ShNext]_shvars PROVE OneActive'
    OBVIOUS
<1>1. ShTypeOK /\ Remembered /\ ShTypeOK' /\ OneIn(shell)
      BY ShTypeStep, OneInRows DEF ShInv
<1>2. ASSUME \A r \in RowIds : shell'[r] \in {shell[r], NoShell} PROVE OneActive'
      BY <1>1, <1>2, RowsEnd
<1>3. ASSUME NEW n \in Names, NEW row, row \in RowIds => shell[row].inst \in {NoOne, n},
             shell' = Activated(shell, n, row)
      PROVE  OneActive'
      BY <1>1, <1>3, ActivatedOne, OneInRows DEF ShTypeOK
<1>4. ASSUME NEW c \in Clients, ClientStep(c) PROVE OneActive'
  <2>1. CASE EnterRow(c)
    <3>1. CASE UNCHANGED shell
          BY <1>2, <3>1
    <3>2. CASE \E r \in RowIds, k \in RowIds : NewShell(c, r, k)
      <4>1. PICK r \in RowIds, k \in RowIds : NewShell(c, r, k)
            BY <3>2
      <4> DEFINE n == client[c].inst
                 f == [shell EXCEPT ![r] = [inst |-> n, num |-> k, active |-> FALSE,
                                            sid |-> client[c].sid]]
      <4>2. n \in Names /\ client[c].sid \in Sids
            BY <1>1, <2>1 DEF EnterRow, Remembered
      <4>3. f \in [RowIds -> Shell \union {NoShell}] /\ f[r].inst = n
            BY <1>1, <4>2 DEF ShTypeOK, Shell
      <4>4. OneIn(f)
            BY <1>1 DEF OneIn, ShTypeOK
      <4>5. shell' = f \/ shell' = Activated(f, n, r)
            BY <4>1 DEF NewShell
      <4> HIDE DEF f, n
      <4>6. OneIn(Activated(f, n, r))
            BY <4>2, <4>3, <4>4, ActivatedOne
      <4> QED BY <4>4, <4>5, <4>6, OneInRows
    <3> QED BY <2>1, <3>1, <3>2 DEF EnterRow, NewShell, NewRow
  <2>2. CASE SetActive(c)
        BY <1>1, <1>3, <2>2 DEF SetActive, Remembered
  <2>3. CASE Heal(c)
    <3>1. CASE UNCHANGED shell
          BY <1>2, <3>1
    <3>2. CASE \E r \in Rows(client[c].inst) : shell' = Activated(shell, client[c].inst, r)
      <4>1. PICK r \in RowIds : /\ shell[r].inst = client[c].inst
                                /\ shell' = Activated(shell, client[c].inst, r)
            BY <3>2 DEF Rows
      <4>2. client[c].inst \in Names
            BY <1>1, <2>3 DEF Heal, Remembered
      <4> QED BY <1>3, <4>1, <4>2
    <3> QED BY <2>3, <3>1, <3>2 DEF Heal
  <2>4. CASE OpenPty(c) \/ Look(c) \/ KillSession(c)
        BY <1>2, <2>4 DEF OpenPty, Look, KillSession
  <2> QED BY <1>4, <2>1, <2>2, <2>3, <2>4 DEF ClientStep
<1>5. ASSUME NEW c \in Clients, ShellRequest(c) PROVE OneActive'
      BY <1>1, <1>2, <1>5 DEF ShellRequest, SpawnBegin, Snapshot, Resolve, CloseShell, ShTypeOK
<1>6. ASSUME NEW n \in Names, Stop(n) \/ Rm(n) PROVE OneActive'
      BY <1>2, <1>6 DEF Stop, Rm, EndShells
<1>7. ASSUME NEW n \in Names, NEW r \in RowIds, PickShell(n, r) PROVE OneActive'
      BY <1>3, <1>7 DEF PickShell
<1>8. CASE UNCHANGED shell
      BY <1>2, <1>8
<1>9. \/ \E c \in Clients : ClientStep(c) \/ ShellRequest(c)
      \/ \E n \in Names : Stop(n) \/ Rm(n) \/ \E r \in RowIds : PickShell(n, r)
      \/ UNCHANGED shell
      BY DEF ShNext, Begins, ChildExits, ReaderStep, ReaderEnds, ReaderChecks, ReaderDrops,
             DeleteSession, RestartShells, shvars
<1> QED BY <1>4, <1>5, <1>6, <1>7, <1>8, <1>9

----------------------------------------------------------------------------
(* Somebody stays active                                                   *)

\* Whether the rows f show an active shell of an instance.
Shown(f, n) == \E q \in RowIds : f[q].inst = n /\ f[q].active

\* Activating a row that is there leaves no instance without an active shell
\* that had one.
LEMMA ActivatedShows ==
    ASSUME NEW f \in [RowIds -> Shell \union {NoShell}], NEW n \in Names, NEW row \in RowIds,
           f[row] # NoShell, f[row].inst \in {NoOne, n},
           NEW m \in Names, Shown(f, m)
    PROVE  Shown(Activated(f, n, row), m)
<1>1. f[row] \in Shell /\ f[row].inst = n /\ NoOne \notin Names
      BY ShellConstantsOK DEF Shell
<1>2. CASE m = n
  <2>1. Activated(f, n, row)[row] = [f[row] EXCEPT !.active = TRUE]
        BY DEF Activated
  <2>2. Activated(f, n, row)[row].inst = n /\ Activated(f, n, row)[row].active
        BY <1>1, <2>1 DEF Shell
  <2> QED BY <1>2, <2>2 DEF Shown
<1>3. CASE m # n
  <2>1. PICK q \in RowIds : f[q].inst = m /\ f[q].active
        BY DEF Shown
  <2>2. Activated(f, n, row)[q] = f[q]
        BY <1>1, <1>3, <2>1 DEF Activated
  <2> QED BY <2>1, <2>2 DEF Shown
<1> QED BY <1>2, <1>3

\* The step that may leave an instance without an active shell that had one.
Ends(n) ==
    \/ Stop(n) \/ Rm(n)
    \/ \E c \in Clients : SetActive(c) /\ shell[client[c].row] = NoShell

LEMMA ShownStep ==
    ASSUME ShInv, [ShNext]_shvars, NEW n \in Names, Shown(shell, n), ~Ends(n)
    PROVE  Shown(shell', n)
<1>1. /\ ShTypeOK /\ Remembered /\ shell \in [RowIds -> Shell \union {NoShell}]
      /\ NoOne \notin Names
      BY ShellConstantsOK DEF ShInv, ShTypeOK
<1>2. CASE UNCHANGED shell
      BY <1>2
<1>3. ASSUME NEW m \in Names, NEW row \in RowIds, shell[row] # NoShell,
             shell[row].inst \in {NoOne, m}, shell' = Activated(shell, m, row)
      PROVE  Shown(shell', n)
      BY <1>1, <1>3, ActivatedShows
<1>4. PICK q \in RowIds : shell[q].inst = n /\ shell[q].active
      BY DEF Shown
<1>5. ASSUME NEW c \in Clients, ClientStep(c) PROVE Shown(shell', n)
  <2>1. CASE EnterRow(c) /\ ~UNCHANGED shell
    <3>1. PICK r \in RowIds, k \in RowIds : NewShell(c, r, k) /\ r = lastRow + 1
          BY <2>1 DEF EnterRow, NewShell, NewRow
    <3> DEFINE m == client[c].inst
               f == [shell EXCEPT ![r] = [inst |-> m, num |-> k, active |-> FALSE,
                                          sid |-> client[c].sid]]
    <3>2. m \in Names /\ client[c].sid \in Sids
          BY <1>1, <2>1 DEF EnterRow, Remembered
    <3>3. f \in [RowIds -> Shell \union {NoShell}] /\ f[r].inst = m
          BY <1>1, <3>2 DEF Shell
    <3>4. shell[r] = NoShell /\ q # r
      <4>1. lastRow \in Nat
            BY <1>1, ShellConstantsOK DEF ShTypeOK, RowIds
      <4>2. shell[r] = NoShell
            BY <1>1, <3>1, <4>1, ShellConstantsOK DEF ShTypeOK, RowIds
      <4>3. shell[r].inst = NoOne
            BY <4>2 DEF NoShell
      <4> QED BY <1>1, <1>4, <4>2, <4>3
    <3>5. Shown(f, n)
          BY <1>1, <1>4, <3>4 DEF Shown
    <3>6. f[r] # NoShell
          BY <1>1, <3>2, <3>3 DEF NoShell
    <3>7. shell' = f \/ shell' = Activated(f, m, r)
          BY <3>1 DEF NewShell
    <3> HIDE DEF f, m
    <3>8. Shown(Activated(f, m, r), n)
          BY <3>2, <3>3, <3>5, <3>6, ActivatedShows
    <3> QED BY <3>5, <3>7, <3>8
  <2>2. CASE SetActive(c)
    <3>1. shell[client[c].row] # NoShell
          BY <2>2 DEF Ends
    <3> QED BY <1>1, <1>3, <2>2, <3>1 DEF SetActive, Remembered
  <2>3. CASE Heal(c) /\ ~UNCHANGED shell
    <3>1. PICK r \in RowIds : /\ shell[r].inst = client[c].inst
                              /\ shell' = Activated(shell, client[c].inst, r)
          BY <2>3 DEF Heal, Rows
    <3>2. client[c].inst \in Names
          BY <1>1, <2>3 DEF Heal, Remembered
    <3>3. shell[r] # NoShell
          BY <1>1, <3>1, <3>2 DEF NoShell
    <3> QED BY <1>3, <3>1, <3>2, <3>3
  <2> QED BY <1>2, <1>5, <2>1, <2>2, <2>3 DEF ClientStep, OpenPty, Look, KillSession
<1>6. ASSUME NEW c \in Clients, NEW m \in Names, NEW r \in RowIds, CloseShell(c, m, r)
      PROVE  Shown(shell', n)
  <2>1. shell' = [shell EXCEPT ![r] = NoShell] /\ ~shell[r].active
        BY <1>6 DEF CloseShell
  <2>2. q # r /\ shell'[q] = shell[q]
        BY <1>1, <1>4, <2>1
  <2> QED BY <1>4, <2>2 DEF Shown
<1>7. ASSUME NEW m \in Names, Stop(m) \/ Rm(m) PROVE Shown(shell', n)
  <2>1. m # n
        BY <1>7 DEF Ends
  <2>2. shell' = [r \in RowIds |-> IF shell[r].inst = m THEN NoShell ELSE shell[r]]
        BY <1>7 DEF Stop, Rm, EndShells
  <2>3. shell'[q] = shell[q]
        BY <1>4, <2>1, <2>2
  <2> QED BY <1>4, <2>3 DEF Shown
<1>8. ASSUME NEW m \in Names, NEW r \in RowIds, PickShell(m, r) PROVE Shown(shell', n)
  <2>1. shell[r].inst = m /\ shell' = Activated(shell, m, r)
        BY <1>8 DEF PickShell
  <2>2. shell[r] # NoShell
        BY <1>1, <2>1 DEF NoShell
  <2> QED BY <1>3, <2>1, <2>2
<1>9. \/ \E c \in Clients : ClientStep(c)
      \/ \E c \in Clients, m \in Names, r \in RowIds : CloseShell(c, m, r)
      \/ \E m \in Names : Stop(m) \/ Rm(m) \/ \E r \in RowIds : PickShell(m, r)
      \/ UNCHANGED shell
      BY DEF ShNext, Begins, ChildExits, ReaderStep, ReaderEnds, ReaderChecks, ReaderDrops,
             DeleteSession, RestartShells, shvars, ShellRequest, SpawnBegin, Snapshot, Resolve
<1> QED BY <1>2, <1>5, <1>6, <1>7, <1>8, <1>9

----------------------------------------------------------------------------
(* The theorems                                                            *)

\* The inductive invariant.
LEMMA ShInvAlways == ShSpec => []ShInv
<1>1. ShInv /\ [ShNext]_shvars => ShInv'
      BY ShTypeStep, RememberedStep, OneActiveStep DEF ShInv
<1> QED BY <1>1, ShInvInit, PTL DEF ShSpec

\* Rows, sessions and requests are well formed in every reachable state: no row
\* is beyond the last one inserted and no request names one that is.
THEOREM ShellTypeCorrect == ShSpec => []ShTypeOK
<1>1. ShInv => ShTypeOK
      BY DEF ShInv
<1> QED BY <1>1, ShInvAlways, PTL

\* At most one agent shell of an instance is active, however spawns,
\* activations over the socket and over HTTP, healing lists, closes and the
\* end of instances interleave.
THEOREM OneShellActive == ShSpec => []OneActive
<1>1. ShInv => OneActive
      BY DEF ShInv
<1> QED BY <1>1, ShInvAlways, PTL

\* Of any instance: no step takes its last active shell away but its stop, its
\* rm, and an activation over the socket whose row was closed after it had
\* been resolved.  Spawns, closes, healing lists and activations over HTTP
\* never do, nor what happens to another instance.
THEOREM SomeShellStaysActive == ShSpec => ActiveKept
<1> DEFINE A == \A n \in Names :
                   \/ ActiveIn(n) = {} \/ ActiveIn(n)' # {}
                   \/ Stop(n) \/ Rm(n)
                   \/ \E c \in Clients : SetActive(c) /\ shell[client[c].row] = NoShell
<1>1. ShInv /\ [ShNext]_shvars => [A]_shvars
  <2> SUFFICES ASSUME ShInv, [ShNext]_shvars, NEW n \in Names, ActiveIn(n) # {}, ActiveIn(n)' = {}
               PROVE  Ends(n)
      BY DEF Ends
  <2>1. Shown(shell, n) /\ ~Shown(shell', n)
        BY DEF Shown, ActiveIn, Rows
  <2> QED BY <2>1, ShownStep
<1> QED BY <1>1, ShInvAlways, PTL DEF ShSpec, ActiveKept

----------------------------------------------------------------------------
(* Builds: no build goes that an instance was made from, and an instance   *)
(* of the default type is made from a complete build.                      *)
(*                                                                         *)
(* Both rest on what the permit keeps apart.  A job that removes builds    *)
(* has read which are in use, and no row with a build is written before it *)
(* ends (Spared); what a build links is complete, the newest of its type,  *)
(* and not pruned (Building, Linked); a run resolves while no job is under *)
(* way (Apart, Resolved).                                                  *)

Count == Cardinality(DOMAIN made)

Apart ==
    /\ job.pc = "free" \/ runner = NoRun
    /\ runner # NoRun => runner.name \in CoastNames

\* Rows name no build that the job under way would remove.
Spared ==
    /\ \A n \in CoastNames : ~coast[n].there => coast[n].build = 0
    /\ job.pc \in {"prune", "remove", "unlink"}
          => \A n \in CoastNames : coast[n].build \in job.used \union {0}
    /\ job.pc = "all" => \A n \in CoastNames : coast[n].build = 0

\* The build that is being made is the newest of all.
Building ==
    /\ job.pc \in {"begun", "written", "unlinked", "linked", "prune"}
          => job.id \in dirs /\ \A b \in DOMAIN made : b <= job.id
    /\ job.pc \in {"written", "unlinked", "linked", "prune"} => job.id \in whole
    /\ job.pc \in {"linked", "prune"} => latest[made[job.id]] = job.id

Linked ==
    /\ latest[Default] # 0 => latest[Default] \in DOMAIN made /\ made[latest[Default]] = Default
    /\ job.pc = "remove" => latest[Default] \in {job.was, 0}
    /\ LatestIsWhole

Resolved ==
    runner.type = Default /\ runner.id # 0 => runner.id \in whole \/ torn

BInv ==
    /\ BuildTypeOK
    /\ Apart /\ Spared /\ Building /\ Linked /\ Resolved
    /\ MadeFromWhole

----------------------------------------------------------------------------
\* Builds are numbered from 1 on.
LEMMA Counted ==
    ASSUME BuildTypeOK
    PROVE  /\ Count \in 0 .. MaxBuilds
           /\ made \in [1 .. Count -> Types]
           /\ DOMAIN made = 1 .. Count
<1>1. PICK k \in 0 .. MaxBuilds : made \in [1 .. k -> Types]
      BY DEF BuildTypeOK
<1>2. Cardinality(1 .. k) = k
      BY <1>1, FS_Interval, BuildConstantsOK
<1>3. Count = k
      BY <1>1, <1>2 DEF Count
<1> QED BY <1>1, <1>3

\* The fields of a job.
LEMMA JobFields ==
    ASSUME BuildTypeOK
    PROVE  /\ job.id \in 0 .. MaxBuilds /\ job.was \in 0 .. MaxBuilds
           /\ job.ids \subseteq 1 .. MaxBuilds /\ job.used \subseteq 1 .. MaxBuilds
           /\ \A pc \in {"free", "begun", "written", "unlinked", "linked", "prune",
                         "remove", "unlink", "all"} :
                 [job EXCEPT !.pc = pc] \in Job /\ [job EXCEPT !.pc = pc].pc = pc
           /\ NoJob \in Job
<1>1. job \in Job
      BY DEF BuildTypeOK
<1>2. 0 \in 0 .. MaxBuilds
      BY BuildConstantsOK
<1>3. NoJob \in Job
      BY <1>2 DEF NoJob, Job
<1> QED BY <1>1, <1>3 DEF Job

\* What is in use is a set of builds.
LEMMA InUseTyped ==
    ASSUME BuildTypeOK, NEW t \in Types
    PROVE  /\ InUse(latest[t]) \subseteq 1 .. MaxBuilds
           /\ \A n \in CoastNames : coast[n].there => coast[n].build \in InUse(latest[t]) \union {0}
BY BuildConstantsOK DEF BuildTypeOK, InUse

\* There is nothing yet.
LEMMA BInvInit == BuildInit => BInv
<1> SUFFICES ASSUME BuildInit PROVE BInv
    OBVIOUS
<1>1. made \in [1 .. 0 -> Types] /\ 0 \in 0 .. MaxBuilds
      BY BuildConstantsOK DEF BuildInit
<1>2. BuildTypeOK
  <2>1. made \in UNION {[1 .. k -> Types] : k \in 0 .. MaxBuilds}
        BY <1>1
  <2>2. NoJob \in Job
        BY BuildConstantsOK DEF NoJob, Job
  <2>3. 0 \in 0 .. MaxBuilds /\ Default \in Types
        BY BuildConstantsOK DEF Types
  <2>4. /\ NoCoast \in [there : BOOLEAN, waits : BOOLEAN, type : Types, build : 0 .. MaxBuilds]
        /\ NoRun \in [name : CoastNames \union {"none"}, type : Types, id : 0 .. MaxBuilds]
        BY <2>3 DEF NoCoast, NoRun
  <2> QED BY <2>1, <2>2, <2>3, <2>4 DEF BuildInit, BuildTypeOK
<1>3. Apart /\ Spared /\ Building /\ Resolved
      BY DEF BuildInit, Apart, Spared, Building, Resolved, NoJob, NoRun, NoCoast
<1>4. Linked /\ MadeFromWhole
      BY DEF BuildInit, Linked, LatestIsWhole, MadeFromWhole, NoJob, NoCoast, Types
<1> QED BY <1>2, <1>3, <1>4 DEF BInv

----------------------------------------------------------------------------
(* Types                                                                   *)

\* Every step keeps builds, rows, job and run well typed.
LEMMA BuildTypeStep ==
    ASSUME BuildTypeOK, Apart, Building, BuildNext
    PROVE  BuildTypeOK'
<1>0. torn' \in BOOLEAN
      BY DEF BuildNext, BuildTypeOK
<1>1. ASSUME UNCHANGED <<made, dirs, whole, latest, coast, runner>>, job' \in Job PROVE BuildTypeOK'
      BY <1>0, <1>1 DEF BuildTypeOK
<1>2. ASSUME NEW t \in Types, BuildBegin(t) PROVE BuildTypeOK'
  <2>1. PICK b : b = Count + 1
        OBVIOUS
  <2>2. /\ b <= MaxBuilds
        /\ made' = [x \in 1 .. b |-> IF x = b THEN t ELSE made[x]]
        /\ dirs' = dirs \union {b}
        /\ job'  = [NoJob EXCEPT !.pc = "begun", !.id = b]
        /\ UNCHANGED <<whole, latest, coast, runner>>
        BY <1>2, <2>1 DEF BuildBegin, Count
  <2>3. b \in 1 .. MaxBuilds
        BY <2>1, <2>2, Counted, BuildConstantsOK
  <2>4. made' \in [1 .. b -> Types]
        BY <2>1, <2>2, Counted, BuildConstantsOK
  <2>5. made' \in UNION {[1 .. k -> Types] : k \in 0 .. MaxBuilds}
        BY <2>3, <2>4, BuildConstantsOK
  <2>6. dirs' \subseteq DOMAIN made' /\ whole' \subseteq dirs'
        BY <2>1, <2>2, <2>3, <2>4, Counted DEF BuildTypeOK
  <2>7. job' \in Job
    <3>1. job' = [pc |-> "begun", id |-> b, ids |-> {}, used |-> {}, was |-> 0]
          BY <2>2 DEF NoJob
    <3>2. b \in 0 .. MaxBuilds /\ 0 \in 0 .. MaxBuilds
          BY <2>3, BuildConstantsOK
    <3> QED BY <3>1, <3>2 DEF Job
  <2> QED BY <1>0, <2>2, <2>5, <2>6, <2>7 DEF BuildTypeOK
<1>3. CASE BuildFails \/ RemoveEnd
      BY <1>1, <1>3, JobFields DEF BuildFails, RemoveEnd, Done
<1>4. CASE WriteManifest
  <2>1. job' \in Job
        BY <1>4, JobFields DEF WriteManifest, JobTo
  <2> QED BY <1>0, <1>4, <2>1 DEF WriteManifest, BuildTypeOK, Building
<1>5. CASE DropLatest \/ SetLatest \/ Unlink
  <2>1. job' \in Job
        BY <1>5, JobFields DEF DropLatest, SetLatest, Unlink, JobTo
  <2>2. PICK b \in {0, job.id} : \E t : latest' = [latest EXCEPT ![t] = b]
        BY <1>5 DEF DropLatest, SetLatest, Unlink
  <2>3. b \in 0 .. MaxBuilds
        BY <2>2, JobFields, BuildConstantsOK
  <2>4. latest' \in [Types -> 0 .. MaxBuilds]
        BY <2>2, <2>3 DEF BuildTypeOK
  <2> QED BY <1>0, <1>5, <2>1, <2>4 DEF DropLatest, SetLatest, Unlink, BuildTypeOK
<1>6. CASE ReadInUse
  <2>1. job' = [job EXCEPT !.pc = "prune", !.used = InUse(latest[Default])]
        BY <1>6 DEF ReadInUse
  <2>2. InUse(latest[Default]) \subseteq 1 .. MaxBuilds
        BY InUseTyped DEF Types
  <2>3. job' \in Job
        BY <2>1, <2>2 DEF BuildTypeOK, Job
  <2> QED BY <1>1, <1>6, <2>3 DEF ReadInUse
<1>7. ASSUME NEW S \in SUBSET dirs, RemoveBegin(S) PROVE BuildTypeOK'
  <2>1. job' = [NoJob EXCEPT !.pc = "remove", !.ids = S, !.was = latest[Default],
                             !.used = InUse(latest[Default])]
        BY <1>7 DEF RemoveBegin
  <2>2. InUse(latest[Default]) \subseteq 1 .. MaxBuilds /\ latest[Default] \in 0 .. MaxBuilds
        BY InUseTyped DEF Types, BuildTypeOK
  <2>3. S \subseteq 1 .. MaxBuilds
        BY Counted, BuildConstantsOK DEF BuildTypeOK
  <2>4. job' \in Job
    <3>1. job' = [pc |-> "remove", id |-> 0, ids |-> S, used |-> InUse(latest[Default]),
                  was |-> latest[Default]]
          BY <2>1 DEF NoJob
    <3>2. 0 \in 0 .. MaxBuilds
          BY BuildConstantsOK
    <3> QED BY <2>2, <2>3, <3>1, <3>2 DEF Job
  <2> QED BY <1>1, <1>7, <2>4 DEF RemoveBegin
<1>8. CASE RemoveOne
  <2>1. PICK b \in job.ids, pc \in {"unlink", "remove"} :
            job' = [job EXCEPT !.ids = job.ids \ {b}, !.pc = pc]
        BY <1>8 DEF RemoveOne
  <2>2. job' \in Job
        BY <2>1 DEF BuildTypeOK, Job
  <2>3. PICK b2 : /\ dirs'  = IF b2 \in job.used THEN dirs ELSE dirs \ {b2}
                  /\ whole' = IF b2 \in job.used THEN whole ELSE whole \ {b2}
        BY <1>8 DEF RemoveOne
  <2> QED BY <1>0, <1>8, <2>2, <2>3 DEF RemoveOne, BuildTypeOK
<1>9. CASE Prune
  <2>1. PICK gone : dirs' = dirs \ gone /\ whole' = whole \ gone
        BY <1>9 DEF Prune
  <2> QED BY <1>0, <1>9, <2>1, JobFields DEF Prune, BuildTypeOK, Done
<1>10. CASE RemoveAllBegin
  <2>1. job' \in Job
        BY <1>10, BuildConstantsOK DEF RemoveAllBegin, NoJob, Job
  <2> QED BY <1>1, <1>10, <2>1 DEF RemoveAllBegin
<1>11. CASE Wipe
      BY <1>0, <1>11, JobFields, BuildConstantsOK DEF Wipe, BuildTypeOK, Done
<1>12. ASSUME NEW n \in CoastNames, NEW v \in [there : BOOLEAN, waits : BOOLEAN, type : Types,
                                              build : 0 .. MaxBuilds],
              coast' \in {coast, [coast EXCEPT ![n] = v]},
              UNCHANGED <<made, dirs, whole, latest, job>>, runner' \in {runner, NoRun}
       PROVE  BuildTypeOK'
  <2>1. NoRun \in [name : CoastNames \union {"none"}, type : Types, id : 0 .. MaxBuilds]
        BY BuildConstantsOK DEF NoRun, Types
  <2> QED BY <1>0, <1>12, <2>1 DEF BuildTypeOK
<1>13. ASSUME NEW n \in CoastNames, RemoveCoast(n) PROVE BuildTypeOK'
  <2>1. NoCoast \in [there : BOOLEAN, waits : BOOLEAN, type : Types, build : 0 .. MaxBuilds]
        BY BuildConstantsOK DEF NoCoast, Types
  <2> QED BY <1>12, <1>13, <2>1 DEF RemoveCoast
<1>14. ASSUME NEW n \in CoastNames, NEW t \in Types, EnqueueRun(n, t) PROVE BuildTypeOK'
  <2>1. [there |-> TRUE, waits |-> TRUE, type |-> t, build |-> 0]
            \in [there : BOOLEAN, waits : BOOLEAN, type : Types, build : 0 .. MaxBuilds]
        BY BuildConstantsOK
  <2> QED BY <1>12, <1>14, <2>1 DEF EnqueueRun
<1>15. ASSUME NEW n \in CoastNames, NEW t \in Types, ResolveBuild(n, t) PROVE BuildTypeOK'
  <2>1. runner' = [name |-> n, type |-> t, id |-> latest[t]]
        BY <1>15 DEF ResolveBuild
  <2> QED BY <1>0, <1>15, <2>1 DEF ResolveBuild, BuildTypeOK
<1>16. CASE InsertCoast
  <2>1. runner.name \in CoastNames
        BY <1>16 DEF InsertCoast, Apart
  <2>2. PICK v : v = [there |-> TRUE, waits |-> FALSE, type |-> runner.type, build |-> runner.id]
        OBVIOUS
  <2>3. v \in [there : BOOLEAN, waits : BOOLEAN, type : Types, build : 0 .. MaxBuilds]
        BY <2>2 DEF BuildTypeOK
  <2>4. coast' \in {coast, [coast EXCEPT ![runner.name] = v]}
        BY <1>16, <2>2 DEF InsertCoast
  <2> QED BY <1>12, <1>16, <2>1, <2>3, <2>4 DEF InsertCoast
<1>17. CASE CrashBuild
  <2>1. NoRun \in [name : CoastNames \union {"none"}, type : Types, id : 0 .. MaxBuilds]
        BY BuildConstantsOK DEF NoRun, Types
  <2> QED BY <1>0, <1>17, <2>1, JobFields DEF CrashBuild, BuildTypeOK
<1> QED BY <1>2, <1>3, <1>4, <1>5, <1>6, <1>7, <1>8, <1>9, <1>10, <1>11, <1>13, <1>14, <1>15,
           <1>16, <1>17 DEF BuildNext
----------------------------------------------------------------------------
(* What the permit keeps apart                                             *)

\* How a job goes on.
LEMMA JobMoves ==
    ASSUME BuildTypeOK, BuildNext
    PROVE  \/ job' = job
           \/ job'.pc = "free"
           \/ Permit /\ runner' = runner /\ job'.pc = "begun"
           \/ Permit /\ runner' = runner /\ job'.pc = "remove" /\ \E S \in SUBSET dirs : RemoveBegin(S)
           \/ Permit /\ runner' = runner /\ job'.pc = "all" /\ RemoveAllBegin
           \/ /\ job.pc \in {"begun", "written", "unlinked"} /\ runner' = runner
              /\ job'.pc \in {"written", "unlinked", "linked"}
           \/ job.pc = "linked" /\ runner' = runner /\ job'.pc = "prune" /\ ReadInUse
           \/ /\ job.pc \in {"remove", "unlink"} /\ runner' = runner
              /\ job'.pc \in {"remove", "unlink"} /\ job'.used = job.used
<1>1. job \in Job
      BY DEF BuildTypeOK
<1>2. ASSUME NEW t \in Types, BuildBegin(t)
      PROVE  Permit /\ runner' = runner /\ job'.pc = "begun"
      BY <1>2 DEF BuildBegin, NoJob
<1>3. ASSUME BuildFails \/ Prune \/ RemoveEnd \/ Wipe \/ CrashBuild PROVE job'.pc = "free"
      BY <1>3 DEF BuildFails, Prune, RemoveEnd, Wipe, CrashBuild, Done, NoJob
<1>4. ASSUME WriteManifest \/ DropLatest \/ SetLatest
      PROVE  /\ job.pc \in {"begun", "written", "unlinked"} /\ runner' = runner
             /\ job'.pc \in {"written", "unlinked", "linked"}
      BY <1>1, <1>4 DEF WriteManifest, DropLatest, SetLatest, JobTo, Job
<1>5. ASSUME ReadInUse PROVE job.pc = "linked" /\ runner' = runner /\ job'.pc = "prune"
      BY <1>1, <1>5 DEF ReadInUse, Job
<1>6. ASSUME NEW S \in SUBSET dirs, RemoveBegin(S)
      PROVE  Permit /\ runner' = runner /\ job'.pc = "remove"
      BY <1>6 DEF RemoveBegin, NoJob
<1>7. ASSUME RemoveAllBegin PROVE Permit /\ runner' = runner /\ job'.pc = "all"
      BY <1>7 DEF RemoveAllBegin, NoJob
<1>8. ASSUME RemoveOne \/ Unlink
      PROVE  /\ job.pc \in {"remove", "unlink"} /\ runner' = runner
             /\ job'.pc \in {"remove", "unlink"} /\ job'.used = job.used
  <2>1. CASE RemoveOne
    <3>1. PICK ids : \E q \in {"unlink", "remove"} : job' = [job EXCEPT !.ids = ids, !.pc = q]
          BY <2>1 DEF RemoveOne
    <3> QED BY <1>1, <2>1, <3>1 DEF RemoveOne, Job
  <2>2. CASE Unlink
        BY <1>1, <2>2 DEF Unlink, JobTo, Job
  <2> QED BY <1>8, <2>1, <2>2
<1>9. ASSUME NEW n \in CoastNames,
             RemoveCoast(n) \/ \E t \in Types : EnqueueRun(n, t) \/ ResolveBuild(n, t)
      PROVE  job' = job
      BY <1>9 DEF RemoveCoast, EnqueueRun, ResolveBuild
<1>10. ASSUME InsertCoast PROVE job' = job
      BY <1>10 DEF InsertCoast
<1> QED BY <1>2, <1>3, <1>4, <1>5, <1>6, <1>7, <1>8, <1>9, <1>10 DEF BuildNext

\* A run resolves while no job is under way, and ends before one begins.
LEMMA RunMoves ==
    ASSUME BuildNext
    PROVE  \/ runner' = runner
           \/ runner' = NoRun
           \/ /\ Permit /\ UNCHANGED <<job, whole, latest>>
              /\ \E n \in CoastNames, t \in Types : runner' = [name |-> n, type |-> t, id |-> latest[t]]
BY DEF BuildNext, BuildBegin, BuildFails, WriteManifest, DropLatest, SetLatest,
       ReadInUse, Prune, RemoveBegin, RemoveOne, Unlink, RemoveEnd, RemoveAllBegin, Wipe,
       RemoveCoast, EnqueueRun, ResolveBuild, InsertCoast, CrashBuild

\* A job and a run are never under way together.
LEMMA ApartStep ==
    ASSUME BInv, BuildNext
    PROVE  Apart'
<1>1. runner' # NoRun => runner'.name \in CoastNames
      BY RunMoves DEF BInv, Apart
<1>2. job'.pc = "free" \/ runner' = NoRun
      BY RunMoves, JobMoves DEF BInv, Apart, Permit
<1> QED BY <1>1, <1>2 DEF Apart

\* No row with a build is written while a job is under way.
LEMMA RowsWhileJob ==
    ASSUME BInv, BuildNext, NEW n \in CoastNames
    PROVE  /\ coast'[n].build # 0
                 => \/ coast'[n] = coast[n]
                    \/ /\ job.pc = "free" /\ UNCHANGED <<job, whole>>
                       /\ coast'[n].build = runner.id /\ coast'[n].type = runner.type
           /\ job.pc # "free" => coast'[n].build \in {coast[n].build, 0}
           /\ ~coast'[n].there => coast'[n].build = 0
<1>1. CASE UNCHANGED coast
      BY <1>1 DEF BInv, Spared
<1>2. ASSUME NEW m \in CoastNames, NEW v, coast' = [coast EXCEPT ![m] = v],
             ~v.there => v.build = 0,
             \/ v.build = 0
             \/ /\ job.pc = "free" /\ UNCHANGED <<job, whole>>
                /\ v.build = runner.id /\ v.type = runner.type
      PROVE  /\ coast'[n].build # 0
                   => \/ coast'[n] = coast[n]
                      \/ /\ job.pc = "free" /\ UNCHANGED <<job, whole>>
                         /\ coast'[n].build = runner.id /\ coast'[n].type = runner.type
             /\ job.pc # "free" => coast'[n].build \in {coast[n].build, 0}
             /\ ~coast'[n].there => coast'[n].build = 0
      BY <1>2 DEF BInv, Spared, BuildTypeOK
<1>3. ASSUME NEW m \in CoastNames, RemoveCoast(m)
      PROVE  coast' = [coast EXCEPT ![m] = NoCoast] /\ NoCoast.build = 0
      BY <1>3 DEF RemoveCoast, NoCoast
<1>4. ASSUME NEW m \in CoastNames, NEW t \in Types, EnqueueRun(m, t)
      PROVE  coast' = [coast EXCEPT ![m] = [there |-> TRUE, waits |-> TRUE, type |-> t, build |-> 0]]
      BY <1>4 DEF EnqueueRun
<1>5. ASSUME InsertCoast
      PROVE  /\ runner.name \in CoastNames /\ job.pc = "free" /\ UNCHANGED <<job, whole>>
             /\ \/ UNCHANGED coast
                \/ coast' = [coast EXCEPT ![runner.name] =
                                [there |-> TRUE, waits |-> FALSE, type |-> runner.type,
                                 build |-> runner.id]]
      BY <1>5 DEF InsertCoast, BInv, Apart
<1>6. \/ UNCHANGED coast
      \/ \E m \in CoastNames : RemoveCoast(m) \/ \E t \in Types : EnqueueRun(m, t)
      \/ InsertCoast
      BY DEF BuildNext, BuildBegin, BuildFails, WriteManifest, DropLatest, SetLatest,
             ReadInUse, Prune, RemoveBegin, RemoveOne, Unlink, RemoveEnd, RemoveAllBegin, Wipe,
             ResolveBuild, CrashBuild
<1> QED BY <1>1, <1>2, <1>3, <1>4, <1>5, <1>6

\* What a step of a job does to the builds.
LEMMA JobSteps ==
    ASSUME BInv, BuildNext
    PROVE  /\ whole \ whole' # {} \/ dirs \ dirs' # {} => job.pc \in {"prune", "remove", "all"}
           /\ job.pc \in {"prune", "remove"} => (dirs \ dirs') \intersect job.used = {}
           /\ job.pc \in {"prune", "remove"} => (whole \ whole') \intersect job.used = {}
BY DEF BuildNext, BuildBegin, BuildFails, WriteManifest, DropLatest, SetLatest,
       ReadInUse, Prune, RemoveBegin, RemoveOne, Unlink, RemoveEnd, RemoveAllBegin, Wipe,
       RemoveCoast, EnqueueRun, ResolveBuild, InsertCoast, CrashBuild

\* What a job removes was read as not in use, and stays so.
LEMMA SparedStep ==
    ASSUME BInv, BuildNext
    PROVE  Spared'
<1>1. \A n \in CoastNames : ~coast'[n].there => coast'[n].build = 0
      BY RowsWhileJob
<1>2. ASSUME job'.pc \in {"prune", "remove", "unlink"}, NEW n \in CoastNames
      PROVE  coast'[n].build \in job'.used \union {0}
  <2>1. CASE ReadInUse \/ \E S \in SUBSET dirs : RemoveBegin(S)
    <3>1. job'.used = InUse(latest[Default]) /\ coast' = coast
          BY <2>1 DEF ReadInUse, RemoveBegin, BInv, BuildTypeOK, Job, NoJob
    <3> QED BY <3>1, InUseTyped DEF BInv, Spared, Types
  <2>2. CASE ~(ReadInUse \/ \E S \in SUBSET dirs : RemoveBegin(S))
    <3>1. job.pc \in {"prune", "remove", "unlink"} /\ job'.used = job.used
          BY <1>2, <2>2, JobMoves DEF BInv
    <3> QED BY <3>1, RowsWhileJob DEF BInv, Spared
  <2> QED BY <2>1, <2>2
<1>3. ASSUME job'.pc = "all", NEW n \in CoastNames
      PROVE  coast'[n].build = 0
  <2>1. CASE RemoveAllBegin
        BY <2>1 DEF RemoveAllBegin, BInv, Spared
  <2>2. CASE ~RemoveAllBegin
    <3>1. job.pc = "all"
          BY <1>3, <2>2, JobMoves DEF BInv
    <3> QED BY <3>1, RowsWhileJob DEF BInv, Spared
  <2> QED BY <2>1, <2>2
<1> QED BY <1>1, <1>2, <1>3 DEF Spared
\* What is linked is complete and the newest.
LEMMA BuildingStep ==
    ASSUME BInv, BuildNext
    PROVE  Building'
<1>0. BuildTypeOK /\ Building /\ job \in Job
      BY DEF BInv, BuildTypeOK
<1>1. ASSUME job'.pc \notin {"begun", "written", "unlinked", "linked", "prune"} PROVE Building'
      BY <1>1 DEF Building
<1>2. CASE UNCHANGED <<made, dirs, whole, latest, job>>
      BY <1>0, <1>2 DEF Building
<1>3. ASSUME NEW t \in Types, BuildBegin(t) PROVE Building'
  <2>1. PICK b : b = Count + 1
        OBVIOUS
  <2>2. /\ made' = [x \in 1 .. b |-> IF x = b THEN t ELSE made[x]]
        /\ dirs' = dirs \union {b}
        /\ job'.pc = "begun" /\ job'.id = b
        BY <1>3, <2>1 DEF BuildBegin, Count, NoJob
  <2>3. b \in Nat
        BY <1>0, <2>1, Counted, BuildConstantsOK
  <2> QED BY <2>2, <2>3 DEF Building
<1>4. CASE WriteManifest
  <2>1. job'.pc = "written" /\ job'.id = job.id /\ job.pc = "begun"
        BY <1>0, <1>4 DEF WriteManifest, JobTo, Job
  <2> QED BY <1>0, <1>4, <2>1 DEF WriteManifest, Building
<1>5. CASE DropLatest
  <2>1. job'.pc = "unlinked" /\ job'.id = job.id /\ job.pc = "written"
        BY <1>0, <1>5 DEF DropLatest, JobTo, Job
  <2> QED BY <1>0, <1>5, <2>1 DEF DropLatest, Building
<1>6. CASE SetLatest
  <2>1. job'.pc = "linked" /\ job'.id = job.id /\ job.pc = "unlinked"
        BY <1>0, <1>6 DEF SetLatest, JobTo, Job
  <2>2. job.id \in DOMAIN made
        BY <1>0, <2>1 DEF Building, BuildTypeOK
  <2>3. made[job.id] \in Types
        BY <1>0, <2>2, Counted
  <2>4. latest'[made[job.id]] = job.id
        BY <1>0, <1>6, <2>3 DEF SetLatest, BuildTypeOK
  <2> QED BY <1>0, <1>6, <2>1, <2>4 DEF SetLatest, Building
<1>7. CASE ReadInUse
  <2>1. job'.pc = "prune" /\ job'.id = job.id /\ job.pc = "linked"
        BY <1>0, <1>7 DEF ReadInUse, Job
  <2> QED BY <1>0, <1>7, <2>1 DEF ReadInUse, Building
<1>8. CASE BuildFails \/ Prune \/ RemoveEnd \/ Wipe \/ CrashBuild
      BY <1>1, <1>8 DEF BuildFails, Prune, RemoveEnd, Wipe, CrashBuild, Done, NoJob
<1>9. CASE RemoveOne \/ Unlink
  <2>1. job'.pc \in {"remove", "unlink"}
    <3>1. CASE Unlink
          BY <1>0, <3>1 DEF Unlink, JobTo, Job
    <3>2. CASE RemoveOne
      <4>1. PICK ids : \E q \in {"unlink", "remove"} : job' = [job EXCEPT !.ids = ids, !.pc = q]
            BY <3>2 DEF RemoveOne
      <4> QED BY <1>0, <4>1 DEF Job
    <3> QED BY <1>9, <3>1, <3>2
  <2> QED BY <1>1, <2>1
<1>10. ASSUME NEW S \in SUBSET dirs, RemoveBegin(S) PROVE Building'
  <2>1. job'.pc = "remove"
        BY <1>10 DEF RemoveBegin, NoJob
  <2> QED BY <1>1, <2>1
<1>11. CASE RemoveAllBegin
  <2>1. job'.pc = "all"
        BY <1>11 DEF RemoveAllBegin, NoJob
  <2> QED BY <1>1, <2>1
<1>12. ASSUME NEW n \in CoastNames,
              RemoveCoast(n) \/ \E t \in Types : EnqueueRun(n, t) \/ ResolveBuild(n, t)
       PROVE  Building'
       BY <1>2, <1>12 DEF RemoveCoast, EnqueueRun, ResolveBuild
<1>13. CASE InsertCoast
       BY <1>2, <1>13 DEF InsertCoast
<1> QED BY <1>3, <1>4, <1>5, <1>6, <1>7, <1>8, <1>9, <1>10, <1>11, <1>12, <1>13 DEF BuildNext

\* A prune leaves the build that "latest" names: it is of another type, or the
\* newest of its own.
LEMMA PruneKeepsLatest ==
    ASSUME BInv, Prune, latest[Default] \in whole
    PROVE  latest[Default] \in whole'
<1> DEFINE b == latest[Default]
           same == {c \in whole : made[c] = made[job.id]}
           newest == {c \in same : Cardinality({d \in same : d > c}) < Keep}
<1>1. whole' = whole \ ((same \ newest) \ job.used)
      BY DEF Prune
<1>2. job.pc = "prune" /\ BuildTypeOK /\ Building
      BY DEF Prune, BInv
<1>3. /\ job.id \in whole /\ latest[made[job.id]] = job.id
      /\ \A c \in DOMAIN made : c <= job.id
      BY <1>2 DEF Building
<1>4. CASE made[b] = made[job.id]
  <2>1. b \in DOMAIN made
        BY <1>2 DEF BuildTypeOK
  <2>2. b # 0
        BY <1>2, <2>1, Counted
  <2>3. made[b] = Default
        BY <2>2 DEF BInv, Linked
  <2>4. b = job.id
        BY <1>3, <1>4, <2>3
  <2>5. \A d \in same : ~(d > b)
    <3>1. \A d \in same : d \in 1 .. Count /\ d <= job.id
          BY <1>2, <1>3, Counted DEF BuildTypeOK
    <3>2. job.id \in Nat
          BY <1>2, JobFields
    <3> QED BY <1>2, <2>4, <3>1, <3>2, Counted
  <2>6. {d \in same : d > b} = {}
        BY <2>5
  <2>7. Cardinality({d \in same : d > b}) = 0
        BY <2>6, FS_EmptySet
  <2>8. b \in same
        BY <1>4
  <2> HIDE DEF b, same
  <2>9. b \in newest
        BY <2>7, <2>8, BuildConstantsOK
  <2> QED BY <1>1, <2>9 DEF b
<1>5. CASE made[b] # made[job.id]
      BY <1>1, <1>5
<1> QED BY <1>4, <1>5
\* "latest" keeps naming a complete build of its type.
LEMMA LinkedStep ==
    ASSUME BInv, BuildNext
    PROVE  Linked'
<1> DEFINE Typed  == latest[Default] # 0
                        => latest[Default] \in DOMAIN made /\ made[latest[Default]] = Default
           Noted  == job.pc = "remove" => latest[Default] \in {job.was, 0}
<1>0. /\ BuildTypeOK /\ Building /\ Typed /\ Noted /\ LatestIsWhole /\ job \in Job
      /\ Default \in Types /\ torn \in BOOLEAN
      BY DEF BInv, BuildTypeOK, Linked, Types
<1>t. /\ torn' = (torn \/ (job.pc = "unlink" /\ job'.pc = "free"))
      /\ torn => torn'
      BY DEF BuildNext
<1>1. ASSUME UNCHANGED <<made, whole, latest, job>> PROVE Linked'
  <2>1. Typed' /\ Noted'
        BY <1>0, <1>1
  <2>2. LatestIsWhole'
        BY <1>0, <1>1, <1>t DEF LatestIsWhole
  <2> QED BY <2>1, <2>2 DEF Linked
<1>2. ASSUME UNCHANGED <<made, whole, latest>>, job.pc # "unlink", job'.pc # "remove" PROVE Linked'
  <2>1. Typed' /\ Noted'
        BY <1>0, <1>2
  <2>2. LatestIsWhole'
        BY <1>0, <1>2, <1>t DEF LatestIsWhole
  <2> QED BY <2>1, <2>2 DEF Linked
<1>3. ASSUME latest'[Default] = 0 PROVE Linked'
      BY <1>3 DEF Linked, LatestIsWhole
<1>4. ASSUME NEW t \in Types, BuildBegin(t) PROVE Linked'
  <2>1. PICK b : b = Count + 1
        OBVIOUS
  <2>2. /\ made' = [x \in 1 .. b |-> IF x = b THEN t ELSE made[x]]
        /\ job'.pc = "begun" /\ job.pc = "free" /\ UNCHANGED <<whole, latest>>
        BY <1>4, <2>1 DEF BuildBegin, Count, NoJob, Permit
  <2>3. Typed'
        BY <1>0, <2>1, <2>2, Counted, BuildConstantsOK
  <2>4. LatestIsWhole'
        BY <1>0, <1>t, <2>2 DEF LatestIsWhole
  <2> QED BY <2>2, <2>3, <2>4 DEF Linked
<1>5. CASE WriteManifest
  <2>1. job'.pc = "written" /\ job.pc = "begun" /\ whole \subseteq whole' /\ UNCHANGED <<made, latest>>
        BY <1>0, <1>5 DEF WriteManifest, JobTo, Job
  <2>2. LatestIsWhole'
        BY <1>0, <1>t, <2>1 DEF LatestIsWhole
  <2> QED BY <1>0, <2>1, <2>2 DEF Linked
<1>6. CASE DropLatest
  <2>1. job'.pc = "unlinked" /\ job.pc = "written" /\ UNCHANGED <<made, whole>>
        BY <1>0, <1>6 DEF DropLatest, JobTo, Job
  <2>2. latest'[Default] \in {latest[Default], 0}
        BY <1>0, <1>6 DEF DropLatest, BuildTypeOK
  <2>3. LatestIsWhole'
        BY <1>0, <1>t, <2>1, <2>2 DEF LatestIsWhole
  <2> QED BY <1>0, <2>1, <2>2, <2>3 DEF Linked
<1>7. CASE SetLatest
  <2>1. job'.pc = "linked" /\ job.pc = "unlinked" /\ UNCHANGED <<made, whole>>
        BY <1>0, <1>7 DEF SetLatest, JobTo, Job
  <2>2. job.id \in whole /\ job.id \in DOMAIN made
        BY <1>0, <2>1 DEF Building, BuildTypeOK
  <2>3. \/ made[job.id] = Default /\ latest'[Default] = job.id
        \/ latest'[Default] = latest[Default]
        BY <1>0, <1>7 DEF SetLatest, BuildTypeOK
  <2>4. Typed'
        BY <1>0, <2>1, <2>2, <2>3
  <2>5. LatestIsWhole'
        BY <1>0, <1>t, <2>1, <2>2, <2>3 DEF LatestIsWhole
  <2> QED BY <2>1, <2>4, <2>5 DEF Linked
<1>8. CASE BuildFails \/ ReadInUse
  <2>1. job.pc # "unlink" /\ job'.pc # "remove"
    <3>1. CASE BuildFails
          BY <3>1 DEF BuildFails, Done, NoJob
    <3>2. CASE ReadInUse
          BY <1>0, <3>2 DEF ReadInUse, Job
    <3> QED BY <1>8, <3>1, <3>2
  <2> QED BY <1>2, <1>8, <2>1 DEF BuildFails, ReadInUse
<1>9. CASE Prune
  <2>1. job'.pc = "free" /\ job.pc = "prune" /\ UNCHANGED <<made, latest>>
        BY <1>9 DEF Prune, Done, NoJob
  <2>2. LatestIsWhole'
        BY <1>0, <1>9, <1>t, <2>1, PruneKeepsLatest DEF LatestIsWhole
  <2> QED BY <1>0, <2>1, <2>2 DEF Linked
<1>10. ASSUME NEW S \in SUBSET dirs, RemoveBegin(S) PROVE Linked'
  <2>1. /\ job'.pc = "remove" /\ job'.was = latest[Default] /\ job.pc = "free"
        /\ UNCHANGED <<made, whole, latest>>
        BY <1>10 DEF RemoveBegin, NoJob, Permit
  <2>2. LatestIsWhole'
        BY <1>0, <1>t, <2>1 DEF LatestIsWhole
  <2> QED BY <1>0, <2>1, <2>2 DEF Linked
<1>11. CASE RemoveOne
  <2>1. PICK b \in job.ids :
            /\ job' = [job EXCEPT !.ids = job.ids \ {b},
                                  !.pc = IF b \in dirs \ job.used /\ b = job.was
                                         THEN "unlink" ELSE "remove"]
            /\ whole' = IF b \in job.used THEN whole ELSE whole \ {b}
        BY <1>11 DEF RemoveOne
  <2>2. /\ job'.was = job.was
        /\ job'.pc = IF b \in dirs \ job.used /\ b = job.was THEN "unlink" ELSE "remove"
        BY <1>0, <2>1 DEF Job
  <2>3. job.pc = "remove" /\ UNCHANGED <<made, latest>>
        BY <1>11 DEF RemoveOne
  <2>4. CASE job'.pc = "unlink"
        BY <1>0, <2>3, <2>4 DEF Linked, LatestIsWhole
  <2>5. CASE job'.pc = "remove" /\ ~torn'
    <3>1. latest[Default] \in whole \union {0} /\ latest[Default] \in {job.was, 0}
          BY <1>0, <1>t, <2>3, <2>5 DEF LatestIsWhole
    <3>2. latest[Default] \in whole => latest[Default] \in whole'
          BY <1>0, <2>1, <2>2, <2>5, <3>1, Counted DEF BuildTypeOK
    <3> QED BY <1>0, <2>2, <2>3, <3>1, <3>2 DEF Linked, LatestIsWhole
  <2>6. CASE torn' /\ job'.pc = "remove"
        BY <1>0, <2>2, <2>3, <2>6 DEF Linked, LatestIsWhole
  <2> QED BY <2>2, <2>4, <2>5, <2>6
<1>12. CASE Unlink \/ Wipe
      BY <1>0, <1>3, <1>12 DEF Unlink, Wipe, BuildTypeOK
<1>13. CASE RemoveEnd \/ RemoveAllBegin
  <2>1. job.pc # "unlink" /\ job'.pc # "remove"
        BY <1>13 DEF RemoveEnd, RemoveAllBegin, Done, NoJob, Permit
  <2> QED BY <1>2, <1>13, <2>1 DEF RemoveEnd, RemoveAllBegin
<1>14. ASSUME NEW n \in CoastNames,
              RemoveCoast(n) \/ \E t \in Types : EnqueueRun(n, t) \/ ResolveBuild(n, t)
       PROVE  Linked'
       BY <1>1, <1>14 DEF RemoveCoast, EnqueueRun, ResolveBuild
<1>15. CASE InsertCoast
       BY <1>1, <1>15 DEF InsertCoast
<1>16. CASE CrashBuild
  <2>1. job'.pc = "free" /\ UNCHANGED <<made, whole, latest>>
        BY <1>16 DEF CrashBuild, NoJob
  <2>2. LatestIsWhole'
        BY <1>0, <1>t, <2>1 DEF LatestIsWhole
  <2> QED BY <1>0, <2>1, <2>2 DEF Linked
<1> QED BY <1>4, <1>5, <1>6, <1>7, <1>8, <1>9, <1>10, <1>11, <1>12, <1>13, <1>14, <1>15, <1>16
        DEF BuildNext

\* The build a row or a run names is not one that a job removes.
LEMMA NamedStays ==
    ASSUME BInv, BuildNext
    PROVE  /\ \A n \in CoastNames : coast[n].build \in whole => coast[n].build \in whole'
           /\ \A n \in CoastNames : coast[n].build \in dirs => coast[n].build \in dirs'
           /\ runner.id \in whole => runner.id \in whole'
<1>1. 0 \notin dirs /\ 0 \notin whole
      BY Counted DEF BInv, BuildTypeOK
<1>2. job.pc \in {"prune", "remove", "all"} => runner.id = 0
      BY DEF BInv, Apart, NoRun
<1>3. job.pc \in {"prune", "remove"} => \A n \in CoastNames : coast[n].build \in job.used \union {0}
      BY DEF BInv, Spared
<1>4. job.pc = "all" => \A n \in CoastNames : coast[n].build = 0
      BY DEF BInv, Spared
<1> QED BY <1>1, <1>2, <1>3, <1>4, JobSteps

\* What a run has resolved, and what its row names, is complete.
LEMMA MadeStep ==
    ASSUME BInv, BuildNext
    PROVE  Resolved' /\ MadeFromWhole'
<1>t. torn => torn'
      BY DEF BuildNext
<1>1. Resolved'
  <2>1. CASE runner' = runner
        BY <1>t, <2>1, NamedStays DEF BInv, Resolved
  <2>2. CASE runner' = NoRun
        BY <2>2 DEF Resolved, NoRun
  <2>3. CASE /\ Permit /\ UNCHANGED <<job, whole, latest>>
             /\ \E n \in CoastNames, t \in Types : runner' = [name |-> n, type |-> t, id |-> latest[t]]
    <3>1. latest[Default] \in whole \union {0} \/ torn
          BY <2>3 DEF BInv, Linked, LatestIsWhole, Permit
    <3> QED BY <1>t, <2>3, <3>1 DEF Resolved
  <2> QED BY <2>1, <2>2, <2>3, RunMoves
<1>2. ASSUME NEW n \in CoastNames, coast'[n].type = Default, coast'[n].build # 0, ~torn'
      PROVE  coast'[n].build \in whole'
  <2>1. CASE coast'[n] = coast[n]
        BY <1>2, <1>t, <2>1, NamedStays DEF BInv, MadeFromWhole
  <2>2. CASE coast'[n].build = runner.id /\ coast'[n].type = runner.type
        BY <1>2, <1>t, <2>2, NamedStays DEF BInv, Resolved
  <2> QED BY <1>2, <2>1, <2>2, RowsWhileJob
<1> QED BY <1>1, <1>2 DEF MadeFromWhole

----------------------------------------------------------------------------
(* The theorems                                                            *)

\* Every step keeps the invariant.
LEMMA BInvStep == BInv /\ [BuildNext]_buildvars => BInv'
<1> SUFFICES ASSUME BInv, [BuildNext]_buildvars PROVE BInv'
    OBVIOUS
<1>1. CASE BuildNext
  <2>1. BuildTypeOK'
        BY <1>1, BuildTypeStep DEF BInv
  <2> QED BY <1>1, <2>1, ApartStep, SparedStep, BuildingStep, LinkedStep, MadeStep DEF BInv
<1>2. CASE UNCHANGED buildvars
      BY <1>2 DEF buildvars, BInv, BuildTypeOK, Apart, Spared, Building, Linked, LatestIsWhole,
                  Resolved, MadeFromWhole
<1> QED BY <1>1, <1>2

\* The maps of builds, rows and symlinks keep their types.
THEOREM BuildTypeCorrect == BuildSpec => []BuildTypeOK
<1>1. BInv => BuildTypeOK
      BY DEF BInv
<1> QED BY <1>1, BInvInit, BInvStep, PTL DEF BuildSpec

\* Whatever is built, pruned, removed and killed meanwhile, an instance of the
\* default type is made from a build that is complete and stays so, unless a
\* crash has torn an rm-build between a build and its symlink.
THEOREM InstancesAreWhole == BuildSpec => []MadeFromWhole
<1>1. BInv => MadeFromWhole
      BY DEF BInv
<1> QED BY <1>1, BInvInit, BInvStep, PTL DEF BuildSpec

\* Neither a prune nor a removal takes the build away from an instance that
\* was made from it, rows that are written and removed meanwhile included.
THEOREM BuildsInUseStay == BuildSpec => InUseKept
<1>1. BInv /\ [BuildNext]_buildvars
        => [\A n \in CoastNames : coast[n].build \in dirs /\ coast'[n] = coast[n]
               => coast[n].build \in dirs']_buildvars
      BY NamedStays
<1> QED BY <1>1, BInvInit, BInvStep, PTL DEF BuildSpec, InUseKept

\* "latest" names a complete build of the default type, but for the moment
\* between the removal of a build and that of the symlink.
THEOREM LatestStaysWhole == BuildSpec => []LatestIsWhole
<1>1. BInv => LatestIsWhole
      BY DEF BInv, Linked
<1> QED BY <1>1, BInvInit, BInvStep, PTL DEF BuildSpec
----------------------------------------------------------------------------
(* CoastfileLayers: what a Coastfile resolves to is what is read of the    *)
(* standalone file made from it, for any set of files and whatever they    *)
(* hold.                                                                   *)
(*                                                                         *)
(* LayersInv says of the calls under way what the code gets from its types *)
(* and its recursion: one for each ancestor, none twice, each with a base  *)
(* that is a Coastfile.                                                    *)
Call == [file : Coastfiles, base : Config, left : Seq(Coastfiles), pc : {"extends", "merge"}]

Callers(s) == {s[i].file : i \in 1 .. Len(s)}

Once(s) == \A i, j \in 1 .. Len(s) : s[i].file = s[j].file => i = j

Extends(s) ==
    \A i \in 1 .. Len(s) : s[i].pc = "extends" => text[s[i].file].extends \in Coastfiles

\* It can be read of the resolved Coastfile what its primary port is.
Readable(c) == PrimaryDeclared(c) \/ \E f \in Coastfiles : c.primary \in text[f].unset

LayersInv ==
    /\ text \in [Coastfiles -> Layer] /\ outcome \in Outcomes
    /\ stack \in Seq(Call) /\ Once(stack) /\ Extends(stack) /\ ancestors = Callers(stack)
    /\ outcome # "reading" => stack = <<>>
    /\ resolved \in Config /\ reread \in Config
    /\ outcome = "read" => Readable(resolved)
    /\ ReadsBack

\* One layer on another is a Coastfile again.
LEMMA MergeType ==
  ASSUME text \in [Coastfiles -> Layer], NEW f \in Coastfiles, NEW base \in Config
  PROVE  Merge(base, f) \in Config
  <1>1. text[f] \in Layer
    OBVIOUS
  <1>2. base.run \in Seq(Coastfiles) /\ Append(base.run, f) \in Seq(Coastfiles)
    BY DEF Config
  <1>3. [e \in Entries |-> IF e \in text[f].entries THEN f ELSE base.entries[e]]
          \in [Entries -> From]
    BY DEF Config, From
  <1>4. /\ base.named \/ text[f].named \in BOOLEAN
        /\ base.dirs \in From /\ base.default \in From /\ base.primary \in Ports \union {NoPort}
        /\ text[f].primary \in Ports \union {NoPort} /\ f \in From /\ NoFile \in From
    BY <1>1 DEF Config, Layer, From
  <1> QED
    BY <1>2, <1>3, <1>4 DEF Merge, Config

LEMMA EmptyType == Empty \in Config
  BY DEF Empty, Config, From

LEMMA UnsetType ==
  ASSUME NEW c \in Config, NEW names
  PROVE  /\ Unset(c, names) \in Config /\ Unset(c, names).primary = c.primary
         /\ \A e \in Entries : e \notin names => Unset(c, names).entries[e] = c.entries[e]
  <1>1. [e \in Entries |-> IF e \in names THEN NoFile ELSE c.entries[e]] \in [Entries -> From]
    BY DEF Config, From
  <1> QED
    BY <1>1 DEF Unset, Config

LEMMA BuildType ==
  ASSUME text \in [Coastfiles -> Layer], NEW f \in Coastfiles
  PROVE  Build(f) \in Config
  <1>1. Merge(Empty, f) \in Config
    BY EmptyType, MergeType
  <1> QED
    BY <1>1 DEF Build, Config, From

\* The calls under way once another begins, or one is replaced or ends.
LEMMA Pushed ==
  ASSUME NEW s \in Seq(Call), NEW x \in Call
  PROVE  LET t == <<x>> \o s IN
         /\ t \in Seq(Call) /\ t # <<>> /\ Callers(t) = Callers(s) \union {x.file}
         /\ Once(s) /\ x.file \notin Callers(s) => Once(t)
         /\ Extends(s) /\ (x.pc = "extends" => text[x.file].extends \in Coastfiles) => Extends(t)
  <1> DEFINE t == <<x>> \o s
  <1>1. <<x>> \in Seq(Call) /\ Len(<<x>>) = 1 /\ <<x>>[1] = x /\ Len(s) \in Nat
    BY LenProperties
  <1>2. /\ t \in Seq(Call) /\ Len(t) = Len(s) + 1
        /\ \A i \in 1 .. Len(s) + 1 : t[i] = IF i = 1 THEN x ELSE s[i - 1]
    BY <1>1, ConcatProperties
  <1> HIDE DEF t
  <1>3. \A i \in 2 .. Len(t) : i - 1 \in 1 .. Len(s) /\ t[i] = s[i - 1]
    BY <1>1, <1>2
  <1>4. \A i \in 1 .. Len(s) : i + 1 \in 1 .. Len(t) /\ t[i + 1] = s[i]
    BY <1>1, <1>2
  <1>5. 1 \in 1 .. Len(t) /\ t[1] = x
    BY <1>1, <1>2
  <1>6. \A i \in 1 .. Len(t) : i = 1 \/ i \in 2 .. Len(t)
    BY <1>1, <1>2
  <1>7. Callers(t) = Callers(s) \union {x.file}
    <2>1. \A f \in Callers(t) : f \in Callers(s) \union {x.file}
      BY <1>3, <1>5, <1>6 DEF Callers
    <2>2. ASSUME NEW i \in 1 .. Len(s) PROVE s[i].file \in Callers(t)
      BY <1>4 DEF Callers
    <2>3. x.file \in Callers(t)
      BY <1>5 DEF Callers
    <2> QED
      BY <2>1, <2>2, <2>3 DEF Callers
  <1>8. Once(s) /\ x.file \notin Callers(s) => Once(t)
    <2> SUFFICES ASSUME Once(s), x.file \notin Callers(s),
                        NEW i \in 1 .. Len(t), NEW j \in 1 .. Len(t), t[i].file = t[j].file
                 PROVE  i = j
      BY DEF Once
    <2>1. \A k \in 2 .. Len(t) : t[k].file \in Callers(s)
      BY <1>3 DEF Callers
    <2>2. i = 1 <=> j = 1
      BY <1>5, <1>6, <2>1
    <2>3. CASE i \in 2 .. Len(t) /\ j \in 2 .. Len(t)
      <3>1. i - 1 = j - 1
        BY <1>3, <2>3 DEF Once
      <3> QED
        BY <2>3, <3>1
    <2> QED
      BY <1>6, <2>2, <2>3
  <1>9. Extends(s) /\ (x.pc = "extends" => text[x.file].extends \in Coastfiles) => Extends(t)
    BY <1>3, <1>5, <1>6 DEF Extends
  <1>10. t # <<>>
    BY <1>1, <1>2
  <1> QED
    BY <1>2, <1>7, <1>8, <1>9, <1>10 DEF t

LEMMA Popped ==
  ASSUME NEW s \in Seq(Call), s # <<>>, Once(s), Extends(s)
  PROVE  LET t == Tail(s) IN
         /\ Head(s) \in Call /\ t \in Seq(Call)
         /\ Once(t) /\ Extends(t) /\ Callers(t) = Callers(s) \ {Head(s).file}
         /\ Head(s).file \in Callers(s)
         /\ Head(s).pc = "extends" => text[Head(s).file].extends \in Coastfiles
  <1> DEFINE t == Tail(s)
  <1>1. /\ Head(s) \in Call /\ t \in Seq(Call) /\ Len(t) = Len(s) - 1
        /\ \A i \in 1 .. Len(t) : t[i] = s[i + 1]
    BY HeadTailProperties
  <1>2. Len(s) \in Nat \ {0} /\ Head(s) = s[1]
    BY EmptySeq
  <1> HIDE DEF t
  <1>3. \A i \in 1 .. Len(t) : i + 1 \in 2 .. Len(s) /\ t[i] = s[i + 1]
    BY <1>1, <1>2
  <1>4. \A i \in 2 .. Len(s) : i - 1 \in 1 .. Len(t) /\ t[i - 1] = s[i]
    BY <1>1, <1>2
  <1>5. \A i \in 1 .. Len(s) : i = 1 \/ i \in 2 .. Len(s)
    BY <1>2
  <1>6. 1 \in 1 .. Len(s) /\ 2 .. Len(s) \subseteq 1 .. Len(s) /\ 1 \notin 2 .. Len(s)
    BY <1>2
  <1>7. Callers(t) = {s[i].file : i \in 2 .. Len(s)}
    BY <1>3, <1>4 DEF Callers
  <1>8. \A i \in 2 .. Len(s) : s[i].file # s[1].file
    BY <1>6 DEF Once
  <1>9. Callers(t) = Callers(s) \ {Head(s).file}
    BY <1>2, <1>5, <1>6, <1>7, <1>8 DEF Callers
  <1>10. Once(t)
    <2> SUFFICES ASSUME NEW i \in 1 .. Len(t), NEW j \in 1 .. Len(t), t[i].file = t[j].file
                 PROVE  i = j
      BY DEF Once
    <2>1. i + 1 = j + 1
      BY <1>3, <1>6 DEF Once
    <2> QED
      BY <2>1
  <1>11. Extends(t)
    BY <1>3, <1>6 DEF Extends
  <1>12. Head(s).pc = "extends" => text[Head(s).file].extends \in Coastfiles
    BY <1>2, <1>6 DEF Extends
  <1>13. Head(s).file \in Callers(s)
    BY <1>2, <1>6 DEF Callers
  <1> QED
    BY <1>1, <1>9, <1>10, <1>11, <1>12, <1>13 DEF t

\* A call returns: its callers have its result in its place, or it was the
\* file that was asked for.
LEMMA Returns ==
  ASSUME LayersInv, outcome = "reading", NEW f \in Coastfiles, NEW c \in Config,
         NEW s \in Seq(Call), Once(s), Extends(s), Callers(s) = ancestors \ {f},
         Readable(c), Return(f, c, s)
  PROVE  LayersInv'
  <1>1. text' = text /\ reread' = reread /\ ancestors' = Callers(s)
    BY DEF Return
  <1>2. CASE s = <<>>
    <2>1. /\ outcome' = "read" /\ resolved' = c /\ stack' = <<>>
      BY <1>2 DEF Return
    <2>2. Readable(c)'
      BY <1>1 DEF Readable, PrimaryDeclared
    <2>3. ReadsBack'
      BY <2>1 DEF ReadsBack
    <2>4. /\ stack' \in Seq(Call) /\ Once(stack)' /\ Extends(stack)' /\ ancestors' = Callers(stack)'
      BY <1>1, <1>2, <2>1 DEF Once, Extends, Callers
    <2> QED
      BY <1>1, <2>1, <2>2, <2>3, <2>4 DEF LayersInv, Outcomes, Readable
  <1>3. CASE s # <<>>
    <2> DEFINE x == [Head(s) EXCEPT !.base = c, !.pc = "merge"]
    <2>1. stack' = <<x>> \o Tail(s) /\ UNCHANGED <<outcome, resolved>>
      BY <1>3 DEF Return
    <2>2. /\ Head(s) \in Call /\ Tail(s) \in Seq(Call) /\ Once(Tail(s)) /\ Extends(Tail(s))
          /\ Callers(Tail(s)) = Callers(s) \ {Head(s).file} /\ Head(s).file \in Callers(s)
      BY <1>3, Popped
    <2>3. x \in Call /\ x.file = Head(s).file /\ x.pc = "merge"
      BY <2>2 DEF Call
    <2> HIDE DEF x
    <2>4. /\ stack' \in Seq(Call) /\ Once(stack') /\ Extends(stack') /\ Callers(stack') = Callers(s)
      BY <2>1, <2>2, <2>3, Pushed
    <2>5. Once(stack)' /\ Extends(stack)' /\ ancestors' = Callers(stack)'
      BY <1>1, <2>4 DEF Once, Extends, Callers
    <2>6. ReadsBack'
      BY <1>1, <2>1 DEF LayersInv, ReadsBack
    <2> QED
      BY <1>1, <2>1, <2>4, <2>5, <2>6 DEF LayersInv
  <1> QED
    BY <1>2, <1>3

LEMMA Refuses ==
  ASSUME LayersInv, Refuse
  PROVE  LayersInv'
  <1>1. /\ stack' = <<>> /\ ancestors' = {} /\ outcome' = "refused"
        /\ UNCHANGED <<text, resolved, reread>>
    BY DEF Refuse
  <1>2. Once(stack)' /\ Extends(stack)' /\ ancestors' = Callers(stack)' /\ stack' \in Seq(Call)
    BY <1>1 DEF Once, Extends, Callers
  <1> QED
    BY <1>1, <1>2 DEF LayersInv, Outcomes, ReadsBack

LEMMA OpenKeeps ==
  ASSUME LayersInv, Open
  PROVE  LayersInv'
  <1> DEFINE f == IF stack = <<>> THEN First ELSE text[Top.file].extends
  <1>1. f \in Coastfiles
    <2>1. CASE stack = <<>>
      BY <2>1, LayersConstantsOK
    <2>2. CASE stack # <<>>
      <3>1. Top.pc = "extends"
        BY <2>2 DEF Open
      <3> QED
        BY <2>2, <3>1, Popped DEF LayersInv, Top
    <2> QED
      BY <2>1, <2>2
  <1>2. outcome = "reading" /\ text \in [Coastfiles -> Layer]
    BY DEF Open, LayersInv
  <1>3. CASE Refuse
    BY <1>3, Refuses
  <1>4. CASE f \notin ancestors /\ PrimaryDeclared(Build(f)) /\ Return(f, Build(f), stack)
    <2>1. Build(f) \in Config
      BY <1>1, <1>2, BuildType
    <2>2. Callers(stack) = ancestors \ {f}
      BY <1>4 DEF LayersInv
    <2> HIDE DEF f
    <2> QED
      BY <1>1, <1>2, <1>4, <2>1, <2>2, Returns DEF LayersInv, Readable
  <1>5. CASE /\ f \notin ancestors
             /\ ancestors' = ancestors \union {f}
             /\ stack' = <<[file |-> f, base |-> Empty, left |-> text[f].includes,
                            pc |-> IF text[f].extends = NoFile THEN "merge" ELSE "extends"]>>
                          \o stack
             /\ UNCHANGED <<text, outcome, resolved, reread>>
    <2> DEFINE x == [file |-> f, base |-> Empty, left |-> text[f].includes,
                     pc |-> IF text[f].extends = NoFile THEN "merge" ELSE "extends"]
    <2> HIDE DEF f
    <2>1. /\ text[f].includes \in Seq(Coastfiles)
          /\ text[f].extends \in Coastfiles \union {NoFile}
      BY <1>1, <1>2 DEF Layer
    <2>2. x \in Call /\ x.file = f /\ (x.pc = "extends" => text[x.file].extends \in Coastfiles)
      BY <1>1, <2>1, EmptyType DEF Call
    <2>3. stack' = <<x>> \o stack
      BY <1>5
    <2> HIDE DEF x
    <2>4. /\ stack' \in Seq(Call) /\ Once(stack') /\ Extends(stack')
          /\ Callers(stack') = ancestors \union {f}
      BY <1>5, <2>2, <2>3, Pushed DEF LayersInv
    <2>5. Once(stack)' /\ Extends(stack)' /\ ancestors' = Callers(stack)'
      BY <1>5, <2>4 DEF Once, Extends, Callers
    <2>6. ReadsBack' /\ outcome' = "reading"
      BY <1>2, <1>5 DEF LayersInv, ReadsBack
    <2> QED
      BY <1>2, <1>5, <2>4, <2>5, <2>6 DEF LayersInv
  <1> QED
    BY <1>3, <1>4, <1>5 DEF Open

LEMMA TopIs ==
  ASSUME LayersInv, Merging
  PROVE  /\ Top \in Call /\ Top.file \in Coastfiles /\ Top.base \in Config
         /\ Top.left \in Seq(Coastfiles) /\ Top.pc = "merge"
         /\ Tail(stack) \in Seq(Call) /\ Once(Tail(stack)) /\ Extends(Tail(stack))
         /\ Callers(Tail(stack)) = ancestors \ {Top.file} /\ Top.file \in ancestors
         /\ outcome = "reading" /\ text \in [Coastfiles -> Layer]
  BY Popped DEF LayersInv, Merging, Top, Call

LEMMA IncludeKeeps ==
  ASSUME LayersInv, Include
  PROVE  LayersInv'
  <1> DEFINE c == Merge(Top.base, Head(Top.left))
             x == [Top EXCEPT !.base = c, !.left = Tail(@)]
  <1>1. Merging /\ Top.left # <<>>
    BY DEF Include
  <1>2. Head(Top.left) \in Coastfiles /\ Tail(Top.left) \in Seq(Coastfiles)
    BY <1>1, TopIs, HeadTailProperties
  <1>3. c \in Config
    BY <1>1, <1>2, TopIs, MergeType
  <1>4. \/ Refuse
        \/ stack' = <<x>> \o Tail(stack) /\ UNCHANGED <<text, ancestors, outcome, resolved, reread>>
    BY DEF Include
  <1> HIDE DEF c
  <1>5. x \in Call /\ x.file = Top.file /\ x.pc = "merge"
    BY <1>1, <1>2, <1>3, TopIs DEF Call
  <1> HIDE DEF x
  <1>6. CASE stack' = <<x>> \o Tail(stack) /\ UNCHANGED <<text, ancestors, outcome, resolved, reread>>
    <2>1. /\ stack' \in Seq(Call) /\ Once(stack') /\ Extends(stack') /\ Callers(stack') = ancestors
      <3>1. /\ Tail(stack) \in Seq(Call) /\ Once(Tail(stack)) /\ Extends(Tail(stack))
            /\ Callers(Tail(stack)) = ancestors \ {x.file} /\ x.file \in ancestors
        BY <1>1, <1>5, TopIs
      <3>2. /\ stack' \in Seq(Call) /\ Callers(stack') = Callers(Tail(stack)) \union {x.file}
            /\ Once(stack') /\ Extends(stack')
        <4>1. x.file \notin Callers(Tail(stack)) /\ ~(x.pc = "extends")
          BY <1>5, <3>1
        <4> QED
          BY <1>5, <1>6, <3>1, <4>1, Pushed
      <3> QED
        BY <3>1, <3>2
    <2>2. Once(stack)' /\ Extends(stack)' /\ ancestors' = Callers(stack)'
      BY <1>6, <2>1 DEF Once, Extends, Callers
    <2>3. ReadsBack' /\ outcome' = "reading"
      BY <1>1, <1>6 DEF LayersInv, ReadsBack, Merging
    <2> QED
      BY <1>6, <2>1, <2>2, <2>3 DEF LayersInv
  <1> QED
    BY <1>4, <1>6, Refuses

\* What a file unsets it may have declared its primary port.
LEMMA MergeOwnKeeps ==
  ASSUME LayersInv, MergeOwn
  PROVE  LayersInv'
  <1> DEFINE f == Top.file
             c == Merge(Top.base, f)
             d == Unset(c, text[f].unset)
  <1>1. Merging
    BY DEF MergeOwn
  <1>2. Refuse \/ (PrimaryDeclared(c) /\ Return(f, d, Tail(stack)))
    BY DEF MergeOwn
  <1>3. f \in Coastfiles /\ c \in Config
    BY <1>1, TopIs, MergeType
  <1> HIDE DEF c
  <1>4. d \in Config /\ d.primary = c.primary
        /\ \A e \in Entries : e \notin text[f].unset => d.entries[e] = c.entries[e]
    BY <1>3, UnsetType
  <1>5. PrimaryDeclared(c) => Readable(d)
    <2>1. c.primary = NoPort \/ c.primary \in Entries
      BY <1>3, LayersConstantsOK DEF Config
    <2> HIDE DEF d, f
    <2> QED
      BY <1>3, <1>4, <2>1 DEF Readable, PrimaryDeclared
  <1> HIDE DEF d
  <1> QED
    BY <1>1, <1>2, <1>3, <1>4, <1>5, TopIs, Returns, Refuses

\* default_worktree_dir is written where it is not the first of worktree_dir,
\* so the file read again has it back.
LEMMA RoundTrip ==
  ASSUME NEW c \in Config
  PROVE  ReadStandalone(Standalone(c)) = c
  <1>1. c.default # NoLine
    BY LayersConstantsOK DEF Config, From
  <1>2. CASE c.default = c.dirs
    BY <1>2 DEF Standalone, ReadStandalone, Config
  <1>3. CASE c.default # c.dirs
    BY <1>1, <1>3 DEF Standalone, ReadStandalone, Config
  <1> QED
    BY <1>2, <1>3

LEMMA RereadKeeps ==
  ASSUME LayersInv, Reread
  PROVE  LayersInv'
  <1>1. ReadStandalone(Standalone(resolved)) = resolved
    BY RoundTrip DEF LayersInv
  <1>2. /\ outcome = "read" /\ UNCHANGED <<text, stack, ancestors, resolved>>
        /\ \/ PrimaryDeclared(resolved) /\ outcome' = "stored" /\ reread' = resolved
           \/ ~PrimaryDeclared(resolved) /\ outcome' = "unreadable" /\ reread' = reread
    BY <1>1 DEF Reread
  <1>3. Once(stack)' /\ Extends(stack)' /\ ancestors' = Callers(stack)' /\ stack' = <<>>
    BY <1>2 DEF LayersInv, Once, Extends, Callers
  <1>4. ReadsBack'
    BY <1>2 DEF LayersInv, ReadsBack, Readable
  <1> QED
    BY <1>2, <1>3, <1>4 DEF LayersInv, Outcomes

LEMMA NoLayerType == NoLayer \in Layer
  BY LayersConstantsOK DEF NoLayer, Layer

\* Nothing is under way before and after.
LEMMA OthersKeepLayers ==
  ASSUME LayersInv, WriteFiles \/ Again \/ UNCHANGED layervars
  PROVE  LayersInv'
  <1>1. CASE WriteFiles
    <2>1. text' \in [Coastfiles -> Layer]
      BY <1>1, LayersConstantsOK DEF WriteFiles
    <2>2. /\ outcome' = "reading" /\ stack' = <<>> /\ stack = <<>>
          /\ UNCHANGED <<stack, ancestors, resolved, reread>>
      BY <1>1 DEF WriteFiles, LayersInv
    <2>3. Once(stack)' /\ Extends(stack)' /\ ancestors' = Callers(stack)'
      BY <2>2 DEF LayersInv, Once, Extends, Callers
    <2> QED
      BY <2>1, <2>2, <2>3 DEF LayersInv, Outcomes, ReadsBack
  <1>2. CASE Again
    <2>1. /\ outcome' = "unread" /\ stack = <<>> /\ UNCHANGED <<stack, ancestors>>
          /\ text' \in [Coastfiles -> Layer] /\ resolved' \in Config /\ reread' \in Config
      BY <1>2, NoLayerType, EmptyType DEF Again, LayersInv
    <2>2. Once(stack)' /\ Extends(stack)' /\ ancestors' = Callers(stack)'
      BY <2>1 DEF LayersInv, Once, Extends, Callers
    <2> QED
      BY <2>1, <2>2 DEF LayersInv, Outcomes, ReadsBack
  <1>3. CASE UNCHANGED layervars
    BY <1>3 DEF layervars, LayersInv, Once, Extends, Callers, ReadsBack, Readable, PrimaryDeclared
  <1> QED
    BY <1>1, <1>2, <1>3

LEMMA LayersHold == LayersSpec => []LayersInv
  <1>1. LayersInit => LayersInv
    BY NoLayerType, EmptyType DEF LayersInit, LayersInv, Once, Extends, Callers, Outcomes, ReadsBack
  <1>2. LayersInv /\ [LayersNext]_layervars => LayersInv'
    BY OpenKeeps, IncludeKeeps, MergeOwnKeeps, RereadKeeps, OthersKeepLayers DEF LayersNext
  <1> QED
    BY <1>1, <1>2, PTL DEF LayersSpec

\* from_file_with_ancestry: whatever files there are and whatever they extend
\* and include, its recursion is never deeper than there are files.
THEOREM LayersTypeCorrect ==
  ASSUME IsFiniteSet(Coastfiles)
  PROVE  LayersSpec => []LayersTypeOK
  <1>1. ASSUME LayersInv PROVE LayersTypeOK
    <2>1. \A i \in 1 .. Len(stack) : stack[i] \in Call /\ stack[i].file \in ancestors
      BY <1>1, ElementOfSeq DEF LayersInv, Callers
    <2>2. Len(stack) \in Nat /\ DOMAIN stack = 1 .. Len(stack)
      BY <1>1, LenProperties DEF LayersInv
    <2>3. ancestors \subseteq Coastfiles
      BY <1>1, <2>1 DEF LayersInv, Callers, Call
    <2>4. Len(stack) <= Cardinality(Coastfiles)
      <3> DEFINE g == [i \in 1 .. Len(stack) |-> stack[i].file]
      <3>1. g \in [1 .. Len(stack) -> Coastfiles]
        BY <2>1 DEF Call
      <3>2. \A i, j \in 1 .. Len(stack) : g[i] = g[j] => i = j
        BY <1>1 DEF LayersInv, Once
      <3>3. IsFiniteSet(1 .. Len(stack)) /\ Cardinality(1 .. Len(stack)) = Len(stack)
        <4>1. 1 \in Int /\ Len(stack) \in Int
          BY <2>2
        <4>2. /\ IsFiniteSet(1 .. Len(stack))
              /\ Cardinality(1 .. Len(stack)) = IF 1 > Len(stack) THEN 0 ELSE Len(stack) - 1 + 1
          BY <4>1, FS_Interval, Zenon
        <4> QED
          BY <2>2, <4>2
      <3>4. Cardinality(Coastfiles) \in Nat
        BY FS_CardinalityType
      <3> HIDE DEF g
      <3>5. ~(Cardinality(Coastfiles) < Cardinality(1 .. Len(stack)))
        BY <3>1, <3>2, <3>3, FS_PigeonHole
      <3> QED
        BY <2>2, <3>3, <3>4, <3>5
    <2> QED
      BY <1>1, <2>1, <2>2, <2>3, <2>4 DEF LayersInv, LayersTypeOK, Call
  <1> QED
    BY <1>1, LayersHold, PTL

\* serializer.rs: the standalone file a build stores resolves to the Coastfile
\* it was made from, and cannot be read only where the primary port was unset.
THEOREM StandaloneReadsBack == LayersSpec => []ReadsBack
  <1>1. LayersInv => ReadsBack
    BY DEF LayersInv
  <1> QED
    BY <1>1, LayersHold, PTL
=============================================================================
