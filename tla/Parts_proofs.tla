---------------------------- MODULE Parts_proofs ----------------------------
(***************************************************************************)
(* What holds of the small parts of coast, whatever the size of their      *)
(* instances: the stats collectors, bare services, isolated volumes and    *)
(* shared services.                                                        *)
(***************************************************************************)
EXTENDS StatsCollectors, BareServices, Volumes, SharedServices, FiniteSetTheorems, TLAPS

----------------------------------------------------------------------------
(* StatsCollectors: no two collectors read the container of an instance at *)
(* the same time, for any number of services, tasks, requests and viewers  *)
(* and whatever is in use.                                                 *)
(*                                                                         *)
(* The reason is Entered: a live collector of the container is the one the *)
(* map of handles names.  start_stats_collector enters it in the critical  *)
(* section in which it found the key free, and nothing takes the entry     *)
(* away from a collector that lives: a stop aborts the task it takes, and  *)
(* the task that leaves removes no handle of a live one.  The collectors   *)
(* of services have no part in it as long as those who start them work on  *)
(* keys of services (ServiceWork).                                         *)
Entered ==
    \A t \in Slots : Alive(t) /\ collector[t].key = CoastKey => handle[CoastKey] = t

Work == [key : Keys, pc : {"free", "check", "spawn", "insert", "discover",
                          "take", "mute", "takeall"},
         todo : SUBSET ServiceKeys, slot : Slots \union {NoCollector}, lost : BOOLEAN]

ServiceWork ==
    /\ starter \in [Starters -> Work]
    /\ \A p \in Starters : starter[p].pc \in {"spawn", "insert"} => starter[p].key \in ServiceKeys

Handles ==
    /\ handle    \in [Keys -> Slots \union {NoCollector}]
    /\ collector \in [Slots -> [key : Keys, pc : {"resolve", "read", "close", "leave", "dead"},
                                lost : BOOLEAN]]

CInv == Handles /\ Entered /\ ServiceWork

----------------------------------------------------------------------------
\* A starter is given another state, with work on services alone.
LEMMA StarterMoves ==
    ASSUME CInv, NEW p \in Starters, NEW v \in Work, starter' = [starter EXCEPT ![p] = v],
           v.pc \in {"spawn", "insert"} => v.key \in ServiceKeys
    PROVE  ServiceWork'
BY DEF CInv, ServiceWork

\* It takes up the first of some services, if there is one.
LEMMA FirstOf ==
    ASSUME NEW S \in SUBSET ServiceKeys, NEW gone \in BOOLEAN, NEW v,
           v = IF S = {} THEN NoneAt
               ELSE LET k == CHOOSE k \in S : TRUE
                    IN  [key |-> k, pc |-> "check", todo |-> S \ {k},
                         slot |-> NoCollector, lost |-> gone]
    PROVE  v \in Work /\ v.pc \notin {"spawn", "insert"}
<1>1. CASE S = {}
      BY <1>1 DEF NoneAt, Work, Keys
<1>2. CASE S # {}
  <2>1. PICK k : k = CHOOSE j \in S : TRUE
        OBVIOUS
  <2>2. k \in S
        BY <1>2, <2>1
  <2>3. v = [key |-> k, pc |-> "check", todo |-> S \ {k}, slot |-> NoCollector, lost |-> gone]
        BY <1>2, <2>1
  <2> QED BY <2>2, <2>3 DEF Work, Keys
<1> QED BY <1>1, <1>2

\* The listener or a viewer goes on to another service, or is done.
LEMMA NextOfKeeps ==
    ASSUME CInv, NEW p \in Starters, NextOf(p)
    PROVE  ServiceWork'
<1>1. PICK v : v = IF starter[p].todo = {} THEN NoneAt
                   ELSE LET k == CHOOSE k \in starter[p].todo : TRUE
                        IN  [key |-> k, pc |-> "check", todo |-> starter[p].todo \ {k},
                             slot |-> NoCollector, lost |-> starter[p].lost]
      OBVIOUS
<1>2. starter' = [starter EXCEPT ![p] = v]
      BY <1>1 DEF NextOf
<1>3. starter[p].todo \in SUBSET ServiceKeys /\ starter[p].lost \in BOOLEAN
      BY DEF CInv, ServiceWork, Work
<1>4. v \in Work /\ v.pc \notin {"spawn", "insert"}
      BY <1>1, <1>3, FirstOf
<1> QED BY <1>2, <1>4, StarterMoves

\* Requests: what a container that goes away means for those who read it.
LEMMA RequestKeeps ==
    ASSUME CInv, NEW r \in Requests,
           RequestStep(r) \/ \E op \in {"run", "stop", "archive", "start", "rm"} : RequestBegin(r, op)
    PROVE  CInv'
<1>1. CASE RequestBox(r)
  <2>1. PICK b : /\ collector' = [t \in Slots |->
                        [collector[t] EXCEPT !.lost = Alive(t) /\ (@ \/ b = "none")]]
                 /\ starter' = [p \in Starters |->
                        [starter[p] EXCEPT !.lost = starter[p].pc # "free" /\ (@ \/ b = "none")]]
                 /\ handle' = handle
        BY <1>1 DEF RequestBox, docker
  <2>2. Handles' /\ Entered'
        BY <2>1 DEF CInv, Handles, Entered, Alive
  <2>3. PICK g \in [Starters -> BOOLEAN] :
            g = [p \in Starters |-> starter[p].pc # "free" /\ (starter[p].lost \/ b = "none")]
        OBVIOUS
  <2>4. starter' = [p \in Starters |-> [starter[p] EXCEPT !.lost = g[p]]]
        BY <2>1, <2>3
  <2>5. ServiceWork'
        BY <2>4 DEF CInv, ServiceWork, Work
  <2> QED BY <2>2, <2>5 DEF CInv
<1>2. CASE UNCHANGED <<handle, collector, starter>>
      BY <1>2 DEF CInv, Handles, Entered, ServiceWork, Alive
<1> QED BY <1>1, <1>2 DEF RequestStep, RequestBegin, RequestRow, RequestEmit, docker

\* Starters: the collector of the container is entered as it is spawned, those
\* of services are spawned and entered under their own keys.
LEMMA StarterKeeps ==
    ASSUME CInv, NEW p \in Starters, StarterStep(p)
    PROVE  CInv'
<1>0. starter[p] \in Work
      BY DEF CInv, ServiceWork
<1>1. ASSUME NEW pc \in {"discover", "spawn"}, starter' = [starter EXCEPT ![p].pc = pc],
             pc = "spawn" => starter[p].key \in ServiceKeys
      PROVE  ServiceWork'
      BY <1>0, <1>1 DEF CInv, ServiceWork, Work
<1>2. ASSUME UNCHANGED <<handle, collector>>, ServiceWork' PROVE CInv'
      BY <1>2 DEF CInv, Handles, Entered, Alive
<1>3. CASE StartCoast(p)
  <2>1. ServiceWork'
        BY <1>1, <1>3 DEF StartCoast
  <2>2. CASE UNCHANGED <<handle, collector>>
        BY <1>2, <2>1, <2>2
  <2>3. CASE /\ handle[CoastKey] = NoCollector
             /\ \E t \in FreeSlots : SpawnTask(t, p) /\ handle' = [handle EXCEPT ![CoastKey] = t]
    <3>1. PICK t \in Slots : SpawnTask(t, p) /\ handle' = [handle EXCEPT ![CoastKey] = t]
          BY <2>3 DEF FreeSlots
    <3>2. collector' = [collector EXCEPT ![t] =
              [key |-> CoastKey, lost |-> starter[p].lost, pc |-> "read"]]
          BY <1>3, <3>1 DEF SpawnTask, StartCoast
    <3>3. Handles'
          BY <1>0, <3>1, <3>2 DEF CInv, Handles, Keys, Work
    <3>4. \A u \in Slots : ~(Alive(u) /\ collector[u].key = CoastKey)
          BY <2>3, StatsConstantsOK DEF CInv, Entered
    <3>5. Entered'
          BY <3>1, <3>2, <3>4 DEF CInv, Handles, Entered, Alive, Keys
    <3> QED BY <2>1, <3>3, <3>5 DEF CInv
  <2> QED BY <1>3, <2>2, <2>3 DEF StartCoast
<1>4. CASE Discover(p)
  <2>1. PICK found \in {{}, ServiceKeys} :
            starter' = [starter EXCEPT ![p] =
                IF found = {} THEN NoneAt
                ELSE LET k == CHOOSE k \in found : TRUE
                     IN  [key |-> k, pc |-> "check", todo |-> found \ {k},
                          slot |-> NoCollector, lost |-> FALSE]]
        BY <1>4 DEF Discover
  <2>2. PICK v : v = IF found = {} THEN NoneAt
                     ELSE LET k == CHOOSE k \in found : TRUE
                          IN  [key |-> k, pc |-> "check", todo |-> found \ {k},
                               slot |-> NoCollector, lost |-> FALSE]
        OBVIOUS
  <2>3. v \in Work /\ v.pc \notin {"spawn", "insert"}
        BY <2>2, FirstOf
  <2>4. ServiceWork'
        BY <2>1, <2>2, <2>3, StarterMoves
  <2> QED BY <1>2, <1>4, <2>4 DEF Discover
<1>5. CASE CheckService(p)
  <2>1. ServiceWork'
    <3>1. starter[p].key \in ServiceKeys
          BY <1>0, <1>5 DEF CheckService, Keys, Work
    <3> QED BY <1>1, <1>5, <3>1, NextOfKeeps DEF CheckService
  <2> QED BY <1>2, <1>5, <2>1 DEF CheckService
<1>6. CASE SpawnService(p)
  <2>1. PICK t \in FreeSlots : /\ SpawnTask(t, p)
                               /\ starter' = [starter EXCEPT ![p].pc = "insert", ![p].slot = t]
        BY <1>6 DEF SpawnService
  <2>2. starter[p].key \in ServiceKeys /\ starter[p].key # CoastKey
        BY <1>6, StatsConstantsOK DEF SpawnService, CInv, ServiceWork
  <2>3. collector' = [collector EXCEPT ![t] =
            [key |-> starter[p].key, lost |-> starter[p].lost, pc |-> "resolve"]]
        BY <2>1, <2>2 DEF SpawnTask
  <2>4. Handles' /\ handle' = handle
        BY <1>0, <1>6, <2>1, <2>3 DEF SpawnService, CInv, Handles, FreeSlots, Work
  <2>5. Entered'
        BY <2>1, <2>2, <2>3, <2>4 DEF CInv, Handles, Entered, Alive, FreeSlots
  <2>6. ServiceWork'
        BY <1>0, <2>1, <2>2 DEF CInv, ServiceWork, Work, FreeSlots
  <2> QED BY <2>4, <2>5, <2>6 DEF CInv
<1>7. CASE InsertService(p)
  <2>1. ServiceWork'
        BY <1>7, NextOfKeeps DEF InsertService
  <2>2. starter[p].key # CoastKey /\ starter[p].key \in Keys
        BY <1>0, <1>7, StatsConstantsOK DEF InsertService, CInv, ServiceWork, Work
  <2>3. handle' = [handle EXCEPT ![starter[p].key] = starter[p].slot] /\ collector' = collector
        BY <1>7 DEF InsertService
  <2>4. Handles' /\ Entered'
        BY <1>0, <2>2, <2>3 DEF CInv, Handles, Entered, Alive, Work, Keys
  <2> QED BY <2>1, <2>4 DEF CInv
<1> QED BY <1>3, <1>4, <1>5, <1>6, <1>7 DEF StarterStep

\* A collector ends, and a handle may go, unless it is that of a live
\* collector of the container.
LEMMA CollectorEnds ==
    ASSUME CInv, NEW t,
           collector' = [u \in Slots |-> IF u = t THEN FreeSlot ELSE collector[u]],
           NEW k \in Keys, handle' \in {handle, [handle EXCEPT ![k] = NoCollector]},
           k = CoastKey /\ handle' # handle
               => \A u \in Slots \ {t} : ~(Alive(u) /\ collector[u].key = CoastKey)
    PROVE  Handles' /\ Entered'
<1>1. Handles'
      BY DEF CInv, Handles, FreeSlot, Keys
<1>2. ASSUME NEW u \in Slots, Alive(u)', collector'[u].key = CoastKey
      PROVE  handle'[CoastKey] = u
  <2>1. u # t /\ Alive(u) /\ collector[u].key = CoastKey
        BY <1>2 DEF Alive, FreeSlot
  <2> QED BY <2>1 DEF CInv, Handles, Entered, Keys
<1> QED BY <1>1, <1>2 DEF Entered

\* The listener goes on to the collector of another service, or is done.
LEMMA StopOfTyped ==
    ASSUME NEW S \in SUBSET ServiceKeys
    PROVE  StopOf(S) \in Work /\ StopOf(S).pc \notin {"spawn", "insert"}
<1>1. CASE S = {}
      BY <1>1 DEF StopOf, NoneAt, Work, Keys
<1>2. CASE S # {}
  <2>1. PICK k : k = CHOOSE j \in S : TRUE
        OBVIOUS
  <2>2. k \in S
        BY <1>2, <2>1
  <2>3. StopOf(S) = [NoneAt EXCEPT !.key = k, !.pc = "take", !.todo = S \ {k}]
        BY <1>2, <2>1 DEF StopOf
  <2> QED BY <2>2, <2>3 DEF Work, NoneAt, Keys
<1> QED BY <1>1, <1>2

\* The listener.
LEMMA ListenerKeeps ==
    ASSUME CInv, ListenerStep
    PROVE  CInv'
<1> DEFINE s == starter[Listener]
<1>0. Listener \in Starters /\ s \in Work
      BY DEF Starters, CInv, ServiceWork
<1>1. ASSUME UNCHANGED <<handle, collector>>, ServiceWork' PROVE CInv'
      BY <1>1 DEF CInv, Handles, Entered, Alive
<1>2. CASE StarterStep(Listener)
      BY <1>0, <1>2, StarterKeeps
<1>3. CASE TakeEvent
  <2>1. PICK b \in BOOLEAN : b = (box = "none")
        OBVIOUS
  <2>2. ASSUME starter' = [starter EXCEPT ![Listener].pc = "check", ![Listener].lost = b]
        PROVE  ServiceWork'
        BY <1>0, <2>2 DEF CInv, ServiceWork, Work
  <2>3. ASSUME starter' = [starter EXCEPT ![Listener].pc = "take"]
        PROVE  ServiceWork'
        BY <1>0, <2>3 DEF CInv, ServiceWork, Work
  <2>4. ASSUME starter' = starter
        PROVE  ServiceWork'
        BY <2>4 DEF CInv, ServiceWork
  <2>5. \/ starter' = [starter EXCEPT ![Listener].pc = "check", ![Listener].lost = b]
        \/ starter' = [starter EXCEPT ![Listener].pc = "take"]
        \/ starter' = starter
        BY <1>3, <2>1 DEF TakeEvent
  <2>6. ServiceWork'
        BY <2>2, <2>3, <2>4, <2>5
  <2> QED BY <1>1, <1>3, <2>6 DEF TakeEvent
<1>4. CASE TakeHandle
  <2>1. /\ collector' = [u \in Slots |-> IF u = handle[s.key] THEN FreeSlot ELSE collector[u]]
        /\ handle' = [handle EXCEPT ![s.key] = NoCollector]
        /\ starter' = [starter EXCEPT ![Listener].pc = "mute"]
        BY <1>4 DEF TakeHandle, Abort
  <2>2. s.key = CoastKey
            => \A u \in Slots \ {handle[s.key]} : ~(Alive(u) /\ collector[u].key = CoastKey)
        BY DEF CInv, Entered
  <2>3. Handles' /\ Entered'
        BY <1>0, <2>1, <2>2, CollectorEnds DEF Work
  <2>4. ServiceWork'
        BY <1>0, <2>1 DEF CInv, ServiceWork, Work
  <2> QED BY <2>3, <2>4 DEF CInv
<1>5. CASE RemoveChannel
  <2>1. PICK v : v = IF s.key = CoastKey THEN [NoneAt EXCEPT !.pc = "takeall"] ELSE StopOf(s.todo)
        OBVIOUS
  <2>2. starter' = [starter EXCEPT ![Listener] = v]
        BY <1>5, <2>1 DEF RemoveChannel
  <2>3. v \in Work /\ v.pc \notin {"spawn", "insert"}
    <3>1. CASE s.key = CoastKey
          BY <2>1, <3>1 DEF Work, NoneAt, Keys
    <3>2. CASE s.key # CoastKey
          BY <1>0, <2>1, <3>2, StopOfTyped DEF Work
    <3> QED BY <3>1, <3>2
  <2>4. ServiceWork'
        BY <1>0, <2>2, <2>3, StarterMoves
  <2> QED BY <1>1, <1>5, <2>4 DEF RemoveChannel
<1>6. CASE ListServices
  <2>1. PICK v : v = StopOf({k \in ServiceKeys : handle[k] # NoCollector})
        OBVIOUS
  <2>2. starter' = [starter EXCEPT ![Listener] = v]
        BY <1>6, <2>1 DEF ListServices
  <2>3. v \in Work /\ v.pc \notin {"spawn", "insert"}
        BY <2>1, StopOfTyped
  <2>4. ServiceWork'
        BY <1>0, <2>2, <2>3, StarterMoves
  <2> QED BY <1>1, <1>6, <2>4 DEF ListServices
<1> QED BY <1>2, <1>3, <1>4, <1>5, <1>6 DEF ListenerStep

\* The collectors themselves.
LEMMA CollectorKeeps ==
    ASSUME CInv, NEW t \in Slots, FindInner(t) \/ StreamEnds(t) \/ CloseChannel(t) \/ Leave(t)
    PROVE  CInv'
<1>1. CASE FindInner(t) \/ StreamEnds(t) \/ CloseChannel(t)
  <2>1. /\ Alive(t) /\ UNCHANGED <<handle, starter>>
        /\ \E pc \in {"read", "close", "leave"} : collector' = [collector EXCEPT ![t].pc = pc]
        BY <1>1 DEF FindInner, StreamEnds, CloseChannel, docker, Alive
  <2> QED BY <2>1 DEF CInv, Handles, Entered, Alive, ServiceWork
<1>2. CASE Leave(t)
  <2> DEFINE k == collector[t].key
  <2>1. /\ k \in Keys /\ Alive(t) /\ starter' = starter
        /\ collector' = [u \in Slots |-> IF u = t THEN FreeSlot ELSE collector[u]]
        /\ handle' = IF k = CoastKey /\ (handle[k] = NoCollector \/ handle[k] = t \/ Alive(handle[k]))
                     THEN handle ELSE [handle EXCEPT ![k] = NoCollector]
        BY <1>2 DEF Leave, Abort, Alive, CInv, Handles
  <2>2. k = CoastKey => handle' = handle
        BY <2>1 DEF CInv, Entered
  <2>3. Handles' /\ Entered'
        BY <2>1, <2>2, CollectorEnds
  <2> QED BY <2>1, <2>3 DEF CInv, ServiceWork
<1> QED BY <1>1, <1>2

\* Viewers and restarts.
LEMMA OthersKeep ==
    ASSUME CInv, Reboot \/ \E v \in Viewers, k \in Keys : View(v, k)
    PROVE  CInv'
<1>1. CASE Reboot
  <2>1. PICK t \in Slots, k \in {{}, {CoastKey}} :
            /\ collector' = [u \in Slots |-> IF u = t /\ k # {}
                                             THEN [FreeSlot EXCEPT !.pc = "read"] ELSE FreeSlot]
            /\ handle' = [j \in Keys |-> IF j \in k THEN t ELSE NoCollector]
        BY <1>1 DEF Reboot
  <2>2. Handles' /\ Entered'
        BY <2>1 DEF Handles, Entered, Alive, FreeSlot, Keys
  <2>3. NoneAt \in Work /\ [NoneAt EXCEPT !.pc = "discover"] \in Work /\ NoneAt.pc = "free"
        BY DEF Work, NoneAt, Keys
  <2>4. ServiceWork'
        BY <1>1, <2>3 DEF Reboot, ServiceWork, NoneAt
  <2> QED BY <2>2, <2>4 DEF CInv
<1>2. ASSUME NEW p \in Viewers, NEW k \in Keys, View(p, k) PROVE CInv'
  <2>1. PICK v : v = [NoneAt EXCEPT !.key = k, !.pc = "check", !.lost = box = "none"]
        OBVIOUS
  <2>2. starter' = [starter EXCEPT ![p] = v] /\ UNCHANGED <<handle, collector>>
        BY <1>2, <2>1 DEF View
  <2>3. PICK b \in BOOLEAN : b = (box = "none")
        OBVIOUS
  <2>4. v = [NoneAt EXCEPT !.key = k, !.pc = "check", !.lost = b]
        BY <2>1, <2>3
  <2>5. v \in Work /\ v.pc = "check"
        BY <2>4 DEF NoneAt, Work, Keys
  <2>6. ServiceWork'
        BY <2>2, <2>5, StarterMoves DEF Starters
  <2> QED BY <2>2, <2>6 DEF CInv, Handles, Entered, Alive
<1> QED BY <1>1, <1>2

\* Nothing has been started.
LEMMA CInvInit == StatsInit => CInv
<1>1. FreeSlot \in [key : Keys, pc : {"resolve", "read", "close", "leave", "dead"}, lost : BOOLEAN]
      BY DEF FreeSlot, Keys
<1>2. NoneAt \in Work /\ NoneAt.pc = "free"
      BY DEF NoneAt, Work, Keys
<1> QED BY <1>1, <1>2 DEF StatsInit, CInv, Handles, Entered, Alive, FreeSlot, ServiceWork, Keys

\* Every step keeps the invariant.
LEMMA CInvStep == CInv /\ [StatsNext]_statsvars => CInv'
<1> SUFFICES ASSUME CInv, [StatsNext]_statsvars PROVE CInv'
    OBVIOUS
<1>1. CASE UNCHANGED statsvars
      BY <1>1 DEF statsvars, CInv, Handles, Entered, Alive, ServiceWork
<1>2. ASSUME NEW p \in {"boot"} \union Viewers, StarterStep(p) PROVE CInv'
      BY <1>2, StarterKeeps DEF Starters
<1> QED BY <1>1, <1>2, RequestKeeps, ListenerKeeps, CollectorKeeps, OthersKeep DEF StatsNext

\* Two collectors never read the container at the same time, whoever starts
\* them, however late events come and whatever ends by itself.
THEOREM OneReader == StatsSpec => []OneCollector
<1>1. CInv => OneCollector
      BY DEF CInv, Entered, OneCollector, Reads, Alive
<1> QED BY <1>1, CInvInit, CInvStep, PTL DEF StatsSpec

\* What CInv does not say of the types.
StatsRest ==
    /\ instRow \in {"none", "running", "stopped", "changing"}
    /\ box \in {"none", "up", "down"}
    /\ request \in [Requests -> [op : {"none", "run", "stop", "archive", "start", "rm"},
                                 pc : {"free", "box", "row", "emit"}]]
    /\ \A r \in Requests : request[r].pc # "free" => request[r].op # "none"
    /\ bus \in Seq({"started", "stopped"}) /\ Len(bus) <= BusSize
    /\ channel \in [Keys -> Slots \union {NoCollector}]

\* The requests keep it: a full bus loses its first event and has room for the next.
LEMMA RequestRest ==
    ASSUME StatsRest, NEW r \in Requests,
           RequestStep(r) \/ \E op \in {"run", "stop", "archive", "start", "rm"} : RequestBegin(r, op)
    PROVE  StatsRest'
<1>1. ASSUME NEW op \in {"run", "stop", "archive", "start", "rm"}, RequestBegin(r, op)
      PROVE  StatsRest'
      BY <1>1 DEF RequestBegin, StatsRest, docker
<1>2. CASE RequestBox(r)
  <2>1. request[r].op \in {"run", "stop", "archive", "start", "rm"}
        BY <1>2 DEF RequestBox, StatsRest
  <2>2. Becomes(request[r].op) \in {"running", "stopped", "none"}
        BY <2>1 DEF Becomes
  <2>3. box' \in {"none", "up", "down"}
        BY <1>2, <2>2 DEF RequestBox
  <2> QED BY <1>2, <2>3 DEF RequestBox, StatsRest, docker
<1>3. CASE RequestRow(r)
  <2>1. request[r].op \in {"run", "stop", "archive", "start", "rm"}
        BY <1>3 DEF RequestRow, StatsRest
  <2>2. Becomes(request[r].op) \in {"running", "stopped", "none"}
        BY <2>1 DEF Becomes
  <2>3. instRow' \in {"none", "running", "stopped", "changing"}
        BY <1>3, <2>2 DEF RequestRow
  <2> QED BY <1>3, <2>3 DEF RequestRow, StatsRest, docker, NoRequest
<1>4. CASE RequestEmit(r)
  <2>1. PICK event \in {"started", "stopped"} :
            bus' = Append(IF Len(bus) = BusSize THEN Tail(bus) ELSE bus, event)
        BY <1>4 DEF RequestEmit
  <2>2. bus' \in Seq({"started", "stopped"}) /\ Len(bus') <= BusSize
        BY <2>1, StatsConstantsOK DEF StatsRest
  <2> QED BY <1>4, <2>2 DEF RequestEmit, StatsRest, docker, NoRequest
<1> QED BY <1>1, <1>2, <1>3, <1>4 DEF RequestStep

\* And so does everybody else.
LEMMA OthersRest ==
    ASSUME CInv, StatsRest, StatsNext,
           ~\E r \in Requests : \/ RequestStep(r)
                               \/ \E op \in {"run", "stop", "archive", "start", "rm"} :
                                      RequestBegin(r, op)
    PROVE  StatsRest'
<1>1. ASSUME NEW p \in Starters, StarterStep(p) PROVE StatsRest'
  <2>1. CASE StartCoast(p)
        BY <2>1 DEF StartCoast, StatsRest, instance, FreeSlots, Keys
  <2>2. CASE SpawnService(p)
    <3>1. PICK t \in Slots : channel' = [channel EXCEPT ![starter[p].key] = t]
          BY <2>2 DEF SpawnService, FreeSlots
    <3> QED BY <2>2, <3>1 DEF SpawnService, StatsRest, instance
  <2>3. CASE Discover(p) \/ CheckService(p) \/ InsertService(p)
        BY <2>3 DEF Discover, CheckService, InsertService, StatsRest, instance
  <2> QED BY <1>1, <2>1, <2>2, <2>3 DEF StarterStep
<1>2. CASE TakeEvent
  <2>1. bus' = Tail(bus) /\ bus # <<>> /\ UNCHANGED <<instRow, box, request, channel>>
        BY <1>2 DEF TakeEvent, instance
  <2>2. bus' \in Seq({"started", "stopped"}) /\ Len(bus') <= BusSize
        BY <2>1, StatsConstantsOK DEF StatsRest
  <2> QED BY <2>1, <2>2 DEF StatsRest
<1>3. CASE TakeHandle \/ RemoveChannel \/ ListServices
      BY <1>3 DEF TakeHandle, RemoveChannel, ListServices, StatsRest, instance
<1>4. ASSUME NEW t \in Slots, FindInner(t) \/ StreamEnds(t) \/ CloseChannel(t) \/ Leave(t)
      PROVE  StatsRest'
      BY <1>4 DEF FindInner, StreamEnds, CloseChannel, Leave, StatsRest, instance, docker
<1>5. ASSUME NEW v \in Viewers, NEW k \in Keys, View(v, k) PROVE StatsRest'
      BY <1>5 DEF View, StatsRest, instance
<1>6. CASE Reboot
  <2>1. bus' \in Seq({"started", "stopped"}) /\ Len(bus') <= BusSize
        BY <1>6, StatsConstantsOK DEF Reboot
  <2>2. channel' \in [Keys -> Slots \union {NoCollector}]
        BY <1>6 DEF Reboot
  <2> QED BY <1>6, <2>1, <2>2 DEF Reboot, StatsRest, NoRequest
<1> QED BY <1>1, <1>2, <1>3, <1>4, <1>5, <1>6 DEF StatsNext, ListenerStep, Starters

\* The bus keeps to its size, and every map names what there is.
THEOREM StatsTypeCorrect == StatsSpec => []StatsTypeOK
<1>1. StatsInit => StatsRest
      BY StatsConstantsOK DEF StatsInit, StatsRest, NoRequest
<1>2. CInv /\ StatsRest /\ [StatsNext]_statsvars => StatsRest'
  <2>1. CInv /\ StatsRest /\ StatsNext => StatsRest'
        BY RequestRest, OthersRest
  <2>2. StatsRest /\ UNCHANGED statsvars => StatsRest'
        BY DEF StatsRest, statsvars
  <2> QED BY <2>1, <2>2
<1>3. CInv /\ StatsRest => StatsTypeOK
      BY DEF CInv, Handles, ServiceWork, Work, Keys, StatsRest, StatsTypeOK
<1> QED BY <1>1, <1>2, <1>3, CInvInit, CInvStep, PTL DEF StatsSpec

----------------------------------------------------------------------------
(* BareServices: scripts that run one after the other leave one command at *)
(* most of a service that is not restarted, as long as a command ends when *)
(* it is told to and a script waits for the wrapper before.                *)

OneByOne == BareEntry \intersect {"web", "hasty", "slow"} = {}

Wrapper == [pc : {"off", "wait", "sleep"} \union Getting,
            retries : 0 .. MaxRetries - 1, failed : BOOLEAN]

LEMMA WrapperOffType == WrapperOff \in Wrapper
  BY BareConstantsOK DEF WrapperOff, Wrapper

LEMMA BareInitType == BareInit => BareTypeOK
  BY WrapperOffType DEF BareInit, BareTypeOK, Wrapper

\* A wrapper moves on; its command has ended; it starts over.
LEMMA WrapperMoves ==
  ASSUME BareTypeOK, NEW w \in Wrappers
  PROVE  /\ \A pc \in {"off", "wait", "sleep"} \union Getting :
               WrapTo(w, pc) => wrap' \in [Wrappers -> Wrapper]
         /\ \A S \in SUBSET Wrappers, b \in BOOLEAN :
               CommandsEnd(S, b) => /\ wrap' \in [Wrappers -> Wrapper]
                                    /\ commands' \subseteq Wrappers
                                    /\ holder' \in commands' \union {Nobody}
  <1>1. wrap \in [Wrappers -> Wrapper] /\ holder \in commands \union {Nobody}
        /\ commands \subseteq Wrappers
    BY DEF BareTypeOK, Wrapper
  <1>2. \A pc \in {"off", "wait", "sleep"} \union Getting :
               WrapTo(w, pc) => wrap' \in [Wrappers -> Wrapper]
    BY <1>1 DEF WrapTo, Wrapper
  <1>3. ASSUME NEW S \in SUBSET Wrappers, NEW b \in BOOLEAN, CommandsEnd(S, b)
        PROVE  /\ wrap' \in [Wrappers -> Wrapper]
               /\ commands' \subseteq Wrappers
               /\ holder' \in commands' \union {Nobody}
    BY <1>1, <1>3 DEF CommandsEnd, Wrapper
  <1> QED
    BY <1>2, <1>3

LEMMA BareNextType == BareTypeOK /\ [BareNext]_barevars => BareTypeOK'
  <1> SUFFICES ASSUME BareTypeOK, [BareNext]_barevars PROVE BareTypeOK'
    OBVIOUS
  <1>1. BareTypeOK' <=>
          /\ policy' \in Policies /\ ported' \in BOOLEAN
          /\ wrap' \in [Wrappers -> Wrapper]
          /\ commands' \subseteq Wrappers
          /\ holder' \in commands' \union {Nobody}
          /\ pidFile' \in Wrappers \union {Nobody}
          /\ stopper' \in {"idle", "remove", "port"}
          /\ asked' \in BOOLEAN
    BY DEF BareTypeOK, Wrapper
  <1>2. /\ policy \in Policies /\ ported \in BOOLEAN
        /\ wrap \in [Wrappers -> Wrapper]
        /\ commands \subseteq Wrappers
        /\ holder \in commands \union {Nobody}
        /\ pidFile \in Wrappers \union {Nobody}
        /\ stopper \in {"idle", "remove", "port"}
        /\ asked \in BOOLEAN
    BY DEF BareTypeOK, Wrapper
  <1>3. ConfigKept => policy' \in Policies /\ ported' \in BOOLEAN
    BY <1>2 DEF ConfigKept
  <1>4. ASSUME NEW w \in Wrappers, WrapperStep(w) \/ Exits(w) \/ StartService(w)
        PROVE  BareTypeOK'
    <2>1. CASE Guard(w) \/ RunAgain(w) \/ StartService(w)
      <3>1. PICK pc \in {"off", "wait", "sleep"} \union Getting : WrapTo(w, pc)
        BY <2>1 DEF Guard, RunAgain, StartService, Getting
      <3> QED
        BY <1>1, <1>2, <1>3, <2>1, <3>1, WrapperMoves DEF Guard, RunAgain, StartService
    <2>2. CASE LaunchCommand(w)
      <3>1. WrapTo(w, "record") /\ "record" \in Getting
        BY <2>2 DEF LaunchCommand, Getting
      <3>2. wrap' \in [Wrappers -> Wrapper]
        BY <3>1, WrapperMoves
      <3> QED
        BY <1>1, <1>2, <1>3, <2>2, <3>2 DEF LaunchCommand
    <2>3. CASE RecordPid(w)
      BY <1>1, <1>2, <1>3, <2>3, WrapperMoves DEF RecordPid
    <2>4. CASE FreePort(w)
      <3>1. wrap' \in [Wrappers -> Wrapper]
        BY <1>2, <2>4 DEF FreePort, Wrapper, Getting
      <3> QED
        BY <1>1, <1>2, <1>3, <2>4, <3>1 DEF FreePort
    <2>5. CASE Exits(w)
      <3>1. PICK failed \in BOOLEAN : CommandsEnd({w}, failed)
        BY <2>5 DEF Exits
      <3> QED
        BY <1>1, <1>2, <1>3, <2>5, <3>1, WrapperMoves DEF Exits
    <2>6. CASE Decide(w)
      <3>1. \/ wrap' = [wrap EXCEPT ![w] = WrapperOff]
            \/ \E lived \in BOOLEAN :
                LET n == (IF lived THEN 0 ELSE wrap[w].retries) + 1 IN
                wrap' = [wrap EXCEPT ![w] =
                            IF n >= MaxRetries THEN WrapperOff
                            ELSE [pc |-> "sleep", retries |-> n, failed |-> FALSE]]
        BY <2>6 DEF Decide
      <3>2. \A n \in Nat : ~(n >= MaxRetries) =>
               [pc |-> "sleep", retries |-> n, failed |-> FALSE] \in Wrapper
        BY BareConstantsOK DEF Wrapper
      <3>3. wrap[w].retries \in Nat
        BY <1>2, BareConstantsOK DEF Wrapper
      <3>4. \A lived \in BOOLEAN : (IF lived THEN 0 ELSE wrap[w].retries) + 1 \in Nat
        BY <3>3
      <3> HIDE DEF Wrapper
      <3>5. \E x \in Wrapper : wrap' = [wrap EXCEPT ![w] = x]
        <4>1. CASE wrap' = [wrap EXCEPT ![w] = WrapperOff]
          BY <4>1, WrapperOffType
        <4>2. ASSUME NEW lived \in BOOLEAN,
                     LET n == (IF lived THEN 0 ELSE wrap[w].retries) + 1 IN
                     wrap' = [wrap EXCEPT ![w] =
                            IF n >= MaxRetries THEN WrapperOff
                            ELSE [pc |-> "sleep", retries |-> n, failed |-> FALSE]]
              PROVE  \E x \in Wrapper : wrap' = [wrap EXCEPT ![w] = x]
          <5> DEFINE n == (IF lived THEN 0 ELSE wrap[w].retries) + 1
                     x == IF n >= MaxRetries THEN WrapperOff
                          ELSE [pc |-> "sleep", retries |-> n, failed |-> FALSE]
          <5>1. n \in Nat
            BY <3>4
          <5>2. wrap' = [wrap EXCEPT ![w] = x]
            BY <4>2
          <5>3. x \in Wrapper
            <6> HIDE DEF n
            <6> QED
              BY <3>2, <5>1, WrapperOffType
          <5> HIDE DEF x
          <5> QED
            BY <5>2, <5>3
        <4> QED
          BY <3>1, <4>1, <4>2
      <3>6. wrap' \in [Wrappers -> Wrapper]
        BY <1>2, <3>5
      <3> QED
        BY <1>1, <1>2, <1>3, <2>6, <3>6 DEF Decide
    <2> QED
      BY <1>4, <2>1, <2>2, <2>3, <2>4, <2>5, <2>6 DEF WrapperStep
  <1>5. CASE StopKills \/ StopFreesPort
    <2>1. PICK S \in SUBSET Wrappers, failed \in BOOLEAN : CommandsEnd(S, failed)
      BY <1>2, <1>5 DEF StopKills, StopFreesPort
    <2>2. CASE Wrappers = {}
      BY <1>1, <1>2, <1>3, <1>5, <2>1, <2>2 DEF StopKills, StopFreesPort, CommandsEnd
    <2>3. CASE Wrappers # {}
      BY <1>1, <1>2, <1>3, <1>5, <2>1, <2>3, WrapperMoves DEF StopKills, StopFreesPort
    <2> QED
      BY <2>2, <2>3
  <1>6. CASE StopRemoves
    BY <1>1, <1>2, <1>3, <1>6 DEF StopRemoves
  <1>7. CASE ContainerRestarts
    BY <1>1, <1>2, <1>3, <1>7, WrapperOffType DEF ContainerRestarts
  <1>8. CASE UNCHANGED barevars
    BY <1>8 DEF barevars, BareTypeOK
  <1> QED
    BY <1>4, <1>5, <1>6, <1>7, <1>8 DEF BareNext

\* Every variable of a bare service keeps its type.
THEOREM BareTypeCorrect == BareSpec => []BareTypeOK
  <1> QED
    BY BareInitType, BareNextType, PTL DEF BareSpec

\* The command that runs is the one the file names, or its wrapper is about to
\* write it there; nobody is on the way to a command while one runs or after
\* the service was stopped.
Lonely ==
    /\ \A w \in Wrappers : wrap[w].pc # "sleep"
    /\ \A w \in commands : wrap[w].pc = "record" \/ (wrap[w].pc = "wait" /\ pidFile = w)
    /\ \A w, v \in Wrappers : wrap[w].pc \in Getting /\ wrap[v].pc \in Getting => w = v
    /\ \A w \in Wrappers : wrap[w].pc \in {"port", "launch"} => commands = {}
    /\ \A w \in Wrappers : wrap[w].pc = "record" => commands \subseteq {w}
    /\ ~asked \/ stopper # "idle" =>
          commands = {} /\ \A w \in Wrappers : wrap[w].pc \notin Getting

LEMMA LonelyInit == BareInit => Lonely
  BY DEF BareInit, Lonely, WrapperOff, Getting

\* Commands end, and nothing else changes of the wrappers.
LEMMA LonelyEnds ==
  ASSUME BareTypeOK, Lonely, NEW S \in SUBSET Wrappers, NEW b \in BOOLEAN, CommandsEnd(S, b),
         UNCHANGED <<pidFile, stopper, asked>>
  PROVE  Lonely'
  <1>1. \A w \in Wrappers : wrap'[w].pc = wrap[w].pc
    BY DEF CommandsEnd, BareTypeOK
  <1>2. commands' \subseteq commands /\ commands \subseteq Wrappers
    BY DEF CommandsEnd, BareTypeOK
  <1> QED
    BY <1>1, <1>2 DEF Lonely

\* The step of a wrapper, or the start of one.
LEMMA LonelyWrapper ==
  ASSUME OneByOne, BareTypeOK, Lonely, policy = "no", NEW w \in Wrappers,
         WrapperStep(w) \/ Exits(w) \/ StartService(w)
  PROVE  Lonely'
  <1>1. wrap \in [Wrappers -> Wrapper] /\ commands \subseteq Wrappers
    BY DEF BareTypeOK, Wrapper
  <1>2. \A pc : WrapTo(w, pc) => /\ wrap'[w].pc = pc
                                 /\ \A v \in Wrappers \ {w} : wrap'[v] = wrap[v]
    BY <1>1 DEF WrapTo, Wrapper
  <1> USE DEF Lonely
  <1>3. CASE Guard(w)
    <2>1. /\ wrap[w].pc = "guard"
          /\ wrap'[w].pc = IF pidFile \in commands THEN "off" ELSE IF ported THEN "port" ELSE "launch"
          /\ \A v \in Wrappers \ {w} : wrap'[v] = wrap[v]
          /\ UNCHANGED <<commands, pidFile, stopper, asked>>
      BY <1>2, <1>3 DEF Guard
    <2>2. w \notin commands
      BY <2>1
    <2>3. pidFile \notin commands => commands = {}
      BY <1>1, <2>1 DEF Getting
    <2> QED
      BY <1>1, <2>1, <2>2, <2>3 DEF Getting
  <1>4. CASE FreePort(w)
    <2>1. /\ wrap[w].pc = "port" /\ wrap'[w].pc = "launch"
          /\ commands' \subseteq commands
          /\ UNCHANGED <<pidFile, stopper, asked>>
      BY <1>1, <1>4 DEF FreePort, Wrapper
    <2>2. commands = {} /\ commands' = {}
      BY <2>1
    <2>3. \A v \in Wrappers \ {w} : wrap'[v] = wrap[v]
      BY <1>1, <1>4, <2>2 DEF FreePort
    <2> QED
      BY <2>1, <2>2, <2>3 DEF Getting
  <1>5. CASE LaunchCommand(w)
    <2>1. /\ wrap[w].pc = "launch" /\ wrap'[w].pc = "record"
          /\ \A v \in Wrappers \ {w} : wrap'[v] = wrap[v]
          /\ commands' = commands \union {w}
          /\ UNCHANGED <<pidFile, stopper, asked>>
      BY <1>2, <1>5 DEF LaunchCommand
    <2>2. commands = {}
      BY <2>1
    <2> QED
      BY <1>1, <2>1, <2>2 DEF Getting
  <1>6. CASE RecordPid(w)
    <2>1. /\ wrap[w].pc = "record" /\ wrap'[w].pc = "wait"
          /\ \A v \in Wrappers \ {w} : wrap'[v] = wrap[v]
          /\ pidFile' = w
          /\ UNCHANGED <<commands, stopper, asked>>
      BY <1>2, <1>6 DEF RecordPid
    <2> QED
      BY <1>1, <2>1 DEF Getting
  <1>7. CASE Exits(w)
    BY <1>7, LonelyEnds DEF Exits
  <1>8. CASE Decide(w)
    <2>1. /\ wrap[w].pc = "wait" /\ w \notin commands
          /\ wrap' = [wrap EXCEPT ![w] = WrapperOff]
          /\ UNCHANGED <<commands, pidFile, stopper, asked>>
      BY <1>8 DEF Decide
    <2>2. wrap'[w].pc = "off" /\ \A v \in Wrappers \ {w} : wrap'[v] = wrap[v]
      BY <1>1, <2>1 DEF WrapperOff
    <2> QED
      BY <1>1, <2>1, <2>2 DEF Getting
  <1>9. ~RunAgain(w)
    BY DEF RunAgain
  <1>10. CASE StartService(w)
    <2>1. /\ stopper = "idle" /\ \A v \in Wrappers : wrap[v].pc \notin Getting
          /\ w \notin commands
          /\ wrap'[w].pc = "guard"
          /\ \A v \in Wrappers \ {w} : wrap'[v] = wrap[v]
          /\ asked'
          /\ UNCHANGED <<commands, pidFile, stopper>>
      BY <1>2, <1>10 DEF StartService, MayRun, OneByOne
    <2> QED
      BY <1>1, <2>1 DEF Getting
  <1> QED
    BY <1>3, <1>4, <1>5, <1>6, <1>7, <1>8, <1>9, <1>10 DEF WrapperStep

LEMMA LonelyNext ==
  ASSUME OneByOne, BareTypeOK, policy = "no" => Lonely, [BareNext]_barevars
  PROVE  policy' = "no" => Lonely'
  <1>1. policy' = policy
    BY DEF BareNext, WrapperStep, Guard, FreePort, LaunchCommand, RecordPid, Decide, RunAgain,
           Exits, StartService, StopKills, StopRemoves, StopFreesPort, ContainerRestarts,
           ConfigKept, barevars
  <1> SUFFICES ASSUME policy = "no", Lonely PROVE Lonely'
    BY <1>1
  <1>2. wrap \in [Wrappers -> Wrapper] /\ commands \subseteq Wrappers
    BY DEF BareTypeOK, Wrapper
  <1>3. CASE StopKills
    <2>1. /\ stopper = "idle" /\ \A w \in Wrappers : wrap[w].pc \notin Getting
          /\ UNCHANGED pidFile
      BY <1>3 DEF StopKills, MayRun, OneByOne
    <2>2. PICK failed \in BOOLEAN : CommandsEnd(commands \intersect {pidFile}, failed)
      BY <1>3 DEF StopKills, OneByOne
    <2>3. commands' = commands \ {pidFile} /\ \A w \in Wrappers : wrap'[w].pc = wrap[w].pc
      BY <1>2, <2>2 DEF CommandsEnd, Wrapper
    <2>4. commands' = {}
      BY <1>2, <2>1, <2>3 DEF Lonely, Getting
    <2> QED
      BY <2>1, <2>3, <2>4 DEF Lonely, Getting
  <1>4. CASE StopRemoves
    <2>1. stopper = "remove" /\ UNCHANGED <<wrap, commands, asked>>
      BY <1>4 DEF StopRemoves
    <2> QED
      BY <1>2, <2>1 DEF Lonely
  <1>5. CASE StopFreesPort
    <2>1. stopper = "port" /\ UNCHANGED <<pidFile, asked>>
      BY <1>5 DEF StopFreesPort
    <2>2. commands' = {} /\ \A w \in Wrappers : wrap'[w].pc = wrap[w].pc
      BY <1>2, <1>5, <2>1 DEF StopFreesPort, CommandsEnd, Wrapper, Lonely
    <2> QED
      BY <2>1, <2>2 DEF Lonely
  <1>6. CASE ContainerRestarts
    BY <1>6 DEF ContainerRestarts, Lonely, WrapperOff, Getting
  <1>7. CASE UNCHANGED barevars
    BY <1>7 DEF barevars, Lonely
  <1> QED
    BY <1>3, <1>4, <1>5, <1>6, <1>7, LonelyWrapper DEF BareNext

\* service_wrapper_script, stop_all_script: at most one command of a service
\* that is not restarted runs, and none once it has been stopped, however often
\* it is started and dies.
THEOREM CommandsRunAlone ==
  ASSUME OneByOne
  PROVE  BareSpec => []OneCommand
  <1>1. BareTypeOK /\ (policy = "no" => Lonely) => OneCommand
    <2> SUFFICES ASSUME BareTypeOK, policy = "no", Lonely
                 PROVE  /\ Cardinality(commands) <= 1
                        /\ ~asked /\ stopper = "idle" => commands = {}
      BY DEF OneCommand
    <2>1. \A w, v \in commands : w = v
      BY DEF BareTypeOK, Lonely
    <2>2. Cardinality(commands) <= 1
      <3>1. CASE commands = {}
        BY <3>1, FS_EmptySet
      <3>2. CASE commands # {}
        <4>1. PICK w : commands = {w}
          BY <2>1, <3>2
        <4> QED
          BY <4>1, FS_Singleton
      <3> QED
        BY <3>1, <3>2
    <2> QED
      BY <2>2 DEF Lonely
  <1>2. BareTypeOK /\ (policy = "no" => Lonely) /\ [BareNext]_barevars => (policy = "no" => Lonely)'
    BY LonelyNext
  <1> QED
    BY <1>1, <1>2, BareInitType, BareNextType, LonelyInit, PTL DEF BareSpec

----------------------------------------------------------------------------
(* Volumes.                                                                *)

VolPcs == {"idle"} \union RunPcs \union RmPcs

VolReq == [pc : VolPcs, inst : Coasts \union {NoInstance}, gated : BOOLEAN,
           listed : SUBSET Users, torn : BOOLEAN, met : BOOLEAN, seen : BOOLEAN]

\* A request under way is about an instance.
Busied == \A r \in VolSlots : req[r].pc # "idle" => req[r].inst \in Coasts

VolTyped == VolTypeOK /\ Busied

LEMMA NoVolReqType == NoVolReq \in VolReq
  BY DEF NoVolReq, VolReq, VolPcs

LEMMA VolTypeIs ==
  VolTypeOK <=>
    /\ rows \in [Coasts -> {"none", "provisioning", "running"}]
    /\ boxes \subseteq Coasts
    /\ data \in [VolumeNames -> Contents]
    /\ running \subseteq Users /\ wanted \subseteq Users
    /\ req \in [VolSlots -> VolReq]
    /\ spoiled \in [VolumeNames -> SUBSET {"failed", "met"}]
    /\ lost \subseteq Users
  BY DEF VolTypeOK, VolReq, VolPcs

LEMMA VolTypeWillBe ==
  VolTypeOK' <=>
    /\ rows' \in [Coasts -> {"none", "provisioning", "running"}]
    /\ boxes' \subseteq Coasts
    /\ data' \in [VolumeNames -> Contents]
    /\ running' \subseteq Users /\ wanted' \subseteq Users
    /\ req' \in [VolSlots -> VolReq]
    /\ spoiled' \in [VolumeNames -> SUBSET {"failed", "met"}]
    /\ lost' \subseteq Users
  BY DEF VolTypeOK, VolReq, VolPcs

LEMMA VolInitType == VolInit => VolTyped
  <1> SUFFICES ASSUME VolInit PROVE VolTyped
    OBVIOUS
  <1>1. EmptyVolume \in Contents
    BY DEF EmptyVolume, Contents
  <1>2. req = [r \in VolSlots |-> NoVolReq]
    BY DEF VolInit
  <1>3. req \in [VolSlots -> VolReq]
    BY <1>2, NoVolReqType
  <1>4. VolTypeOK
    BY <1>1, <1>3, VolTypeIs DEF VolInit
  <1>5. Busied
    BY <1>2 DEF Busied, NoVolReq
  <1> QED
    BY <1>4, <1>5 DEF VolTyped

LEMMA ContentsKinds ==
  ASSUME VolTypeOK
  PROVE  /\ EmptyVolume \in Contents
         /\ \A i \in Coasts : Volume(i) \in VolumeNames /\ LeftBy(i) \in [VolumeNames -> Contents]
         /\ \A v \in VolumeNames, c \in {"none", "whole", "torn"} :
               [data EXCEPT ![v].copy = c] \in [VolumeNames -> Contents]
         /\ \A v \in VolumeNames, i \in Coasts :
               [data EXCEPT ![v].by = @ \union {i}] \in [VolumeNames -> Contents]
         /\ \A v \in VolumeNames : RemoveVolume(v) =>
               /\ data' \in [VolumeNames -> Contents]
               /\ spoiled' \in [VolumeNames -> SUBSET {"failed", "met"}]
  <1>1. EmptyVolume \in Contents
    BY DEF EmptyVolume, Contents
  <1>2. data \in [VolumeNames -> Contents] /\ spoiled \in [VolumeNames -> SUBSET {"failed", "met"}]
    BY DEF VolTypeOK
  <1>3. \A i \in Coasts : Volume(i) \in VolumeNames
    BY DEF VolumeNames
  <1>4. \A i \in Coasts : LeftBy(i) \in [VolumeNames -> Contents]
    <2> SUFFICES ASSUME NEW i \in Coasts PROVE LeftBy(i) \in [VolumeNames -> Contents]
      OBVIOUS
    <2> DEFINE v == Volume(i)
               c == [copy |-> "none", left |-> data[v] # EmptyVolume, by |-> data[v].by \ {i}]
    <2>1. data[v] \in Contents
      BY <1>2, <1>3
    <2>2. c \in Contents
      BY <2>1 DEF Contents
    <2>3. LeftBy(i) = [data EXCEPT ![v] = c]
      BY DEF LeftBy
    <2> QED
      BY <1>2, <2>2, <2>3
  <1>5. \A v \in VolumeNames, c \in {"none", "whole", "torn"} :
               [data EXCEPT ![v].copy = c] \in [VolumeNames -> Contents]
    BY <1>2 DEF Contents
  <1>6. \A v \in VolumeNames, i \in Coasts :
               [data EXCEPT ![v].by = @ \union {i}] \in [VolumeNames -> Contents]
    BY <1>2 DEF Contents
  <1>7. \A v \in VolumeNames : RemoveVolume(v) =>
               /\ data' \in [VolumeNames -> Contents]
               /\ spoiled' \in [VolumeNames -> SUBSET {"failed", "met"}]
    BY <1>1, <1>2 DEF RemoveVolume
  <1> QED
    BY <1>1, <1>3, <1>4, <1>5, <1>6, <1>7

\* Where a request goes.
LEMMA ReqMoves ==
  ASSUME VolTyped, NEW r \in VolSlots
  PROVE  /\ \A pc \in VolPcs : req[r].pc # "idle" /\ TaskTo(r, pc) =>
               /\ req' \in [VolSlots -> VolReq] /\ Busied'
               /\ \A q \in VolSlots \ {r} : req'[q] = req[q]
               /\ req'[r].pc = pc /\ req'[r].listed = req[r].listed
               /\ req'[r].inst = req[r].inst /\ req'[r].gated = req[r].gated
         /\ TaskEnds(r) =>
               /\ req' \in [VolSlots -> VolReq] /\ Busied'
               /\ \A q \in VolSlots \ {r} : req'[q] = req[q]
               /\ req'[r] = NoVolReq
         /\ \A S : /\ Meets(S) \in [VolSlots -> VolReq]
                   /\ \A q \in VolSlots : /\ Meets(S)[q].pc = req[q].pc
                                          /\ Meets(S)[q].inst = req[q].inst
                                          /\ Meets(S)[q].gated = req[q].gated
                                          /\ Meets(S)[q].listed = req[q].listed
  <1>1. req \in [VolSlots -> VolReq]
    BY VolTypeIs DEF VolTyped
  <1>2. ASSUME NEW pc \in VolPcs, req[r].pc # "idle", TaskTo(r, pc)
        PROVE  /\ req' \in [VolSlots -> VolReq] /\ Busied'
               /\ \A q \in VolSlots \ {r} : req'[q] = req[q]
               /\ req'[r].pc = pc /\ req'[r].listed = req[r].listed
               /\ req'[r].inst = req[r].inst /\ req'[r].gated = req[r].gated
    <2>1. req' \in [VolSlots -> VolReq]
      BY <1>1, <1>2 DEF TaskTo, VolReq
    <2>2. /\ \A q \in VolSlots \ {r} : req'[q] = req[q]
          /\ req'[r].pc = pc /\ req'[r].listed = req[r].listed
          /\ req'[r].inst = req[r].inst /\ req'[r].gated = req[r].gated
      BY <1>1, <1>2 DEF TaskTo, VolReq
    <2> QED
      BY <1>2, <2>1, <2>2 DEF Busied, VolTyped
  <1>3. ASSUME TaskEnds(r)
        PROVE  /\ req' \in [VolSlots -> VolReq] /\ Busied'
               /\ \A q \in VolSlots \ {r} : req'[q] = req[q]
               /\ req'[r] = NoVolReq
    BY <1>1, <1>3, NoVolReqType DEF TaskEnds, Busied, VolTyped, NoVolReq
  <1>4. ASSUME NEW S, NEW q \in VolSlots
        PROVE  /\ Meets(S)[q] \in VolReq
               /\ Meets(S)[q].pc = req[q].pc
               /\ Meets(S)[q].inst = req[q].inst
               /\ Meets(S)[q].gated = req[q].gated
               /\ Meets(S)[q].listed = req[q].listed
    BY <1>1 DEF Meets, VolReq
  <1>5. ASSUME NEW S PROVE Meets(S) \in [VolSlots -> VolReq]
    BY <1>4 DEF Meets
  <1> QED
    BY <1>2, <1>3, <1>4, <1>5

\* What a request's step does to it: the volumes and the others keep out.
LEMMA VolStepType ==
  ASSUME VolTyped, NEW r \in VolSlots, VolStep(r) \/ RmHangup(r)
  PROVE  VolTyped'
  <1>1. req \in [VolSlots -> VolReq] /\ Busied
    BY VolTypeIs DEF VolTyped
  <1>2. req[r].pc # "idle" => req[r].inst \in Coasts /\ Mine(r) \in VolumeNames
    BY <1>1, ContentsKinds DEF Busied, Mine, VolTyped
  <1>3. /\ rows \in [Coasts -> {"none", "provisioning", "running"}]
        /\ boxes \subseteq Coasts
        /\ data \in [VolumeNames -> Contents]
        /\ running \subseteq Users /\ wanted \subseteq Users
        /\ spoiled \in [VolumeNames -> SUBSET {"failed", "met"}]
        /\ lost \subseteq Users
        /\ req[r].listed \subseteq Users
    BY <1>1, VolTypeIs DEF VolTyped, VolReq
  <1> USE DEF VolTyped
  <1>4. CASE ListUsers(r)
    <2>1. /\ req' \in [VolSlots -> VolReq]
          /\ req'[r].inst = req[r].inst /\ \A q \in VolSlots \ {r} : req'[q] = req[q]
      <3>1. req' = [req EXCEPT ![r].pc = "stop", ![r].listed = running]
        BY <1>4 DEF ListUsers
      <3>2. [req[r] EXCEPT !.pc = "stop", !.listed = running] \in VolReq
        <4>1. running \in SUBSET Users /\ req[r] \in VolReq
          BY <1>1, <1>3
        <4>2. "stop" \in VolPcs
          BY DEF VolPcs, RunPcs
        <4> QED
          BY <4>1, <4>2 DEF VolReq
      <3>3. req' = [req EXCEPT ![r] = [req[r] EXCEPT !.pc = "stop", !.listed = running]]
        BY <1>1, <3>1 DEF VolReq
      <3> QED
        BY <1>1, <3>2, <3>3 DEF VolReq
    <2>2. Busied'
      BY <1>1, <1>2, <1>4, <2>1 DEF Busied, ListUsers
    <2> QED
      BY <1>3, <1>4, <2>1, <2>2, VolTypeWillBe DEF ListUsers, insts, copied
  <1>5. CASE StopUsers(r)
    <2>1. req' \in [VolSlots -> VolReq] /\ Busied'
      BY <1>5, ReqMoves DEF StopUsers, VolPcs, RunPcs
    <2> QED
      BY <1>3, <1>5, <2>1, VolTypeWillBe DEF StopUsers, insts
  <1>6. CASE CopyBegins(r)
    <2>1. req[r].pc = "copy" /\ UNCHANGED <<rows, boxes, data, spoiled, running, wanted>>
          /\ lost' \subseteq Users
      BY <1>3, <1>6 DEF CopyBegins, insts
    <2>2. \/ req' = [req EXCEPT ![r].pc = "copying", ![r].torn = running # {}]
          \/ req' = [req EXCEPT ![r].pc = "failed", ![r].listed = {}]
      BY <1>6 DEF CopyBegins
    <2>3. /\ req' \in [VolSlots -> VolReq]
          /\ req'[r].inst = req[r].inst /\ \A q \in VolSlots \ {r} : req'[q] = req[q]
      BY <1>1, <2>2 DEF VolReq, VolPcs, RunPcs
    <2>4. Busied'
      BY <1>1, <1>2, <2>1, <2>3 DEF Busied
    <2> QED
      BY <1>3, <2>1, <2>3, <2>4, VolTypeWillBe
  <1>7. CASE CopyEnds(r)
    <2>1. /\ req[r].pc = "copying" /\ UNCHANGED <<rows, boxes, running, wanted, lost>>
          /\ TaskTo(r, "restart") \/ TaskTo(r, "undo")
      BY <1>7 DEF CopyEnds, copied
    <2>2. req' \in [VolSlots -> VolReq] /\ Busied'
      BY <2>1, ReqMoves DEF VolPcs, RunPcs
    <2>3. data' \in [VolumeNames -> Contents]
      <3>1. PICK c \in {"none", "whole", "torn"} : data' = [data EXCEPT ![Mine(r)].copy = c]
        BY <1>7 DEF CopyEnds
      <3> QED
        BY <1>2, <2>1, <3>1, ContentsKinds
    <2>4. spoiled' \in [VolumeNames -> SUBSET {"failed", "met"}]
      BY <1>3, <1>7 DEF CopyEnds
    <2> QED
      BY <1>3, <2>1, <2>2, <2>3, <2>4, VolTypeWillBe
  <1>8. CASE RestartUsers(r)
    <2>1. /\ req[r].pc \in {"restart", "undo"} /\ UNCHANGED <<rows, boxes, data, spoiled, wanted, lost>>
          /\ running' \subseteq Users
          /\ req' = [Meets(req[r].listed) EXCEPT
                       ![r].pc = IF @ = "restart" THEN "create" ELSE "failed", ![r].listed = {}]
      BY <1>3, <1>8 DEF RestartUsers, insts
    <2> DEFINE m == Meets(req[r].listed)
    <2>2. m \in [VolSlots -> VolReq] /\ \A q \in VolSlots : m[q].pc = req[q].pc /\ m[q].inst = req[q].inst
      BY ReqMoves
    <2> HIDE DEF m
    <2>3. /\ req' \in [VolSlots -> VolReq]
          /\ req'[r].inst = m[r].inst /\ \A q \in VolSlots \ {r} : req'[q] = m[q]
      BY <2>1, <2>2 DEF VolReq, VolPcs, RunPcs, m
    <2>4. Busied'
      BY <1>1, <1>2, <2>1, <2>2, <2>3 DEF Busied
    <2> QED
      BY <1>3, <2>1, <2>3, <2>4, VolTypeWillBe
  <1>9. CASE RunCreates(r)
    <2>1. /\ req[r].pc = "create" /\ UNCHANGED <<rows, data, spoiled, running, wanted, lost>>
          /\ TaskTo(r, "finish") \/ TaskTo(r, "failed")
          /\ boxes' \in {boxes, boxes \union {req[r].inst}}
      BY <1>9 DEF RunCreates, copied
    <2>2. req' \in [VolSlots -> VolReq] /\ Busied'
      BY <2>1, ReqMoves DEF VolPcs, RunPcs
    <2> QED
      BY <1>2, <1>3, <2>1, <2>2, VolTypeWillBe
  <1>10. CASE RunFinishes(r)
    <2>1. /\ req[r].pc = "finish" /\ UNCHANGED <<boxes, data, spoiled, running, wanted, lost>>
          /\ TaskEnds(r) \/ TaskTo(r, "failed")
          /\ rows' = rows \/ rows' = [rows EXCEPT ![req[r].inst] = "running"]
      BY <1>10 DEF RunFinishes, copied
    <2>2. req' \in [VolSlots -> VolReq] /\ Busied'
      BY <2>1, ReqMoves DEF VolPcs, RunPcs
    <2>3. rows' \in [Coasts -> {"none", "provisioning", "running"}]
      BY <1>3, <2>1
    <2> QED
      BY <1>3, <2>1, <2>2, <2>3, VolTypeWillBe
  <1>11. CASE RunCleansUp(r)
    <2>1. /\ req[r].pc = "failed" /\ UNCHANGED <<running, wanted, lost>> /\ TaskEnds(r)
          /\ rows'  = [rows EXCEPT ![req[r].inst] = "none"]
          /\ boxes' = boxes \ {req[r].inst}
          /\ data'  = LeftBy(req[r].inst)
          /\ spoiled' = [spoiled EXCEPT ![Mine(r)] = @ \union {"failed"}]
      BY <1>11 DEF RunCleansUp, copied
    <2>2. req' \in [VolSlots -> VolReq] /\ Busied'
      BY <2>1, ReqMoves
    <2>3. rows' \in [Coasts -> {"none", "provisioning", "running"}]
          /\ spoiled' \in [VolumeNames -> SUBSET {"failed", "met"}]
      BY <1>3, <2>1
    <2>4. data' \in [VolumeNames -> Contents]
      BY <1>2, <2>1, ContentsKinds
    <2> QED
      BY <1>3, <2>1, <2>2, <2>3, <2>4, VolTypeWillBe
  <1>12. CASE RmRemovesBox(r)
    <2>1. /\ req[r].pc = "box" /\ UNCHANGED <<rows, spoiled, running, wanted, lost>>
          /\ TaskTo(r, "volumes")
          /\ \/ UNCHANGED <<boxes, data>>
             \/ boxes' = boxes \ {req[r].inst} /\ data' = LeftBy(req[r].inst)
      BY <1>12 DEF RmRemovesBox, copied
    <2>2. req' \in [VolSlots -> VolReq] /\ Busied'
      BY <2>1, ReqMoves DEF VolPcs, RmPcs
    <2>3. data' \in [VolumeNames -> Contents]
      BY <1>2, <1>3, <2>1, ContentsKinds
    <2> QED
      BY <1>3, <2>1, <2>2, <2>3, VolTypeWillBe
  <1>13. CASE RmRemovesVolumes(r)
    <2>1. /\ req[r].pc = "volumes" /\ UNCHANGED <<rows, boxes, running, wanted, lost>>
          /\ TaskTo(r, "db") /\ RemoveVolume(Mine(r))
      BY <1>13 DEF RmRemovesVolumes, copied
    <2>2. req' \in [VolSlots -> VolReq] /\ Busied'
      BY <2>1, ReqMoves DEF VolPcs, RmPcs
    <2> QED
      BY <1>2, <1>3, <2>1, <2>2, ContentsKinds, VolTypeWillBe
  <1>14. CASE RmEnds(r)
    <2>1. req' \in [VolSlots -> VolReq] /\ Busied'
      BY <1>14, ReqMoves DEF RmEnds
    <2>2. rows' \in [Coasts -> {"none", "provisioning", "running"}]
      BY <1>3, <1>14 DEF RmEnds
    <2> QED
      BY <1>3, <1>14, <2>1, <2>2, VolTypeWillBe DEF RmEnds, copied
  <1>15. CASE RmHangup(r)
    <2>1. req' \in [VolSlots -> VolReq] /\ Busied'
      BY <1>15, ReqMoves DEF RmHangup
    <2> QED
      BY <1>3, <1>15, <2>1, VolTypeWillBe DEF RmHangup, insts, copied
  <1> QED
    BY <1>4, <1>5, <1>6, <1>7, <1>8, <1>9, <1>10, <1>11, <1>12, <1>13, <1>14, <1>15 DEF VolStep

LEMMA VolBeginType ==
  ASSUME VolTyped, NEW r \in VolSlots, NEW i \in Coasts,
         RunBegins(r, i) \/ \E gated \in BOOLEAN : RmBegins(r, i, gated)
  PROVE  /\ VolTyped'
         /\ req[r] = NoVolReq /\ req'[r].pc \in {"list", "box"} /\ req'[r].inst = i
         /\ req'[r].listed = {} /\ req'[r].met = FALSE
         /\ req'[r].gated \/ "socket" \in VolEntry
         /\ \A q \in VolSlots \ {r} : req'[q] = req[q]
  <1>1. req \in [VolSlots -> VolReq] /\ Busied
        /\ rows \in [Coasts -> {"none", "provisioning", "running"}]
    BY VolTypeIs DEF VolTyped
  <1>2. PICK x \in VolReq : /\ req' = [req EXCEPT ![r] = x] /\ x.inst = i /\ req[r] = NoVolReq
                            /\ x.pc \in {"list", "box"} /\ x.listed = {} /\ x.met = FALSE
                            /\ x.gated \/ "socket" \in VolEntry
    <2>1. CASE RunBegins(r, i)
      <3> DEFINE x == [NoVolReq EXCEPT !.pc = "list", !.inst = i, !.gated = TRUE]
      <3>1. /\ x \in VolReq /\ x.inst = i /\ x.pc = "list" /\ x.gated /\ x.listed = {}
            /\ x.met = FALSE
        BY NoVolReqType DEF NoVolReq, VolReq, VolPcs, RunPcs
      <3>2. req' = [req EXCEPT ![r] = x] /\ req[r] = NoVolReq
        BY <2>1 DEF RunBegins
      <3> HIDE DEF x
      <3> QED
        BY <3>1, <3>2
    <2>2. ASSUME NEW gated \in BOOLEAN, RmBegins(r, i, gated)
          PROVE  \E x \in VolReq : /\ req' = [req EXCEPT ![r] = x] /\ x.inst = i /\ req[r] = NoVolReq
                                   /\ x.pc \in {"list", "box"} /\ x.listed = {} /\ x.met = FALSE
                                   /\ x.gated \/ "socket" \in VolEntry
      <3>1. PICK b \in BOOLEAN :
               /\ req' = [req EXCEPT ![r] = [NoVolReq EXCEPT !.pc = "box", !.inst = i,
                                            !.gated = gated, !.seen = b /\ i \in boxes]]
               /\ req[r] = NoVolReq /\ (IF gated THEN "rm" ELSE "socket") \in VolEntry
        BY <2>2 DEF RmBegins
      <3> DEFINE x == [NoVolReq EXCEPT !.pc = "box", !.inst = i,
                                            !.gated = gated, !.seen = b /\ i \in boxes]
      <3>2. /\ x \in VolReq /\ x.inst = i /\ x.pc = "box" /\ x.gated = gated /\ x.listed = {}
            /\ x.met = FALSE
        BY NoVolReqType DEF NoVolReq, VolReq, VolPcs, RmPcs
      <3>3. req' = [req EXCEPT ![r] = x]
        BY <3>1
      <3> HIDE DEF x
      <3> QED
        BY <3>1, <3>2, <3>3
    <2> QED
      BY <2>1, <2>2
  <1>3. req'[r] = x /\ \A q \in VolSlots \ {r} : req'[q] = req[q]
    BY <1>1, <1>2
  <1>4. req' \in [VolSlots -> VolReq] /\ Busied'
    BY <1>1, <1>2, <1>3 DEF Busied
  <1>5. rows' \in [Coasts -> {"none", "provisioning", "running"}]
    BY <1>1 DEF RunBegins, RmBegins, insts
  <1>6. UNCHANGED <<boxes, data, spoiled, running, wanted, lost>>
    BY DEF RunBegins, RmBegins, insts, copied
  <1>7. VolTyped'
    BY <1>4, <1>5, <1>6, VolTypeIs, VolTypeWillBe DEF VolTyped
  <1> QED
    BY <1>2, <1>3, <1>7

LEMMA VolNextType == VolTyped /\ [VolNext]_volvars => VolTyped'
  <1> SUFFICES ASSUME VolTyped, [VolNext]_volvars PROVE VolTyped'
    OBVIOUS
  <1>1. ASSUME NEW i \in Coasts, WriteData(i) PROVE VolTyped'
    <2>1. data' \in [VolumeNames -> Contents]
      BY <1>1, ContentsKinds DEF WriteData, VolTyped
    <2> QED
      BY <1>1, <2>1, VolTypeIs, VolTypeWillBe DEF WriteData, copied, VolTyped, Busied
  <1>2. ASSUME NEW u \in Users, OwnerStops(u) PROVE VolTyped'
    BY <1>2, VolTypeIs, VolTypeWillBe DEF OwnerStops, insts, VolTyped, Busied
  <1>3. ASSUME NEW u \in Users, OwnerStarts(u) PROVE VolTyped'
    <2>1. CASE VolSlots = {}
      BY <1>3, <2>1, VolTypeIs, VolTypeWillBe DEF OwnerStarts, insts, VolTyped, Busied, Meets
    <2>2. CASE VolSlots # {}
      <3>1. /\ req' \in [VolSlots -> VolReq]
            /\ \A q \in VolSlots : req'[q].pc = req[q].pc /\ req'[q].inst = req[q].inst
        BY <1>3, <2>2, ReqMoves DEF OwnerStarts
      <3> QED
        BY <1>3, <3>1, VolTypeIs, VolTypeWillBe DEF OwnerStarts, insts, VolTyped, Busied
    <2> QED
      BY <2>1, <2>2
  <1>4. CASE VolCrash
    <2>1. req' \in [VolSlots -> VolReq] /\ Busied'
      <3>1. req' = [r \in VolSlots |-> NoVolReq]
        BY <1>4 DEF VolCrash
      <3>2. NoVolReq.pc = "idle"
        BY DEF NoVolReq
      <3> QED
        BY <3>1, <3>2, NoVolReqType DEF Busied
    <2>2. lost' \subseteq Users
      <3>1. \A r \in VolSlots : req[r].listed \subseteq Users
        BY VolTypeIs DEF VolTyped, VolReq
      <3> QED
        BY <1>4, <3>1, VolTypeIs DEF VolCrash, VolTyped
    <2>3. spoiled' \in [VolumeNames -> SUBSET {"failed", "met"}]
      BY <1>4, VolTypeIs DEF VolCrash, VolTyped
    <2> QED
      BY <1>4, <2>1, <2>2, <2>3, VolTypeIs, VolTypeWillBe DEF VolCrash, VolTyped
  <1>5. CASE UNCHANGED volvars
    BY <1>5, VolTypeIs, VolTypeWillBe DEF volvars, insts, copied, VolTyped, Busied
  <1> QED
    BY <1>1, <1>2, <1>3, <1>4, <1>5, VolStepType, VolBeginType DEF VolNext

\* Every variable of the volumes keeps its type.
THEOREM VolTypeCorrect == VolSpec => []VolTypeOK
  <1>1. VolTyped => VolTypeOK
    BY DEF VolTyped
  <1> QED
    BY <1>1, VolInitType, VolNextType, PTL DEF VolSpec

\* Only a run between its docker stop and its docker start knows of containers.
Stopping == {"stop", "copy", "copying", "restart", "undo"}

Returning ==
    /\ \A r \in VolSlots : req[r].listed # {} => req[r].pc \in Stopping
    /\ SourcesComeBack

LEMMA ReturningInit == VolInit => Returning
  BY DEF VolInit, Returning, SourcesComeBack, NoVolReq

\* A step that starts no copy, ends none, and stops nobody.
LEMMA ReturningKept ==
  ASSUME Returning, NEW r \in VolSlots, UNCHANGED copied,
         \A q \in VolSlots \ {r} : req'[q] = req[q],
         \/ req'[r].listed = {} /\ req[r].pc \notin Stopping \ {"stop"}
         \/ /\ req'[r].listed = req[r].listed /\ req'[r].pc # "stop"
            /\ req[r].pc \in Stopping => req'[r].pc \in Stopping
  PROVE  Returning'
  <1>1. \A q \in VolSlots : req'[q].listed # {} => req'[q].pc \in Stopping
    BY DEF Returning
  <1>2. ASSUME NEW u \in wanted' \ running', u \notin lost'
        PROVE  \E q \in VolSlots : u \in req'[q].listed /\ req'[q].pc # "stop"
    <2>1. PICK q \in VolSlots : u \in req[q].listed /\ req[q].pc # "stop"
      BY <1>2 DEF Returning, SourcesComeBack, copied
    <2>2. req[q].pc \in Stopping
      BY <2>1 DEF Returning
    <2> QED
      BY <2>1, <2>2
  <1> QED
    BY <1>1, <1>2 DEF Returning, SourcesComeBack

LEMMA ReturningStep ==
  ASSUME VolTyped, Returning, NEW r \in VolSlots, VolStep(r) \/ RmHangup(r)
  PROVE  Returning'
  <1>0. req \in [VolSlots -> VolReq]
    BY VolTypeIs DEF VolTyped
  <1>1. CASE ListUsers(r)
    <2>1. /\ req[r].pc = "list" /\ req'[r].pc = "stop" /\ UNCHANGED copied
          /\ \A q \in VolSlots \ {r} : req'[q] = req[q]
      BY <1>0, <1>1 DEF ListUsers, VolReq
    <2>2. req[r].listed = {}
      BY <2>1 DEF Returning, Stopping
    <2>3. ASSUME NEW u \in wanted' \ running', u \notin lost'
          PROVE  \E q \in VolSlots : u \in req'[q].listed /\ req'[q].pc # "stop"
      <3>1. PICK q \in VolSlots : u \in req[q].listed /\ req[q].pc # "stop"
        BY <2>1, <2>3 DEF Returning, SourcesComeBack, copied
      <3> QED
        BY <2>1, <2>2, <3>1
    <2> QED
      BY <2>1, <2>3 DEF Returning, SourcesComeBack, Stopping
  <1>2. CASE StopUsers(r)
    <2>1. /\ req[r].pc = "stop" /\ req'[r].pc = "copy" /\ req'[r].listed = req[r].listed
          /\ \A q \in VolSlots \ {r} : req'[q] = req[q]
          /\ running' = running \ req[r].listed /\ UNCHANGED <<wanted, lost>>
      BY <1>2, ReqMoves DEF StopUsers, VolPcs, RunPcs
    <2>2. ASSUME NEW u \in wanted' \ running', u \notin lost'
          PROVE  \E q \in VolSlots : u \in req'[q].listed /\ req'[q].pc # "stop"
      <3>1. CASE u \in req[r].listed
        BY <2>1, <3>1
      <3>2. CASE u \notin req[r].listed
        <4>1. PICK q \in VolSlots : u \in req[q].listed /\ req[q].pc # "stop"
          BY <2>1, <2>2, <3>2 DEF Returning, SourcesComeBack
        <4> QED
          BY <2>1, <4>1
      <3> QED
        BY <3>1, <3>2
    <2> QED
      BY <2>1, <2>2 DEF Returning, SourcesComeBack, Stopping
  <1>3. CASE CopyBegins(r)
    <2>1. CASE req' = [req EXCEPT ![r].pc = "copying", ![r].torn = running # {}] /\ UNCHANGED lost
      <3>1. /\ req[r].pc = "copy" /\ req'[r].pc = "copying" /\ req'[r].listed = req[r].listed
            /\ \A q \in VolSlots \ {r} : req'[q] = req[q]
            /\ UNCHANGED copied
        BY <1>0, <1>3, <2>1 DEF CopyBegins, VolReq, copied
      <3> QED
        BY <3>1, ReturningKept DEF Stopping
    <2>2. CASE /\ req' = [req EXCEPT ![r].pc = "failed", ![r].listed = {}]
               /\ lost' = lost \union req[r].listed
      <3>1. /\ req[r].pc = "copy" /\ req'[r].listed = {}
            /\ \A q \in VolSlots \ {r} : req'[q] = req[q]
            /\ UNCHANGED <<running, wanted>>
        BY <1>0, <1>3, <2>2 DEF CopyBegins, VolReq
      <3>2. ASSUME NEW u \in wanted' \ running', u \notin lost'
            PROVE  \E q \in VolSlots : u \in req'[q].listed /\ req'[q].pc # "stop"
        <4>1. PICK q \in VolSlots : u \in req[q].listed /\ req[q].pc # "stop"
          BY <2>2, <3>1, <3>2 DEF Returning, SourcesComeBack
        <4>2. q # r
          BY <2>2, <3>2, <4>1
        <4> QED
          BY <3>1, <4>1, <4>2
      <3> QED
        BY <3>1, <3>2 DEF Returning, SourcesComeBack
    <2> QED
      BY <1>3, <2>1, <2>2 DEF CopyBegins
  <1>4. CASE CopyEnds(r)
    <2>1. req[r].pc = "copying" /\ (TaskTo(r, "restart") \/ TaskTo(r, "undo")) /\ UNCHANGED copied
      BY <1>4 DEF CopyEnds
    <2>2. /\ req'[r].pc \in {"restart", "undo"} /\ req'[r].listed = req[r].listed
          /\ \A q \in VolSlots \ {r} : req'[q] = req[q]
      BY <2>1, ReqMoves DEF VolPcs, RunPcs
    <2> QED
      BY <2>1, <2>2, ReturningKept DEF Stopping
  <1>5. CASE RestartUsers(r)
    <2>1. /\ req[r].pc \in {"restart", "undo"} /\ UNCHANGED <<wanted, lost>>
          /\ running' = running \union req[r].listed
          /\ req' = [Meets(req[r].listed) EXCEPT
                       ![r].pc = IF @ = "restart" THEN "create" ELSE "failed", ![r].listed = {}]
      BY <1>5 DEF RestartUsers
    <2> DEFINE m == Meets(req[r].listed)
    <2>2. m \in [VolSlots -> VolReq]
          /\ \A q \in VolSlots : m[q].pc = req[q].pc /\ m[q].listed = req[q].listed
      BY ReqMoves
    <2> HIDE DEF m
    <2>3. req' = [m EXCEPT ![r].pc = IF @ = "restart" THEN "create" ELSE "failed", ![r].listed = {}]
      BY <2>1 DEF m
    <2>4. req'[r].listed = {} /\ \A q \in VolSlots \ {r} : req'[q] = m[q]
      BY <2>2, <2>3 DEF VolReq
    <2>5. ASSUME NEW u \in wanted' \ running', u \notin lost'
          PROVE  \E q \in VolSlots : u \in req'[q].listed /\ req'[q].pc # "stop"
      <3>1. PICK q \in VolSlots : u \in req[q].listed /\ req[q].pc # "stop"
        BY <2>1, <2>5 DEF Returning, SourcesComeBack
      <3>2. q # r
        BY <2>1, <2>5, <3>1
      <3> QED
        BY <2>2, <2>4, <3>1, <3>2
    <2> QED
      BY <2>2, <2>4, <2>5 DEF Returning, SourcesComeBack
  <1>6. CASE RunCreates(r) \/ RmRemovesBox(r) \/ RmRemovesVolumes(r)
    <2>1. PICK pc \in {"finish", "failed", "volumes", "db"} :
             /\ req[r].pc \in {"create", "box", "volumes"} /\ TaskTo(r, pc) /\ UNCHANGED copied
      BY <1>6 DEF RunCreates, RmRemovesBox, RmRemovesVolumes
    <2>2. /\ req'[r].pc = pc /\ req'[r].listed = req[r].listed
          /\ \A q \in VolSlots \ {r} : req'[q] = req[q]
      BY <2>1, ReqMoves DEF VolPcs, RunPcs, RmPcs
    <2> QED
      BY <2>1, <2>2, ReturningKept DEF Stopping
  <1>7. CASE RunFinishes(r) \/ RunCleansUp(r) \/ RmEnds(r) \/ RmHangup(r)
    <2>1. /\ req[r].pc \notin Stopping /\ UNCHANGED copied
          /\ TaskEnds(r) \/ (req[r].pc = "finish" /\ TaskTo(r, "failed"))
      BY <1>7 DEF RunFinishes, RunCleansUp, RmEnds, RmHangup, Stopping, RmPcs
    <2>2. CASE TaskEnds(r)
      <3>1. req'[r].listed = {} /\ \A q \in VolSlots \ {r} : req'[q] = req[q]
        BY <2>2, ReqMoves DEF NoVolReq
      <3> QED
        BY <2>1, <3>1, ReturningKept
    <2>3. CASE req[r].pc = "finish" /\ TaskTo(r, "failed")
      <3>1. /\ req'[r].pc = "failed" /\ req'[r].listed = req[r].listed
            /\ \A q \in VolSlots \ {r} : req'[q] = req[q]
        BY <2>3, ReqMoves DEF VolPcs, RunPcs
      <3> QED
        BY <2>1, <3>1, ReturningKept
    <2> QED
      BY <2>1, <2>2, <2>3
  <1> QED
    BY <1>1, <1>2, <1>3, <1>4, <1>5, <1>6, <1>7 DEF VolStep

LEMMA ReturningNext == VolTyped /\ Returning /\ [VolNext]_volvars => Returning'
  <1> SUFFICES ASSUME VolTyped, Returning, [VolNext]_volvars PROVE Returning'
    OBVIOUS
  <1>1. ASSUME NEW r \in VolSlots, NEW i \in Coasts,
               RunBegins(r, i) \/ \E gated \in BOOLEAN : RmBegins(r, i, gated)
        PROVE  Returning'
    <2>1. req[r] = NoVolReq /\ req'[r].listed = {} /\ \A q \in VolSlots \ {r} : req'[q] = req[q]
      BY <1>1, VolBeginType
    <2>2. UNCHANGED copied
      BY <1>1 DEF RunBegins, RmBegins
    <2> QED
      BY <2>1, <2>2, ReturningKept DEF NoVolReq, Stopping
  <1>2. CASE (\E i \in Coasts : WriteData(i)) \/ UNCHANGED volvars
    <2>1. UNCHANGED <<req, running, wanted, lost>>
      BY <1>2 DEF WriteData, volvars, copied
    <2> QED
      BY <2>1 DEF Returning, SourcesComeBack
  <1>3. ASSUME NEW u \in Users, OwnerStops(u) PROVE Returning'
    BY <1>3 DEF OwnerStops, Returning, SourcesComeBack
  <1>4. ASSUME NEW u \in Users, OwnerStarts(u) PROVE Returning'
    <2>1. /\ \A q \in VolSlots : req'[q].pc = req[q].pc /\ req'[q].listed = req[q].listed
          /\ wanted' = wanted \union {u} /\ running' = running \union {u} /\ lost' = lost \ {u}
      BY <1>4, ReqMoves DEF OwnerStarts
    <2> QED
      BY <2>1 DEF Returning, SourcesComeBack
  <1>5. CASE VolCrash
    <2>1. /\ \A q \in VolSlots : req'[q].listed = {}
          /\ UNCHANGED <<running, wanted>>
          /\ lost' = lost \union UNION {req[r].listed : r \in VolSlots}
      BY <1>5 DEF VolCrash, NoVolReq
    <2>2. \A u \in wanted' \ running' : u \in lost'
      BY <2>1 DEF Returning, SourcesComeBack
    <2> QED
      BY <2>1, <2>2 DEF Returning, SourcesComeBack
  <1> QED
    BY <1>1, <1>2, <1>3, <1>4, <1>5, ReturningStep DEF VolNext

\* copy_single_snapshot: a container that its owner wants to run is down only
\* while a run that has stopped it is going to start it again, whoever else
\* copies the same source, whatever fails and whatever the owners do.
THEOREM StoppedAreStarted == VolSpec => []SourcesComeBack
  <1>1. Returning => SourcesComeBack
    BY DEF Returning
  <1> QED
    BY <1>1, VolInitType, VolNextType, ReturningInit, ReturningNext, PTL DEF VolSpec

----------------------------------------------------------------------------
(* An instance starts from a copy it has to itself, where no rm comes in   *)
(* without the permit of the project and no two projects give an instance  *)
(* the same name.                                                          *)

Permitted == "socket" \notin VolEntry
Distinct  == \A i, j \in Coasts : Volume(i) = Volume(j) => i = j

\* An instance is the business of one request at a time, and has a row then.
OneEach ==
    /\ \A r \in VolSlots : req[r].pc # "idle" => req[r].gated /\ rows[req[r].inst] # "none"
    /\ \A r, q \in VolSlots :
          req[r].pc # "idle" /\ req[q].pc # "idle" /\ req[r].inst = req[q].inst => r = q

\* A copy of a source that is written to is made by a run that has met a writer.
MetWriters ==
    \A r \in VolSlots : ~req[r].met =>
        /\ req[r].pc = "stop" => running \subseteq req[r].listed
        /\ req[r].pc = "copy" => running = {}
        /\ req[r].pc = "copying" => ~req[r].torn

\* Nobody else has written to the volume of i; it has been copied to.
Untouched(i) ==
    "failed" \in spoiled[Volume(i)] \/ (~data[Volume(i)].left /\ data[Volume(i)].by \subseteq {i})
Copied(i) ==
    \/ "failed" \in spoiled[Volume(i)]
    \/ data[Volume(i)].copy = "whole"
    \/ data[Volume(i)].copy = "torn" /\ "met" \in spoiled[Volume(i)]

Before == {"list", "stop", "copy", "copying", "restart", "create"}

\* A request has done its part of what a volume must be when it is used.
Prepared(r) ==
    /\ req[r].pc \in Before => Untouched(req[r].inst) /\ req[r].inst \notin boxes
    /\ req[r].pc \in {"restart", "create"} => Copied(req[r].inst)
    /\ req[r].pc = "db" => Untouched(req[r].inst)

\* So has the instance i itself.
Sound(i) ==
    /\ i \in boxes => Untouched(i) /\ Copied(i)
    /\ rows[i] = "none" => Untouched(i)

Seeded == /\ \A i \in Coasts : Sound(i)
          /\ \A r \in VolSlots : Prepared(r)

SeedInv == OneEach /\ MetWriters /\ Seeded

LEMMA SeedInit == VolInit => SeedInv
  <1> SUFFICES ASSUME VolInit PROVE SeedInv
    OBVIOUS
  <1>1. \A r \in VolSlots : req[r].pc = "idle"
    BY DEF VolInit, NoVolReq
  <1>2. OneEach /\ MetWriters /\ \A r \in VolSlots : Prepared(r)
    BY <1>1 DEF OneEach, MetWriters, Prepared, Before
  <1>3. \A i \in Coasts : Sound(i)
    BY DEF VolInit, Sound, Untouched, EmptyVolume, VolumeNames
  <1> QED
    BY <1>2, <1>3 DEF SeedInv, Seeded

\* What a step leaves alone of a volume and of a row stays sound.
LEMMA SoundKept ==
  ASSUME NEW i \in Coasts,
         data'[Volume(i)] = data[Volume(i)], spoiled[Volume(i)] \subseteq spoiled'[Volume(i)]
  PROVE  (Untouched(i) => Untouched(i)') /\ (Copied(i) => Copied(i)')
  BY DEF Untouched, Copied

LEMMA PreparedKept ==
  ASSUME VolTyped, SeedInv, NEW q \in VolSlots,
         req'[q].pc = req[q].pc, req'[q].inst = req[q].inst,
         req[q].pc # "idle" => /\ data'[Mine(q)] = data[Mine(q)]
                               /\ spoiled[Mine(q)] \subseteq spoiled'[Mine(q)]
                               /\ req[q].inst \in boxes' => req[q].inst \in boxes
  PROVE  Prepared(q)'
  <1>1. CASE req[q].pc = "idle"
    BY <1>1 DEF Prepared, Before
  <1>2. CASE req[q].pc # "idle"
    <2>1. PICK i \in Coasts : i = req[q].inst /\ i = req'[q].inst
      BY <1>2 DEF VolTyped, Busied
    <2>2. (Untouched(i) => Untouched(i)') /\ (Copied(i) => Copied(i)')
      BY <1>2, <2>1, SoundKept DEF Mine
    <2>3. Prepared(q)
      BY DEF SeedInv, Seeded
    <2>4. /\ req'[q].pc \in Before => Untouched(i)' /\ i \notin boxes'
          /\ req'[q].pc \in {"restart", "create"} => Copied(i)'
          /\ req'[q].pc = "db" => Untouched(i)'
      BY <1>2, <2>1, <2>2, <2>3 DEF Prepared
    <2> QED
      BY <2>1, <2>4 DEF Prepared, Untouched, Copied
  <1> QED
    BY <1>1, <1>2

LEMMA OneEachNext == Permitted /\ VolTyped /\ OneEach /\ [VolNext]_volvars => OneEach'
  <1> SUFFICES ASSUME Permitted, VolTyped, OneEach, [VolNext]_volvars PROVE OneEach'
    OBVIOUS
  <1>0. req \in [VolSlots -> VolReq] /\ rows \in [Coasts -> {"none", "provisioning", "running"}]
        /\ Busied
    BY VolTypeIs DEF VolTyped
  <1>1. ASSUME NEW r \in VolSlots, req[r].pc # "idle",
               \A q \in VolSlots \ {r} : /\ req'[q].pc = req[q].pc /\ req'[q].inst = req[q].inst
                                         /\ req'[q].gated = req[q].gated,
               \A j \in Coasts \ {req[r].inst} : rows'[j] = rows[j],
               \/ req'[r].pc = "idle"
               \/ /\ req'[r].inst = req[r].inst /\ req'[r].gated = req[r].gated
                  /\ rows'[req[r].inst] # "none"
        PROVE  OneEach'
    <2>1. \A q \in VolSlots \ {r} : req[q].pc # "idle" =>
             req[q].inst \in Coasts /\ req[q].inst # req[r].inst
      BY <1>0, <1>1 DEF OneEach, Busied
    <2>2. \A q \in VolSlots : req'[q].pc # "idle" => req'[q].gated /\ rows'[req'[q].inst] # "none"
      BY <1>1, <2>1 DEF OneEach
    <2>3. \A p, q \in VolSlots :
          req'[p].pc # "idle" /\ req'[q].pc # "idle" /\ req'[p].inst = req'[q].inst => p = q
      BY <1>1, <2>1 DEF OneEach
    <2> QED
      BY <2>2, <2>3 DEF OneEach
  <1>2. ASSUME NEW r \in VolSlots, VolStep(r) \/ RmHangup(r) PROVE OneEach'
    <2>0. rows[req[r].inst] # "none" \/ req[r].pc = "idle"
      BY DEF OneEach
    <2>1. CASE ListUsers(r) \/ CopyBegins(r)
      <3>1. /\ req[r].pc # "idle" /\ UNCHANGED rows
            /\ \A q \in VolSlots \ {r} : req'[q] = req[q]
            /\ req'[r].inst = req[r].inst /\ req'[r].gated = req[r].gated
        BY <1>0, <2>1 DEF ListUsers, CopyBegins, insts, VolReq
      <3> QED
        BY <1>1, <2>0, <3>1
    <2>2. CASE StopUsers(r) \/ CopyEnds(r) \/ RunCreates(r) \/ RmRemovesBox(r) \/ RmRemovesVolumes(r)
      <3>1. /\ req[r].pc # "idle" /\ UNCHANGED rows
            /\ \E pc \in VolPcs : TaskTo(r, pc)
        BY <2>2 DEF StopUsers, CopyEnds, RunCreates, RmRemovesBox, RmRemovesVolumes, insts,
                    VolPcs, RunPcs, RmPcs
      <3>2. /\ \A q \in VolSlots \ {r} : req'[q] = req[q]
            /\ req'[r].inst = req[r].inst /\ req'[r].gated = req[r].gated
        BY <3>1, ReqMoves
      <3> QED
        BY <1>1, <2>0, <3>1, <3>2
    <2>3. CASE RestartUsers(r)
      <3> DEFINE m == Meets(req[r].listed)
      <3>1. m \in [VolSlots -> VolReq]
            /\ \A q \in VolSlots : /\ m[q].pc = req[q].pc /\ m[q].inst = req[q].inst
                                   /\ m[q].gated = req[q].gated
        BY ReqMoves
      <3>2. req' = [m EXCEPT ![r].pc = IF @ = "restart" THEN "create" ELSE "failed",
                             ![r].listed = {}]
        BY <2>3 DEF RestartUsers
      <3>3. req[r].pc # "idle" /\ UNCHANGED rows
        BY <2>3 DEF RestartUsers, insts
      <3> HIDE DEF m
      <3>4. /\ req'[r].inst = m[r].inst /\ req'[r].gated = m[r].gated
            /\ \A q \in VolSlots \ {r} : req'[q] = m[q]
        BY <3>1, <3>2 DEF VolReq
      <3> QED
        BY <1>1, <2>0, <3>1, <3>3, <3>4
    <2>4. CASE RunFinishes(r)
      <3>1. /\ req[r].pc = "finish"
            /\ TaskEnds(r) \/ (TaskTo(r, "failed") /\ UNCHANGED rows)
            /\ \A j \in Coasts \ {req[r].inst} : rows'[j] = rows[j]
        BY <1>0, <2>4 DEF RunFinishes
      <3>2. TaskEnds(r) => req'[r].pc = "idle" /\ \A q \in VolSlots \ {r} : req'[q] = req[q]
        BY ReqMoves DEF NoVolReq
      <3>3. TaskTo(r, "failed") =>
               /\ req'[r].inst = req[r].inst /\ req'[r].gated = req[r].gated
               /\ \A q \in VolSlots \ {r} : req'[q] = req[q]
        BY <3>1, ReqMoves DEF VolPcs, RunPcs
      <3> QED
        BY <1>1, <2>0, <3>1, <3>2, <3>3
    <2>5. CASE RunCleansUp(r) \/ RmEnds(r) \/ RmHangup(r)
      <3>1. /\ req[r].pc # "idle" /\ TaskEnds(r)
            /\ \A j \in Coasts \ {req[r].inst} : rows'[j] = rows[j]
        BY <1>0, <2>5 DEF RunCleansUp, RmEnds, RmHangup, insts, RmPcs
      <3>2. req'[r].pc = "idle" /\ \A q \in VolSlots \ {r} : req'[q] = req[q]
        BY <3>1, ReqMoves DEF NoVolReq
      <3> QED
        BY <1>1, <3>1, <3>2
    <2> QED
      BY <1>2, <2>1, <2>2, <2>3, <2>4, <2>5 DEF VolStep
  <1>3. ASSUME NEW r \in VolSlots, NEW i \in Coasts,
               RunBegins(r, i) \/ \E gated \in BOOLEAN : RmBegins(r, i, gated)
        PROVE  OneEach'
    <2>1. /\ req[r] = NoVolReq /\ req'[r].inst = i /\ req'[r].gated
          /\ \A q \in VolSlots \ {r} : req'[q] = req[q]
      BY <1>3, VolBeginType DEF Permitted
    <2>2. PermitFree(Project(i))
      BY <1>3 DEF RunBegins, RmBegins, Permitted
    <2>3. rows'[i] # "none" /\ \A j \in Coasts \ {i} : rows'[j] = rows[j]
      BY <1>0, <1>3 DEF RunBegins, RmBegins, insts
    <2>4. \A q \in VolSlots : req[q].pc # "idle" => req[q].inst \in Coasts /\ req[q].inst # i
      BY <1>0, <2>2 DEF PermitFree, OneEach, Busied
    <2>5. \A q \in VolSlots : req'[q].pc # "idle" => req'[q].gated /\ rows'[req'[q].inst] # "none"
      BY <2>1, <2>3, <2>4 DEF OneEach
    <2>6. \A p, q \in VolSlots :
          req'[p].pc # "idle" /\ req'[q].pc # "idle" /\ req'[p].inst = req'[q].inst => p = q
      BY <2>1, <2>4 DEF OneEach
    <2> QED
      BY <2>5, <2>6 DEF OneEach
  <1>4. CASE (\E i \in Coasts : WriteData(i)) \/ UNCHANGED volvars \/ \E u \in Users : OwnerStops(u)
    BY <1>4 DEF WriteData, OwnerStops, volvars, insts, OneEach
  <1>5. ASSUME NEW u \in Users, OwnerStarts(u) PROVE OneEach'
    <2>1. /\ \A q \in VolSlots : /\ req'[q].pc = req[q].pc /\ req'[q].inst = req[q].inst
                                 /\ req'[q].gated = req[q].gated
          /\ UNCHANGED rows
      BY <1>5, ReqMoves DEF OwnerStarts, insts
    <2> QED
      BY <2>1 DEF OneEach
  <1>6. CASE VolCrash
    BY <1>6 DEF VolCrash, NoVolReq, OneEach
  <1> QED
    BY <1>2, <1>3, <1>4, <1>5, <1>6 DEF VolNext

LEMMA MetWritersNext == VolTyped /\ MetWriters /\ [VolNext]_volvars => MetWriters'
  <1> SUFFICES ASSUME VolTyped, MetWriters, [VolNext]_volvars PROVE MetWriters'
    OBVIOUS
  <1>0. req \in [VolSlots -> VolReq]
    BY VolTypeIs DEF VolTyped
  <1>1. ASSUME NEW r \in VolSlots, \A q \in VolSlots \ {r} : req'[q] = req[q],
               running' \subseteq running,
               req'[r].pc \notin {"stop", "copy", "copying"}
        PROVE  MetWriters'
    BY <1>1 DEF MetWriters
  <1>2. ASSUME NEW S, running' = running \union S,
               \A q \in VolSlots :
                  \/ req'[q].pc \notin {"stop", "copy", "copying"}
                  \/ req'[q] = Meets(S)[q]
        PROVE  MetWriters'
    <2>1. CASE S = {}
      <3>1. \A q \in VolSlots : Meets(S)[q] = req[q]
        BY <2>1 DEF Meets
      <3> QED
        BY <1>2, <2>1, <3>1 DEF MetWriters
    <2>2. CASE S # {}
      <3>1. \A q \in VolSlots : req[q].pc \in {"stop", "copy", "copying"} => Meets(S)[q].met
        BY <1>0, <2>2 DEF Meets, VolReq
      <3>2. VolSlots # {} => \A q \in VolSlots : Meets(S)[q].pc = req[q].pc
        BY ReqMoves
      <3> QED
        BY <1>2, <3>1, <3>2 DEF MetWriters
    <2> QED
      BY <2>1, <2>2
  <1>3. ASSUME NEW r \in VolSlots, VolStep(r) \/ RmHangup(r) PROVE MetWriters'
    <2>1. CASE ListUsers(r)
      <3>1. /\ req'[r].pc = "stop" /\ req'[r].listed = running /\ UNCHANGED running
            /\ \A q \in VolSlots \ {r} : req'[q] = req[q]
        BY <1>0, <2>1 DEF ListUsers, VolReq, copied
      <3> QED
        BY <3>1 DEF MetWriters
    <2>2. CASE StopUsers(r)
      <3>1. /\ req[r].pc = "stop" /\ req'[r].pc = "copy" /\ req'[r].met = req[r].met
            /\ running' = running \ req[r].listed
            /\ \A q \in VolSlots \ {r} : req'[q] = req[q]
        BY <1>0, <2>2 DEF StopUsers, TaskTo, VolReq
      <3> QED
        BY <3>1 DEF MetWriters
    <2>3. CASE CopyBegins(r)
      <3>1. CASE req' = [req EXCEPT ![r].pc = "copying", ![r].torn = running # {}]
        <4>1. /\ req[r].pc = "copy" /\ req'[r].pc = "copying" /\ req'[r].met = req[r].met
              /\ req'[r].torn = (running # {}) /\ UNCHANGED running
              /\ \A q \in VolSlots \ {r} : req'[q] = req[q]
          BY <1>0, <2>3, <3>1 DEF CopyBegins, VolReq
        <4> QED
          BY <4>1 DEF MetWriters
      <3>2. CASE req' = [req EXCEPT ![r].pc = "failed", ![r].listed = {}]
        <4>1. req'[r].pc = "failed" /\ UNCHANGED running /\ \A q \in VolSlots \ {r} : req'[q] = req[q]
          BY <1>0, <2>3, <3>2 DEF CopyBegins, VolReq
        <4> QED
          BY <1>1, <4>1
      <3> QED
        BY <2>3, <3>1, <3>2 DEF CopyBegins
    <2>4. CASE RestartUsers(r)
      <3> DEFINE m == Meets(req[r].listed)
      <3>1. m \in [VolSlots -> VolReq]
        BY ReqMoves
      <3>2. /\ req' = [m EXCEPT ![r].pc = IF @ = "restart" THEN "create" ELSE "failed",
                                ![r].listed = {}]
            /\ running' = running \union req[r].listed
        BY <2>4 DEF RestartUsers
      <3> HIDE DEF m
      <3>3. req'[r].pc \in {"create", "failed"} /\ \A q \in VolSlots \ {r} : req'[q] = m[q]
        BY <3>1, <3>2 DEF VolReq
      <3> QED
        BY <1>2, <3>2, <3>3 DEF m
    <2>5. CASE CopyEnds(r) \/ RunCreates(r) \/ RmRemovesBox(r) \/ RmRemovesVolumes(r)
      <3>1. PICK pc \in {"restart", "undo", "finish", "failed", "volumes", "db"} :
               TaskTo(r, pc) /\ UNCHANGED running /\ req[r].pc # "idle"
        BY <2>5 DEF CopyEnds, RunCreates, RmRemovesBox, RmRemovesVolumes, copied
      <3>2. req'[r].pc = pc /\ \A q \in VolSlots \ {r} : req'[q] = req[q]
        BY <3>1, ReqMoves DEF VolPcs, RunPcs, RmPcs
      <3> QED
        BY <1>1, <3>1, <3>2
    <2>6. CASE RunFinishes(r) \/ RunCleansUp(r) \/ RmEnds(r) \/ RmHangup(r)
      <3>1. /\ TaskEnds(r) \/ (TaskTo(r, "failed") /\ req[r].pc = "finish")
            /\ UNCHANGED running
        BY <2>6 DEF RunFinishes, RunCleansUp, RmEnds, RmHangup, copied
      <3>2. req'[r].pc \in {"idle", "failed"} /\ \A q \in VolSlots \ {r} : req'[q] = req[q]
        BY <3>1, ReqMoves DEF VolPcs, RunPcs, NoVolReq
      <3> QED
        BY <1>1, <3>1, <3>2
    <2> QED
      BY <1>3, <2>1, <2>2, <2>3, <2>4, <2>5, <2>6 DEF VolStep
  <1>4. ASSUME NEW r \in VolSlots, NEW i \in Coasts,
               RunBegins(r, i) \/ \E gated \in BOOLEAN : RmBegins(r, i, gated)
        PROVE  MetWriters'
    <2>1. req'[r].pc \in {"list", "box"} /\ \A q \in VolSlots \ {r} : req'[q] = req[q]
      BY <1>4, VolBeginType
    <2>2. UNCHANGED running
      BY <1>4 DEF RunBegins, RmBegins, copied
    <2> QED
      BY <1>1, <2>1, <2>2
  <1>5. CASE (\E i \in Coasts : WriteData(i)) \/ UNCHANGED volvars
    BY <1>5 DEF WriteData, volvars, copied, MetWriters
  <1>6. ASSUME NEW u \in Users, OwnerStops(u) PROVE MetWriters'
    BY <1>6 DEF OwnerStops, MetWriters
  <1>7. ASSUME NEW u \in Users, OwnerStarts(u) PROVE MetWriters'
    BY <1>2, <1>7 DEF OwnerStarts
  <1>8. CASE VolCrash
    BY <1>8 DEF VolCrash, MetWriters, NoVolReq
  <1> QED
    BY <1>3, <1>4, <1>5, <1>6, <1>7, <1>8 DEF VolNext

\* A step for the instance i, whose one request is r if it has one, disturbs no
\* other.
LEMMA OnlyOne ==
  ASSUME Distinct, VolTyped, SeedInv, NEW r \in VolSlots, NEW i \in Coasts,
         \A q \in VolSlots \ {r} : /\ req[q].pc # "idle" => req[q].inst # i
                                   /\ req'[q].pc = req[q].pc /\ req'[q].inst = req[q].inst,
         \A v \in VolumeNames \ {Volume(i)} : data'[v] = data[v] /\ spoiled'[v] = spoiled[v],
         \A j \in Coasts \ {i} : (j \in boxes' <=> j \in boxes) /\ rows'[j] = rows[j],
         Prepared(r)', Sound(i)'
  PROVE  Seeded'
  <1>1. \A j \in Coasts \ {i} : Volume(j) \in VolumeNames \ {Volume(i)}
    BY DEF Distinct, VolumeNames
  <1>2. ASSUME NEW j \in Coasts PROVE Sound(j)'
    <2>1. CASE j # i
      <3>1. (Untouched(j) => Untouched(j)') /\ (Copied(j) => Copied(j)')
        BY <1>1, <2>1, SoundKept
      <3> QED
        BY <2>1, <3>1 DEF SeedInv, Seeded, Sound
    <2> QED
      BY <2>1
  <1>3. ASSUME NEW q \in VolSlots PROVE Prepared(q)'
    <2>1. CASE q # r
      <3>1. req[q].pc # "idle" => req[q].inst \in Coasts \ {i}
        BY <2>1 DEF VolTyped, Busied
      <3>2. req[q].pc # "idle" => /\ data'[Mine(q)] = data[Mine(q)]
                                  /\ spoiled[Mine(q)] \subseteq spoiled'[Mine(q)]
                                  /\ req[q].inst \in boxes' => req[q].inst \in boxes
        BY <1>1, <3>1 DEF Mine
      <3> QED
        BY <2>1, <3>2, PreparedKept
    <2> QED
      BY <2>1
  <1> QED
    BY <1>2, <1>3 DEF Seeded

\* The step of a request: what it makes of its own instance.
LEMMA SeededStep ==
  ASSUME Distinct, VolTyped, SeedInv, NEW r \in VolSlots, VolStep(r) \/ RmHangup(r)
  PROVE  Seeded'
  <1>0. /\ req \in [VolSlots -> VolReq] /\ rows \in [Coasts -> {"none", "provisioning", "running"}]
        /\ boxes \subseteq Coasts
        /\ data \in [VolumeNames -> Contents]
        /\ spoiled \in [VolumeNames -> SUBSET {"failed", "met"}]
    BY VolTypeIs DEF VolTyped
  <1>1. req[r].pc # "idle"
    BY DEF VolStep, ListUsers, StopUsers, CopyBegins, CopyEnds, RestartUsers, RunCreates, RunFinishes,
           RunCleansUp, RmRemovesBox, RmRemovesVolumes, RmEnds, RmHangup, RmPcs
  <1>2. PICK i \in Coasts : i = req[r].inst
    BY <1>1 DEF VolTyped, Busied
  <1>3. \A q \in VolSlots \ {r} : req[q].pc # "idle" => req[q].inst # i
    BY <1>1, <1>2 DEF SeedInv, OneEach
  <1>4. rows[i] # "none"
    BY <1>1, <1>2 DEF SeedInv, OneEach
  <1>5. Sound(i) /\ Prepared(r)
    BY DEF SeedInv, Seeded
  <1>6. Volume(i) \in VolumeNames /\ Mine(r) = Volume(i)
    BY <1>2 DEF VolumeNames, Mine
  \* A step that leaves the volumes and the instances alone.
  <1>7. ASSUME UNCHANGED insts,
               \A q \in VolSlots \ {r} : req'[q].pc = req[q].pc /\ req'[q].inst = req[q].inst,
               \/ req'[r].pc \in {"idle", "failed", "undo", "volumes"}
               \/ /\ req'[r].inst = i
                  /\ req'[r].pc \in Before /\ req[r].pc \in Before
                  /\ req'[r].pc \in {"restart", "create"} => req[r].pc \in {"restart", "create"}
        PROVE  Seeded'
    <2>1. UNCHANGED <<rows, boxes, data, spoiled>>
      BY <1>7 DEF insts
    <2>2. (Untouched(i) => Untouched(i)') /\ (Copied(i) => Copied(i)')
      BY <2>1, SoundKept
    <2>3. Sound(i)'
      BY <1>5, <2>1, <2>2 DEF Sound
    <2>4. Prepared(r)'
      BY <1>2, <1>5, <1>7, <2>1 DEF Prepared, Before, Untouched, Copied
    <2> QED
      BY <1>3, <1>7, <2>1, <2>3, <2>4, OnlyOne
  <1>8. CASE ListUsers(r) \/ CopyBegins(r)
    <2>1. /\ UNCHANGED insts /\ req[r].pc \in Before \ {"restart", "create"}
          /\ \A q \in VolSlots \ {r} : req'[q] = req[q]
          /\ req'[r].inst = req[r].inst /\ req'[r].pc \in {"stop", "copying", "failed"}
      BY <1>0, <1>8 DEF ListUsers, CopyBegins, VolReq, Before
    <2> QED
      BY <1>2, <1>7, <2>1 DEF Before
  <1>9. CASE StopUsers(r)
    <2>1. /\ UNCHANGED insts /\ req[r].pc = "stop" /\ TaskTo(r, "copy")
      BY <1>9 DEF StopUsers
    <2>2. /\ \A q \in VolSlots \ {r} : req'[q] = req[q]
          /\ req'[r].inst = req[r].inst /\ req'[r].pc = "copy"
      BY <2>1, ReqMoves DEF VolPcs, RunPcs
    <2> QED
      BY <1>2, <1>7, <2>1, <2>2 DEF Before
  <1>10. CASE RestartUsers(r)
    <2> DEFINE m == Meets(req[r].listed)
    <2>1. m \in [VolSlots -> VolReq] /\ \A q \in VolSlots : m[q].pc = req[q].pc /\ m[q].inst = req[q].inst
      BY ReqMoves
    <2>2. /\ req' = [m EXCEPT ![r].pc = IF @ = "restart" THEN "create" ELSE "failed",
                              ![r].listed = {}]
          /\ req[r].pc \in {"restart", "undo"} /\ UNCHANGED insts
      BY <1>10 DEF RestartUsers
    <2> HIDE DEF m
    <2>3. /\ \A q \in VolSlots \ {r} : req'[q] = m[q]
          /\ req'[r].inst = m[r].inst /\ req'[r].pc = IF m[r].pc = "restart" THEN "create" ELSE "failed"
      BY <2>1, <2>2 DEF VolReq
    <2> QED
      BY <1>2, <1>7, <2>1, <2>2, <2>3 DEF Before
  <1>11. CASE CopyEnds(r)
    <2>1. req[r].pc = "copying" /\ UNCHANGED <<rows, boxes>>
      BY <1>11 DEF CopyEnds
    <2>2. Untouched(i) /\ i \notin boxes
      BY <1>2, <1>5, <2>1 DEF Prepared, Before
    <2>3. Sound(i)'
      BY <1>4, <2>1, <2>2 DEF Sound
    <2>4. CASE /\ data' = [data EXCEPT ![Mine(r)].copy = IF req[r].torn THEN "torn" ELSE "whole"]
               /\ spoiled' = [spoiled EXCEPT ![Mine(r)] =
                                 @ \union (IF req[r].met THEN {"met"} ELSE {})]
               /\ TaskTo(r, "restart")
      <3>1. /\ \A q \in VolSlots \ {r} : req'[q] = req[q]
            /\ req'[r].inst = i /\ req'[r].pc = "restart"
        BY <1>2, <2>1, <2>4, ReqMoves DEF VolPcs, RunPcs
      <3>2. req[r].torn => req[r].met
        BY <1>0, <2>1 DEF SeedInv, MetWriters, VolReq
      <3>3. /\ data'[Volume(i)].copy = IF req[r].torn THEN "torn" ELSE "whole"
            /\ data'[Volume(i)].left = data[Volume(i)].left /\ data'[Volume(i)].by = data[Volume(i)].by
            /\ spoiled[Volume(i)] \subseteq spoiled'[Volume(i)]
            /\ req[r].met => "met" \in spoiled'[Volume(i)]
            /\ \A v \in VolumeNames \ {Volume(i)} : data'[v] = data[v] /\ spoiled'[v] = spoiled[v]
        BY <1>0, <1>6, <2>4 DEF Contents
      <3>4. Untouched(i)' /\ Copied(i)'
        BY <2>2, <3>2, <3>3 DEF Untouched, Copied
      <3>5. Prepared(r)'
        BY <2>1, <2>2, <3>1, <3>4 DEF Prepared, Untouched, Copied
      <3> QED
        BY <1>3, <2>1, <2>3, <3>1, <3>3, <3>5, OnlyOne
    <2>5. CASE /\ data' = [data EXCEPT ![Mine(r)].copy = "torn"]
               /\ TaskTo(r, "undo") /\ UNCHANGED spoiled
      <3>1. req'[r].pc = "undo" /\ \A q \in VolSlots \ {r} : req'[q] = req[q]
        BY <2>1, <2>5, ReqMoves DEF VolPcs, RunPcs
      <3>2. \A v \in VolumeNames \ {Volume(i)} : data'[v] = data[v] /\ spoiled'[v] = spoiled[v]
        BY <1>0, <1>6, <2>5
      <3>3. Prepared(r)'
        BY <3>1 DEF Prepared, Before
      <3> QED
        BY <1>3, <2>1, <2>3, <3>1, <3>2, <3>3, OnlyOne
    <2> QED
      BY <1>11, <2>4, <2>5 DEF CopyEnds
  <1>12. CASE RunCreates(r)
    <2>1. req[r].pc = "create" /\ UNCHANGED <<rows, data, spoiled>>
      BY <1>12 DEF RunCreates
    <2>2. CASE boxes' = boxes \union {req[r].inst} /\ TaskTo(r, "finish")
      <3>1. req'[r].pc = "finish" /\ \A q \in VolSlots \ {r} : req'[q] = req[q]
        BY <2>1, <2>2, ReqMoves DEF VolPcs, RunPcs
      <3>2. Untouched(i) /\ Copied(i)
        BY <1>2, <1>5, <2>1 DEF Prepared, Before
      <3>3. Sound(i)'
        BY <2>1, <3>2 DEF Sound, Untouched, Copied
      <3>4. Prepared(r)'
        BY <3>1 DEF Prepared, Before
      <3> QED
        BY <1>2, <1>3, <2>1, <2>2, <3>1, <3>3, <3>4, OnlyOne
    <2>3. CASE TaskTo(r, "failed") /\ UNCHANGED boxes
      <3>1. req'[r].pc = "failed" /\ \A q \in VolSlots \ {r} : req'[q] = req[q]
        BY <2>1, <2>3, ReqMoves DEF VolPcs, RunPcs
      <3> QED
        BY <1>7, <2>1, <2>3, <3>1 DEF insts
    <2> QED
      BY <1>12, <2>2, <2>3 DEF RunCreates
  <1>13. CASE RunFinishes(r)
    <2>1. req[r].pc = "finish" /\ UNCHANGED <<boxes, data, spoiled>>
      BY <1>13 DEF RunFinishes
    <2>2. CASE rows' = [rows EXCEPT ![i] = "running"] /\ TaskEnds(r)
      <3>1. req'[r].pc = "idle" /\ \A q \in VolSlots \ {r} : req'[q] = req[q]
        BY <2>2, ReqMoves DEF NoVolReq
      <3>2. rows'[i] = "running" /\ \A j \in Coasts \ {i} : rows'[j] = rows[j]
        BY <1>0, <2>2
      <3>3. Sound(i)'
        BY <1>5, <2>1, <3>2 DEF Sound, Untouched, Copied
      <3>4. Prepared(r)'
        BY <3>1 DEF Prepared, Before
      <3> QED
        BY <1>3, <2>1, <3>1, <3>2, <3>3, <3>4, OnlyOne
    <2>3. CASE TaskTo(r, "failed") /\ UNCHANGED rows
      <3>1. req'[r].pc = "failed" /\ \A q \in VolSlots \ {r} : req'[q] = req[q]
        BY <2>1, <2>3, ReqMoves DEF VolPcs, RunPcs
      <3> QED
        BY <1>7, <2>1, <2>3, <3>1 DEF insts
    <2> QED
      BY <1>2, <1>13, <2>2, <2>3 DEF RunFinishes
  <1>14. CASE RunCleansUp(r)
    <2>1. /\ TaskEnds(r)
          /\ rows'  = [rows EXCEPT ![i] = "none"]
          /\ boxes' = boxes \ {i}
          /\ data'  = LeftBy(i)
          /\ spoiled' = [spoiled EXCEPT ![Volume(i)] = @ \union {"failed"}]
      BY <1>2, <1>6, <1>14 DEF RunCleansUp
    <2>2. req'[r].pc = "idle" /\ \A q \in VolSlots \ {r} : req'[q] = req[q]
      BY <2>1, ReqMoves DEF NoVolReq
    <2>3. /\ "failed" \in spoiled'[Volume(i)]
          /\ \A v \in VolumeNames \ {Volume(i)} : data'[v] = data[v] /\ spoiled'[v] = spoiled[v]
          /\ \A j \in Coasts \ {i} : (j \in boxes' <=> j \in boxes) /\ rows'[j] = rows[j]
      BY <1>0, <1>6, <2>1 DEF LeftBy
    <2>4. Sound(i)'
      BY <2>3 DEF Sound, Untouched, Copied
    <2>5. Prepared(r)'
      BY <2>2 DEF Prepared, Before
    <2> QED
      BY <1>3, <2>2, <2>3, <2>4, <2>5, OnlyOne
  <1>15. CASE RmRemovesBox(r)
    <2>1. /\ req[r].pc = "box" /\ TaskTo(r, "volumes") /\ UNCHANGED <<rows, spoiled>>
          /\ \/ boxes' = boxes \ {i} /\ data' = LeftBy(i)
             \/ UNCHANGED <<boxes, data>>
      BY <1>2, <1>15 DEF RmRemovesBox
    <2>2. req'[r].pc = "volumes" /\ \A q \in VolSlots \ {r} : req'[q] = req[q]
      BY <2>1, ReqMoves DEF VolPcs, RmPcs
    <2>3. CASE boxes' = boxes \ {i} /\ data' = LeftBy(i)
      <3>1. \A v \in VolumeNames \ {Volume(i)} : data'[v] = data[v] /\ spoiled'[v] = spoiled[v]
        BY <1>0, <1>6, <2>1, <2>3 DEF LeftBy
      <3>2. Sound(i)'
        BY <1>4, <2>1, <2>3 DEF Sound
      <3>3. Prepared(r)'
        BY <2>2 DEF Prepared, Before
      <3> QED
        BY <1>3, <2>1, <2>2, <2>3, <3>1, <3>2, <3>3, OnlyOne
    <2>4. CASE UNCHANGED <<boxes, data>>
      BY <1>7, <2>1, <2>2, <2>4 DEF insts
    <2> QED
      BY <2>1, <2>3, <2>4
  <1>16. CASE RmRemovesVolumes(r)
    <2>1. req[r].pc = "volumes" /\ TaskTo(r, "db") /\ UNCHANGED <<rows, boxes>> /\ RemoveVolume(Volume(i))
      BY <1>6, <1>16 DEF RmRemovesVolumes
    <2>2. /\ req'[r].pc = "db" /\ req'[r].inst = i
          /\ \A q \in VolSlots \ {r} : req'[q] = req[q]
      BY <1>2, <2>1, ReqMoves DEF VolPcs, RmPcs
    <2>3. CASE Mounted(Volume(i))
      <3>1. i \in boxes
        <4>1. ASSUME NEW q \in VolSlots, req[q].pc = "copying", Mine(q) = Volume(i) PROVE FALSE
          <5>1. req[q].inst = i
            BY <4>1 DEF Distinct, Mine, VolTyped, Busied
          <5> QED
            BY <1>3, <2>1, <4>1, <5>1
        <4> QED
          BY <1>0, <2>3, <4>1 DEF Mounted, Distinct
      <3>2. UNCHANGED <<data, spoiled>> /\ Untouched(i) /\ Copied(i)
        BY <1>5, <2>1, <2>3, <3>1 DEF RemoveVolume, Sound
      <3>3. Untouched(i)' /\ Copied(i)'
        BY <3>2, SoundKept
      <3> QED
        BY <1>3, <2>1, <2>2, <3>2, <3>3, OnlyOne DEF Sound, Prepared, Before, Untouched
    <2>4. CASE ~Mounted(Volume(i))
      <3>1. /\ data' = [data EXCEPT ![Volume(i)] = EmptyVolume]
            /\ spoiled' = [spoiled EXCEPT ![Volume(i)] = {}]
        BY <2>1, <2>4 DEF RemoveVolume
      <3>2. /\ ~data'[Volume(i)].left /\ data'[Volume(i)].by \subseteq {i}
            /\ \A v \in VolumeNames \ {Volume(i)} : data'[v] = data[v] /\ spoiled'[v] = spoiled[v]
        BY <1>0, <1>6, <3>1 DEF EmptyVolume
      <3>3. i \notin boxes
        BY <2>4 DEF Mounted
      <3>4. Untouched(i)'
        BY <3>2 DEF Untouched
      <3>5. Sound(i)'
        BY <2>1, <3>3, <3>4 DEF Sound
      <3>6. Prepared(r)'
        BY <2>2, <3>4 DEF Prepared, Before, Untouched
      <3> QED
        BY <1>3, <2>1, <2>2, <3>2, <3>5, <3>6, OnlyOne
    <2> QED
      BY <2>3, <2>4
  <1>17. CASE RmEnds(r)
    <2>1. /\ req[r].pc = "db" /\ rows' = [rows EXCEPT ![i] = "none"] /\ TaskEnds(r)
          /\ UNCHANGED <<boxes, data, spoiled>>
      BY <1>2, <1>17 DEF RmEnds
    <2>2. req'[r].pc = "idle" /\ \A q \in VolSlots \ {r} : req'[q] = req[q]
      BY <2>1, ReqMoves DEF NoVolReq
    <2>3. Untouched(i)
      BY <1>2, <1>5, <2>1 DEF Prepared
    <2>4. Sound(i)'
      BY <1>5, <2>1, <2>3 DEF Sound, Untouched, Copied
    <2>5. Prepared(r)'
      BY <2>2 DEF Prepared, Before
    <2>6. \A j \in Coasts \ {i} : rows'[j] = rows[j]
      BY <1>0, <2>1
    <2> QED
      BY <1>3, <2>1, <2>2, <2>4, <2>5, <2>6, OnlyOne
  <1>18. CASE RmHangup(r)
    <2>1. TaskEnds(r) /\ UNCHANGED insts
      BY <1>18 DEF RmHangup
    <2>2. req'[r].pc = "idle" /\ \A q \in VolSlots \ {r} : req'[q] = req[q]
      BY <2>1, ReqMoves DEF NoVolReq
    <2> QED
      BY <1>7, <2>1, <2>2
  <1> QED
    BY <1>8, <1>9, <1>10, <1>11, <1>12, <1>13, <1>14, <1>15, <1>16, <1>17, <1>18 DEF VolStep

LEMMA SeededNext ==
  ASSUME Permitted, Distinct, VolTyped, SeedInv, [VolNext]_volvars
  PROVE  Seeded'
  <1>0. /\ req \in [VolSlots -> VolReq] /\ rows \in [Coasts -> {"none", "provisioning", "running"}]
        /\ boxes \subseteq Coasts
        /\ data \in [VolumeNames -> Contents]
        /\ spoiled \in [VolumeNames -> SUBSET {"failed", "met"}]
        /\ \A j \in Coasts : Volume(j) \in VolumeNames
    BY VolTypeIs DEF VolTyped, VolumeNames
  <1>1. ASSUME NEW r \in VolSlots, NEW i \in Coasts,
               RunBegins(r, i) \/ \E gated \in BOOLEAN : RmBegins(r, i, gated)
        PROVE  Seeded'
    <2>1. /\ req[r] = NoVolReq /\ req'[r].inst = i /\ req'[r].pc \in {"list", "box"}
          /\ \A q \in VolSlots \ {r} : req'[q] = req[q]
      BY <1>1, VolBeginType
    <2>2. \A q \in VolSlots : req[q].pc # "idle" => req[q].inst # i
      BY <1>1 DEF RunBegins, RmBegins, Permitted, PermitFree, SeedInv, OneEach
    <2>3. UNCHANGED <<boxes, data, spoiled>> /\ Sound(i)
      BY <1>1 DEF RunBegins, RmBegins, insts, SeedInv, Seeded
    <2>4. \A j \in Coasts \ {i} : rows'[j] = rows[j]
      BY <1>0, <1>1 DEF RunBegins, RmBegins, insts
    <2>5. (Untouched(i) => Untouched(i)') /\ (Copied(i) => Copied(i)')
      BY <2>3, SoundKept
    <2>6. rows'[i] # "none"
      BY <1>0, <1>1 DEF RunBegins, RmBegins, insts
    <2>7. Sound(i)'
      BY <2>3, <2>5, <2>6 DEF Sound
    <2>8. CASE RunBegins(r, i)
      <3>1. Untouched(i) /\ i \notin boxes
        BY <2>3, <2>8 DEF RunBegins, Sound
      <3>2. Prepared(r)'
        BY <2>1, <2>3, <2>5, <3>1 DEF Prepared, Before, Untouched
      <3> QED
        BY <2>1, <2>2, <2>3, <2>4, <2>7, <3>2, OnlyOne
    <2>9. CASE \E gated \in BOOLEAN : RmBegins(r, i, gated)
      <3>1. req'[r].pc = "box"
        <4>1. PICK gated \in BOOLEAN, named \in BOOLEAN :
                req' = [req EXCEPT ![r] = [NoVolReq EXCEPT !.pc = "box", !.inst = i,
                                            !.gated = gated, !.seen = named /\ i \in boxes]]
          BY <2>9 DEF RmBegins
        <4>2. req'[r] = [NoVolReq EXCEPT !.pc = "box", !.inst = i,
                                            !.gated = gated, !.seen = named /\ i \in boxes]
          BY <1>0, <4>1
        <4> QED
          BY <4>2 DEF NoVolReq
      <3>2. Prepared(r)'
        BY <3>1 DEF Prepared, Before
      <3> QED
        BY <2>1, <2>2, <2>3, <2>4, <2>7, <3>2, OnlyOne
    <2> QED
      BY <1>1, <2>8, <2>9
  \* Nothing changes but who has written, or what has gone wrong.
  <1>2. ASSUME UNCHANGED <<rows, boxes>>,
               \A q \in VolSlots : req'[q].pc = "idle" \/ (req'[q].pc = req[q].pc /\ req'[q].inst = req[q].inst),
               \A j \in Coasts : (Untouched(j) => Untouched(j)') /\ (Copied(j) => Copied(j)')
        PROVE  Seeded'
    <2>1. \A j \in Coasts : Sound(j)'
      BY <1>2 DEF SeedInv, Seeded, Sound
    <2>2. ASSUME NEW q \in VolSlots PROVE Prepared(q)'
      <3>1. CASE req'[q].pc = "idle"
        BY <3>1 DEF Prepared, Before
      <3>2. CASE req'[q].pc # "idle"
        <4>1. PICK j \in Coasts : j = req[q].inst /\ j = req'[q].inst
          BY <1>2, <3>2 DEF VolTyped, Busied
        <4>2. Prepared(q)
          BY DEF SeedInv, Seeded
        <4>3. /\ req'[q].pc \in Before => Untouched(j)' /\ j \notin boxes'
              /\ req'[q].pc \in {"restart", "create"} => Copied(j)'
              /\ req'[q].pc = "db" => Untouched(j)'
          BY <1>2, <3>2, <4>1, <4>2 DEF Prepared
        <4> QED
          BY <4>1, <4>3 DEF Prepared, Untouched, Copied
      <3> QED
        BY <3>1, <3>2
    <2> QED
      BY <2>1, <2>2 DEF Seeded
  <1>3. ASSUME NEW i \in Coasts, WriteData(i) PROVE Seeded'
    <2>1. UNCHANGED <<rows, boxes, req, spoiled>>
          /\ data' = [data EXCEPT ![Volume(i)].by = @ \union {i}]
      BY <1>3 DEF WriteData
    <2>2. /\ data'[Volume(i)].by = data[Volume(i)].by \union {i}
          /\ data'[Volume(i)].left = data[Volume(i)].left
          /\ data'[Volume(i)].copy = data[Volume(i)].copy
          /\ \A j \in Coasts \ {i} : data'[Volume(j)] = data[Volume(j)]
      BY <1>0, <2>1 DEF Contents, Distinct
    <2>3. \A j \in Coasts : (Untouched(j) => Untouched(j)') /\ (Copied(j) => Copied(j)')
      BY <2>1, <2>2 DEF Untouched, Copied
    <2> QED
      BY <1>2, <2>1, <2>3
  <1>4. CASE (\E u \in Users : OwnerStops(u)) \/ UNCHANGED volvars
    <2>1. UNCHANGED <<rows, boxes, data, spoiled, req>>
      BY <1>4 DEF OwnerStops, volvars, insts
    <2> QED
      BY <1>2, <2>1 DEF Untouched, Copied
  <1>5. ASSUME NEW u \in Users, OwnerStarts(u) PROVE Seeded'
    <2>1. /\ UNCHANGED <<rows, boxes, data, spoiled>>
          /\ \A q \in VolSlots : req'[q].pc = req[q].pc /\ req'[q].inst = req[q].inst
      BY <1>5, ReqMoves DEF OwnerStarts, insts
    <2> QED
      BY <1>2, <2>1 DEF Untouched, Copied
  <1>6. CASE VolCrash
    <2>1. /\ UNCHANGED <<rows, boxes, data>>
          /\ \A q \in VolSlots : req'[q].pc = "idle"
      BY <1>6 DEF VolCrash, NoVolReq
    <2>2. \A v \in VolumeNames : spoiled[v] \subseteq spoiled'[v]
      BY <1>6 DEF VolCrash
    <2>3. \A j \in Coasts : (Untouched(j) => Untouched(j)') /\ (Copied(j) => Copied(j)')
      BY <1>0, <2>1, <2>2, SoundKept
    <2> QED
      BY <1>2, <2>1, <2>3
  <1> QED
    BY <1>1, <1>3, <1>4, <1>5, <1>6, SeededStep DEF VolNext

\* copy_single_snapshot, rm: an instance has a copy of the source to itself,
\* made while nobody wrote to the source that the run could know of, unless a
\* run of its name has failed; whatever fails, hangs up or dies.
THEOREM CopiesAreOwn ==
  ASSUME Permitted, Distinct
  PROVE  VolSpec => []StartsFromSeed
  <1>1. VolTyped /\ SeedInv => StartsFromSeed
    BY VolTypeIs DEF VolTyped, SeedInv, Seeded, Sound, Untouched, Copied, StartsFromSeed
  <1>2. VolTyped /\ SeedInv /\ [VolNext]_volvars => SeedInv'
    BY OneEachNext, MetWritersNext, SeededNext DEF SeedInv
  <1> QED
    BY <1>1, <1>2, VolInitType, VolNextType, SeedInit, PTL DEF VolSpec

----------------------------------------------------------------------------
(* SharedServices: a row that says running has a container, or a request   *)
(* is about to see to it, as long as Docker answers and no rm meets        *)
(* another request.                                                        *)
RunPart == {"stopOld", "removeOld", "create", "launch", "record"}
RmPart  == {"rmRead", "rmBox", "rmRow"}
AtOne   == {"act", "write", "inspect"} \union RunPart \union RmPart

\* Where a request stands tells what it was and whether it is at a service.
StandsRight(k) ==
    /\ k.pc \in AtOne => k.svc \in Svcs
    /\ k.pc \in RunPart => k.op = "run"
    /\ k.pc \in RmPart => k.op = "rm"
    /\ k.pc = "inspect" => k.op \in {"run", "prepare"}

SvcTyped == SvcTypeOK /\ \A t \in Tasks : StandsRight(task[t])

LEMMA SvcTypeIs ==
    SvcTyped <=> /\ rec \in [Svcs -> RowStatus]
                 /\ known \subseteq Svcs
                 /\ sbox \in [Svcs -> {"none", "down", "up"}]
                 /\ archived \in BOOLEAN
                 /\ cache \in [says : Listing, fresh : BOOLEAN]
                 /\ task \in [Tasks -> Task]
                 /\ crossed \in BOOLEAN
                 /\ \A t \in Tasks : StandsRight(task[t])
  BY DEF SvcTyped, SvcTypeOK

LEMMA SvcTypeWillBe ==
    SvcTyped' <=> /\ rec' \in [Svcs -> RowStatus]
                  /\ known' \subseteq Svcs
                  /\ sbox' \in [Svcs -> {"none", "down", "up"}]
                  /\ archived' \in BOOLEAN
                  /\ cache' \in [says : Listing, fresh : BOOLEAN]
                  /\ task' \in [Tasks -> Task]
                  /\ crossed' \in BOOLEAN
                  /\ \A t \in Tasks : StandsRight(task'[t])
  BY DEF SvcTyped, SvcTypeOK, StandsRight

LEMMA NoTaskType == NoTask \in Task /\ StandsRight(NoTask)
<1>1. Nothing \in Listing
  BY DEF Nothing, Listing, RowStatus
<1>. QED
  BY <1>1 DEF NoTask, Task, SvcPcs, StandsRight, AtOne, RunPart, RmPart

LEMMA SvcInitType == SvcInit => SvcTyped
<1>1. Nothing \in Listing /\ Nothing \in [Svcs -> RowStatus]
      /\ Nothing \in [Svcs -> {"none", "down", "up"}]
  BY DEF Nothing, Listing, RowStatus
<1>2. ASSUME SvcInit PROVE SvcTyped
  <2>1. task \in [Tasks -> Task] /\ \A t \in Tasks : task[t] = NoTask
    BY <1>2, NoTaskType DEF SvcInit
  <2>2. \A t \in Tasks : StandsRight(task[t])
    BY <2>1, NoTaskType
  <2>3. cache \in [says : Listing, fresh : BOOLEAN]
    BY <1>1, <1>2 DEF SvcInit
  <2>. QED
    BY <1>1, <1>2, <2>1, <2>2, <2>3, SvcTypeIs DEF SvcInit
<1>. QED
  BY <1>2

\* What a request may do to itself: end, or go on as what it is, with its
\* service unless it picks the next one.
LEMMA TaskGoes ==
    ASSUME SvcTyped, NEW t \in Tasks, TaskStep(t)
    PROVE  /\ task' = [task EXCEPT ![t] = task'[t]]
           /\ task'[t] \in Task
           /\ StandsRight(task'[t])
           /\ task'[t].op \in {task[t].op, "none"}
<1>. DEFINE k == task[t]
<1>1. task \in [Tasks -> Task] /\ k \in Task /\ StandsRight(k)
  BY SvcTypeIs
<1>2. /\ k.op \in SvcOps \union {"none"} /\ k.pc \in SvcPcs /\ k.todo \in SUBSET Svcs
      /\ k.svc \in Svcs \union {NoSvc} /\ k.says \in Listing
  BY <1>1 DEF Task
<1>3. ASSUME NEW p \in SvcPcs, To(t, p),
             p \in AtOne => k.svc \in Svcs,
             p \in RunPart => k.op = "run", p \in RmPart => k.op = "rm", p # "inspect"
      PROVE  /\ task' = [task EXCEPT ![t] = task'[t]] /\ task'[t] \in Task
             /\ StandsRight(task'[t]) /\ task'[t].op \in {k.op, "none"}
  <2>1. task' = [task EXCEPT ![t] = [k EXCEPT !.pc = p]]
    BY <1>3 DEF To
  <2>2. task'[t] = [k EXCEPT !.pc = p]
    BY <2>1, <1>1
  <2>3. [k EXCEPT !.pc = p] \in Task
    BY <1>1 DEF Task
  <2>4. task'[t].pc = p /\ task'[t].op = k.op /\ task'[t].svc = k.svc
    BY <2>2, <1>1 DEF Task
  <2>. QED
    BY <2>1, <2>2, <2>3, <2>4, <1>3 DEF StandsRight
<1>4. ASSUME End(t)
      PROVE  /\ task' = [task EXCEPT ![t] = task'[t]] /\ task'[t] \in Task
             /\ StandsRight(task'[t]) /\ task'[t].op \in {k.op, "none"}
  <2>1. task' = [task EXCEPT ![t] = NoTask] /\ task'[t] = NoTask
    BY <1>4, <1>1 DEF End
  <2>2. NoTask.op = "none"
    BY DEF NoTask
  <2>. QED
    BY <2>1, <2>2, NoTaskType
<1>5. /\ {"next", "write", "removeOld", "stopOld", "create", "launch", "record", "rmBox",
          "rmRow", "list", "flag"} \subseteq SvcPcs
      /\ "next" \notin AtOne \union RunPart \union RmPart
      /\ "list" \notin AtOne \union RunPart \union RmPart
      /\ "flag" \notin AtOne \union RunPart \union RmPart
      /\ "write" \notin RunPart \union RmPart
      /\ {"removeOld", "stopOld", "create", "launch", "record"} \intersect RmPart = {}
      /\ {"rmBox", "rmRow"} \intersect RunPart = {}
      /\ {"act", "write", "inspect"} \union RunPart \union RmPart = AtOne
  BY DEF SvcPcs, AtOne, RunPart, RmPart
<1>6. CASE List(t)
  <2>. DEFINE n == [k EXCEPT !.pc = "next", !.todo = IF k.op = "prepare"
                                        THEN {s \in Svcs : rec[s] = "running"} ELSE Recorded]
  <2>1. task' = [task EXCEPT ![t] = n] /\ task'[t] = n
    BY <1>6, <1>1 DEF List
  <2>2. n \in Task /\ n.op = k.op /\ n.pc = "next"
    BY <1>1, <1>5 DEF Task, Recorded
  <2>. QED
    BY <2>1, <2>2, <1>5 DEF StandsRight
<1>7. CASE Pick(t)
  <2>. DEFINE p(s) == CASE task[t].op = "prepare" -> "inspect"
                        [] task[t].op = "run" /\ rec[s] = "running" -> "inspect"
                        [] task[t].op = "run" -> "stopOld"
                        [] OTHER -> IF rec[s] = "none" THEN "next" ELSE "act"
  <2>1. PICK s \in k.todo :
          task' = [task EXCEPT ![t].todo = @ \ {s}, ![t].svc = s, ![t].pc = p(s)]
    BY <1>7 DEF Pick
  <2>2. /\ p(s) \in {"inspect", "stopOld", "next", "act"} /\ (p(s) = "stopOld" => k.op = "run")
        /\ p(s) = "inspect" => k.op \in {"run", "prepare"}
    OBVIOUS
  <2>3. p(s) \in SvcPcs /\ (p(s) \in RunPart => k.op = "run") /\ p(s) \notin RmPart
    BY <2>2 DEF SvcPcs, RunPart, RmPart
  <2>. HIDE DEF p
  <2>. DEFINE n == [k EXCEPT !.todo = k.todo \ {s}, !.svc = s, !.pc = p(s)]
  <2>4. task' = [task EXCEPT ![t] = n] /\ task'[t] = n
    BY <2>1, <1>1
  <2>5. n \in Task /\ n.op = k.op /\ n.pc = p(s) /\ n.svc = s /\ s \in Svcs
    BY <1>1, <1>2, <2>3 DEF Task
  <2>. QED
    BY <2>2, <2>3, <2>4, <2>5 DEF StandsRight
<1>8. CASE ReadRows(t)
  <2>. DEFINE n == [k EXCEPT !.pc = "ask", !.says = rec, !.todo = known]
  <2>1. task' = [task EXCEPT ![t] = n] /\ task'[t] = n
    BY <1>8, <1>1 DEF ReadRows
  <2>2. rec \in Listing /\ known \subseteq Svcs
    BY SvcTypeIs DEF Listing
  <2>3. n \in Task /\ n.op = k.op /\ n.pc = "ask"
    BY <1>1, <2>2 DEF Task, SvcPcs
  <2>. QED
    BY <2>1, <2>3 DEF StandsRight, AtOne, RunPart, RmPart
<1>9. CASE AskDocker(t)
  <2>. DEFINE said == [s \in Svcs |-> Says(s, task[t].says[s], s \in task[t].todo)]
              n == [k EXCEPT !.pc = "store", !.todo = {}, !.says = said]
  <2>1. task' = [task EXCEPT ![t] = n] /\ task'[t] = n
    BY <1>9, <1>1 DEF AskDocker
  <2>2. \A s \in Svcs : k.says[s] \in RowStatus \union {"exited"}
    BY <1>2 DEF Listing
  <2>3. \A s \in Svcs : Says(s, k.says[s], s \in k.todo) \in RowStatus \union {"exited"}
    BY <2>2 DEF Says, RowStatus
  <2>4. said \in Listing
    BY <2>3 DEF Listing
  <2>. HIDE DEF said
  <2>5. n \in Task /\ n.op = k.op /\ n.pc = "store"
    BY <1>1, <2>4 DEF Task, SvcPcs
  <2>. QED
    BY <2>1, <2>5 DEF StandsRight, AtOne, RunPart, RmPart
<1>10. k.pc \in AtOne => k.svc \in Svcs
  BY <1>1 DEF StandsRight
<1>11. k.pc \in RunPart => k.op = "run"
  BY <1>1 DEF StandsRight
<1>12. k.pc \in RmPart => k.op = "rm"
  BY <1>1 DEF StandsRight
<1>13. CASE NoneLeft(t)
  BY <1>13, <1>3, <1>4, <1>5 DEF NoneLeft
<1>14. CASE Act(t)
  <2>1. k.svc \in Svcs
    BY <1>14, <1>10 DEF Act, At, AtOne
  <2>. QED
    BY <1>14, <1>3, <1>5, <2>1 DEF Act
<1>15. CASE Write(t)
  BY <1>15, <1>3, <1>5 DEF Write
<1>16. CASE Inspect(t)
  <2>1. k.svc \in Svcs
    BY <1>16, <1>10 DEF Inspect, At, AtOne
  <2>. QED
    BY <1>16, <1>3, <1>5, <2>1 DEF Inspect
<1>17. k.pc \in RunPart \/ k.pc \in RmPart => k.svc \in Svcs
  BY <1>10, <1>5
<1>18. CASE StopOld(t)
  BY <1>18, <1>3, <1>5, <1>11, <1>17 DEF StopOld, At, RunPart
<1>19. CASE RemoveOld(t)
  BY <1>19, <1>3, <1>5, <1>11, <1>17 DEF RemoveOld, At, RunPart
<1>20. CASE Create(t)
  BY <1>20, <1>3, <1>4, <1>5, <1>11, <1>17 DEF Create, At, RunPart
<1>21. CASE Launch(t)
  BY <1>21, <1>3, <1>4, <1>5, <1>11, <1>17 DEF Launch, At, RunPart
<1>22. CASE Record(t)
  BY <1>22, <1>3, <1>5 DEF Record
<1>23. CASE RmReadRow(t)
  BY <1>23, <1>3, <1>4, <1>5, <1>12, <1>17 DEF RmReadRow, At, RmPart
<1>24. CASE RmContainer(t)
  BY <1>24, <1>3, <1>5, <1>12, <1>17 DEF RmContainer, At, RmPart
<1>25. CASE RmRow(t) \/ Flag(t) \/ Store(t)
  BY <1>25, <1>4 DEF RmRow, Flag, Store
<1>26. CASE Count(t)
  BY <1>26, <1>3, <1>5 DEF Count
<1>. QED
  BY <1>6, <1>7, <1>8, <1>9, <1>13, <1>14, <1>15, <1>16, <1>18, <1>19, <1>20, <1>21, <1>22,
     <1>23, <1>24, <1>25, <1>26, TaskStep(t) DEF TaskStep

LEMMA SvcStepType ==
    ASSUME SvcTyped, NEW t \in Tasks, TaskStep(t), Watch
    PROVE  SvcTyped'
<1>1. /\ task' \in [Tasks -> Task]
      /\ \A u \in Tasks : StandsRight(task'[u])
  BY TaskGoes, SvcTypeIs
<1>2. crossed' \in BOOLEAN
  BY SvcTypeIs DEF Watch
<1>3. /\ rec \in [Svcs -> RowStatus] /\ known \subseteq Svcs /\ archived \in BOOLEAN
      /\ sbox \in [Svcs -> {"none", "down", "up"}] /\ cache \in [says : Listing, fresh : BOOLEAN]
      /\ task[t] \in Task /\ StandsRight(task[t])
  BY SvcTypeIs
<1>4. task[t].pc \in AtOne => task[t].svc \in Svcs
  BY <1>3 DEF StandsRight
<1>5. {"running", "stopped", "none"} \subseteq RowStatus
  BY DEF RowStatus
<1>6. CASE UNCHANGED <<rec, known, sbox, archived, cache>>
  BY <1>1, <1>2, <1>3, <1>6, SvcTypeWillBe
<1>7. CASE Act(t) \/ StopOld(t) \/ RemoveOld(t) \/ Create(t) \/ Launch(t) \/ RmReadRow(t)
           \/ RmContainer(t)
  <2>1. sbox' \in [Svcs -> {"none", "down", "up"}] /\ UNCHANGED <<rec, known, archived, cache>>
    BY <1>3, <1>7 DEF Act, StopOld, RemoveOld, Create, Launch, RmReadRow, RmContainer
  <2>. QED
    BY <1>1, <1>2, <1>3, <2>1, SvcTypeWillBe
<1>8. CASE Write(t)
  <2>1. rec' \in [Svcs -> RowStatus]
    BY <1>3, <1>5, <1>8 DEF Write
  <2>2. known' \subseteq Svcs /\ UNCHANGED <<sbox, archived, cache>>
    BY <1>3, <1>8 DEF Write
  <2>. QED
    BY <1>1, <1>2, <1>3, <2>1, <2>2, SvcTypeWillBe
<1>9. CASE Record(t)
  <2>1. task[t].svc \in Svcs
    BY <1>4, <1>9 DEF Record, At, AtOne, RunPart
  <2>2. rec' \in [Svcs -> RowStatus]
    BY <1>3, <1>5, <1>9 DEF Record
  <2>3. known' \subseteq Svcs /\ UNCHANGED <<sbox, archived, cache>>
    BY <1>3, <2>1, <1>9 DEF Record
  <2>. QED
    BY <1>1, <1>2, <1>3, <2>2, <2>3, SvcTypeWillBe
<1>10. CASE RmRow(t)
  <2>1. rec' \in [Svcs -> RowStatus]
    BY <1>3, <1>5, <1>10 DEF RmRow
  <2>2. known' \subseteq Svcs /\ UNCHANGED <<sbox, archived, cache>>
    BY <1>3, <1>10 DEF RmRow
  <2>. QED
    BY <1>1, <1>2, <1>3, <2>1, <2>2, SvcTypeWillBe
<1>11. CASE Flag(t)
  <2>1. archived' \in BOOLEAN /\ UNCHANGED <<rec, known, sbox, cache>>
    BY <1>11 DEF Flag
  <2>. QED
    BY <1>1, <1>2, <1>3, <2>1, SvcTypeWillBe
<1>12. CASE Store(t)
  <2>1. task[t].says \in Listing
    BY <1>3 DEF Task
  <2>2. cache' \in [says : Listing, fresh : BOOLEAN] /\ UNCHANGED <<rec, known, sbox, archived>>
    BY <1>12, <2>1 DEF Store
  <2>. QED
    BY <1>1, <1>2, <1>3, <2>2, SvcTypeWillBe
<1>13. CASE List(t) \/ Pick(t) \/ NoneLeft(t) \/ Inspect(t) \/ Count(t) \/ ReadRows(t)
            \/ AskDocker(t)
  BY <1>6, <1>13 DEF List, Pick, NoneLeft, Inspect, Count, ReadRows, AskDocker
<1>. QED
  BY <1>7, <1>8, <1>9, <1>10, <1>11, <1>12, <1>13, TaskStep(t) DEF TaskStep

\* A request arrives in a free slot, as one of those in use.
LEMMA RequestGoes ==
    ASSUME SvcTyped, NEW t \in Tasks, NEW op \in SvcEntry, Request(t, op)
    PROVE  /\ task' = [task EXCEPT ![t] = task'[t]]
           /\ task'[t] \in Task
           /\ StandsRight(task'[t])
           /\ task'[t].op = op
           /\ task'[t].pc \in {"next", "list", "rmRead", "count", "rows"}
           /\ op = "run" => \A u \in Tasks : task[u].op # "run"
           /\ UNCHANGED <<rec, known, sbox, archived, cache>>
<1>. DEFINE New(pc, todo, s) == [NoTask EXCEPT !.op = op, !.pc = pc, !.todo = todo, !.svc = s]
            Begin(pc, todo, s) == task' = [task EXCEPT ![t] = New(pc, todo, s)]
<1>1. task \in [Tasks -> Task] /\ NoTask \in Task /\ op \in SvcOps
  BY SvcTypeIs, NoTaskType, SvcConstantsOK
<1>2. ASSUME NEW pc \in {"next", "list", "rmRead", "count", "rows"}, NEW todo \in SUBSET Svcs,
             NEW s \in Svcs \union {NoSvc}, Begin(pc, todo, s),
             pc = "rmRead" => op = "rm" /\ s \in Svcs
      PROVE  /\ task' = [task EXCEPT ![t] = task'[t]] /\ task'[t] \in Task
             /\ StandsRight(task'[t]) /\ task'[t].op = op /\ task'[t].pc = pc
  <2>1. /\ New(pc, todo, s) \in Task /\ New(pc, todo, s).op = op /\ New(pc, todo, s).pc = pc
        /\ New(pc, todo, s).svc = s
    BY <1>1 DEF Task, SvcPcs
  <2>2. task'[t] = New(pc, todo, s)
    BY <1>1, <1>2
  <2>. HIDE DEF New
  <2>. QED
    BY <1>2, <2>1, <2>2 DEF StandsRight, AtOne, RunPart, RmPart
<1>. HIDE DEF New
<1>3. \/ Begin("next", Svcs, NoSvc) \/ Begin("list", {}, NoSvc)
      \/ \E s \in Svcs : Begin("next", {s}, NoSvc)
      \/ op = "rm" /\ \E s \in Svcs : Begin("rmRead", {}, s)
      \/ Begin("count", {}, NoSvc) \/ Begin("rows", {}, NoSvc)
  BY DEF Request, New
<1>4. /\ op = "run" => \A u \in Tasks : task[u].op # "run"
      /\ UNCHANGED <<rec, known, sbox, archived, cache>>
  BY DEF Request
<1>5. CASE op = "rm" /\ \E s \in Svcs : Begin("rmRead", {}, s)
  <2>1. PICK s \in Svcs : Begin("rmRead", {}, s)
    BY <1>5
  <2>. HIDE DEF Begin
  <2>2. {} \in SUBSET Svcs
    OBVIOUS
  <2>. QED
    BY <1>2, <1>4, <1>5, <2>1, <2>2
<1>6. CASE \E s \in Svcs : Begin("next", {s}, NoSvc)
  <2>1. PICK s \in Svcs : Begin("next", {s}, NoSvc)
    BY <1>6
  <2>2. {s} \in SUBSET Svcs
    OBVIOUS
  <2>. QED
    BY <1>2, <1>4, <2>1, <2>2
<1>7. CASE Begin("next", Svcs, NoSvc) \/ Begin("list", {}, NoSvc)
           \/ Begin("count", {}, NoSvc) \/ Begin("rows", {}, NoSvc)
  <2>1. Svcs \in SUBSET Svcs /\ {} \in SUBSET Svcs
    OBVIOUS
  <2>. HIDE DEF Begin
  <2>2. CASE Begin("next", Svcs, NoSvc)
    BY <1>2, <1>4, <2>1, <2>2
  <2>3. CASE Begin("list", {}, NoSvc)
    BY <1>2, <1>4, <2>1, <2>3
  <2>4. CASE Begin("count", {}, NoSvc)
    BY <1>2, <1>4, <2>1, <2>4
  <2>5. CASE Begin("rows", {}, NoSvc)
    BY <1>2, <1>4, <2>1, <2>5
  <2>. QED
    BY <1>7, <2>2, <2>3, <2>4, <2>5
<1>. QED
  BY <1>3, <1>5, <1>6, <1>7

LEMMA SvcNextType == SvcTyped /\ [SvcNext]_svcvars => SvcTyped'
<1>. SUFFICES ASSUME SvcTyped, [SvcNext]_svcvars PROVE SvcTyped'
  OBVIOUS
<1>1. CASE UNCHANGED svcvars
  BY <1>1, SvcTypeIs, SvcTypeWillBe DEF svcvars
<1>2. ASSUME Watch, NEW t \in Tasks, TaskStep(t) PROVE SvcTyped'
  BY <1>2, SvcStepType
<1>3. ASSUME Watch, NEW t \in Tasks, NEW op \in SvcEntry, Request(t, op) PROVE SvcTyped'
  <2>1. crossed' \in BOOLEAN
    BY <1>3, SvcTypeIs DEF Watch
  <2>2. task' \in [Tasks -> Task] /\ \A u \in Tasks : StandsRight(task'[u])
    BY <1>3, RequestGoes, SvcTypeIs
  <2>3. UNCHANGED <<rec, known, sbox, archived, cache>>
    BY <1>3, RequestGoes
  <2>. QED
    BY <2>1, <2>2, <2>3, SvcTypeIs, SvcTypeWillBe
<1>4. ASSUME Watch, Unarchive \/ Expire \/ \E s \in Svcs : Vanish(s) PROVE SvcTyped'
  <2>1. crossed' \in BOOLEAN
    BY <1>4, SvcTypeIs DEF Watch
  <2>2. CASE Unarchive
    BY <2>1, <2>2, SvcTypeIs, SvcTypeWillBe DEF Unarchive
  <2>3. CASE Expire
    <3>1. cache' \in [says : Listing, fresh : BOOLEAN]
      BY <2>3, SvcTypeIs DEF Expire
    <3>. QED
      BY <2>1, <2>3, <3>1, SvcTypeIs, SvcTypeWillBe DEF Expire
  <2>4. ASSUME NEW s \in Svcs, Vanish(s) PROVE SvcTyped'
    <3>1. sbox' \in [Svcs -> {"none", "down", "up"}]
      BY <2>4, SvcTypeIs DEF Vanish
    <3>. QED
      BY <2>1, <2>4, <3>1, SvcTypeIs, SvcTypeWillBe DEF Vanish
  <2>. QED
    BY <1>4, <2>2, <2>3, <2>4
<1>. QED
  BY <1>1, <1>2, <1>3, <1>4 DEF SvcNext

\* Type correctness of the shared services, for any requests and faults.
THEOREM SvcTypeCorrect == SvcSpec => []SvcTypeOK
<1>1. SvcTyped => SvcTypeOK
  BY DEF SvcTyped
<1>. QED
  BY <1>1, SvcInitType, SvcNextType, PTL DEF SvcSpec

\* Docker answers and nobody else touches the containers.
Answering == SvcFaults = {}

OneRun == \A t, u \in Tasks : task[t].op = "run" /\ task[u].op = "run" => t = u
Met    == Crossing => crossed

\* A run is about to give the service a new container.
InHand(s) ==
    \E t \in Tasks : task[t].svc = s /\ task[t].pc \in {"stopOld", "removeOld", "create"}

\* What is about to be written as running has a container by then.
Boxed ==
    ~crossed => \A t \in Tasks :
        /\ task[t].pc \in {"launch", "record"} => sbox[task[t].svc] # "none"
        /\ /\ task[t].pc = "write"
           /\ task[t].op \in {"start", "restart"}
           /\ sbox[task[t].svc] = "none"
           => InHand(task[t].svc)

BoxInv == OneRun /\ Met /\ Boxed /\ RunningRowHasBox

LEMMA BoxInit == SvcInit => BoxInv
  BY DEF SvcInit, BoxInv, OneRun, Met, Crossing, Boxed, RunningRowHasBox, NoTask, Nothing

LEMMA OneRunNext == SvcTyped /\ OneRun /\ [SvcNext]_svcvars => OneRun'
<1>. SUFFICES ASSUME SvcTyped, OneRun, [SvcNext]_svcvars PROVE OneRun'
  OBVIOUS
<1>1. task \in [Tasks -> Task]
  BY SvcTypeIs
<1>2. CASE UNCHANGED task
  BY <1>2 DEF OneRun
<1>3. ASSUME NEW t \in Tasks, TaskStep(t) PROVE OneRun'
  BY <1>1, <1>3, TaskGoes DEF OneRun
<1>4. ASSUME NEW t \in Tasks, NEW op \in SvcEntry, Request(t, op) PROVE OneRun'
  BY <1>1, <1>4, RequestGoes DEF OneRun
<1>. QED
  BY <1>2, <1>3, <1>4 DEF SvcNext, svcvars, Unarchive, Expire, Vanish

LEMMA MetNext == Met /\ [SvcNext]_svcvars => Met'
  BY DEF Met, SvcNext, Watch, svcvars, Crossing

\* An rm is never under way together with another request that writes.
LEMMA Alone ==
    ASSUME Met, ~crossed, NEW t \in Tasks, NEW u \in Tasks, t # u, task[t].op = "rm"
    PROVE  task[u].op \in {"none", "ps", "loop"}
  BY DEF Met, Crossing

\* What one step does to the container of a service, and to its row.
LEMMA BoxGoes ==
    ASSUME SvcTyped, Answering, NEW t \in Tasks, TaskStep(t), NEW s \in Svcs
    PROVE  /\ sbox[s] # "none" /\ sbox'[s] = "none"
              => /\ task[t].svc = s
                 /\ \/ task[t].op = "run" /\ task'[t].svc = s /\ task'[t].pc = "create"
                    \/ task[t].op = "rm" /\ task'[t].svc = s /\ task'[t].pc = "rmRow"
                    \/ task[t].op = "rm" /\ rec'[s] = "none"
           /\ /\ task[t].svc = s
              /\ task[t].pc \in {"stopOld", "removeOld", "create"}
              /\ sbox'[s] = "none"
              => task'[t].svc = s /\ task'[t].pc \in {"stopOld", "removeOld", "create"}
           /\ rec'[s] = "running" /\ rec[s] # "running"
              => /\ task[t].svc = s /\ UNCHANGED sbox
                 /\ \/ task[t].pc = "write" /\ task[t].op \in {"start", "restart"}
                    \/ task[t].pc = "record"
           /\ task[t].svc = s /\ task[t].pc = "rmRow" => rec'[s] = "none"
           /\ task'[t].pc \in {"launch", "record"} => sbox'[task'[t].svc] # "none"
           /\ task'[t].pc = "write" /\ task'[t].op \in {"start", "restart"}
              => sbox'[task'[t].svc] # "none"
<1>. DEFINE k == task[t]
<1>1. /\ task \in [Tasks -> Task] /\ sbox \in [Svcs -> {"none", "down", "up"}]
      /\ rec \in [Svcs -> RowStatus] /\ StandsRight(k)
  BY SvcTypeIs
<1>2. ~Docker
  BY DEF Answering, Docker
<1>3. ASSUME NEW p, To(t, p)
      PROVE  task'[t].pc = p /\ task'[t].svc = k.svc /\ task'[t].op = k.op
  BY <1>1, <1>3 DEF To, Task
<1>4. ASSUME End(t) PROVE task'[t].pc = "idle" /\ task'[t].op = "none"
  BY <1>1, <1>4 DEF End, NoTask
<1>5. CASE List(t) \/ ReadRows(t) \/ AskDocker(t)
  <2>1. task'[t].pc \in {"next", "ask", "store"} /\ k.pc \in {"list", "rows", "ask"}
    BY <1>1, <1>5 DEF List, ReadRows, AskDocker, At, Task
  <2>. QED
    BY <1>5, <2>1 DEF List, ReadRows, AskDocker
<1>6. CASE Pick(t)
  <2>1. task'[t].pc \in {"next", "inspect", "stopOld", "act"} /\ k.pc = "next"
    BY <1>1, <1>6 DEF Pick, At, Task
  <2>. QED
    BY <1>6, <2>1 DEF Pick
<1>7. CASE NoneLeft(t) \/ Count(t) \/ Flag(t) \/ Store(t)
  <2>1. task'[t].pc \in {"flag", "idle", "list"} /\ k.pc \in {"next", "count", "flag", "store"}
    BY <1>3, <1>4, <1>7 DEF NoneLeft, Count, Flag, Store, At
  <2>. QED
    BY <1>7, <2>1 DEF NoneLeft, Count, Flag, Store
<1>8. CASE Act(t)
  <2>1. k.pc = "act" /\ k.svc \in Svcs
    BY <1>1, <1>8 DEF Act, At, StandsRight, AtOne
  <2>. QED
    BY <1>1, <1>2, <1>3, <1>8, <2>1 DEF Act
<1>9. CASE Write(t)
  BY <1>1, <1>3, <1>9 DEF Write, At
<1>10. CASE Inspect(t)
  <2>1. k.pc = "inspect" /\ k.op \in {"run", "prepare"}
    BY <1>1, <1>10 DEF Inspect, At, StandsRight
  <2>. QED
    BY <1>2, <1>3, <1>10, <2>1 DEF Inspect
<1>11. k.pc \in RunPart => k.op = "run"
  BY <1>1 DEF StandsRight
<1>12. k.pc \in RmPart => k.op = "rm"
  BY <1>1 DEF StandsRight
<1>13. CASE StopOld(t)
  BY <1>1, <1>2, <1>3, <1>13 DEF StopOld, At
<1>14. CASE RemoveOld(t)
  BY <1>1, <1>2, <1>3, <1>11, <1>14 DEF RemoveOld, At, RunPart
<1>15. k.pc \in AtOne => k.svc \in Svcs
  BY <1>1 DEF StandsRight
<1>16. CASE Create(t)
  <2>1. k.svc \in Svcs
    BY <1>15, <1>16 DEF Create, At, AtOne, RunPart
  <2>. QED
    BY <1>1, <1>2, <1>3, <1>4, <1>16, <2>1 DEF Create, At
<1>17. CASE Launch(t)
  <2>1. k.svc \in Svcs
    BY <1>15, <1>17 DEF Launch, At, AtOne, RunPart
  <2>. QED
    BY <1>1, <1>2, <1>3, <1>4, <1>17, <2>1 DEF Launch, At
<1>18. CASE Record(t)
  BY <1>1, <1>3, <1>18 DEF Record, At
<1>19. CASE RmReadRow(t)
  BY <1>1, <1>2, <1>3, <1>4, <1>12, <1>19 DEF RmReadRow, At, RmPart
<1>20. CASE RmContainer(t)
  BY <1>1, <1>2, <1>3, <1>12, <1>20 DEF RmContainer, At, RmPart
<1>21. CASE RmRow(t)
  BY <1>1, <1>4, <1>21 DEF RmRow, At
<1>. QED
  BY <1>5, <1>6, <1>7, <1>8, <1>9, <1>10, <1>13, <1>14, <1>16, <1>17, <1>18, <1>19, <1>20,
     <1>21, TaskStep(t) DEF TaskStep

\* A step of a request keeps the rows and the containers together.
LEMMA BoxStep ==
    ASSUME SvcTyped, Answering, BoxInv, NEW t \in Tasks, TaskStep(t), Watch
    PROVE  Boxed' /\ RunningRowHasBox'
<1>. SUFFICES ASSUME ~crossed' PROVE Boxed' /\ RunningRowHasBox'
  BY DEF Boxed, RunningRowHasBox
<1>1. ~crossed /\ OneRun /\ Met /\ Boxed /\ RunningRowHasBox
  BY DEF BoxInv, Watch
<1>2. /\ task \in [Tasks -> Task] /\ task' = [task EXCEPT ![t] = task'[t]]
      /\ task'[t].op \in {task[t].op, "none"}
      /\ \A u \in Tasks : StandsRight(task[u])
      /\ StandsRight(task'[t])
  BY SvcTypeIs, TaskGoes
<1>3. \A u \in Tasks : u # t => task'[u] = task[u]
  BY <1>2
<1>. DEFINE Taken(s) ==
              \E v \in Tasks : task'[v].svc = s /\ task'[v].pc \in {"stopOld", "removeOld", "create"}
<1>4. ASSUME NEW s \in Svcs, InHand(s), sbox'[s] = "none" PROVE Taken(s)
  <2>1. PICK u \in Tasks : task[u].svc = s /\ task[u].pc \in {"stopOld", "removeOld", "create"}
    BY <1>4 DEF InHand
  <2>2. CASE u = t
    BY <1>4, <2>1, <2>2, BoxGoes
  <2>3. CASE u # t
    BY <1>3, <2>1, <2>3
  <2>. QED
    BY <2>2, <2>3
<1>5. \A u \in Tasks : task[u].pc \in AtOne => task[u].svc \in Svcs
  BY <1>2 DEF StandsRight
<1>6. ASSUME NEW u \in Tasks, task'[u].pc \in {"launch", "record"}
      PROVE  sbox'[task'[u].svc] # "none"
  <2>1. CASE u = t
    <3>1. task'[t].svc \in Svcs
      BY <1>2, <1>6, <2>1 DEF StandsRight, AtOne, RunPart
    <3>. QED
      BY <1>6, <2>1, <3>1, BoxGoes
  <2>2. CASE u # t
    <3>1. task'[u] = task[u] /\ task[u].pc \in {"launch", "record"}
      BY <1>3, <1>6, <2>2
    <3>2. task[u].op = "run" /\ task[u].svc \in Svcs /\ sbox[task[u].svc] # "none"
      BY <1>1, <1>2, <3>1 DEF Boxed, StandsRight, AtOne, RunPart
    <3>3. task[t].op # "run"
      BY <1>1, <2>2, <3>2 DEF OneRun
    <3>4. task[t].op # "rm"
      BY <1>1, <2>2, <3>2, Alone
    <3>. QED
      BY <3>1, <3>2, <3>3, <3>4, BoxGoes
  <2>. QED
    BY <2>1, <2>2
<1>7. ASSUME NEW u \in Tasks, task'[u].pc = "write", task'[u].op \in {"start", "restart"},
             sbox'[task'[u].svc] = "none"
      PROVE  Taken(task'[u].svc)
  <2>1. CASE u = t
    <3>1. task'[t].svc \in Svcs
      BY <1>2, <1>7, <2>1 DEF StandsRight, AtOne
    <3>. QED
      BY <1>7, <2>1, <3>1, BoxGoes
  <2>2. CASE u # t
    <3>1. /\ task'[u] = task[u] /\ task[u].pc = "write" /\ task[u].op \in {"start", "restart"}
          /\ sbox'[task[u].svc] = "none"
      BY <1>3, <1>7, <2>2
    <3>2. task[u].svc \in Svcs
      BY <1>5, <3>1 DEF AtOne
    <3>3. CASE sbox[task[u].svc] = "none"
      <4>1. InHand(task[u].svc)
        BY <1>1, <3>1, <3>3 DEF Boxed
      <4>2. Taken(task[u].svc)
        BY <1>4, <3>1, <3>2, <4>1
      <4>. QED
        BY <3>1, <4>2
    <3>4. CASE sbox[task[u].svc] # "none"
      <4>1. task[t].op # "rm"
        BY <1>1, <2>2, <3>1, Alone
      <4>2. task'[t].svc = task[u].svc /\ task'[t].pc = "create"
        BY <3>1, <3>2, <3>4, <4>1, BoxGoes
      <4>. QED
        BY <3>1, <4>2
    <3>. QED
      BY <3>3, <3>4
  <2>. QED
    BY <2>1, <2>2
<1>8. Boxed'
  BY <1>6, <1>7 DEF Boxed, InHand
<1>9. ASSUME NEW s \in Svcs, rec'[s] = "running", sbox'[s] = "none"
      PROVE  \E u \in Tasks : /\ task'[u].svc = s
                              /\ task'[u].pc \in {"rmRow", "stopOld", "removeOld", "create"}
  <2>1. Taken(s) => \E u \in Tasks : /\ task'[u].svc = s
                              /\ task'[u].pc \in {"rmRow", "stopOld", "removeOld", "create"}
    OBVIOUS
  <2>2. CASE sbox[s] # "none"
    BY <1>9, <2>2, BoxGoes
  <2>3. CASE sbox[s] = "none" /\ rec[s] = "running"
    <3>1. PICK u \in Tasks : /\ task[u].svc = s
                             /\ task[u].pc \in {"rmRow", "stopOld", "removeOld", "create"}
      BY <1>1, <2>3 DEF RunningRowHasBox
    <3>2. CASE task[u].pc = "rmRow"
      <4>1. u # t
        BY <1>9, <3>1, <3>2, BoxGoes
      <4>. QED
        BY <1>3, <3>1, <3>2, <4>1
    <3>3. CASE task[u].pc # "rmRow"
      <4>1. InHand(s)
        BY <3>1, <3>3 DEF InHand
      <4>. QED
        BY <1>4, <1>9, <2>1, <4>1
    <3>. QED
      BY <3>2, <3>3
  <2>4. CASE sbox[s] = "none" /\ rec[s] # "running"
    <3>1. /\ task[t].svc = s /\ UNCHANGED sbox
          /\ \/ task[t].pc = "write" /\ task[t].op \in {"start", "restart"}
             \/ task[t].pc = "record"
      BY <1>9, <2>4, BoxGoes
    <3>2. InHand(s)
      BY <1>1, <2>4, <3>1 DEF Boxed
    <3>. QED
      BY <1>4, <1>9, <2>1, <3>2
  <2>. QED
    BY <2>2, <2>3, <2>4
<1>10. RunningRowHasBox'
  BY <1>9 DEF RunningRowHasBox
<1>. QED
  BY <1>8, <1>10

LEMMA BoxNext == SvcTyped /\ Answering /\ BoxInv /\ [SvcNext]_svcvars => BoxInv'
<1>. SUFFICES ASSUME SvcTyped, Answering, BoxInv, [SvcNext]_svcvars PROVE Boxed' /\ RunningRowHasBox'
  BY OneRunNext, MetNext DEF BoxInv
<1>1. Boxed /\ RunningRowHasBox
  BY DEF BoxInv
<1>2. CASE UNCHANGED <<rec, sbox, task>> /\ (crossed => crossed')
  BY <1>1, <1>2 DEF Boxed, RunningRowHasBox, InHand
<1>3. ASSUME NEW t \in Tasks, TaskStep(t), Watch PROVE Boxed' /\ RunningRowHasBox'
  BY <1>3, BoxStep
<1>4. ASSUME NEW t \in Tasks, NEW op \in SvcEntry, Request(t, op), Watch
      PROVE  Boxed' /\ RunningRowHasBox'
  <2>1. /\ task \in [Tasks -> Task] /\ task' = [task EXCEPT ![t] = task'[t]]
        /\ task'[t].pc \in {"next", "list", "rmRead", "count", "rows"}
        /\ UNCHANGED <<rec, sbox>>
    BY <1>4, RequestGoes, SvcTypeIs
  <2>2. task[t].pc = "idle"
    BY <1>4 DEF Request, At
  <2>3. \A u \in Tasks : u # t => task'[u] = task[u]
    BY <2>1
  <2>. DEFINE Taken(s) ==
                \E v \in Tasks : task'[v].svc = s /\ task'[v].pc \in {"stopOld", "removeOld", "create"}
  <2>4. \A s \in Svcs : InHand(s) => Taken(s)
    BY <2>2, <2>3 DEF InHand
  <2>5. crossed => crossed'
    BY <1>4 DEF Watch
  <2>6. Boxed'
    <3>. SUFFICES ASSUME ~crossed', NEW u \in Tasks
                  PROVE  /\ task'[u].pc \in {"launch", "record"} => sbox[task'[u].svc] # "none"
                         /\ /\ task'[u].pc = "write"
                            /\ task'[u].op \in {"start", "restart"}
                            /\ sbox[task'[u].svc] = "none"
                            => Taken(task'[u].svc)
      BY <2>1 DEF Boxed, InHand
    <3>1. CASE u = t
      BY <2>1, <3>1
    <3>2. CASE u # t
      <4>1. task'[u] = task[u]
        BY <2>3, <3>2
      <4>2. task[u].pc = "write" => task[u].svc \in Svcs
        BY SvcTypeIs DEF StandsRight, AtOne
      <4>3. ~crossed
        BY <2>5
      <4>. QED
        BY <1>1, <2>4, <4>1, <4>2, <4>3 DEF Boxed
    <3>. QED
      BY <3>1, <3>2
  <2>7. RunningRowHasBox'
    BY <1>1, <2>1, <2>2, <2>3, <2>5 DEF RunningRowHasBox
  <2>. QED
    BY <2>6, <2>7
<1>5. ASSUME NEW s \in Svcs, Vanish(s) PROVE FALSE
  BY <1>5 DEF Vanish, Answering
<1>6. CASE UNCHANGED svcvars
  BY <1>2, <1>6 DEF svcvars
<1>7. CASE (Unarchive \/ Expire) /\ Watch
  BY <1>2, <1>7 DEF Unarchive, Expire, Watch
<1>. QED
  BY <1>3, <1>4, <1>5, <1>6, <1>7 DEF SvcNext

\* start, restart, run, prepare, rm and the archive, any number of each at a
\* time and for any number of services: what a row says is running has a
\* container, or a run is about to make it one, or an rm to delete the row,
\* unless an rm has met another request.  Docker has to answer: where the
\* removal of the old container succeeds and the creation of the new one
\* fails, the row goes on to say running.
THEOREM RowsHaveContainers ==
    ASSUME Answering
    PROVE  SvcSpec => []RunningRowHasBox
<1>1. SvcInit => SvcTyped /\ BoxInv
  BY SvcInitType, BoxInit
<1>2. (SvcTyped /\ BoxInv) /\ [SvcNext]_svcvars => (SvcTyped /\ BoxInv)'
  BY SvcNextType, BoxNext, Answering
<1>3. SvcTyped /\ BoxInv => RunningRowHasBox
  BY DEF BoxInv
<1>. QED
  BY <1>1, <1>2, <1>3, PTL DEF SvcSpec
=============================================================================
