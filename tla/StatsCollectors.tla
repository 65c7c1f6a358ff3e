--------------------------- MODULE StatsCollectors ---------------------------
(***************************************************************************)
(* The background tasks that collect statistics of one instance: one of    *)
(* its container, one of each of its services, each known by the key of a  *)
(* map of task handles and of a map of broadcast channels.  A listener     *)
(* starts and stops them as the events of the bus tell it, viewers start   *)
(* them too, and a task that ends removes what it finds under its key.     *)
(***************************************************************************)
EXTENDS Naturals, Sequences, FiniteSets

CONSTANTS
    CoastKey,    \* the key of the container's collector
    ServiceKeys, \* those of the services' collectors
    Slots,       \* of tasks; a bound on how many there are at once
    NoCollector,
    Requests,    \* tasks of requests
    Viewers,     \* web sockets
    StatsEntry,  \* a subset of StatsEntries: what is in use
    BusSize      \* what the bus keeps

\* gated: one request at a time, that which has the permit of the project, as
\* if none came over HTTP; archive: it stops without a word to the bus;
\* errors: a stream of statistics may fail; lag: the bus may overflow.
StatsEntries == {"gated", "archive", "errors", "lag", "reboot"}

Listener == "listener"
Keys     == {CoastKey} \union ServiceKeys
Starters == {Listener, "boot"} \union Viewers

ASSUME StatsConstantsOK ==
    /\ CoastKey \notin ServiceKeys
    /\ NoCollector \notin Slots
    /\ Viewers \intersect {Listener, "boot"} = {}
    /\ StatsEntry \subseteq StatsEntries
    /\ BusSize \in Nat \ {0}

VARIABLES
    instRow,    \* the instance's status, as far as it matters here
    box,        \* its container
    request,    \* of each request, what it does and how far it is
    bus,        \* the events the listener has not taken
    handle,     \* stats_collectors and service_stats_collectors
    channel,    \* stats_broadcasts and service_stats_broadcasts
    collector,  \* the collectors
    starter     \* what those who start and stop them are at

statsvars == <<instRow, box, request, bus, handle, channel, collector, starter>>

NoRequest == [op |-> "none", pc |-> "free"]
NoneAt    == [key |-> CoastKey, pc |-> "free", todo |-> {}, slot |-> NoCollector,
              lost |-> FALSE]
FreeSlot  == [key |-> CoastKey, pc |-> "dead", lost |-> FALSE]

StatsTypeOK ==
    /\ instRow \in {"none", "running", "stopped", "changing"}
    /\ box \in {"none", "up", "down"}
    /\ request \in [Requests -> [op : {"none", "run", "stop", "archive", "start", "rm"},
                                 pc : {"free", "box", "row", "emit"}]]
    /\ bus \in Seq({"started", "stopped"}) /\ Len(bus) <= BusSize
    /\ handle \in [Keys -> Slots \union {NoCollector}]
    /\ channel \in [Keys -> Slots \union {NoCollector}]
    /\ collector \in [Slots -> [key : Keys, pc : {"resolve", "read", "close", "leave", "dead"},
                           lost : BOOLEAN]]
    /\ starter \in [Starters -> [key : Keys,
                                 pc : {"free", "check", "spawn", "insert", "discover",
                                       "take", "mute", "takeall"},
                                 todo : SUBSET Keys, slot : Slots \union {NoCollector},
                                 lost : BOOLEAN]]

StatsInit ==
    /\ instRow = "none" /\ box = "none"
    /\ request = [r \in Requests |-> NoRequest]
    /\ bus = <<>>
    /\ handle = [k \in Keys |-> NoCollector] /\ channel = [k \in Keys |-> NoCollector]
    /\ collector = [t \in Slots |-> FreeSlot]
    /\ starter = [p \in Starters |-> NoneAt]

Uses(e)  == e \in StatsEntry
Alive(t) == collector[t].pc # "dead"

\* No map and nobody refers to it: as good as one that was never used.
FreeSlots ==
    {t \in Slots : /\ ~Alive(t)
                   /\ \A k \in Keys : handle[k] # t /\ channel[k] # t
                   /\ \A p \in Starters : starter[p].slot # t}

----------------------------------------------------------------------------
(* The instance: run, stop, archive, start, rm                             *)

docker == <<handle, channel>>

Becomes(op) ==
    CASE op \in {"run", "start"} -> "running"
      [] op \in {"stop", "archive"} -> "stopped"
      [] op = "rm" -> "none"

May(op) ==
    CASE op = "run" -> instRow = "none"
      [] op = "start" -> instRow = "stopped"
      [] op \in {"stop", "archive"} -> instRow = "running"
      [] op = "rm" -> instRow \in {"running", "stopped"}

RequestBegin(r, op) ==
    /\ request[r].pc = "free" /\ May(op)
    /\ op = "archive" => Uses("archive")
    /\ Uses("gated") => \A q \in Requests : request[q].pc = "free"
    /\ instRow' = "changing"
    /\ request' = [request EXCEPT ![r] = [op |-> op, pc |-> "box"]]
    /\ UNCHANGED <<box, bus, collector, docker, starter>>

\* What reads a container that is removed, or is about to, reads no other.
RequestBox(r) ==
    LET b == CASE Becomes(request[r].op) = "running" -> "up"
               [] Becomes(request[r].op) = "stopped" -> "down"
               [] Becomes(request[r].op) = "none"    -> "none"
    IN  /\ request[r].pc = "box"
        /\ box' = b
        /\ collector' = [t \in Slots |->
               [collector[t] EXCEPT !.lost = Alive(t) /\ (@ \/ b = "none")]]
        /\ starter' = [p \in Starters |->
               [starter[p] EXCEPT !.lost = starter[p].pc # "free" /\ (@ \/ b = "none")]]
        /\ request' = [request EXCEPT ![r].pc = "row"]
        /\ UNCHANGED <<instRow, bus, docker>>

RequestRow(r) ==
    /\ request[r].pc = "row"
    /\ instRow' = Becomes(request[r].op)
    /\ request' = [request EXCEPT ![r] =
                      IF @.op = "archive" THEN NoRequest ELSE [@ EXCEPT !.pc = "emit"]]
    /\ UNCHANGED <<box, bus, collector, docker, starter>>

\* emit_event, after the handler has returned; a full bus forgets the oldest.
RequestEmit(r) ==
    LET event == IF Becomes(request[r].op) = "running" THEN "started" ELSE "stopped"
    IN  /\ request[r].pc = "emit"
        /\ Len(bus) = BusSize => Uses("lag")
        /\ bus' = Append(IF Len(bus) = BusSize THEN Tail(bus) ELSE bus, event)
        /\ request' = [request EXCEPT ![r] = NoRequest]
        /\ UNCHANGED <<instRow, box, collector, docker, starter>>

instance == <<instRow, box, request>>

----------------------------------------------------------------------------
(* Starting a collector                                                    *)

\* A task t of what p was told to start, on the container it was told of.
SpawnTask(t, p) ==
    LET k == starter[p].key IN
    collector' = [collector EXCEPT ![t] =
        [key |-> k, lost |-> starter[p].lost,
         pc |-> IF k = CoastKey THEN "read" ELSE "resolve"]]

\* MUTANT of StartCoast: looked up in one step, entered in another, as the
\* collectors of services are.
StartLoosely(p) ==
    LET s == starter[p] IN
    /\ s.key = CoastKey /\ s.pc = "check"
    /\ IF handle[CoastKey] # NoCollector
       THEN starter' = [starter EXCEPT ![p].pc = "discover"]
       ELSE starter' = [starter EXCEPT ![p].pc = "spawn"]
    /\ UNCHANGED <<instance, bus, handle, channel, collector>>

\* start_stats_collector: the map of handles is locked from the look to the
\* entry.  The listener goes on to the services, a viewer is done.
StartCoast(p) ==
    LET s == starter[p] IN
    /\ s.key = CoastKey /\ s.pc = "check"
    /\ starter' = [starter EXCEPT ![p].pc = "discover"]
    /\ \/ handle[CoastKey] # NoCollector /\ UNCHANGED <<handle, channel, collector>>
       \/ /\ handle[CoastKey] = NoCollector
          /\ \E t \in FreeSlots :
                /\ SpawnTask(t, p)
                /\ handle' = [handle EXCEPT ![CoastKey] = t]
                /\ channel' = [channel EXCEPT ![CoastKey] = t]
    /\ UNCHANGED <<instance, bus>>

\* The next service, if any is left.
NextOf(p) ==
    starter' = [starter EXCEPT ![p] =
        IF @.todo = {} THEN NoneAt
        ELSE LET k == CHOOSE k \in @.todo : TRUE
             IN  [key |-> k, pc |-> "check", todo |-> @.todo \ {k}, slot |-> NoCollector,
                  lost |-> @.lost]]

\* discover_and_start_service_collectors: the services compose ps names, none
\* where the container does not answer.
Discover(p) ==
    /\ starter[p].pc = "discover"
    /\ \E found \in {{}, ServiceKeys} :
          /\ found # {} => p \notin Viewers /\ box = "up" /\ ~starter[p].lost
          /\ starter' = [starter EXCEPT ![p] =
              IF found = {} THEN NoneAt
              ELSE LET k == CHOOSE k \in found : TRUE
                   IN  [key |-> k, pc |-> "check", todo |-> found \ {k}, slot |-> NoCollector,
                        lost |-> FALSE]]
    /\ UNCHANGED <<instance, bus, handle, channel, collector>>

\* start_service_stats_collector: a look, ...
CheckService(p) ==
    LET s == starter[p] IN
    /\ s.key # CoastKey /\ s.pc = "check"
    /\ IF handle[s.key] # NoCollector THEN NextOf(p)
       ELSE starter' = [starter EXCEPT ![p].pc = "spawn"]
    /\ UNCHANGED <<instance, bus, handle, channel, collector>>

\* ... the channel and the task, ...
SpawnService(p) ==
    LET s == starter[p] IN
    /\ s.pc = "spawn"
    /\ \E t \in FreeSlots :
          /\ SpawnTask(t, p)
          /\ channel' = [channel EXCEPT ![s.key] = t]
          /\ starter' = [starter EXCEPT ![p].pc = "insert", ![p].slot = t]
    /\ UNCHANGED <<instance, bus, handle>>

\* ... and the entry, whatever is there by now: the task of a handle that is
\* dropped goes on.
InsertService(p) ==
    LET s == starter[p] IN
    /\ s.pc = "insert"
    /\ handle' = [handle EXCEPT ![s.key] = s.slot]
    /\ NextOf(p)
    /\ UNCHANGED <<instance, bus, channel, collector>>

----------------------------------------------------------------------------
(* The listener                                                            *)

Abort(t) == collector' = [u \in Slots |-> IF u = t THEN FreeSlot ELSE collector[u]]

\* handle_stats_lifecycle_event: of a start, if the row has a container; that
\* of an instance that changes may or may not.
TakeEvent ==
    /\ starter[Listener].pc = "free" /\ bus # <<>>
    /\ bus' = Tail(bus)
    /\ \/ /\ Head(bus) = "stopped"
          /\ starter' = [starter EXCEPT ![Listener].pc = "take"]
       \/ /\ Head(bus) = "started" /\ instRow # "none"
          /\ starter' = [starter EXCEPT ![Listener].pc = "check",
                                        ![Listener].lost = box = "none"]
       \/ /\ Head(bus) = "started" /\ instRow \in {"none", "changing"}
          /\ UNCHANGED starter
    /\ UNCHANGED <<instance, handle, channel, collector>>

\* The next of the services whose collectors are stopped, if any is left.
StopOf(S) ==
    IF S = {} THEN NoneAt
    ELSE LET k == CHOOSE k \in S : TRUE
         IN  [NoneAt EXCEPT !.key = k, !.pc = "take", !.todo = S \ {k}]

\* MUTANT of TakeHandle: the handle stays in the map.
AbortOnly ==
    LET k == starter[Listener].key IN
    /\ starter[Listener].pc = "take"
    /\ Abort(handle[k])
    /\ starter' = [starter EXCEPT ![Listener].pc = "mute"]
    /\ UNCHANGED <<instance, bus, handle, channel>>

\* stop_stats_collector, stop_service_stats_collector: the handle, ...
TakeHandle ==
    LET k == starter[Listener].key IN
    /\ starter[Listener].pc = "take"
    /\ Abort(handle[k])
    /\ handle' = [handle EXCEPT ![k] = NoCollector]
    /\ starter' = [starter EXCEPT ![Listener].pc = "mute"]
    /\ UNCHANGED <<instance, bus, channel>>

\* ... then the channel, be it of a collector started meanwhile.
RemoveChannel ==
    LET s == starter[Listener] IN
    /\ s.pc = "mute"
    /\ channel' = [channel EXCEPT ![s.key] = NoCollector]
    /\ starter' = [starter EXCEPT ![Listener] =
           IF s.key = CoastKey THEN [NoneAt EXCEPT !.pc = "takeall"] ELSE StopOf(s.todo)]
    /\ UNCHANGED <<instance, bus, handle, collector>>

\* stop_all_service_collectors_for_instance: those in the map.
ListServices ==
    /\ starter[Listener].pc = "takeall"
    /\ starter' = [starter EXCEPT ![Listener] =
           StopOf({k \in ServiceKeys : handle[k] # NoCollector})]
    /\ UNCHANGED <<instance, bus, handle, channel, collector>>

----------------------------------------------------------------------------
(* Collectors                                                              *)

\* resolve_inner_container of a service's collector.
FindInner(t) ==
    /\ collector[t].pc = "resolve"
    /\ \/ box = "up" /\ ~collector[t].lost /\ collector' = [collector EXCEPT ![t].pc = "read"]
       \/ collector' = [collector EXCEPT ![t].pc = "close"]
    /\ UNCHANGED <<instance, bus, docker, starter>>

\* run_collector: its stream ends, or the exec of a poll fails.
StreamEnds(t) ==
    /\ collector[t].pc = "read"
    /\ box # "up" \/ collector[t].lost \/ Uses("errors")
    /\ collector' = [collector EXCEPT ![t].pc = "close"]
    /\ UNCHANGED <<instance, bus, docker, starter>>

\* The channel goes: of the container's collector only its own.
CloseChannel(t) ==
    LET k == collector[t].key IN
    /\ collector[t].pc = "close"
    /\ channel' = IF k = CoastKey /\ channel[k] # t THEN channel
                  ELSE [channel EXCEPT ![k] = NoCollector]
    /\ collector' = [collector EXCEPT ![t].pc = "leave"]
    /\ UNCHANGED <<instance, bus, handle, starter>>

\* And the handle: of the container's collector only one of a task that has
\* finished, which the task that asks has not.
Leave(t) ==
    LET k == collector[t].key IN
    /\ collector[t].pc = "leave"
    /\ handle' = IF k = CoastKey /\ (handle[k] = NoCollector \/ handle[k] = t \/ Alive(handle[k]))
                 THEN handle ELSE [handle EXCEPT ![k] = NoCollector]
    /\ Abort(t)
    /\ UNCHANGED <<instance, bus, channel, starter>>

----------------------------------------------------------------------------
(* Viewers, restart                                                        *)

\* ws_handler: it reads the row, and starts what is not in the map.
View(v, k) ==
    /\ starter[v].pc = "free"
    /\ instRow \notin {"none", "stopped"} /\ handle[k] = NoCollector
    /\ starter' = [starter EXCEPT ![v] = [NoneAt EXCEPT !.key = k, !.pc = "check",
                                                       !.lost = box = "none"]]
    /\ UNCHANGED <<instance, bus, handle, channel, collector>>

\* restore_running_state; the services are looked for by a task of its own.
Reboot ==
    /\ Uses("reboot")
    /\ request' = [r \in Requests |-> NoRequest]
    /\ bus' = <<>>
    /\ \E t \in Slots :
       LET k == IF instRow = "running" THEN {CoastKey} ELSE {}
       IN  /\ collector' = [u \in Slots |-> IF u = t /\ k # {}
                                       THEN [FreeSlot EXCEPT !.pc = "read"] ELSE FreeSlot]
           /\ handle' = [j \in Keys |-> IF j \in k THEN t ELSE NoCollector]
           /\ channel' = handle'
    /\ starter' = [p \in Starters |->
                      IF p = "boot" /\ instRow = "running" THEN [NoneAt EXCEPT !.pc = "discover"]
                      ELSE NoneAt]
    /\ UNCHANGED <<instRow, box>>

----------------------------------------------------------------------------
RequestStep(r) == RequestBox(r) \/ RequestRow(r) \/ RequestEmit(r)

StarterStep(p) ==
    StartCoast(p) \/ Discover(p) \/ CheckService(p) \/ SpawnService(p) \/ InsertService(p)

ListenerStep ==
    \/ StarterStep(Listener)
    \/ TakeEvent \/ TakeHandle \/ RemoveChannel \/ ListServices

StatsNext ==
    \/ \E r \in Requests, op \in {"run", "stop", "archive", "start", "rm"} : RequestBegin(r, op)
    \/ \E r \in Requests : RequestStep(r)
    \/ ListenerStep
    \/ \E p \in {"boot"} \union Viewers : StarterStep(p)
    \/ \E v \in Viewers, k \in Keys : View(v, k)
    \/ \E t \in Slots : FindInner(t) \/ StreamEnds(t) \/ CloseChannel(t) \/ Leave(t)
    \/ Reboot

StatsSpec == StatsInit /\ [][StatsNext]_statsvars

\* Requests, the listener, the task of a boot and what a collector does once
\* its stream has ended are tasks of the runtime, and go on.
StatsFairness ==
    /\ \A r \in Requests : WF_statsvars(RequestStep(r))
    /\ WF_statsvars(ListenerStep) /\ WF_statsvars(StarterStep("boot"))
    /\ \A t \in Slots : WF_statsvars(FindInner(t) \/ CloseChannel(t) \/ Leave(t))

----------------------------------------------------------------------------
(* Properties.                                                             *)

Reads(t, k) == collector[t].key = k /\ collector[t].pc = "read"

\* start_stats_collector, "if collectors.contains_key(&key) { return; }": two
\* collectors never push into one history, whoever starts them and whenever
\* they are stopped.  (Those of services may.)
OneCollector == \A t, u \in Slots : Reads(t, CoastKey) /\ Reads(u, CoastKey) => t = u

\* handle_stats_lifecycle_event, "starting/stopping background stats
\* collectors": an instance that runs from some time on, whatever was done to
\* it before and however late the events come, has its collector from some
\* time on.
StatsFollow ==
    (<>[](instRow = "running"))
        => <>[](\E t \in Slots : Reads(t, CoastKey) /\ ~collector[t].lost)
=============================================================================
