----------------------------- MODULE AgentShells -----------------------------
(***************************************************************************)
(* Agent shells: programs run in an instance through a PTY that coastd     *)
(* holds open.  A shell has a row in the state database, which outlives    *)
(* coastd, and a session in memory (exec_sessions), which does not; the    *)
(* two maps have a mutex each, and most requests lock one after the other. *)
(* A terminal is a session without a row.  What the instance handlers do   *)
(* besides is left out: see InstanceLifecycle.                             *)
(***************************************************************************)
EXTENDS Naturals

CONSTANTS
    Names,       \* instances of one project
    Sids,        \* session ids; one nothing refers to stands for a fresh one
    MaxRows,     \* bound: rows ever inserted
    Clients,     \* slots for requests in progress
    ShellEntry,  \* entry points in use, a subset of ShellOps
    NoOne        \* no instance, no session

\* activate: over the socket; pick: over HTTP; delete: a session by its id.
ShellOps == {"spawn", "terminal", "activate", "pick", "close", "delete", "list",
             "stop", "rm", "restart"}

ASSUME ShellConstantsOK ==
    /\ ShellEntry \subseteq ShellOps
    /\ MaxRows \in Nat
    /\ NoOne \notin Names /\ NoOne \notin Sids

VARIABLES
    status,  \* of each instance; "running" stands for every status but Stopped
    shell,   \* the rows of agent_shells
    lastRow, \* AUTOINCREMENT
    sess,    \* exec_sessions
    pty,     \* what is left of each session: where, child and reader
    client   \* the requests

shvars == <<status, shell, lastRow, sess, pty, client>>

RowIds   == 1 .. MaxRows
NoShell  == [inst |-> NoOne, num |-> 0, active |-> FALSE, sid |-> NoOne]
Shell    == [inst : Names, num : RowIds, active : BOOLEAN, sid : Sids]
NoPty    == [inst |-> NoOne, child |-> "none", reader |-> "none"]
Pty      == [inst : Names, child : {"up", "gone"},
             reader : {"reading", "check", "drop", "done"}]
NoClient == [pc |-> "idle", inst |-> NoOne, agent |-> FALSE, active |-> FALSE,
             row |-> 0, sid |-> NoOne, seen |-> {}]
Client   == [pc : {"idle", "open", "enter", "look", "set", "kill", "heal"},
             inst : Names \union {NoOne}, agent : BOOLEAN, active : BOOLEAN,
             row : RowIds \union {0}, sid : Sids \union {NoOne}, seen : SUBSET Sids]

ShTypeOK ==
    /\ status  \in [Names -> {"none", "stopped", "running"}]
    /\ shell   \in [RowIds -> Shell \union {NoShell}]
    /\ lastRow \in RowIds \union {0}
    /\ sess \subseteq Sids
    /\ pty     \in [Sids -> Pty \union {NoPty}]
    /\ client  \in [Clients -> Client]
    /\ \A r \in RowIds : r > lastRow => shell[r] = NoShell
    /\ \A c \in Clients : client[c].row <= lastRow

ShInit ==
    /\ status  = [n \in Names |-> "none"]
    /\ shell   = [r \in RowIds |-> NoShell]
    /\ lastRow = 0
    /\ sess    = {}
    /\ pty     = [s \in Sids |-> NoPty]
    /\ client  = [c \in Clients |-> NoClient]

Rows(n) == {r \in RowIds : shell[r].inst = n}

\* A uuid that has not been given out, or that nobody knows any more.
Unused(s) ==
    /\ s \notin sess
    /\ pty[s].reader \in {"none", "done"}
    /\ \A r \in RowIds : shell[r].sid # s
    /\ \A c \in Clients : client[c].sid # s /\ s \notin client[c].seen

Finish(c) == client' = [client EXCEPT ![c] = NoClient]
GoTo(c, pc) == client' = [client EXCEPT ![c].pc = pc]
Start(c, r) == client[c] = NoClient /\ client' = [client EXCEPT ![c] = r]

----------------------------------------------------------------------------
(* Spawning.                                                               *)

\* handle_spawn, the HTTP route (which does not activate), the end of a run,
\* a restored instance, a terminal: what they check before the PTY is opened.
SpawnBegin(c, n, agent, active) ==
    /\ (IF agent THEN "spawn" ELSE "terminal") \in ShellEntry
    /\ active => agent
    /\ status[n] = "running"
    /\ Start(c, [NoClient EXCEPT !.pc = "open", !.inst = n, !.agent = agent,
                                 !.active = active])
    /\ UNCHANGED <<status, shell, lastRow, sess, pty>>

\* create_exec_session; the child may exit at once.
OpenPty(c) ==
    /\ client[c].pc = "open"
    /\ \E s \in Sids :
          /\ Unused(s)
          /\ sess' = sess \union {s}
          /\ pty'  = [pty EXCEPT ![s] = [inst |-> client[c].inst, child |-> "up",
                                         reader |-> "reading"]]
          /\ IF client[c].agent
             THEN client' = [client EXCEPT ![c].pc = "enter", ![c].sid = s]
             ELSE Finish(c)
    /\ UNCHANGED <<status, shell, lastRow>>

\* set_active_agent_shell: clears those of the instance, sets the row it is
\* given, wherever that row belongs.
Activated(f, n, row) ==
    [r \in RowIds |-> IF r = row THEN (IF f[r] = NoShell THEN NoShell
                                       ELSE [f[r] EXCEPT !.active = TRUE])
                      ELSE IF f[r].inst = n THEN [f[r] EXCEPT !.active = FALSE]
                      ELSE f[r]]

\* MUTANT of NewRow: the lowest free number is taken again.
LowestFree(r) == shell[r] = NoShell /\ \A q \in RowIds : shell[q] = NoShell => r <= q

NewRow(r) == r = lastRow + 1

\* One critical section: the row, whether it is active, its session.  Without
\* the instance the row cannot be made, and the session stays without one.
EnterRow(c) ==
    LET n == client[c].inst IN
    /\ client[c].pc = "enter"
    /\ \/ status[n] = "none" /\ UNCHANGED <<shell, lastRow>>
       \/ /\ status[n] # "none"
          /\ \E r \in RowIds, k \in RowIds :
                /\ NewRow(r)
                /\ \A q \in Rows(n) : shell[q].num < k
                /\ k = 1 \/ \E q \in Rows(n) : shell[q].num = k - 1
                /\ lastRow' = r
                /\ LET f == [shell EXCEPT ![r] = [inst |-> n, num |-> k, active |-> FALSE,
                                                  sid |-> client[c].sid]]
                   IN  shell' = IF client[c].active THEN Activated(f, n, r) ELSE f
    /\ Finish(c)
    /\ UNCHANGED <<status, sess, pty>>

----------------------------------------------------------------------------
(* Activating and closing.                                                 *)

\* handle_activate resolves the shell under one lock, ...
Resolve(c, n, r) ==
    /\ "activate" \in ShellEntry
    /\ status[n] = "running"
    /\ shell[r].inst = n /\ ~shell[r].active
    /\ Start(c, [NoClient EXCEPT !.pc = "look", !.inst = n, !.row = r, !.sid = shell[r].sid])
    /\ UNCHANGED <<status, shell, lastRow, sess, pty>>

\* ... looks its session up under the other, ...
Look(c) ==
    /\ client[c].pc = "look"
    /\ IF client[c].sid \in sess
       THEN client' = [client EXCEPT ![c].pc = "set", ![c].sid = NoOne]
       ELSE Finish(c)
    /\ UNCHANGED <<status, shell, lastRow, sess, pty>>

\* ... and activates it, if it is still there.
SetActive(c) ==
    /\ client[c].pc = "set"
    /\ shell' = Activated(shell, client[c].inst, client[c].row)
    /\ Finish(c)
    /\ UNCHANGED <<status, lastRow, sess, pty>>

\* activate_agent_shell: one critical section.
PickShell(n, r) ==
    /\ "pick" \in ShellEntry
    /\ status[n] = "running"
    /\ shell[r].inst = n
    /\ shell' = Activated(shell, n, r)
    /\ UNCHANGED <<status, lastRow, sess, pty, client>>

\* MUTANT of CloseShell: the active shell is closed like any other.
CloseAnyShell(c, n, r) ==
    /\ "close" \in ShellEntry
    /\ shell[r].inst = n
    /\ Start(c, [NoClient EXCEPT !.pc = "kill", !.sid = shell[r].sid])
    /\ shell' = [shell EXCEPT ![r] = NoShell]
    /\ UNCHANGED <<status, lastRow, sess, pty>>

\* close_agent_shell: the row first, ...
CloseShell(c, n, r) ==
    /\ "close" \in ShellEntry
    /\ shell[r].inst = n /\ ~shell[r].active
    /\ Start(c, [NoClient EXCEPT !.pc = "kill", !.sid = shell[r].sid])
    /\ shell' = [shell EXCEPT ![r] = NoShell]
    /\ UNCHANGED <<status, lastRow, sess, pty>>

\* MUTANT of KillSession: the child is signalled, its session stays.
SignalOnly(c) ==
    /\ client[c].pc = "kill"
    /\ Finish(c)
    /\ UNCHANGED <<status, shell, lastRow, sess, pty>>

\* ... then close_exec_session_by_id.
KillSession(c) ==
    /\ client[c].pc = "kill"
    /\ sess' = sess \ {client[c].sid}
    /\ Finish(c)
    /\ UNCHANGED <<status, shell, lastRow, pty>>

DeleteSession(s) ==
    /\ "delete" \in ShellEntry
    /\ s \in sess
    /\ sess' = sess \ {s}
    /\ UNCHANGED <<status, shell, lastRow, pty, client>>

----------------------------------------------------------------------------
(* Listing, which also heals.                                              *)

Snapshot(c, n) ==
    /\ "list" \in ShellEntry
    /\ Start(c, [NoClient EXCEPT !.pc = "heal", !.inst = n,
                                 !.seen = {s \in sess : pty[s].inst = n}])
    /\ UNCHANGED <<status, shell, lastRow, sess, pty>>

\* Unless the active shell has a session, the first that has one is activated.
Heal(c) ==
    LET n  == client[c].inst
        Ok == {r \in Rows(n) : shell[r].sid \in client[c].seen}
    IN  /\ client[c].pc = "heal"
        /\ IF Ok = {} \/ \E r \in Ok : shell[r].active
           THEN UNCHANGED shell
           ELSE \E r \in Ok : (\A q \in Ok : r <= q) /\ shell' = Activated(shell, n, r)
        /\ Finish(c)
        /\ UNCHANGED <<status, lastRow, sess, pty>>

----------------------------------------------------------------------------
(* Instances, the reader tasks, restarts.                                  *)

\* stop and rm: sessions and rows of the instance under both locks, and the
\* instance's own row.
EndShells(n, to) ==
    /\ status[n] \in {"running"} \union (IF to = "none" THEN {"stopped"} ELSE {})
    /\ status' = [status EXCEPT ![n] = to]
    /\ sess'   = sess \ {shell[r].sid : r \in Rows(n)}
    /\ shell'  = [r \in RowIds |-> IF shell[r].inst = n THEN NoShell ELSE shell[r]]
    /\ UNCHANGED <<lastRow, pty, client>>

Stop(n) == "stop" \in ShellEntry /\ EndShells(n, "stopped")
Rm(n)   == "rm" \in ShellEntry /\ EndShells(n, "none")

\* run or start.
Begins(n) ==
    /\ status[n] # "running"
    /\ status' = [status EXCEPT ![n] = "running"]
    /\ UNCHANGED <<shell, lastRow, sess, pty, client>>

ChildExits(s) ==
    /\ pty[s].child = "up"
    /\ pty' = [pty EXCEPT ![s].child = "gone"]
    /\ UNCHANGED <<status, shell, lastRow, sess, client>>

\* The reader of a session sees the end of the output, ...
ReaderEnds(s) ==
    /\ pty[s].reader = "reading" /\ pty[s].child = "gone"
    /\ pty' = [pty EXCEPT ![s].reader = "check"]
    /\ UNCHANGED <<status, shell, lastRow, sess, client>>

\* ... asks whether a row names it: an agent shell's session is kept ...
ReaderChecks(s) ==
    /\ pty[s].reader = "check"
    /\ pty' = [pty EXCEPT ![s].reader =
                 IF \E r \in Rows(pty[s].inst) : shell[r].sid = s THEN "done" ELSE "drop"]
    /\ UNCHANGED <<status, shell, lastRow, sess, client>>

\* ... and any other taken out of the map.
ReaderDrops(s) ==
    /\ pty[s].reader = "drop"
    /\ sess' = sess \ {s}
    /\ pty'  = [pty EXCEPT ![s].reader = "done"]
    /\ UNCHANGED <<status, shell, lastRow, client>>

RestartShells ==
    /\ "restart" \in ShellEntry
    /\ sess'   = {}
    /\ pty'    = [s \in Sids |-> NoPty]
    /\ client' = [c \in Clients |-> NoClient]
    /\ UNCHANGED <<status, shell, lastRow>>

----------------------------------------------------------------------------
ClientStep(c) ==
    OpenPty(c) \/ EnterRow(c) \/ Look(c) \/ SetActive(c) \/ KillSession(c) \/ Heal(c)

ReaderStep(s) == ReaderEnds(s) \/ ReaderChecks(s) \/ ReaderDrops(s)

ShellRequest(c) ==
    \E n \in Names :
        \/ \E agent, active \in BOOLEAN : SpawnBegin(c, n, agent, active)
        \/ Snapshot(c, n)
        \/ \E r \in RowIds : Resolve(c, n, r) \/ CloseShell(c, n, r)

ShNext ==
    \/ \E c \in Clients : ClientStep(c) \/ ShellRequest(c)
    \/ \E n \in Names : Stop(n) \/ Rm(n) \/ Begins(n) \/ \E r \in RowIds : PickShell(n, r)
    \/ \E s \in Sids : ChildExits(s) \/ ReaderStep(s) \/ DeleteSession(s)
    \/ RestartShells

ShSpec == ShInit /\ [][ShNext]_shvars

\* Requests and reader tasks get on.
ShFairness ==
    /\ \A c \in Clients : WF_shvars(ClientStep(c))
    /\ \A s \in Sids : WF_shvars(ReaderStep(s))
ShFairSpec == ShSpec /\ ShFairness

----------------------------------------------------------------------------
(* Properties.                                                             *)

ActiveIn(n) == {r \in Rows(n) : shell[r].active}

\* AGENT_SHELLS.md: "only one is active at a time", however activations that
\* resolved their shell long ago, listings that heal, spawns and the end of
\* instances overlap: no row id is ever given out twice.
OneActive == \A n \in Names : \A q, r \in ActiveIn(n) : q = r

\* close_agent_shell, list_sessions: an instance that has an active shell
\* keeps one until its shells are ended with it; only an activation over the
\* socket whose row has been closed meanwhile leaves none.
ActiveKept ==
    [][\A n \in Names :
          \/ ActiveIn(n) = {} \/ ActiveIn(n)' # {}
          \/ Stop(n) \/ Rm(n)
          \/ \E c \in Clients : SetActive(c) /\ shell[client[c].row] = NoShell]_shvars

\* create_exec_session: the session of a child that has exited is taken out
\* of the map, unless a row names it.
SessionsEnd ==
    \A s \in Sids : s \in sess /\ pty[s].child = "gone"
        ~> s \notin sess \/ \E r \in RowIds : shell[r].sid = s

\* AGENT_SHELLS.md: "When you stop a Coast instance ... all agent shell PTY
\* processes are killed and their database records are cleaned up".
StopCleansShells == \A n \in Names : status[n] = "stopped" => Rows(n) = {}

\* AGENT_SHELLS.md: "if the active shell is dead, the first live shell is
\* promoted to active".
DeadIsReplaced ==
    LET Live(n) == {r \in Rows(n) : shell[r].sid \in sess /\ pty[shell[r].sid].child = "up"}
    IN  [][\A c \in Clients : Heal(c) => LET n == client[c].inst IN
              Live(n) = {} \/ ActiveIn(n)' \intersect Live(n) # {}]_shvars
=============================================================================
