---------------------------- MODULE BareServices ----------------------------
(***************************************************************************)
(* A bare service of an instance: a shell command that a wrapper script    *)
(* runs, and runs again by the restart policy.  A file names the process   *)
(* of the command, not of the wrapper: by that file a wrapper sees that it *)
(* is not needed, and the scripts that stop the service find what to kill. *)
(* No process id is used twice.                                            *)
(***************************************************************************)
EXTENDS Naturals, FiniteSets

CONSTANTS
    Wrappers,    \* processes of the wrapper script
    Policies,    \* restart policies in use, of AllPolicies
    MaxRetries,  \* 10 in the script
    BareEntry,   \* a subset of BareOps
    Nobody       \* no wrapper

AllPolicies == {"no", "on-failure", "always"}

\* gated: the scripts of run, start, stop, assign and unassign, one after the
\* other; web: those of the HTTP routes, at any time; hasty: a script runs
\* before the wrapper an earlier one has started has got to its command; slow:
\* a command takes its time to end; reboot: the container stops and starts.
BareOps == {"gated", "web", "hasty", "slow", "reboot"}

ASSUME BareConstantsOK ==
    /\ Policies \subseteq AllPolicies /\ BareEntry \subseteq BareOps
    /\ MaxRetries \in Nat \ {0}
    /\ Nobody \notin Wrappers

VARIABLES
    policy,   \* the restart policy of the service
    ported,   \* whether the service has a port
    wrap,     \* the wrappers
    commands, \* those whose command runs
    holder,   \* the one whose command listens on the port
    pidFile,  \* whose command the file names: Nobody if there is none
    stopper,  \* how far the script that stops the service is
    asked     \* what was asked for last: that it runs or not (no state of the program)

barevars == <<policy, ported, wrap, commands, holder, pidFile, stopper, asked>>

WrapperOff == [pc |-> "off", retries |-> 0, failed |-> FALSE]

Getting == {"guard", "port", "launch", "record"}

BareTypeOK ==
    /\ policy \in Policies /\ ported \in BOOLEAN
    /\ wrap \in [Wrappers -> [pc : {"off", "wait", "sleep"} \union Getting,
                              retries : 0 .. MaxRetries - 1, failed : BOOLEAN]]
    /\ commands \subseteq Wrappers
    /\ holder \in commands \union {Nobody}
    /\ pidFile \in Wrappers \union {Nobody}
    /\ stopper \in {"idle", "remove", "port"}
    /\ asked \in BOOLEAN

BareInit ==
    /\ policy \in Policies /\ ported \in BOOLEAN
    /\ wrap     = [w \in Wrappers |-> WrapperOff]
    /\ commands = {}
    /\ holder   = Nobody
    /\ pidFile  = Nobody
    /\ stopper  = "idle"
    /\ asked    = FALSE

ConfigKept == UNCHANGED <<policy, ported>>

WrapTo(w, pc) == wrap' = [wrap EXCEPT ![w].pc = pc]

\* The commands S of their wrappers end, with an exit code.
CommandsEnd(S, failed) ==
    /\ commands' = commands \ S
    /\ holder'   = IF holder \in S THEN Nobody ELSE holder
    /\ wrap'     = [w \in Wrappers |-> IF w \in S THEN [wrap[w] EXCEPT !.failed = failed]
                                     ELSE wrap[w]]

----------------------------------------------------------------------------
(* service_wrapper_script.                                                 *)

\* MUTANT of Guard: it trusts the file, whoever is alive.
GuardBlindly(w) ==
    /\ wrap[w].pc = "guard"
    /\ WrapTo(w, IF ported THEN "port" ELSE "launch")
    /\ ConfigKept /\ UNCHANGED <<commands, holder, pidFile, stopper, asked>>

\* "exit if another wrapper is already running this service": if the process
\* the file names is alive.
Guard(w) ==
    /\ wrap[w].pc = "guard"
    /\ WrapTo(w, IF pidFile \in commands THEN "off" ELSE IF ported THEN "port" ELSE "launch")
    /\ ConfigKept /\ UNCHANGED <<commands, holder, pidFile, stopper, asked>>

\* fuser -k, once, before the loop.
FreePort(w) ==
    /\ wrap[w].pc = "port"
    /\ \E failed \in BOOLEAN :
          LET S == commands \intersect {holder} IN
          /\ commands' = commands \ S
          /\ holder' = Nobody
          /\ wrap'   = [v \in Wrappers |->
                           IF v = w THEN [wrap[w] EXCEPT !.pc = "launch"]
                           ELSE IF v \in S THEN [wrap[v] EXCEPT !.failed = failed]
                           ELSE wrap[v]]
    /\ ConfigKept /\ UNCHANGED <<pidFile, stopper, asked>>

\* A command that finds its port taken will fail.
LaunchCommand(w) ==
    /\ wrap[w].pc = "launch"
    /\ commands' = commands \union {w}
    /\ holder' = IF ported /\ holder = Nobody THEN w ELSE holder
    /\ WrapTo(w, "record")
    /\ ConfigKept /\ UNCHANGED <<pidFile, stopper, asked>>

RecordPid(w) ==
    /\ wrap[w].pc = "record"
    /\ pidFile' = w
    /\ WrapTo(w, "wait")
    /\ ConfigKept /\ UNCHANGED <<commands, holder, stopper, asked>>

Exits(w) ==
    /\ w \in commands
    /\ \E failed \in BOOLEAN :
          /\ ported /\ holder # w => failed
          /\ CommandsEnd({w}, failed)
    /\ ConfigKept /\ UNCHANGED <<pidFile, stopper, asked>>

\* The command is over.  After 30 seconds of life its failures are forgiven.
Decide(w) ==
    /\ wrap[w].pc = "wait" /\ w \notin commands
    /\ \/ /\ policy = "no" \/ (policy = "on-failure" /\ ~wrap[w].failed)
          /\ wrap' = [wrap EXCEPT ![w] = WrapperOff]
       \/ /\ policy = "always" \/ (policy = "on-failure" /\ wrap[w].failed)
          /\ \E lived \in BOOLEAN :
                LET n == (IF lived THEN 0 ELSE wrap[w].retries) + 1 IN
                wrap' = [wrap EXCEPT ![w] =
                            IF n >= MaxRetries THEN WrapperOff
                            ELSE [pc |-> "sleep", retries |-> n, failed |-> FALSE]]
    /\ ConfigKept /\ UNCHANGED <<commands, holder, pidFile, stopper, asked>>

\* The loop goes on past the guard.
RunAgain(w) ==
    /\ wrap[w].pc = "sleep"
    /\ WrapTo(w, "launch")
    /\ ConfigKept /\ UNCHANGED <<commands, holder, pidFile, stopper, asked>>

----------------------------------------------------------------------------
(* start-all, stop-all and the routes.                                     *)

MayRun ==
    \/ "web" \in BareEntry
    \/ /\ stopper = "idle"
       /\ "hasty" \in BareEntry \/ \A w \in Wrappers : wrap[w].pc \notin Getting

StartService(w) ==
    /\ MayRun
    /\ wrap[w].pc = "off" /\ w \notin commands
    /\ WrapTo(w, "guard")
    /\ asked' = TRUE
    /\ ConfigKept /\ UNCHANGED <<commands, holder, pidFile, stopper>>

\* The command the file names, if it is alive, and its children.  The pkill of
\* stop-all names a comment in the script, which no command line has.
StopKills ==
    /\ MayRun /\ stopper = "idle"
    /\ \E failed \in BOOLEAN,
          S \in {commands \intersect {pidFile}} \union (IF "slow" \in BareEntry THEN {{}} ELSE {}) :
          CommandsEnd(S, failed)
    /\ stopper' = "remove"
    /\ asked' = FALSE
    /\ ConfigKept /\ UNCHANGED pidFile

\* Of the scripts that stop, those of the routes look at the port as well.
StopRemoves ==
    /\ stopper = "remove"
    /\ pidFile' = Nobody
    /\ stopper' \in {"idle"} \union (IF "web" \in BareEntry /\ ported THEN {"port"} ELSE {})
    /\ ConfigKept /\ UNCHANGED <<wrap, commands, holder, asked>>

StopFreesPort ==
    /\ stopper = "port"
    /\ \E failed \in BOOLEAN : CommandsEnd(commands \intersect {holder}, failed)
    /\ stopper' = "idle"
    /\ ConfigKept /\ UNCHANGED <<pidFile, asked>>

\* Every process of the container goes, its files stay.
ContainerRestarts ==
    /\ "reboot" \in BareEntry
    /\ wrap'     = [w \in Wrappers |-> WrapperOff]
    /\ commands' = {}
    /\ holder'   = Nobody
    /\ stopper'  = "idle"
    /\ asked'    = FALSE
    /\ ConfigKept /\ UNCHANGED pidFile

----------------------------------------------------------------------------
WrapperStep(w) ==
    Guard(w) \/ FreePort(w) \/ LaunchCommand(w) \/ RecordPid(w) \/ Decide(w) \/ RunAgain(w)

BareNext ==
    \/ \E w \in Wrappers : WrapperStep(w) \/ Exits(w) \/ StartService(w)
    \/ StopKills \/ StopRemoves \/ StopFreesPort \/ ContainerRestarts

BareSpec == BareInit /\ [][BareNext]_barevars

----------------------------------------------------------------------------
(* Properties.                                                             *)

\* service_wrapper_script, stop_all_script: scripts that run one after the
\* other leave at most one command of a service that is not restarted, and
\* none once it has been stopped, however often it is started and dies.
OneCommand ==
    policy = "no" =>
        /\ Cardinality(commands) <= 1
        /\ ~asked /\ stopper = "idle" => commands = {}

\* "All running services are stopped via SIGTERM" (BARE_SERVICES.md), whatever
\* the restart policy: what is stopped stays so.
StopsForGood == ~asked /\ stopper = "idle" => commands = {}

\* "Guard: exit if another wrapper is already running this service".
OneWrapper ==
    Cardinality({w \in Wrappers : wrap[w].pc \notin {"off", "guard"}}) <= 1
=============================================================================
