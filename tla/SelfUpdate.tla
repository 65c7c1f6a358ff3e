----------------------------- MODULE SelfUpdate -----------------------------
(***************************************************************************)
(* Replacing the two binaries and restarting coastd, by "coast update      *)
(* apply" or the automatic update of any other command (cli), or by coastd *)
(* itself (http), around the preparation of UpdatePreparation: updater u   *)
(* asks for preparation u.  All updaters unpack into one directory and     *)
(* rename the same files; nothing keeps two of them apart.                 *)
(***************************************************************************)
EXTENDS UpdatePreparation

CONSTANTS
    Hows,     \* kinds of updaters in use, a subset of {"cli", "http"}
    OwnPath,  \* what current_exe answers once the binary has been renamed:
              \* "given", the path coastd was started by, or "inode", where
              \* that file has gone (/proc/self/exe)
    SuFaults  \* a subset of AllSuFaults

\* tar: the archive is broken; move: a rename fails; quit: the client of
\* an update is interrupted.
AllSuFaults == {"tar", "move", "quit"}

ASSUME SuConstantsOK ==
    Hows \subseteq {"cli", "http"} /\ OwnPath \in {"given", "inode"} /\ SuFaults \subseteq AllSuFaults

Files == {"coast", "coastd"}

VARIABLES
    bin,     \* the version at each binary's path, "none" if nothing is there
    bak,     \* the same of its .old
    out,     \* the files in the directory archives are unpacked into
    alive,   \* the version of the running coastd, "none" if there is none
    upd,     \* the updaters
    events   \* what has gone wrong so far (no state of the program)

suvars == <<pvars, bin, bak, out, alive, upd, events>>
disk   == <<bin, bak, out>>

Versions == {"none", "old", "new"}
NoUpd    == [pc |-> "idle", how |-> "cli", file |-> "coast"]
UpdPcs   == {"idle", "prep", "unpack", "backup", "move", "drop", "clean", "kill",
             "start", "exec"}

SuTypeOK ==
    /\ TypeOK
    /\ bin \in [Files -> Versions] /\ bak \in [Files -> Versions]
    /\ out \subseteq Files
    /\ alive \in Versions
    /\ upd \in [Preps -> [pc : UpdPcs, how : {"cli", "http"}, file : Files]]
    /\ events \subseteq {"met", "move", "quit", "exec"}

SuInit ==
    /\ Init
    /\ bin = [f \in Files |-> "old"]
    /\ bak = [f \in Files |-> "none"]
    /\ out = {}
    /\ alive  = "old"
    /\ upd    = [u \in Preps |-> NoUpd]
    /\ events = {}

UpdTo(u, pc) == upd' = [upd EXCEPT ![u].pc = pc]
Happens(e) == events' = events \union {e}
On(u, pc) == upd[u].pc = pc

\* u goes to work on the files; no lock keeps it from another who does.
MayMeet(u) ==
    IF \E v \in Preps \ {u} : upd[v].pc \notin {"idle", "prep"}
    THEN Happens("met") ELSE UNCHANGED events

\* apply_update returns an error: coastd opens its flag again, a client
\* restarts coastd.
Fail(u) ==
    IF upd[u].how = "cli"
    THEN UpdTo(u, "kill") /\ UNCHANGED pvars
    ELSE /\ upd' = [upd EXCEPT ![u] = NoUpd]
         /\ quiescing' = FALSE
         /\ prep' = [prep EXCEPT ![u] = IdlePrep]
         /\ UNCHANGED <<registry, op, forwarding>>

----------------------------------------------------------------------------
\* The version of who asks, the client's or coastd's, is not the latest.
Ask(u, how) ==
    /\ On(u, "idle") /\ how \in Hows
    /\ (IF how = "cli" THEN bin["coast"] ELSE alive) = "old"
    /\ IF alive = "none"
       THEN /\ upd' = [upd EXCEPT ![u] = [NoUpd EXCEPT !.pc = "unpack"]]
            /\ MayMeet(u)
            /\ UNCHANGED pvars
       ELSE /\ upd' = [upd EXCEPT ![u] = [NoUpd EXCEPT !.pc = "prep", !.how = how]]
            /\ PrepBegin(u)
            /\ UNCHANGED events
    /\ UNCHANGED <<disk, alive>>

\* coastd has prepared itself, or has not, or is gone.
Answered(u) ==
    /\ On(u, "prep")
    /\ \/ prep[u].pc = "promised" /\ UpdTo(u, "unpack") /\ MayMeet(u)
       \/ prep[u].pc = "idle" /\ upd' = [upd EXCEPT ![u] = NoUpd] /\ UNCHANGED events
    /\ UNCHANGED <<pvars, disk, alive>>

Unpack(u) ==
    /\ On(u, "unpack")
    /\ \/ out' = Files /\ UpdTo(u, "backup") /\ UNCHANGED pvars
       \/ "tar" \in SuFaults /\ UNCHANGED out /\ Fail(u)
    /\ UNCHANGED <<bin, bak, alive, events>>

\* replace_binary, of the client's first: the binary becomes its .old, ...
Backup(u) ==
    LET f == upd[u].file IN
    /\ On(u, "backup")
    /\ \/ /\ UpdTo(u, "move")
          /\ IF bin[f] = "none" THEN UNCHANGED <<bin, bak>>
             ELSE bak' = [bak EXCEPT ![f] = bin[f]] /\ bin' = [bin EXCEPT ![f] = "none"]
          /\ UNCHANGED <<pvars, events>>
       \/ "move" \in SuFaults /\ Fail(u) /\ Happens("move") /\ UNCHANGED <<bin, bak>>
    /\ UNCHANGED <<out, alive>>

\* MUTANT of Move: a binary that could not be installed is not restored.
MoveNoRestore(u) ==
    LET f == upd[u].file IN
    /\ On(u, "move")
    /\ \/ /\ f \in out
          /\ bin' = [bin EXCEPT ![f] = "new"]
          /\ out' = out \ {f}
          /\ UpdTo(u, "drop")
          /\ UNCHANGED <<pvars, bak, events>>
       \/ /\ f \notin out \/ "move" \in SuFaults
          /\ bak' = [bak EXCEPT ![f] = "none"]
          /\ UNCHANGED <<bin, out>>
          /\ Fail(u) /\ Happens("move")
    /\ UNCHANGED alive

\* ... the new one takes its place, or it is put back, ...
Move(u) ==
    LET f == upd[u].file IN
    /\ On(u, "move")
    /\ \/ /\ f \in out
          /\ bin' = [bin EXCEPT ![f] = "new"]
          /\ out' = out \ {f}
          /\ UpdTo(u, "drop")
          /\ UNCHANGED <<pvars, bak, events>>
       \/ /\ f \notin out \/ "move" \in SuFaults
          /\ IF bak[f] = "none" THEN UNCHANGED <<bin, bak>>
             ELSE bin' = [bin EXCEPT ![f] = bak[f]] /\ bak' = [bak EXCEPT ![f] = "none"]
          /\ Fail(u) /\ Happens("move")
          /\ UNCHANGED out
    /\ UNCHANGED alive

\* MUTANT of DropBackup: the daemon's binary is left as it is.
DropAndStop(u) ==
    /\ On(u, "drop")
    /\ bak' = [bak EXCEPT ![upd[u].file] = "none"]
    /\ UpdTo(u, "clean")
    /\ UNCHANGED <<pvars, bin, out, alive, events>>

\* ... and the .old is removed.
DropBackup(u) ==
    /\ On(u, "drop")
    /\ bak' = [bak EXCEPT ![upd[u].file] = "none"]
    /\ upd' = [upd EXCEPT ![u].pc = IF upd[u].file = "coast" THEN "backup" ELSE "clean",
                          ![u].file = "coastd"]
    /\ UNCHANGED <<pvars, bin, out, alive, events>>

Clean(u) ==
    /\ On(u, "clean")
    /\ out' = {}
    /\ UpdTo(u, IF upd[u].how = "cli" THEN "kill" ELSE "exec")
    /\ UNCHANGED <<pvars, bin, bak, alive, events>>

----------------------------------------------------------------------------
(* restart_daemon_if_running, and coastd replacing itself.                 *)

Survivors == [v \in Preps |-> IF upd[v].how = "http" THEN NoUpd ELSE upd[v]]

KillDaemon(u) ==
    /\ On(u, "kill")
    /\ IF alive = "none"
       THEN upd' = [upd EXCEPT ![u] = NoUpd] /\ UNCHANGED <<pvars, alive>>
       ELSE /\ upd' = [Survivors EXCEPT ![u].pc = "start"]
            /\ alive' = "none"
            /\ quiescing' = FALSE /\ registry' = {}
            /\ op'   = [o \in Ops |-> IdleOp]
            /\ prep' = [p \in Preps |-> IdlePrep]
            /\ UNCHANGED forwarding
    /\ UNCHANGED <<disk, events>>

\* MUTANT of StartDaemon: it waits for the binary to be there.
StartLater(u) ==
    /\ On(u, "start")
    /\ alive = "none" /\ bin["coastd"] = "new"
    /\ StartAgain /\ alive' = bin["coastd"]
    /\ upd' = [upd EXCEPT ![u] = NoUpd]
    /\ UNCHANGED <<disk, events>>

StartDaemon(u) ==
    /\ On(u, "start")
    /\ IF alive = "none" /\ bin["coastd"] # "none"
       THEN StartAgain /\ alive' = bin["coastd"]
       ELSE UNCHANGED <<pvars, alive>>
    /\ upd' = [upd EXCEPT ![u] = NoUpd]
    /\ UNCHANGED <<disk, events>>

\* exec fails where current_exe has followed the file, or nothing is there:
\* the old process stays, and its flag with it.
ExecDaemon(u) ==
    /\ On(u, "exec")
    /\ IF OwnPath = "given" /\ bin["coastd"] # "none"
       THEN /\ StartAgain /\ alive' = bin["coastd"]
            /\ upd' = Survivors
            /\ UNCHANGED events
       ELSE /\ upd' = [upd EXCEPT ![u] = NoUpd]
            /\ Happens("exec")
            /\ UNCHANGED <<pvars, alive>>
    /\ UNCHANGED disk

Quit(u) ==
    /\ "quit" \in SuFaults
    /\ upd[u].how = "cli" /\ ~On(u, "idle")
    /\ upd' = [upd EXCEPT ![u] = NoUpd]
    /\ Happens("quit")
    /\ UNCHANGED <<pvars, disk, alive>>

----------------------------------------------------------------------------
UpdStep(u) ==
    \/ Answered(u) \/ Unpack(u) \/ Backup(u) \/ Move(u) \/ DropBackup(u)
    \/ Clean(u) \/ KillDaemon(u) \/ StartDaemon(u) \/ ExecDaemon(u)

InDaemon ==
    /\ alive # "none"
    /\ \/ \E o \in Ops : OpStep(o)
       \/ \E p \in Preps : PrepStep(p) /\ ~PrepBegin(p)
    /\ UNCHANGED <<disk, alive, upd, events>>

SuNext ==
    \/ InDaemon
    \/ \E u \in Preps : UpdStep(u) \/ Quit(u) \/ \E how \in Hows : Ask(u, how)

SuSpec == SuInit /\ [][SuNext]_suvars

\* Preparations and updaters get on; operations need not.
SuFairness ==
    \A u \in Preps :
        WF_suvars(UpdStep(u)) /\ WF_suvars(InDaemon /\ PrepStep(u))
SuFairSpec == SuSpec /\ SuFairness

----------------------------------------------------------------------------
(* Properties.                                                             *)

\* replace_binary: the program can always be had back: unless two updaters
\* have met, each binary or its .old is there.
NothingLost ==
    "met" \in events \/ \A f \in Files : bin[f] # "none" \/ bak[f] # "none"

\* apply_update: where nothing has gone wrong both binaries are of the same
\* version as soon as nobody is replacing them, and so is coastd when nobody
\* is about to restart it.
SameVersion ==
    events = {} =>
        /\ (\A u \in Preps : upd[u].pc \notin {"backup", "move", "drop"})
              => bin["coast"] = bin["coastd"]
        /\ (\A u \in Preps : upd[u].pc \in {"idle", "prep"}) => alive = bin["coastd"]

\* handle_prepare_for_update, apply_update: coastd turns requests away only
\* while a preparation goes on or somebody is updating it.
ClosedForUpdate ==
    quiescing /\ events \intersect {"quit", "exec"} = {} =>
        \E u \in Preps : ~On(u, "idle")

\* apply_update, restart_daemon_if_running: an update that has begun ends,
\* with a coastd that runs, unless two have met or one was interrupted.
UpdateEnds ==
    \A u \in Preps :
        ~On(u, "idle") ~> On(u, "idle") /\ (alive # "none" \/ events \intersect {"met", "quit"} # {})

\* "Schedule a self-restart so the new binary takes over".
NewTakesOver == [][\A u \in Preps : ExecDaemon(u) => alive' = bin["coastd"]]_suvars

\* "Extract the tarball and atomically replace the `coast` and `coastd`
\* binaries": both are there when nobody is replacing them.
ReplacedAtomically ==
    (\A u \in Preps : On(u, "idle")) => \A f \in Files : bin[f] # "none"
=============================================================================
