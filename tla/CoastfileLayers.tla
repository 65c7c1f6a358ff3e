-------------------------- MODULE CoastfileLayers --------------------------
(***************************************************************************)
(* How a Coastfile is read: the chain of files it extends, the fragments   *)
(* each of them includes, what each may unset, and the standalone file     *)
(* build leaves in its artifact, which run, start and assign read instead. *)
(* A value is known by the file it was written in.  Bound: none of them    *)
(* writes default_worktree_dir.                                            *)
(***************************************************************************)
EXTENDS Naturals, Sequences, FiniteSets, SequencesExt

CONSTANTS
    Coastfiles, \* Coastfiles and fragments
    First,      \* the one that is asked for
    NoFile,     \* no file, no value
    Entries,    \* what named sections define: ports, secrets, services, ...
    Ports,      \* those of them that are ports
    NoPort,     \* no primary port
    Drafts      \* what the files of the project may hold, a subset of [Coastfiles -> Layer]

\* sound: it is TOML and every field parses; named: it has coast.name;
\* dirs, health: worktree_dir and [healthcheck] are there;
\* run: it has elements of a list (setup.run, [omit]).
Layer == [extends : Coastfiles \union {NoFile}, includes : Seq(Coastfiles), sound : BOOLEAN,
          named : BOOLEAN, dirs : BOOLEAN, health : BOOLEAN, run : BOOLEAN,
          entries : SUBSET Entries, primary : Ports \union {NoPort}, unset : SUBSET Entries]

\* default_worktree_dir is not written.
NoLine == <<>>

ASSUME LayersConstantsOK ==
    /\ First \in Coastfiles /\ NoFile \notin Coastfiles
    /\ NoLine \notin Coastfiles \union {NoFile}
    /\ Ports \subseteq Entries /\ NoPort \notin Ports
    /\ Drafts \subseteq [Coastfiles -> Layer]

From == Coastfiles \union {NoFile}

\* default: the file whose first worktree_dir is default_worktree_dir, NoFile
\* for ".worktrees".
Config == [named : BOOLEAN, dirs : From, default : From, health : From, run : Seq(Coastfiles),
           entries : [Entries -> From], primary : Ports \union {NoPort}]

VARIABLES
    text,      \* the files
    stack,     \* the calls of from_file_with_ancestry under way, innermost first
    ancestors, \* their files
    outcome,   \* what the reading has come to
    resolved,  \* the Coastfile read
    reread     \* and what is read of the standalone file made from it

layervars == <<text, stack, ancestors, outcome, resolved, reread>>

Outcomes == {"unread", "reading", "read", "refused", "stored", "unreadable"}

NoLayer == [extends |-> NoFile, includes |-> <<>>, sound |-> TRUE, named |-> FALSE,
            dirs |-> FALSE, health |-> FALSE, run |-> FALSE, entries |-> {},
            primary |-> NoPort, unset |-> {}]

\* empty.
Empty == [named |-> FALSE, dirs |-> NoFile, default |-> NoFile, health |-> NoFile,
          run |-> <<>>, entries |-> [e \in Entries |-> NoFile], primary |-> NoPort]

LayersTypeOK ==
    /\ text \in [Coastfiles -> Layer]
    /\ outcome \in Outcomes
    /\ ancestors \subseteq Coastfiles
    /\ Len(stack) <= Cardinality(Coastfiles)
    /\ \A i \in DOMAIN stack : stack[i].file \in ancestors /\ stack[i].base \in Config
    /\ resolved \in Config /\ reread \in Config

LayersInit ==
    /\ text = [f \in Coastfiles |-> NoLayer]
    /\ stack = <<>> /\ ancestors = {}
    /\ outcome = "unread"
    /\ resolved = Empty /\ reread = Empty

\* RawCoastfile and the parsers of its fields.
Parses(f) == text[f].sound

----------------------------------------------------------------------------
(* One layer on another                                                    *)

\* merge_raw_onto.  A list grows, an entry replaces one of the same name, the
\* health checks are the layer's alone, and the default directory stays.
Merge(base, f) ==
    LET l == text[f] IN
    [named   |-> base.named \/ l.named,
     dirs    |-> IF l.dirs THEN f ELSE base.dirs,
     default |-> base.default,
     health  |-> IF l.health THEN f ELSE NoFile,
     run     |-> IF l.run THEN Append(base.run, f) ELSE base.run,
     entries |-> [e \in Entries |-> IF e \in l.entries THEN f ELSE base.entries[e]],
     primary |-> IF l.primary # NoPort THEN l.primary ELSE base.primary]

\* validate_primary_port.
PrimaryDeclared(c) == c.primary = NoPort \/ c.entries[c.primary] # NoFile

\* apply_unset.
Unset(c, names) ==
    [c EXCEPT !.entries = [e \in Entries |-> IF e \in names THEN NoFile ELSE c.entries[e]]]

\* validate_and_build: a file on its own.
Build(f) ==
    [Merge(Empty, f) EXCEPT !.default = IF text[f].dirs THEN f ELSE NoFile]

IsFragment(f) == text[f].extends = NoFile /\ text[f].includes = <<>>

----------------------------------------------------------------------------
(* from_file_with_ancestry                                                 *)

\* The files are as the user has left them.
WriteFiles ==
    /\ outcome = "unread"
    /\ text' \in Drafts
    /\ outcome' = "reading"
    /\ UNCHANGED <<stack, ancestors, resolved, reread>>

Refuse ==
    /\ outcome' = "refused"
    /\ stack' = <<>> /\ ancestors' = {}
    /\ UNCHANGED <<text, resolved, reread>>

\* A call ends: its result is the base of its caller, or what was asked for.
Return(f, c, callers) ==
    /\ ancestors' = ancestors \ {f}
    /\ IF callers = <<>>
       THEN outcome' = "read" /\ resolved' = c /\ stack' = <<>>
       ELSE /\ stack' = <<[Head(callers) EXCEPT !.base = c, !.pc = "merge"]>> \o Tail(callers)
            /\ UNCHANGED <<outcome, resolved>>
    /\ UNCHANGED <<text, reread>>

Top == Head(stack)

\* The next file of the chain is opened.
Open ==
    LET f == IF stack = <<>> THEN First ELSE text[Top.file].extends
        c == Build(f)
    IN  /\ outcome = "reading"
        /\ stack # <<>> => Top.pc = "extends"
        /\ \/ /\ f \in ancestors \/ ~Parses(f)
              /\ Refuse
           \/ /\ f \notin ancestors /\ Parses(f) /\ IsFragment(f)
              /\ IF c.named /\ PrimaryDeclared(c) THEN Return(f, c, stack) ELSE Refuse
           \/ /\ f \notin ancestors /\ Parses(f) /\ ~IsFragment(f)
              /\ ancestors' = ancestors \union {f}
              /\ stack' = <<[file |-> f, base |-> Empty, left |-> text[f].includes,
                            pc |-> IF text[f].extends = NoFile THEN "merge" ELSE "extends"]>>
                          \o stack
              /\ UNCHANGED <<text, outcome, resolved, reread>>

Merging == outcome = "reading" /\ stack # <<>> /\ Top.pc = "merge"

\* A fragment may neither extend nor include; what it unsets is not looked at.
Include ==
    LET f == Head(Top.left)
        c == Merge(Top.base, f)
    IN  /\ Merging /\ Top.left # <<>>
        /\ IF Parses(f) /\ IsFragment(f) /\ PrimaryDeclared(c)
           THEN /\ stack' = <<[Top EXCEPT !.base = c, !.left = Tail(@)]>> \o Tail(stack)
                /\ UNCHANGED <<text, ancestors, outcome, resolved, reread>>
           ELSE Refuse

\* MUTANT of MergeOwn: what is unset is taken from what is inherited.
UnsetInherited ==
    LET f == Top.file
        c == Merge(Unset(Top.base, text[f].unset), f)
    IN  /\ Merging /\ Top.left = <<>>
        /\ IF PrimaryDeclared(c) /\ c.named THEN Return(f, c, Tail(stack)) ELSE Refuse

\* The file's own values come last, then what it unsets goes.
MergeOwn ==
    LET f == Top.file
        c == Merge(Top.base, f)
    IN  /\ Merging /\ Top.left = <<>>
        /\ IF PrimaryDeclared(c) /\ c.named
           THEN Return(f, Unset(c, text[f].unset), Tail(stack)) ELSE Refuse

\* MUTANT of Standalone: the default directory is left to the reader.
StandaloneBrief(c) == [c EXCEPT !.default = NoLine]

\* to_standalone_toml: the default directory is left out where it is the first
\* of worktree_dir.
Standalone(c) == [c EXCEPT !.default = IF @ = c.dirs THEN NoLine ELSE @]

\* from_file of a standalone file, which extends and includes nothing.
ReadStandalone(t) == [t EXCEPT !.default = IF @ = NoLine THEN t.dirs ELSE @]

\* write_artifact_coastfile; run, start and assign read it with from_file.
Reread ==
    LET c == ReadStandalone(Standalone(resolved)) IN
    /\ outcome = "read"
    /\ IF PrimaryDeclared(c)
       THEN outcome' = "stored" /\ reread' = c
       ELSE outcome' = "unreadable" /\ UNCHANGED reread
    /\ UNCHANGED <<text, stack, ancestors, resolved>>

\* from_file keeps nothing: the next request reads the files as they are then.
Again ==
    /\ outcome \in {"refused", "stored", "unreadable"}
    /\ outcome' = "unread"
    /\ text' = [f \in Coastfiles |-> NoLayer]
    /\ resolved' = Empty /\ reread' = Empty
    /\ UNCHANGED <<stack, ancestors>>

----------------------------------------------------------------------------
LayersNext ==
    \/ WriteFiles \/ Open \/ Include \/ MergeOwn \/ Reread \/ Again

LayersSpec == LayersInit /\ [][LayersNext]_layervars

----------------------------------------------------------------------------
(* Properties.                                                             *)

\* The files First extends, itself first, as far as they can be followed.
Chain ==
    LET next[i \in 1 .. Cardinality(Coastfiles) + 1] ==
            IF i = 1 THEN First
            ELSE LET f == next[i - 1] IN IF f = NoFile THEN NoFile ELSE text[f].extends
    IN  SelectSeq(next, LAMBDA f : f # NoFile)

Cyclic == Len(Chain) > Cardinality(Coastfiles)

\* Every layer in the order of INHERITANCE.md, "Merge order", the last first:
\* a file, its fragments backwards, and the same of what it extends.
Layers ==
    LET of(f) == <<[file |-> f, own |-> ~IsFragment(f)]>>
                 \o [i \in 1 .. Len(text[f].includes) |->
                        [file |-> Reverse(text[f].includes)[i], own |-> FALSE]]
        add(layers, f) == layers \o of(f)
    IN  FoldLeft(add, <<>>, Chain)

\* The first of some positions, 0 if there are none.
FirstAt(at) == IF at = {} THEN 0 ELSE CHOOSE i \in at : \A j \in at : i <= j

\* INHERITANCE.md, "Merge semantics", "[unset]": of every named entry the last
\* layer that defines it wins, unless it or a later file unsets it; the
\* directories of worktree_dir are those of the last layer that has any, and
\* what lists have is in the order of the layers.
LastLayerWins ==
    outcome = "read" =>
        LET layers   == Layers
            layer(i) == text[layers[i].file]
            dirs     == FirstAt({i \in DOMAIN layers : layer(i).dirs})
        IN  /\ \A e \in Entries :
                  LET set   == FirstAt({i \in DOMAIN layers : e \in layer(i).entries})
                      unset == {i \in DOMAIN layers : layers[i].own /\ e \in layer(i).unset}
                  IN  resolved.entries[e] =
                          IF set = 0 \/ \E i \in unset : i <= set THEN NoFile
                          ELSE layers[set].file
            /\ resolved.dirs = IF dirs = 0 THEN NoFile ELSE layers[dirs].file
            /\ resolved.run =
                  LET files == [i \in DOMAIN layers |-> layers[i].file]
                  IN  SelectSeq(Reverse(files), LAMBDA f : text[f].run)

\* from_file_with_ancestry, "circular extends/includes dependency detected": a
\* cycle is refused, and a fragment used by several files is none.
RefusedForAReason ==
    /\ outcome \in {"read", "stored", "unreadable"} => ~Cyclic
    /\ outcome = "refused" =>
          LET layers == Layers IN
          \/ Cyclic
          \/ \E i \in DOMAIN layers :
                LET l == text[layers[i].file]
                IN  \/ ~Parses(layers[i].file) \/ l.primary # NoPort
                    \/ ~layers[i].own /\ ~IsFragment(layers[i].file)
          \/ ~text[Last(Chain)].named

\* A Coastfile resolves to what INHERITANCE.md says of its layers, and where it
\* does not resolve, something is wrong with one of them.
ResolvesAsMeant == LastLayerWins /\ RefusedForAReason

\* serializer.rs, "making it safe to store in a build artifact directory where
\* parent files are not available": what is read of it is what was resolved;
\* it cannot be read if the primary port was unset.
ReadsBack ==
    /\ outcome = "stored" => reread = resolved
    /\ outcome = "unreadable" => \E f \in Coastfiles : resolved.primary \in text[f].unset

\* The same without the exception.
AlwaysReadsBack == outcome # "unreadable"
=============================================================================
