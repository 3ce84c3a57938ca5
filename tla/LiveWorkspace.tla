--------------------------- MODULE LiveWorkspace ---------------------------
(***************************************************************************)
(* The freshness of one workspace's code index (src/src/cli/workspace/mcp/ *)
(* live.rs, reader.rs, storage/write_lease.rs): reader processes, each a   *)
(* child of some connection's router, elect one writer by the lease on the *)
(* index; the writer reopens the index, catches up with the source tree on *)
(* both sides of installing its watches, and follows it until its settings *)
(* change or its connection closes.  An explicit "codanna index" and a     *)
(* router that publishes a first index take the same lease.                *)
(*                                                                         *)
(* Abstractions.  The source tree and settings.toml are numbers that every *)
(* change raises, as every change of the file gives it a new stamp.  A     *)
(* pass of the pipeline reads the tree in one step and commits in another; *)
(* IncrementalIndex has its inside, and CodeWatcher the way from a change  *)
(* of the tree to the pass that indexes it, of which is kept that there is *)
(* something to do (dirty).  Workspaces with automatic freshness only: no  *)
(* semantic index, watching not disabled.  The ignore files, which are in  *)
(* the stamps beside the settings, are left out.                           *)
(***************************************************************************)
EXTENDS Naturals

CONSTANTS
    Children,      \* reader processes
    Routers,       \* connections, each with a router that starts readers
    Cli,           \* an explicit "codanna index"
    Nobody,
    None,          \* no index
    Partial,       \* a started index without index.meta
    Torn,          \* rows of an interrupted pass: those of no one tree
    FaultKinds,    \* which failures there are, and "run", an explicit run
    MaxEdits,      \* bound: changes of the source tree
    MaxSettings,   \* bound: changes of the settings
    MaxFaults      \* bound: failures and explicit runs

Texts == (0..MaxEdits) \cup {Torn}
Rules == 0..MaxSettings
Rows  == [text : Texts, rules : Rules]

ASSUME LiveAssumption ==
    /\ Children \cap Routers = {}
    /\ Cli \notin Children \cup Routers /\ Nobody \notin Children \cup Routers \cup {Cli}
    /\ None \notin Rows /\ Partial \notin Rows \cup {None}
    /\ Torn \notin Nat
    /\ FaultKinds \subseteq {"live", "crash", "load", "run"}
    /\ MaxEdits \in Nat /\ MaxSettings \in Nat /\ MaxFaults \in Nat

VARIABLES
    tree,       \* the source tree
    settings,   \* settings.toml
    index,      \* None, Partial, or the tree and the settings its rows are those of
    lease,      \* who holds the code write lease
    known,      \* who has the index open at its last commit
    proc,       \* per reader process: where its live task is, and its locals
    cli,        \* the explicit run
    faults

liveVars == <<tree, settings, index, lease, known, proc, cli, faults>>
world == <<tree, settings>>

\* conf: what the process was configured with; initial: the stamp its live task
\* began with; read: the tree a pass has read; stop: its connection has closed.
Fresh == [at |-> "none", conf |-> 0, initial |-> 0, read |-> 0, dirty |-> FALSE, stop |-> FALSE]

Passes == {"scanning", "rescanning", "handling"}
\* Where a live task holds the lease and may change the index.
Writing == Passes \cup {"elected", "prepared", "watching"}

At(c, places) == proc[c].at \in places
Alive(c)   == ~At(c, {"none", "gone"})
Booted(c)  == ~At(c, {"none", "booting", "gone"})
\* Mutant: the watches are installed after the last catch-up.
WatchedLate(c) == At(c, {"watching", "handling"})
\* The native watches are installed between the two catch-up passes.
Watched(c) == At(c, {"prepared", "rescanning", "watching", "handling"})
ContextChanged(c) == settings # proc[c].initial

Locals == [at : Writing \cup {"none", "booting", "loaded", "waiting", "failed", "gone"},
           conf : Rules, initial : Rules, read : 0..MaxEdits, dirty : BOOLEAN, stop : BOOLEAN]

TypeOKLive ==
    /\ tree \in 0..MaxEdits /\ settings \in Rules
    /\ index \in Rows \cup {None, Partial}
    /\ lease \in Children \cup Routers \cup {Cli, Nobody}
    /\ known \in SUBSET (Children \cup {Cli})
    /\ proc \in [Children -> Locals]
    /\ cli \in [at : {"idle", "writing"}, conf : Rules, read : 0..MaxEdits]
    /\ faults \in 0..MaxFaults

CliIdle == [at |-> "idle", conf |-> 0, read |-> 0]

LiveInit ==
    /\ tree = 0 /\ settings = 0
    /\ index = None /\ lease = Nobody /\ known = {}
    /\ proc = [c \in Children |-> Fresh]
    /\ cli = CliIdle
    /\ faults = 0

Fault(kind) ==
    /\ kind \in FaultKinds /\ faults < MaxFaults
    /\ faults' = faults + 1

-----------------------------------------------------------------------------
(* Editors.                                                                *)

EditTree ==
    /\ tree < MaxEdits
    /\ tree' = tree + 1
    /\ proc' = [c \in Children |-> IF Watched(c) THEN [proc[c] EXCEPT !.dirty = TRUE] ELSE proc[c]]
    /\ UNCHANGED <<settings, index, lease, known, cli, faults>>

EditSettings ==
    /\ settings < MaxSettings
    /\ settings' = settings + 1
    /\ UNCHANGED <<tree, index, lease, known, proc, cli, faults>>

-----------------------------------------------------------------------------
(* Changing the index.                                                     *)

\* The writer's facade is the only one that is at its own commit.
Commit(p, rows) == index' = rows /\ known' = {p}

Released(p) == IF lease = p THEN Nobody ELSE lease

\* A pass that ends early has made some of its changes, if there were any.
Part(text, rules) ==
    IF index = [text |-> text, rules |-> rules] THEN index ELSE [text |-> Torn, rules |-> rules]

\* What a writer that dies inside a pass leaves: nothing, its commit, or
\* some of its rows.
Interrupted(p, at, text, rules) ==
    \/ index' = index /\ known' = known \ {p}
    \/ /\ at \in Passes
       /\ index' \in {[text |-> text, rules |-> rules], Part(text, rules)}
       /\ known' = {}

-----------------------------------------------------------------------------
(* The processes a router starts and ends.                                 *)

Spawn(c) ==
    /\ At(c, {"none"})
    /\ proc' = [proc EXCEPT ![c] = [Fresh EXCEPT !.at = "booting"]]
    /\ UNCHANGED <<world, index, lease, known, cli>>

\* Its standard input is closed.
Hangup(c) ==
    /\ Alive(c) /\ ~proc[c].stop
    /\ proc' = [proc EXCEPT ![c].stop = TRUE]
    /\ UNCHANGED <<world, index, lease, known, cli>>

\* A killed process releases the lease with its file handle.
Dies(c, at) ==
    /\ Alive(c)
    /\ Interrupted(c, proc[c].at, proc[c].read, proc[c].conf)
    /\ lease' = Released(c)
    /\ proc' = [proc EXCEPT ![c] = [Fresh EXCEPT !.at = at]]
    /\ UNCHANGED <<world, cli>>

Buried(c) ==
    /\ At(c, {"gone"})
    /\ proc' = [proc EXCEPT ![c] = Fresh]
    /\ UNCHANGED <<world, index, lease, known, cli>>

-----------------------------------------------------------------------------
(* A reader process.                                                       *)

Goes(c, at) == proc' = [proc EXCEPT ![c].at = at]
Done(c, at) == proc' = [proc EXCEPT ![c].at = at, ![c].read = 0]

Gone(c) ==
    /\ proc' = [proc EXCEPT ![c] = [Fresh EXCEPT !.at = "gone"]]
    /\ known' = known \ {c} /\ lease' = Released(c)

\* A reader never makes an index: without one it ends.
Boot(c) ==
    /\ At(c, {"booting"})
    /\ \/ /\ index \in Rows
          /\ proc' = [proc EXCEPT ![c].at = "loaded", ![c].conf = settings]
          /\ known' = known \cup {c}
          /\ UNCHANGED lease
       \/ index \notin Rows /\ Gone(c)
    /\ UNCHANGED <<world, index, cli, faults>>

\* The stamp of the settings is taken after the settings were read.
BeginLive(c) ==
    /\ At(c, {"loaded"})
    /\ proc' = [proc EXCEPT ![c].at = "waiting", ![c].initial = settings]
    /\ UNCHANGED <<world, index, lease, known, cli, faults>>

\* The live task is over: the reader says that it is unavailable.
LiveFails(c) ==
    /\ proc' = [proc EXCEPT ![c] = [Fresh EXCEPT !.at = "failed", !.conf = proc[c].conf,
                                                 !.stop = proc[c].stop]]
    /\ lease' = Released(c)
    /\ UNCHANGED <<world, cli>>

ContextFails(c) ==
    /\ At(c, {"waiting", "elected", "prepared"}) /\ ~proc[c].stop
    /\ ContextChanged(c)
    /\ LiveFails(c)
    /\ UNCHANGED <<index, known, faults>>

\* Mutant: a reader that was elected goes on with the index it has open.
ElectWithoutRefresh(c) ==
    /\ At(c, {"waiting"}) /\ ~proc[c].stop /\ ~ContextChanged(c)
    /\ lease = Nobody /\ lease' = c
    /\ Goes(c, "elected")
    /\ UNCHANGED <<world, index, known, cli, faults>>

\* A tick: with the lease in other hands, the reader follows.  The elected
\* opens the index again, strictly after the election, when nobody else writes.
Elect(c) ==
    /\ At(c, {"waiting"}) /\ ~proc[c].stop /\ ~ContextChanged(c)
    /\ lease = Nobody /\ lease' = c
    /\ known' = known \cup {c}
    /\ Goes(c, "elected")
    /\ UNCHANGED <<world, index, cli, faults>>

\* A catch-up reads the tree; one that was asked to stop does nothing.
ScanBegins(c) ==
    /\ At(c, {"elected", "prepared"})
    /\ \/ /\ ~proc[c].stop /\ ~ContextChanged(c)
          /\ proc' = [proc EXCEPT ![c].read = tree,
                                  ![c].at = IF @ = "elected" THEN "scanning" ELSE "rescanning"]
       \/ /\ proc[c].stop
          /\ Goes(c, IF At(c, {"elected"}) THEN "prepared" ELSE "watching")
    /\ UNCHANGED <<world, index, lease, known, cli, faults>>

\* Asked to stop between two roots, it commits what it has.  The first one is
\* followed by the installation of the watches.
ScanCommits(c) ==
    /\ At(c, {"scanning", "rescanning"})
    /\ \/ Commit(c, [text |-> proc[c].read, rules |-> proc[c].conf])
       \/ proc[c].stop /\ Commit(c, Part(proc[c].read, proc[c].conf))
    /\ Done(c, IF At(c, {"scanning"}) THEN "prepared" ELSE "watching")
    /\ UNCHANGED <<world, lease, cli, faults>>

\* Opening the index, a pass or a watch fails.
WriterFails(c) ==
    /\ At(c, {"elected", "scanning", "prepared", "rescanning"})
    /\ Fault("live")
    /\ Interrupted(c, proc[c].at, proc[c].read, proc[c].conf)
    /\ LiveFails(c)

\* The watcher takes what has changed and then reads the tree.
HandleBegins(c) ==
    /\ At(c, {"watching"}) /\ proc[c].dirty
    /\ proc' = [proc EXCEPT ![c].dirty = FALSE, ![c].read = tree, ![c].at = "handling"]
    /\ UNCHANGED <<world, index, lease, known, cli, faults>>

HandleCommits(c) ==
    /\ At(c, {"handling"})
    /\ Commit(c, [text |-> proc[c].read, rules |-> proc[c].conf])
    /\ Done(c, "watching")
    /\ UNCHANGED <<world, lease, cli, faults>>

\* Told to stop, or with other settings, the task ends the watch and waits for
\* it: it may own a write, or begin one more.  Only then the lease goes.
Leave(c) ==
    /\ At(c, {"watching"})
    /\ proc[c].stop \/ ContextChanged(c)
    /\ \/ proc[c].stop /\ Gone(c) /\ UNCHANGED <<world, cli>>
       \/ ~proc[c].stop /\ LiveFails(c) /\ UNCHANGED known
    /\ UNCHANGED <<index, faults>>

\* A process whose live task holds nothing ends with its connection.
Ends(c) ==
    /\ At(c, {"booting", "loaded", "waiting", "failed"}) /\ proc[c].stop
    /\ Gone(c)
    /\ UNCHANGED <<world, index, cli, faults>>

Runs(c) ==
    \/ Boot(c) \/ BeginLive(c) \/ ContextFails(c) \/ Elect(c)
    \/ ScanBegins(c) \/ ScanCommits(c)
    \/ HandleBegins(c) \/ HandleCommits(c) \/ Leave(c) \/ Ends(c)

-----------------------------------------------------------------------------
(* An explicit run.                                                        *)

\* Refused while there is another writer.
CliStarts ==
    /\ cli.at = "idle" /\ Fault("run")
    /\ lease = Nobody /\ lease' = Cli
    /\ index' = IF index = None THEN Partial ELSE index
    /\ known' = known \cup {Cli}
    /\ cli' = [at |-> "writing", conf |-> settings, read |-> tree]
    /\ UNCHANGED <<world, proc>>

CliCommits ==
    /\ cli.at = "writing"
    /\ index' = [text |-> cli.read, rules |-> cli.conf] /\ known' = {}
    /\ lease' = Released(Cli)
    /\ cli' = CliIdle
    /\ UNCHANGED <<world, proc, faults>>

CliDies ==
    /\ cli.at = "writing"
    /\ index' = IF index = Partial THEN Partial ELSE Part(cli.read, cli.conf)
    /\ known' = {}
    /\ lease' = Released(Cli)
    /\ cli' = CliIdle
    /\ UNCHANGED <<world, proc, faults>>

-----------------------------------------------------------------------------
(* What a router does to the index of a workspace that has none.           *)

TakeLease(r) ==
    /\ lease = Nobody /\ lease' = r
    /\ UNCHANGED <<world, index, known, proc, cli>>

DropLease(r) ==
    /\ lease = r /\ lease' = Nobody
    /\ UNCHANGED <<world, index, known, proc, cli>>

PublishFirst(r, text, rules) ==
    /\ lease = r /\ lease' = Nobody
    /\ index = None
    /\ index' = [text |-> text, rules |-> rules] /\ known' = {}
    /\ UNCHANGED <<world, proc, cli>>

-----------------------------------------------------------------------------

\* What a router may do at any time; faults are counted or not.
Routed ==
    /\ faults' \in 0..MaxFaults
    /\ \/ \E c \in Children : Spawn(c) \/ Hangup(c) \/ Dies(c, "gone") \/ Dies(c, "none") \/ Buried(c)
       \/ \E r \in Routers : \/ TakeLease(r) \/ DropLease(r)
                             \/ \E text \in 0..MaxEdits, rules \in Rules : PublishFirst(r, text, rules)
       \/ UNCHANGED <<world, index, lease, known, proc, cli>>

LiveNext ==
    \/ EditTree \/ EditSettings
    \/ \E c \in Children : Runs(c) \/ WriterFails(c)
    \/ CliStarts \/ CliCommits \/ CliDies
    \/ Routed

LiveSpec == LiveInit /\ [][LiveNext]_liveVars

-----------------------------------------------------------------------------
(* Properties.                                                             *)

\* Whoever may change the index has it open at its last commit: no writer
\* builds on rows that another has replaced since it loaded them, whatever the
\* order of elections, commits, kills, explicit runs and the end of a watch
\* that still owns a write.
WriterIsCurrent ==
    /\ \A c \in Children : At(c, Writing) => c \in known
    /\ cli.at = "writing" => Cli \in known

\* What a reader reports as watched is current: unless a change is waiting to
\* be handled, the rows are those of the tree as it is, under the settings the
\* reader was configured with.  The changes in question are those between a
\* scan and the installation of the watches, and those of other writers.
WatchingIsCurrent ==
    \A c \in Children :
        At(c, {"watching"}) /\ ~proc[c].stop /\ ~proc[c].dirty =>
            index = [text |-> tree, rules |-> proc[c].conf]
=============================================================================
