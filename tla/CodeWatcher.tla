----------------------------- MODULE CodeWatcher -----------------------------
(***************************************************************************)
(* How codanna's watcher keeps the code index in step with the source tree *)
(* (src/src/watcher/unified.rs): native notifications in a bounded queue,  *)
(* the debouncer, the set of watched directories, the drain that turns     *)
(* settled changes into single-file reindexing or whole-root waves, the    *)
(* retained resolution wave and the recovery from a full queue.            *)
(*                                                                         *)
(* The watcher is one task: its steps are the stretches between two awaits *)
(* at which what it decides can have been overtaken, and editors and       *)
(* native notifications run between any two of them.                       *)
(*                                                                         *)
(* Abstractions.  One code root, watched directory by directory, as on     *)
(* every backend without recursive watches; subdirectories are one level   *)
(* deep.  A run of the indexing pipeline is one step that leaves the rows  *)
(* of some files at what is on disk and either resolves them or leaves     *)
(* them as durable obligations; IncrementalIndex has its inside.  Time is  *)
(* the event that a debounce window or a retry delay has passed.           *)
(* Document and configuration handlers are left out.                       *)
(***************************************************************************)
EXTENDS Integers, Sequences, FiniteSets

CONSTANTS
    Files,          \* source paths of enabled languages
    Dirs,           \* subdirectories of the root that come and go
    Top,            \* the root itself, always there and always watched
    DirOf,          \* the directory a path lies in
    Versions,       \* contents a file may have
    Absent,         \* no such file, no such row
    NoWave,         \* no resolution wave is retained
    InitDisk,       \* the tree the watcher was prepared on
    QueueCap,       \* capacity of the native event queue, 256 in the code
    WaveThreshold,  \* BATCH_MODIFICATION_THRESHOLD, 32 in the code
    MaxEdits,       \* bound on changes of the source tree
    MaxFaults,      \* bound on failures
    MaxRequests,    \* bound on force-reindex requests of clients
    FaultKinds,     \* which steps may fail
    Unsettled       \* what may befall a directory that is not watched yet

Paths == Files \cup Dirs
Parents(contents) == {DirOf[f] : f \in {g \in Files : contents[g] # Absent}}
AllFaults == {"scan", "resolve", "writer", "save", "file", "walk", "request"}

ASSUME PathsAssumption ==
    /\ IsFiniteSet(Files) /\ IsFiniteSet(Dirs) /\ Files \cap Dirs = {}
    /\ Top \notin Files \cup Dirs
    /\ DirOf \in [Files -> Dirs \cup {Top}]
ASSUME VersionsAssumption == Absent \notin Versions
ASSUME NoWaveAssumption == NoWave \notin [Files -> Versions \cup {Absent}]
ASSUME DiskAssumption == InitDisk \in [Files -> Versions \cup {Absent}]
ASSUME BoundsAssumption ==
    /\ QueueCap \in Nat /\ WaveThreshold \in Nat \ {0}
    /\ MaxEdits \in Nat /\ MaxFaults \in Nat /\ MaxRequests \in Nat
ASSUME KindsAssumption ==
    FaultKinds \subseteq AllFaults /\ Unsettled \subseteq {"write", "remove", "recreate"}

VARIABLES
    disk,       \* the source tree
    present,    \* the subdirectories there are
    watched,    \* those with a live native watch
    registry,   \* PathRegistry.watch_dirs
    events,     \* the native event queue
    overflow,   \* event_overflowed
    modified,   \* Debouncer.pending
    removed,    \* Debouncer.pending_removals
    quiet,      \* pending paths whose debounce window has passed
    reload,     \* an IndexReloaded broadcast the watcher has yet to receive
    index,      \* the content each registered file was indexed with
    owed,       \* files with a durable resolution obligation
    retained,   \* DeferredCodeState.pending: the rows its symbol ids belong to
    lane,       \* where the watcher task is, and its locals
    history     \* edits, faults and requests so far, and what was forgotten since

tree == <<disk, present>>
watches == <<watched, registry>>
queue == <<events, overflow>>
debouncer == <<modified, removed, quiet>>
store == <<index, owed, retained>>
vars == <<disk, present, watched, registry, events, overflow, modified, removed, quiet,
          reload, index, owed, retained, lane, history>>

FilesIn(d) == {f \in Files : DirOf[f] = d}
Idle == [pc |-> "idle", dirs |-> {}, files |-> {}, after |-> "idle"]

\* A failure, and the paths whose change the code forgets because of it.
Fault(kind, lost) ==
    /\ kind \in FaultKinds /\ history.faults < MaxFaults
    /\ history' = [history EXCEPT !.faults = @ + 1, !.forgotten = @ \cup lost]

EventType == [path : Paths, kind : {"change", "remove"}]
Contents == [Files -> Versions \cup {Absent}]

TypeOK ==
    /\ disk \in Contents /\ present \in SUBSET Dirs
    /\ watched \in SUBSET present /\ registry \in SUBSET Dirs
    /\ events \in Seq(EventType) /\ Len(events) <= QueueCap
    /\ overflow \in BOOLEAN /\ reload \in BOOLEAN
    /\ modified \in SUBSET Files /\ removed \in SUBSET (Paths \ modified)
    /\ quiet \in SUBSET (modified \cup removed)
    /\ index \in Contents /\ owed \in SUBSET Files
    /\ retained \in Contents \cup {NoWave}
    /\ lane \in [pc : {"idle", "created", "sync", "reload", "policy", "install",
                       "dispatch", "files"},
                 dirs : SUBSET Dirs, files : SUBSET Files, after : {"idle", "dispatch"}]
    /\ history \in [edits : 0..MaxEdits, faults : 0..MaxFaults, requests : 0..MaxRequests,
                    forgotten : SUBSET Paths]

\* The watcher is prepared on a tree the index agrees with.
Init ==
    /\ disk = InitDisk /\ index = InitDisk
    /\ present = Parents(InitDisk) \ {Top}
    /\ watched = present /\ registry = present
    /\ events = <<>> /\ overflow = FALSE
    /\ modified = {} /\ removed = {} /\ quiet = {}
    /\ reload = FALSE /\ owed = {} /\ retained = NoWave
    /\ lane = Idle
    /\ history = [edits |-> 0, faults |-> 0, requests |-> 0, forgotten |-> {}]

-----------------------------------------------------------------------------
(* Editors and the native watch backend.                                   *)

\* The native callback never blocks: a full queue drops the event and asks for
\* a reconciliation with the file system.
Notify(p, kind) ==
    \/ /\ Len(events) < QueueCap
       /\ events' = Append(events, [path |-> p, kind |-> kind])
       /\ UNCHANGED overflow
    \/ /\ Len(events) >= QueueCap
       /\ overflow' = TRUE
       /\ UNCHANGED events

Edit(paths) ==
    /\ history.edits < MaxEdits
    /\ history' = [history EXCEPT !.edits = @ + 1, !.forgotten = @ \ paths]
    /\ UNCHANGED <<registry, debouncer, reload, store, lane>>

\* A file is created, rewritten or deleted.  Only the watch on its directory
\* can tell the watcher.
WriteFile(f) ==
    /\ Edit({f})
    /\ DirOf[f] \in present \cup {Top}
    /\ DirOf[f] \in watched \cup {Top} \/ "write" \in Unsettled
    /\ \E v \in (Versions \cup {Absent}) \ {disk[f]} :
          /\ disk' = [disk EXCEPT ![f] = v]
          /\ \/ /\ DirOf[f] \in watched \cup {Top}
                /\ Notify(f, IF v = Absent THEN "remove" ELSE "change")
             \/ /\ DirOf[f] \notin watched \cup {Top}
                /\ UNCHANGED queue
    /\ UNCHANGED <<present, watched>>

\* A directory is created or moved in, with whatever it holds.
MakeDirectory(d) ==
    /\ Edit({d} \cup FilesIn(d))
    /\ d \notin present
    /\ d \notin registry \/ "recreate" \in Unsettled
    /\ present' = present \cup {d}
    /\ \E moved \in [FilesIn(d) -> Versions \cup {Absent}] :
          disk' = [f \in Files |-> IF f \in FilesIn(d) THEN moved[f] ELSE disk[f]]
    /\ Notify(d, "change")
    /\ UNCHANGED watched

\* A directory goes, with the native watch on it: one event for the subtree.
RemoveDirectory(d) ==
    /\ Edit({d} \cup FilesIn(d))
    /\ d \in present
    /\ d \in watched \/ "remove" \in Unsettled
    /\ present' = present \ {d} /\ watched' = watched \ {d}
    /\ disk' = [f \in Files |-> IF f \in FilesIn(d) THEN Absent ELSE disk[f]]
    /\ Notify(d, "remove")

Environment ==
    \/ \E f \in Files : WriteFile(f)
    \/ \E d \in Dirs : MakeDirectory(d) \/ RemoveDirectory(d)

-----------------------------------------------------------------------------
(* Debouncing: the last observation of a path wins.                        *)

\* Mutant: a change does not cancel the pending removal of its path.
RecordKeepingRemoval(S) ==
    /\ modified' = modified \cup S /\ UNCHANGED removed
    /\ quiet' = quiet \ S

Record(S) ==
    /\ modified' = modified \cup S /\ removed' = removed \ S
    /\ quiet' = quiet \ S

RecordRemoval(S) ==
    /\ removed' = removed \cup S /\ modified' = modified \ S
    /\ quiet' = quiet \ S

\* A pending path has had no event for the debounce duration.
Settle(p) ==
    /\ p \in (modified \cup removed) \ quiet
    /\ quiet' = quiet \cup {p}
    /\ UNCHANGED <<tree, watches, queue, modified, removed, reload, store, lane, history>>

-----------------------------------------------------------------------------
(* Receiving an event.                                                     *)

Received(e) ==
    /\ lane.pc = "idle"
    /\ events # <<>> /\ e = Head(events)
    /\ events' = Tail(events)
    /\ UNCHANGED <<tree, watches, overflow, reload, store>>

\* Disk truth, not the event's kind, says that a directory appeared: its
\* subtree is walked now, its watch is installed later.
ReceiveDirectory(e) ==
    /\ Received(e)
    /\ e.path \in present
    /\ \/ /\ lane' = [Idle EXCEPT !.pc = "created", !.dirs = {e.path},
                                  !.files = {f \in FilesIn(e.path) : disk[f] # Absent}]
          /\ UNCHANGED history
       \/ Fault("walk", {e.path} \cup FilesIn(e.path)) /\ UNCHANGED lane
    /\ UNCHANGED debouncer

\* Mutant: asks the native watches, which died with the directory.
ReceiveVanishedIfWatched(e) ==
    /\ Received(e)
    /\ e.path \in Dirs \ present
    /\ \/ e.path \in watched /\ RecordRemoval({e.path})
       \/ e.path \notin watched /\ UNCHANGED debouncer
    /\ UNCHANGED <<lane, history>>

\* One observation stands for a whole vanished subtree, if the watcher knew it.
ReceiveVanished(e) ==
    /\ Received(e)
    /\ e.path \in Dirs \ present
    /\ \/ e.path \in registry /\ RecordRemoval({e.path})
       \/ e.path \notin registry /\ UNCHANGED debouncer
    /\ UNCHANGED <<lane, history>>

ReceiveFile(e) ==
    /\ Received(e)
    /\ e.path \in Files
    /\ \/ e.kind = "change" /\ Record({e.path})
       \/ e.kind = "remove" /\ RecordRemoval({e.path})
    /\ UNCHANGED <<lane, history>>

Receive == \E e \in EventType : ReceiveDirectory(e) \/ ReceiveVanished(e) \/ ReceiveFile(e)

\* Native watches are added one by one, in no particular order, until one fails
\* because its directory has gone.
Watch(S) ==
    \E installed \in SUBSET (S \cap present) :
        /\ S \subseteq present => installed = S
        /\ watched' = watched \cup installed

\* Mutant: registers the directories before it asks which of them are new.
FinishCreatedRegisteringFirst ==
    /\ lane.pc = "created"
    /\ registry' = registry \cup lane.dirs
    /\ Watch(lane.dirs \ registry')
    /\ Record(lane.files)
    /\ lane' = Idle
    /\ UNCHANGED <<tree, queue, reload, store, history>>

\* Only directories the registry does not know yet get a watch, and the
\* registry knows them whether or not the watch could be installed.
FinishCreated ==
    /\ lane.pc = "created"
    /\ registry' = registry \cup lane.dirs
    /\ Watch(lane.dirs \ registry)
    /\ Record(lane.files)
    /\ lane' = Idle
    /\ UNCHANGED <<tree, queue, reload, store, history>>

-----------------------------------------------------------------------------
(* Changing the index.                                                     *)

Indexed(S) == [f \in Files |-> IF f \in S THEN disk[f] ELSE index[f]]

\* The older wave is resolved before any Phase 1 work changes its symbol ids.
\* A writer that is busy elsewhere leaves it for a retry; any other error
\* drops it, and its durable obligations remain.
FlushFails(kind) ==
    /\ retained # NoWave
    /\ Fault(kind, {})
    /\ retained' = IF kind = "writer" THEN retained ELSE NoWave
    /\ overflow' = TRUE
    /\ UNCHANGED <<index, owed>>

\* What the flush of the older wave left to do.
Unresolved == IF retained = NoWave THEN owed ELSE {}

\* Mutant: only a failed scan asks for a reconciliation.
ScanFailsLoudly(changed, kind) ==
    /\ Fault(kind, {})
    /\ overflow' = (overflow \/ kind = "scan")
    /\ \E done \in SUBSET changed :
          /\ kind = "scan" \/ done = changed
          /\ index' = Indexed(done)
          /\ owed' = IF kind \in {"resolve", "writer"} THEN Unresolved \cup done ELSE {}
    /\ retained' = IF kind = "writer" THEN index' ELSE NoWave

SynchronizeFails(changed, kind) ==
    /\ Fault(kind, {})
    /\ overflow' = TRUE
    /\ \E done \in SUBSET changed :
          /\ kind = "scan" \/ done = changed
          /\ kind \in {"resolve", "writer"} => done \cup Unresolved # {}
          /\ index' = Indexed(done)
          /\ owed' = IF kind \in {"resolve", "writer"} THEN Unresolved \cup done ELSE {}
    /\ retained' = IF kind = "writer" THEN index' ELSE NoWave

\* Phase 1 over the files of a scope (every root, or none), then one resolution
\* for the whole wave.  Any failure asks for a reconciliation.
Synchronize(scope) ==
    LET changed == {f \in scope : index[f] # disk[f]} IN
    \/ /\ index' = Indexed(changed)
       /\ owed' = {} /\ retained' = NoWave
       /\ UNCHANGED <<overflow, history>>
    \/ \E kind \in {"writer", "resolve"} : FlushFails(kind) \/ SynchronizeFails(changed, kind)
    \/ scope # {} /\ SynchronizeFails(changed, "scan")
    \/ SynchronizeFails(changed, "save")

-----------------------------------------------------------------------------
(* The drain: one tick.                                                    *)

\* A retained wave is resolved, once its delay has passed, before anything else
\* of the tick is done.
RetryRetained ==
    /\ lane.pc = "idle" /\ retained # NoWave
    /\ Synchronize({})
    /\ UNCHANGED <<tree, watches, events, debouncer, reload, lane>>

\* The request for a reconciliation is taken before the file system is looked at.
TakeOverflow ==
    /\ lane.pc = "idle" /\ retained = NoWave
    /\ overflow
    /\ overflow' = FALSE
    /\ lane' = [Idle EXCEPT !.pc = "sync"]
    /\ UNCHANGED <<tree, watches, events, debouncer, reload, store, history>>

ReconcileRoots ==
    /\ lane.pc = "sync"
    /\ Synchronize(Files)
    /\ lane' = [Idle EXCEPT !.pc = "reload", !.after = "dispatch"]
    /\ UNCHANGED <<tree, watches, events, debouncer, reload>>

Dispatching ==
    \/ lane.pc = "dispatch"
    \/ lane.pc = "idle" /\ retained = NoWave /\ ~overflow

\* A wave takes its paths from the debouncer and scans the whole root; the
\* watcher hears its own broadcast later.
Wave(taken) ==
    /\ Synchronize(Files)
    /\ modified' = modified \ taken /\ removed' = removed \ taken /\ quiet' = quiet \ taken
    /\ reload' = TRUE
    /\ lane' = Idle
    /\ UNCHANGED <<tree, watches, events>>

\* With a removal pending, nothing is taken before the whole burst is quiet, so
\* that both sides of a rename are in one wave.
DispatchBurst ==
    /\ Dispatching
    /\ removed # {} /\ modified \cup removed \subseteq quiet
    /\ Wave(modified \cup removed)

Ready == IF removed = {} THEN modified \cap quiet ELSE {}
Vanished == {f \in Ready : disk[f] = Absent}

DispatchLargeBurst ==
    /\ Dispatching
    /\ Cardinality(Ready) >= WaveThreshold
    /\ Wave(Ready)

\* Mutant: the vanished paths wait as modifications.
DispatchRenameAgain ==
    /\ Dispatching
    /\ Cardinality(Ready) < WaveThreshold /\ Vanished # {}
    /\ quiet' = quiet \ Ready
    /\ lane' = Idle
    /\ UNCHANGED <<tree, watches, queue, modified, removed, reload, store, history>>

\* A small burst with a vanished path may be a rename: it waits once more, as
\* a removal.
DispatchRename ==
    /\ Dispatching
    /\ Cardinality(Ready) < WaveThreshold /\ Vanished # {}
    /\ removed' = Vanished /\ modified' = modified \ Vanished
    /\ quiet' = quiet \ Ready
    /\ lane' = Idle
    /\ UNCHANGED <<tree, watches, queue, reload, store, history>>

\* Mutant: draws every pending path and keeps the ready ones.
DispatchFilesDrainingAll ==
    /\ Dispatching
    /\ Ready # {} /\ Cardinality(Ready) < WaveThreshold /\ Vanished = {}
    /\ modified' = {} /\ quiet' = quiet \ Ready
    /\ lane' = [Idle EXCEPT !.pc = "files", !.files = Ready]
    /\ UNCHANGED <<tree, watches, queue, removed, reload, store, history>>

DispatchFiles ==
    /\ Dispatching
    /\ Ready # {} /\ Cardinality(Ready) < WaveThreshold /\ Vanished = {}
    /\ modified' = modified \ Ready /\ quiet' = quiet \ Ready
    /\ lane' = [Idle EXCEPT !.pc = "files", !.files = Ready]
    /\ UNCHANGED <<tree, watches, queue, removed, reload, store, history>>

\* Nothing of the burst is ready after a reconciliation.
EndTick ==
    /\ lane.pc = "dispatch"
    /\ Ready = {} /\ (removed = {} \/ ~(modified \cup removed \subseteq quiet))
    /\ lane' = Idle
    /\ UNCHANGED <<tree, watches, queue, debouncer, reload, store, history>>

Processed(f) ==
    /\ lane.pc = "files" /\ f \in lane.files
    /\ lane' = IF lane.files = {f} THEN Idle ELSE [lane EXCEPT !.files = @ \ {f}]
    /\ UNCHANGED <<tree, watches, events, debouncer, reload>>

\* The path has vanished since the drain: its removal is on the way.
SkipVanished(f) ==
    /\ Processed(f)
    /\ disk[f] = Absent
    /\ UNCHANGED <<overflow, store, history>>

\* No single-file mutation is accepted while a wave is retained.
RefuseFile(f) ==
    /\ Processed(f)
    /\ disk[f] # Absent /\ retained # NoWave
    /\ overflow' = TRUE
    /\ UNCHANGED <<store, history>>

\* Mutant: a single file is reindexed although a wave is retained.
ReindexWhileRetained(f) ==
    /\ Processed(f)
    /\ disk[f] # Absent
    /\ index' = Indexed({f}) /\ UNCHANGED owed
    /\ UNCHANGED <<overflow, retained, history>>

ReindexFile(f) ==
    /\ Processed(f)
    /\ disk[f] # Absent /\ retained = NoWave
    /\ index' = Indexed({f}) /\ owed' = {}
    /\ UNCHANGED <<overflow, retained, history>>

\* The error is logged, and that is all.
ReindexFails(f) ==
    /\ Processed(f)
    /\ disk[f] # Absent /\ retained = NoWave
    /\ Fault("file", {f})
    /\ \/ UNCHANGED <<index, owed>>
       \/ index' = Indexed({f}) /\ owed' = owed \cup {f}
    /\ UNCHANGED <<overflow, retained>>

ProcessFile == \E f \in Files : SkipVanished(f) \/ RefuseFile(f) \/ ReindexFile(f) \/ ReindexFails(f)

-----------------------------------------------------------------------------
(* After a reload: the watch set is derived again.                         *)

ReceiveReload ==
    /\ lane.pc = "idle" /\ reload
    /\ reload' = FALSE
    /\ lane' = [Idle EXCEPT !.pc = "reload"]
    /\ UNCHANGED <<tree, watches, queue, debouncer, store, history>>

\* The registry becomes the parents of the indexed files; those it did not
\* hold before get a watch.
RebuildRegistry ==
    /\ lane.pc = "reload"
    /\ registry' = Parents(index) \ {Top}
    /\ Watch(registry' \ registry)
    /\ lane' = [lane EXCEPT !.pc = "policy"]
    /\ UNCHANGED <<tree, queue, debouncer, reload, store, history>>

\* Directories that discovery would traverse are watched even when they hold no
\* indexed file.
WalkDirectories ==
    /\ lane.pc = "policy"
    /\ lane' = [lane EXCEPT !.pc = "install", !.dirs = present]
    /\ UNCHANGED <<tree, watches, queue, debouncer, reload, store, history>>

\* A reconciliation ends with the broadcast and goes on with the rest of its tick.
InstallWatches ==
    /\ lane.pc = "install"
    /\ registry' = registry \cup lane.dirs
    /\ Watch(lane.dirs \ registry)
    /\ lane' = [Idle EXCEPT !.pc = lane.after]
    /\ reload' = (reload \/ lane.after = "dispatch")
    /\ UNCHANGED <<tree, queue, debouncer, store, history>>

-----------------------------------------------------------------------------
(* A client's force-reindex request takes the same mutation gate, but does *)
(* not know of the watcher's retained wave.                                *)

ForceReindex(S) ==
    /\ history.requests < MaxRequests
    /\ \A f \in S : disk[f] # Absent
    /\ \/ /\ index' = Indexed(S) /\ owed' = owed \ S
          /\ history' = [history EXCEPT !.requests = @ + 1]
       \/ /\ "request" \in FaultKinds /\ history.faults < MaxFaults
          /\ history' = [history EXCEPT !.requests = @ + 1, !.faults = @ + 1]
          /\ \E done \in SUBSET S : index' = Indexed(done) /\ owed' = owed \cup done
    /\ UNCHANGED <<tree, watches, queue, debouncer, reload, retained, lane>>

-----------------------------------------------------------------------------

Watcher ==
    \/ Receive \/ FinishCreated
    \/ RetryRetained \/ TakeOverflow \/ ReconcileRoots
    \/ DispatchBurst \/ DispatchLargeBurst \/ DispatchRename \/ DispatchFiles \/ EndTick
    \/ ProcessFile
    \/ ReceiveReload \/ RebuildRegistry \/ WalkDirectories \/ InstallWatches

Next ==
    \/ Environment
    \/ \E p \in Paths : Settle(p)
    \/ Watcher
    \/ \E S \in SUBSET Files \ {{}} : ForceReindex(S)

Spec == Init /\ [][Next]_vars

\* Time passes, and the watcher task is scheduled: its select is fair, and no
\* step of it waits for anything but the mutation gate and a pool permit.
Fairness == WF_vars(Watcher) /\ \A p \in Paths : WF_vars(Settle(p))
FairSpec == Spec /\ Fairness

-----------------------------------------------------------------------------
(* Properties.                                                             *)

Announced(p) == \E i \in 1..Len(events) : events[i].path = p

\* What the watcher still has in hand for a file: an event, a pending change,
\* the file or its directory in the step under way, or a full scan to come.
Pending(f) ==
    \/ overflow \/ lane.pc = "sync"
    \/ Announced(f) \/ Announced(DirOf[f])
    \/ f \in modified \cup removed \/ DirOf[f] \in removed
    \/ lane.pc \in {"created", "files"} /\ f \in lane.files

\* No change is lost: a file that the index has at another content than the
\* disk is always on its way to being indexed, unless a failure that is only
\* logged was the last word on it.  Every drop, cancellation and other failure
\* between the native callback and the pipeline must leave a trace.
EveryChangeIsPending ==
    \A f \in Files \ history.forgotten : index[f] # disk[f] => Pending(f)

\* No resolution is lost: while files have durable obligations, a wave is
\* retained or a scan of every root, which resolves them, is to come.
EveryObligationIsPending == owed # {} => retained # NoWave \/ overflow \/ lane.pc = "sync"

\* The symbol ids of a retained wave are those of the rows it was prepared
\* from: nothing is reindexed before it is resolved.
RetainedWaveMatchesRows == retained # NoWave => retained = index

\* A directory that exists is watched, or the watcher is still going to watch
\* it: an unwatched directory makes every later edit below it invisible.
EveryDirectoryIsWatched ==
    \A d \in (present \ watched) \ history.forgotten :
        \/ overflow \/ reload \/ Announced(d)
        \/ lane.pc \in {"sync", "reload", "policy"}
        \/ lane.pc \in {"created", "install"} /\ d \in lane.dirs

\* When edits and failures end, the index agrees with the tree, but for what was
\* forgotten, and nothing is left to resolve.
Converges ==
    <>[](/\ \A f \in Files \ history.forgotten : index[f] = disk[f]
         /\ owed = {} /\ retained = NoWave)
=============================================================================
