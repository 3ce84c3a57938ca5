# Codanna in TLA+

Codanna (Rust, `src/src`) indexes source trees and documents and serves agents over MCP. This
directory models the parts of it whose correctness depends on order, failure and concurrency:
the code index that is rebuilt piece by piece, the vectors saved beside it, the document index
and its generations, the watcher that decides when to rebuild either, and the processes that
serve a workspace to several connections. Each module is
translated from the source; `PROJECT.json` (`map`) names the lines behind every definition.

## The system

| component | state it keeps | operations | what is hard about it |
| --- | --- | --- | --- |
| semantic vector store (`semantic/journal.rs`, `simple.rs`) | vectors per symbol in memory, dirty ids, revision; on disk immutable checkpoints and deltas under one manifest | load, insert, remove, bind provenance, prepare a save, run it | saves overlap, several processes share the directory, every file operation may be the last before a crash or a loss of power |
| indexing pipeline (`indexing/pipeline`, `indexing/facade.rs`) | registrations, symbols, relationships, `pending_resolution` records, counters in Tantivy; a run's `PendingResolution` in memory | discover, cleanup of deleted, renamed and modified files, Phase 1, importer invalidation, reparse, Phase 2, rebinding | a run is many commits; what one commit removes another restores; editors change files between any two |
| code watcher (`watcher`) | native queue, overflow flag, debouncer, watched directories, registry, a retained wave | receive an event, drain settled changes, run a wave, retry, reconcile, re-derive watches | one task decides from what it read several awaits ago; queue at its limit; every failure must leave a trace |
| document store (`documents`) | collections, file states, chunk ids, generations, vector segments | index, drift check, delete, publish, collect | generations, two file locks, readers beside writers |
| document and configuration watching (`watcher/config_reload.rs`, `handlers`) | collections due, deadlines, backoff, a staged settings proposal | record, flush, retry, accept or cancel a proposal | newer work and newer settings arrive during a scan |
| workspace supervisor (`cli/workspace/mcp`, `storage/write_lease.rs`) | the code write lease; per router slots, loads, permits, tasks; per reader process its settings, its stamp, its watch | elect, catch up, watch, drain; query, load, reuse, refresh, evict, publish a first index, shut down | several processes over one index; every step may be cut by a timeout, a closed connection or a change of settings, and children and blocking closures outlive their callers |
| MCP server and sessions (`mcp`) | sessions, requests in flight, subscriptions | register, close, dispatch, notify, force reindex | closing races registration; a slow receiver lags |
| runtime (`runtime.rs`) | a pool of blocking permits, one mutation gate per facade | read, mutate | cancelled callers leave their work running |
| hot reload (`watcher/hot_reload.rs`) | last seen modification times | poll, reload | sees another process's publication half done |
| parsers, project resolution, retrieval, embedding, knowledge, profiles, plugins, configuration, command line | caches and files | mostly pure functions or run by hand | data, not order |

How they meet: the watcher calls the pipeline through the facade under the mutation gate; the
pipeline writes Tantivy and, at its end, lets the semantic owner save; a save, a request or a
reload sends a broadcast that the watcher hears and answers by deriving its watches again; other
processes see only the files.

What makes each right: no committed state is unreadable or half replaced (stores); no stored
relationship dangles and no lost relationship is forgotten (pipeline); every change of the tree
is on its way into the index until it is there (watcher); a reader never loses the generation it
reads (stores); what was acknowledged survives (stores); whoever writes does so alone and on
current rows, and a reader that claims to be fresh is (supervisor); nothing waits forever.

## Modules

| module | role |
| --- | --- |
| `SemanticJournal` | the vector store: owners, saves, locks, files, crashes, power loss |
| `SnapshotStore` | what the journal promises: one durable value, replaced whole, by writers that know what they replace |
| `IncrementalIndex` | the pipeline: one action per commit, editors, failures |
| `CodeWatcher` | the watcher's code lane over an abstract pipeline |
| `DocumentGenerations` | the document store: transactions, chunk ids, generations, segments, two locks, recovery, settings reloads, crashes |
| `CommittedDocuments` | what the document store promises: one committed set of chunks, replaced whole, by stores that have seen the newest |
| `DocumentReaders` | `DocumentGenerations` beside literal readers, which take no lock |
| `DocumentReconciliations` | the watcher's document and settings lane over an abstract document store |
| `LiveWorkspace` | the reader processes of one workspace: lease, election, catch-up, watch; explicit runs |
| `WorkspaceReaders` | the routers over them: slots, loads, snapshots, permits, first index, eviction, shutdown |
| `MC…` and their `.cfg` | small instances |
| `…Proofs` | theorems and their proofs |

`CodeWatcher` composes with `IncrementalIndex` by abstraction: a run of the pipeline is one step
there that sets the rows of some files and either resolves them or leaves obligations
(`index`, `owed`), which is what `IncrementalIndex` establishes of its inside (obligations
outlive failures, a successful unbounded run drains them). `DocumentReconciliations` composes
with `DocumentGenerations` the same way: a scan is one step that replaces the rows of a
collection, fails without a trace, or leaves them committed and not adopted (`ahead`), which are
the three outcomes `DocumentGenerations` has of a transaction (`idle`, a failed transaction that
recovered, `unrecovered`). In `LiveWorkspace` a pass of the pipeline is two steps, the tree read
and the rows committed, or leaves torn rows behind, and what the code watcher promises is the
flag `dirty`. `WorkspaceReaders` EXTENDS `LiveWorkspace`: its steps are those of the readers, or
steps of a router that `LiveWorkspace!Routed` allows, which the proofs show
(`ReadersImplementLive`). `DocumentReaders` EXTENDS `DocumentGenerations` and adds processes
that share its disk.

### SemanticJournal

`status`, `mem`, `pending`, `tracker` are an owner's fields (`tracker` is `Persistence`:
`dirty`, `saved`, `revision`, `committed`); `lane` is its I/O mutex; `writer` and `readers` hold
`.semantic.lock`. `artifact` are the `gen-*` files, `synced` those whose directory entry has been
synced, `manifest` is `metadata.json` as processes see it and `durable` as a power loss would
leave it. A save is a program counter: prepared, rebased, locked, writing, written, staged,
renamed, published, released; `journal::save` returns an error from any of them (`Fail`). `Crash`
kills one process, `PowerLoss` all of them and the entries that were never synced.

### IncrementalIndex

A file's content is what the pipeline takes from it: the names it declares, the names it uses
and the files it imports. `row`, `edges`, `queue` and `counter` are committed; `todo`, `work`
and `mem` are locals of the run and go with it (`RunFails`). Each action ends in at most one
Tantivy commit. `Target` keeps of `disambiguate` that an import outranks a namesake and that two
candidates with the same evidence leave the reference unresolved. A batch is committed file by
file, which has every state a larger batch has and more.

### CodeWatcher

`events`/`overflow` are the bounded channel and its flag, `modified`/`removed`/`quiet` the
debouncer (time is the event that a pending path's window has passed, `Settle`), `watched` the
directories with a living native watch, `registry` what the watcher believes about that,
`retained` the wave in `DeferredCodeState` with the rows it was prepared from, and `lane` the
place of the watcher's task between two awaits. Editors and native callbacks run between any two
of its steps. A native event is sent only for a directory with a watch, and a deleted directory
takes its watch with it.

### DocumentGenerations

`docs` and `payload` are what Tantivy's last commit holds, its chunks and its payload, and change
together; `generations` and `segments` are the files beside it, `reserved` is
`next-chunk-id.json`. `genLock` and `pubLock` are `generation.lock` (one transaction at a time)
and `publication.lock` (an opening store against a publication). `store` is what a process
answers from: file states and vectors of one generation (`files`, `vectors`), the Tantivy view it
pinned (`view`), and the ids it may still hand out (`next`, `end`). `work` is a transaction:
staged documents, vectors and the segments it will name. `checkpoint` is what
`with_committed_generation` keeps to put back if new settings are refused.

The places of `pc` follow the code from lock to lock: `Begin` (or `RefuseStale`), `IndexFile` and
`RemoveFile` in any order, `LockToPublish`, `PublishVectors`, `PrepareGeneration`,
`CommitMetadata`, `Adopt`, `MirrorState`, `End`. `StepFails` is an error at any of them,
`CommitReportsError` a commit that took place and says it did not, and each error goes through
`Rollback` and `Recover`. `Crash` closes a store and leaves its files.

A file is one chunk, all stores embed with one model, names come from a counter (in the code a
random suffix), and a collection of obsolete files is atomic: it deletes only names that nothing
committed has.

### DocumentReconciliations

`events`/`overflow`, `watched`, `registered` and `roots` are the same channel, native watches,
path registry and handler roots as the code lane's; `debounced` is the settings file in the
debouncer; `proposal` is `pending_config`; `pending` is `document_reconciliations`, each with its
`refresh` flag, its deadline being the action `CollectionDue`; `batch` is what a tick has taken
out. A tick is `TakeOverflow` or `StartTick` and then the stages of `lane` in the order
`process_tick` awaits them: changes, settings, documents. `Apply` and `ApplyFails` are
`apply_config_proposal`: watches first, then the store's generation, then handlers and policy; a
failure puts back each of them except a generation that was committed and not adopted.
Receiving and ticking are branches of one `select!`, so nothing is received inside a tick;
editors run between any two steps.

### LiveWorkspace and WorkspaceReaders

`tree` and `settings` count the changes of the sources and of `settings.toml`, so that a stamp of
either is its number; `index` is the tree and the settings its rows are those of, or none, one
without `index.meta` (`Partial`), or rows of an interrupted pass (`Torn`). `lease` is the file
lock of `write_lease.rs`, which goes with its holder's process. `known` says who has the index
open at its last commit. `proc` is a reader process: where its live task is between two awaits,
the settings it was configured with (`conf`), its first stamp (`initial`), the tree its pass has
read, whether its watch has something to do (`dirty`), and whether its standard input is closed.
The places follow `live.rs`: `Boot`, `BeginLive`, `Elect` (or follow), `ScanBegins` and
`ScanCommits` twice, with the watches installed between (`prepared`), then `HandleBegins` and
`HandleCommits` until `Leave`, which waits for the watch; `LiveFails` is the task's error, after
which the process still answers. `CliStarts` to `CliDies` are an explicit `codanna index`.

Per router, `slot` is the reader that is ready, `load` the task behind it, `query` a call that
pins a reader, `permits` the semaphore of `MAX_WORKERS`, `tasks` and `taken` the list of tasks
and what shutdown has taken out of it, `job` a first index in the making. `Ask` is `subscribe`,
`Plan` to `Abandon` are `load` with `bootstrap::ensure` and `Budget::run`, `Close`, `Killed` and
`Reap` the task that keeps a reader's permit, `Evict` is `prune_idle`, and `Shutdown`,
`TakeAgain` and `Stopped` the loop of `shutdown`. A publication whose caller has given up
(`Abandon`) goes on as `job` and keeps the lease.

## Runs

| run | bounds | what it shows |
| --- | --- | --- |
| `semantic_writers` | 2 owners, 2 saves, 1 id, `MaxDeltaIds` 0, 1 revision, 2 files | saves of one owner and of two contend for lanes and for the file lock with loaders and compactions: loaders keep their generation, a dirty set above the limit compacts, every save ends |
| `semantic_deltas` | 2 owners, 2 saves, 1 id, `MaxDeltas` 1, 2 revisions, 3 files, versions 3 and 5; while both owners are up, one change each, in version 3 and without deltas | older saves never replace newer ones, foreign publications are not overwritten, no change made during a save is forgotten, a chain at its limit compacts, every interrupted state loads and replays to what was saved, what was acknowledged survives power loss; the journal implements `SnapshotStore` |
| `semantic_provenance_lost` | violation | see Findings |
| `index_edits` | 3 files in 2 roots, 2 edits, 2 faults, 1 run over selected files; a run that one root fails is given up | damage is always owed; the graph converges |
| `index_deletes` | 3 edits with deletions and restored files, 1 fault, after which the other roots go on | no dangling, no doubled relationship; a full run drains the queue |
| `index_deletion_crash` | violation | see Findings |
| `watcher_edits` | 2 files, queue of 1, threshold 2, 4 edits, 2 faults, 1 client request | no change is lost |
| `watcher_directories` | 1 subdirectory, queue of 2, 4 edits, 1 fault | no change, obligation or watch is lost; a retained wave belongs to the rows in the index; the index converges |
| `documents_generations` | 2 stores, 2 documents, 1 text, 2 ids in blocks of 1, compaction at the second segment, 2 transactions, 2 faults | whatever fails or dies, the committed generation loads and can be searched, answers are of one generation, the store implements `CommittedDocuments`, every operation ends |
| `documents_literal_reader` | violation: 1 store, 1 document, 1 reader, 2 transactions | see Findings |
| `documents_reconciled` | 2 collections, 3 policies and unusable and refused settings, queue of 2, 3 edits, 2 faults | no document, watch or settings edit is lost, newer settings win, nothing is indexed under settings that no longer run; everything converges |
| `workspace_readers` | 1 connection, 2 processes, 1 edit, 1 change of settings, 1 failure or explicit run | writers are alone and current, a reader that watches or that its router would use again answers from the present tree, capacity bounds processes, a query keeps its reader, shutdown ends and leaves nothing behind, the index converges |

Why the bounds are enough for what is asked: a save needs a second one, of its
owner for the lane and of another for the file lock, an older and a newer revision, and a
checkpoint, a delta that fills the chain and a third file that compacts both (`MaxDeltas` is 1).
`MaxDeltaIds` is 0 in `semantic_writers`, so that every save is above it and must compact. A
relationship needs a caller, its target and a second candidate, and damage needs an edit, a
failure during its run and a failure during the next; an event can overflow as soon as the queue
can be full, and 2 stands for the burst threshold of 32. A document transaction needs
a second store that publishes between, an id block that runs out, the last id, a segment to
compact away, and an error during the recovery from an error: two faults, one of which may be a
crash. A document scan needs a collection that stays, one that appears and goes with the
settings, a policy that changes settings in place, and a failure of the retry.
A reader needs an edit between its scan and its watch, a change of settings between the router's
snapshot and its own stamp, a second process while the first is still draining, and one other
writer, which is a failure or an explicit run.
What the bounds leave out: two connections to one workspace, of which `workspace_readers` has
the effect on the lease only by the reader that is replaced while it drains and the explicit run
(what the theorems say of them holds for any number), three processes on one directory, more than one subdirectory (so the
rest of a batch behind a path that cannot be watched is empty; with two it violates
`EveryDirectoryIsWatched`, see Findings), chains of more than three edits
of one file. With one text a document differs from its past by its chunk id only, which is what
the properties of `DocumentGenerations` tell apart. `documents_reconciled` has also been run
with 4 edits for its safety properties (5.7 million states, no error), which takes too long to
keep.

Two devices keep `semantic_deltas` small. The constraint `SmallShared` gives all of the bounds to
one process at a time, after any number of restarts and with whatever the other has left on disk,
and while two are up leaves each one change in version 3 and no delta on disk. The view
leaves out files that nothing names and the fields of a save that no later step and no property
reads, so two states that it identifies have the same continuations. Its six properties are
safety properties, for which this, the constraint and the symmetry of owners, saves, ids and
vectors lose no violation within the bounds; `semantic_writers`, which has a liveness property,
uses none of the three. A replay over more than one delta, a chain of several deltas and deltas
while two owners are up are in the theorems (`CleanVectorsAreStored`, `CommittedStateLoads`,
`JournalImplementsStore`) and in no run.

`IncrementalIndex` has two kinds of callers, and `KeepGoing` says whether those are there that note
the error of a root and resolve what the others have done (the watcher's and the server's loops
over `index_directory_deferred`). `index_deletes` has them. `index_edits` has not, as one of
them can forget damage (Findings), and leaves deletions out for the same reason.

`CHECK_DEADLOCK FALSE` where edits, faults and files are bounded: with nothing left to do the
models stop.

`watcher_directories` is checked under an assumption on the environment: `Unsettled = {}` says
that a directory which is not watched yet is neither written into, nor removed, nor created
again before its removal is processed. The constant names the three things editors may do;
each of them breaks the run (Findings). `EveryChangeIsPending` leaves out the files in
`forgotten`, whose single-file run failed (Findings). `documents_reconciled` assumes
`Unsettled = FALSE`: the directory of a collection comes or goes only while no settings change
is under way, and settings change only while every root is watched; and it leaves the fault
`"strand"` out. Both are in Findings.

Fairness. A prepared save's steps are weakly fair, and the two locks it waits for strongly fair,
as they are released again and again (the model assumes the operating system's `flock` and the
`Mutex` starve nobody). A load ends. A run of the pipeline that has started goes on or returns
the error it met, and the index is run again from time to time (the watcher, the next start).
The watcher's task is weakly fair as a whole, since its `select!` is fair and nothing it awaits
is held forever, and time passes for every pending path. In the document store a started
operation goes on and both file locks are strongly fair. In the document lane `Receive` and
`HearReload` are strongly fair branches of the `select!`, a tick that began ends, and time passes
for the debounced settings file and for the deadlines. In the workspace every reader process,
load, publication and exit is weakly fair, as each waits only for the lease, a permit or its own
time limit, and clients keep asking; a pinned query is answered, cancelled or timed out. No
fault, edit or request is fair.

## Findings

Three runs violate something the repository says:

- `semantic_provenance_lost`: `bind_code_generation` (`semantic/simple.rs:823`) does not mark
  what it binds as dirty, so a save that comes first makes the provenance be forgotten.
- `index_deletion_crash`: the cleanup of deleted files (`incremental.rs:712`) commits without
  publishing obligations for importers and callers; a run that stops then forgets them.
- `documents_literal_reader`: `open_literal_reader` (`documents/store.rs:514`) reads the commit
  payload and opens the index afterwards, without either lock; a commit between the two makes it
  return chunks of one generation under the name of another.

Others show when a constant is changed, and are listed as hazards with a note:

- Restored files (set `Restores = TRUE`, `MaxFaults = 0` in `MCIncrementalIndexDeletionCrash.cfg`):
  a queued path that is absent when the queue is drained counts as completed, and restored
  unchanged it is never resolved (`incremental.rs:949`).
- A root's error (set `KeepGoing = TRUE`, `Deletes = FALSE`, `MaxSelects = 0` and
  `Writable <- MCMovingWritable` in `MCIncrementalIndexDeletionCrash.cfg`): a caller whose edge the
  cleanup of one root captured is parsed again in the next root, and that root's Phase 1 fails
  afterwards. The watcher notes the error and resolves (`unified.rs:1109`). The captured edge has a
  dead source and is dropped, the outputs of the failed root are gone, and
  the caller's obligation is cleared as that of a rebound source (`incremental.rs:1048-1054`): its
  references stay unresolved, and no later scan sees a change. The comment there says that
  "Clearing follows successful relationship and embedding commits". TLC finds it in 17 steps.
- `Unsettled = {"write"}` in `MCCodeWatcherDirectories.cfg`: `handle_created_directory` walks a new
  directory before it watches it (`unified.rs:697`), and a file that lands between is never indexed,
  although the comment at `unified.rs:513-514` says that such files are caught up.
- `Unsettled = {"recreate"}`: a directory removed and created again keeps its registry entry and
  never gets a new watch (`unified.rs:714`).
- `Unsettled = {"remove"}`: a directory indexed by another wave before its own event, and then
  removed, leaves its rows (`unified.rs:425`).
- A second subdirectory in `MCCodeWatcherDirectories.cfg` (with `Unsettled = {}`): a directory
  without rows drops out of the registry when it is derived again, and goes before the watches are
  installed; `watch_directories` returns at the watch that fails (`unified.rs:372-381`), and a new
  directory behind it stays in the registry (`unified.rs:659-664`) without ever being watched. TLC
  finds it in 13 steps.
- `forgotten = {}` as an invariant of `watcher_edits`: the error of a single-file reindex is
  logged and the change forgotten (`unified.rs:945`).
- `Unsettled = TRUE` in `MCDocumentReconciliations.cfg`: a root that is removed and created again
  while settings are applied is scanned without a new watch, although
  `DOCUMENT-WATCHER-BATCHING.md:39-41` promises it one (`config_reload.rs:358`).
- `"strand"` in its `FaultKinds`: a store that committed a scan and could not adopt it refuses
  every later scan as stale (`store.rs:2121`), and only the settings path refreshes it
  (`config_reload.rs:305`).
- `MaxRequests = 1` with a retained wave: a client's force-reindex changes the rows the wave was
  prepared from (`mcp/server.rs:351`); with a subdirectory it can also write rows for a
  directory that goes while the registry is rebuilt.
- `WorkspaceReaders!Converges` without its disjunct on `"failed"`: a reader whose live task failed
  once says it is unavailable, and its router uses it again as long as the settings stay
  (`workers.rs:410`), so that nobody indexes the next edit until it is evicted.

The store of `overflow` on the failing path of `flush_deferred_code` is redundant in the model:
wherever a wave is retained, `overflow` has been set before.

## Proofs

All for every value of the constants that meets the assumptions of the module.

| theorem | from |
| --- | --- |
| `SemanticJournalProofs!TypeCorrectness`, `ManifestsNeverDangle`, `LoadersAreSafe` | `IInv == TypeOK /\ Locks /\ Versions /\ Files` |
| `NoStaleOverwrites`, `NoForeignOverwrites` | the same invariant, by cases on the publishing step |
| `CommittedStateLoads`, `CleanVectorsAreStored`, `AcknowledgedSavesAreDurable` | `SavedInv`: `IInv` and `Marks`, `Ages`, `Forms`, `Snapshots`, `Stored`, `Soundness` |
| `JournalImplementsStore` | `SavedInv` and `Lanes`; one lemma per kind of step |
| `IncrementalIndexProofs!TypeCorrectness`, `GraphNeverDangles` | `IInv == TypeOK /\ Graph /\ CapturesTrue /\ RowsMade` |
| `ReferencesHaveOneTarget` | `IInv` and `SingleInv` |
| `QueueDrains` | `IInv` and `Accounted` |
| `IncrementalDamageProofs!DamageIsAlwaysOwed` | `IInv`, `SingleInv` and `DamageInv`; assumes `Steady`: `~Deletes /\ ~KeepGoing` |
| `CodeWatcherProofs!TypeCorrectness` | `TypeOK` is inductive |
| `WavesMatchRows` | `TypeOK`; assumes `MaxRequests = 0` |
| `ObligationsAreFollowedUp` | `TypeOK`; assumes no `"file"` and no `"request"` fault |
| `NoChangeIsLost` | `TypeOK /\ TreeInv`; assumes `Orderly`: `Unsettled = {}`, and no requests or no subdirectory |
| `NoDirectoryIsForgotten` | `TypeOK /\ DirectoryInv`; assumes `OneDirectory`: `Unsettled = {}`, and one subdirectory at most |
| `DocumentGenerationsProofs!TypeCorrectness` | `TypeOK` is inductive |
| `CommittedAlwaysLoadable` | `Inv`: `TypeOK`, `CommittedIsLoadable`, `LocksHeld`, `NumbersOrdered`, `CollectorsCurrent`, `MemoriesKnown`, `WorkDescribed` |
| `CommittedAlwaysSearchable`, `AnswersAgree` | `Inv` and `AllSound`: `CommittedSound` and, per store, `MemorySound`, `CheckpointSound`, `ViewSound`, `StagedSound`, `WrittenSound` |
| `GenerationsImplementDocuments` | the same; one lemma per kind of step |
| `DocumentReconciliationsProofs!TypeCorrectness` | `TypeOK /\ StagesHandOver` |
| `NewerSettingsAlwaysWin`, `SettingsAreNeverLost` | the same and both properties, which are inductive together |
| `RetiredIsNeverIndexed` | `TypeOK /\ StagesHandOver` and the property |
| `NoDocumentIsForgotten`, `NoRootIsForgotten` | `RootsInv`; assumes `Separate`: `Unsettled = FALSE` and no `"strand"` fault |
| `LiveWorkspaceProofs!LiveInvariant`, `LiveWritersExclude`, `LiveWriterIsCurrent`, `LiveWatchingIsCurrent` | `LiveInv`: `TypeOKLive`, `Exclusive`, `WriterIsCurrent`, `ReadIsCurrent`, `WatchingIsCurrent` |
| `WorkspaceReadersProofs!ReadersImplementLive` | `LiveInv /\ ReadersInv`; `Spec => LiveSpec` |
| `TypeCorrectness`, `WritersAreCurrent`, `WatchersAreCurrent`, `FreshIsCurrent`, `CapacityBoundsProcesses`, `PinsHold`, `NothingIsLeft` | the same; all safety properties of `workspace_readers` |

Why more than the property is needed. A loader keeps its generation because a compaction holds
the lock exclusively: `Locks` says the writer and the readers exclude each other and who holds
the lane, `Versions` ties a save's base to its owner's saved manifest and the revisions of
prepared saves to it, and `Files` says that all a manifest or a job names exists and is synced
when it must be. The graph does not dangle because rebinding checks both ends: `CapturesTrue`
says that what a captured edge records was true of the id it names, and `RowsMade` that ids are
never reused, so a dead id stays dead. The queue drains because an unbounded run accounts for
every queued path before it clears (`Accounted`).

Damage is owed at every step because it is durable at every step: `DamageIsQueued` says that the
damaged file or one that it imports is queued, or is on disk without a row, and counts neither
memory nor a difference that an editor may take back. Every step but one keeps this by itself;
`ClearPending` removes obligations, and that it removes none that is needed is a fact about the
whole run. `TroubleIsFound` says what the run will find when it reads the queue: a file that is
damaged, or will be when its captured edges are rebound, has itself or an import among the changes
or in the queue, not counting what captures queued (rebinding ends their obligations, not damage).
`Invalidate` turns this into `TroubleIsHandled`: the file is being resolved, or waits for an unseen
file, or stays queued because the run is bounded. `Closed`, which `Reached` gives, says that whoever
imports what is reparsed is replaced too, so that the reparse troubles nobody else. Of the other
parts `FreshTrue` and `SourcesQueued` say to whom a capture's obligation belongs, `QueueRead` which
obligations are to be cleared, `ProcessedKept` and `VisitedOnce` that what a root has replaced is
not replaced again before it is resolved, `TreeKept` and `PlansSimple` what the hypothesis
excludes. Both halves of the hypothesis are needed (Findings).

The assumptions of the watcher's theorems are behaviours listed under Findings. A change is not
lost because whatever differs from its row has a trace: `Followed` names it for each file (an
event, a pending path, a place in the lane's hands, or the loss of events that brings a scan). The
trace of a directory that has gone stands for its files only while the watcher still takes the
path for a directory, and that is what the rest of `TreeInv` is for: `WatchedAreRegistered`, but
while the registry is derived again, and `RowsAreRegistered`, that the directory of a row is in
the registry or still has its first watch to come. `FilesHaveDirectories` is a fact about the
disk. A directory is on its way to a watch until it has one: `DirectoryInv` adds that what is in
the registry and on the disk is watched. With two subdirectories this is false (Findings), so the
hypothesis of `NoDirectoryIsForgotten` is what the code keeps, and not only what the proof needs.

What a save writes depends on what its owner believes to be on disk. `Marks` relates the
trackers of an owner to its saves (an owner without dirty ids has committed its revision, no save
is newer than its owner); `Ages` orders the artifacts: what is being built is newer than all that
any owner, save or crash can bring back; `Forms` says that the manifest being built is a
checkpoint or extends the very one on disk. With these, `Snapshots` says where the cells of a
save, of a later save and of the owner's memory agree, namely off the dirty ids, and `Stored`
that what a replay of the disk gives agrees with them there too. A delta is then right because
the ids it leaves out are right below it. `Soundness` is what a load checks, of both manifests a
loss of power may leave, the length of the chain included: `Forms` says that the manifest being
built is a checkpoint or extends a chain below the limit; that the count is kept follows from `Stored`, since the replay of a
finished build is the save's cells. No induction over a manifest's deltas is needed: a build
adds one delta at the end, and the last delta that has an id is found there or where it was.

`ImplementsStore` takes a manifest's vectors as the abstract value and leaves its provenance out.
A delta carries the provenance of its own ids only, while `persist_embeddings` binds that of
others without marking them (the cause of the first finding), so that with provenance a
publication of two ids may be one nobody offered. This shows with two ids, `MaxDeltas = 2` and
five revisions, which is beyond the bounds of the runs.

The committed generation stays loadable because whoever collects names the committed one.
`LocksHeld` says which places hold which lock, so that no two stores publish or collect at once.
`CollectorsCurrent` says that a store at a place from which it writes or collects has the
committed generation in memory. `MemoriesKnown` says that a memory with the committed number is
what the committed generation describes, and `WorkDescribed` that a transaction's staged
documents are those of its file states and that the files it is about to name are there.
`NumbersOrdered` says that what is committed was named by a transaction that has begun, so that
the name of the next one is new.

A search takes the first segment that has an id, so an answer is right only if no older segment
has it. `AllSound` says that ids grow: `Sound` that the vectors of a memory have ids below its
next one, `PublishedBelow` that this also holds of every chunk ever committed if the memory is of
the committed generation, and `StagedSound` that a transaction's ids are above all of these,
although another store may have reserved a block in between. `NamedUpTo` says the same of the
names of segments, so that what a transaction writes replaces nothing that is committed.
`ViewSound` ties the Tantivy view to the file states, except between the two reads of opening,
which the publication lock keeps together; `CheckpointSound` says that a reload goes back to a
generation older than the committed one, which a transaction then refuses as stale. Committed
ids are new by the same parts, which is the step of `GenerationsImplementDocuments` that is not
about locks.

A tick hands its work from stage to stage: `StagesHandOver` says what a place of the tick
implies of `proposal`, `proposed`, `batch` and `pending` (only an admissible proposal is applied;
a scan taken out of the queue has no newer work behind it), without which a step's guard says
nothing about the variable it overwrites. No document is forgotten because whoever may edit it is
watched or its root is due: `WatchesKnown` ties native watches, registry and running settings to
each other, up to the watches of the proposal being published, and `OneUnsettled` says that
missing watches and new settings are not both under way, which is what the hypothesis buys.

Readers write alone because the lease is their program counter (`Exclusive`), and a watching
reader is current because a pass that runs under the watch has read the present tree or knows
that it changed (`ReadIsCurrent`). `ReadersInv` has one part for each promise of a router:
`Capacity` that permits and owned processes add up to `MAX_WORKERS`, `Tasks` that every owned
process is in a list of tasks, or will be put there by a load that is itself in one, `Pins` that
whoever holds on to a reader is its own router and keeps it open, `Snaps` that a snapshot is
never newer than what its reader has read, nor that than the settings.

Only model-checked: `SavesEnd`, `OperationsEnd` and the four `Converges`, which are liveness. `TypeOK` of `SemanticJournal`,
`IncrementalIndex`, `DocumentReconciliations` and `WorkspaceReaders` is proved and in no run.

## Not modelled

Of the modelled components: force mode, project fingerprints, `remove_file`, the
`WriterUnavailable` retry inside a pipeline run, leftovers of a batch that failed while staged
in the writer, the warm symbol cache, the modification-time shortcut, overlapping roots,
symbol-level scoring; of the watcher ignore-file events, the removal of a whole root, several
code roots, recursive watches (macOS), rescan requests and errors of the native watcher, and a
lagging broadcast. Of the vector store: scoring and the embedding cache, whose save only logs.
Of the document store: the limit on segments and the refusal of a segment named twice when a
generation is read (`generation.rs:114-127`; `PublishVectors` keeps the list within `MaxSegments`
and names each segment once, as its number is new), the format without generations, which files a scan finds changed, spool
files, cluster data, the embedding cache, and the staging directory of a failed transaction
(dropped at its end). A transaction that gives up may leave reserved ids to another store; as
they were never committed, no committed id is used twice, which is what
`ImplementsCommittedDocuments` says. Of the document lane: nested and overlapping roots, ignore
files, the handler without configuration, what a reload does to code beyond asking for a
reconciliation, and a settings file that cannot be read once. Of the workspace supervisor: more
than one workspace and more than one slot, the limits on requests and on queries per reader,
workspaces with semantic search or without watching, ignore files and document revisions in the
snapshots, workspaces without source files, a plan of a first index that outlives its caller,
and an error of a running watch.

Three steps of the workspace are coarser than the code. `Watched` lets every edit after the
watches are installed reach the task. This is so with `indexed_paths = ["."]`, which automatic
setup writes; with an empty list the catch-up scans the root (`live.rs:254`) and the handler has
no root to detect a new file in. The losses of native watches that `CodeWatcher` and
`DocumentReconciliations` except (Findings) are not stated again there. `Ask` starts a load and
lists it in one step, and only while the router runs, where the code spawns it
(`workers.rs:267`), then takes the list of tasks and pushes it (`workers.rs:284`) without looking
at the stop; so no shutdown comes between the two. `Publish` compares the settings
(`bootstrap.rs:150`) and renames (`bootstrap.rs:186`) in one step; no property tells a change of
settings between the two from one just after.

Whole components: see `PROJECT.json`. Parsers, retrieval and embedding are functions on data
that TLC cannot enumerate; command line and formatting are input and output. Most of the
repository is of these kinds: the parsers of eighteen languages and the code that formats and
ranks results are more than two thirds of its lines, so the lines that the modules stand for
remain a small share of it.

## Plan

Done: `SemanticJournal`, `SnapshotStore`, `IncrementalIndex`, `CodeWatcher`,
`DocumentGenerations`, `CommittedDocuments`, `DocumentReaders`, `DocumentReconciliations`,
`LiveWorkspace`, `WorkspaceReaders`, with their theorems. Left, in this order:

1. `Sessions`: registration, closing, notifications.
2. Hot reload: a poll that sees another process's publication half done.
3. Proofs: damage with deletions, where only what a failed run forgets is excepted.

To make room, runs that ask similar questions of one module are merged as the modules grow.
