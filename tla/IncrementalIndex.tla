-------------------------- MODULE IncrementalIndex --------------------------
(***************************************************************************)
(* How codanna keeps its code graph equal to the source tree: discovery,   *)
(* cleanup, Phase 1, importer invalidation, Phase 2, rebinding and the     *)
(* durable queue of resolution obligations (src/src/indexing/pipeline).    *)
(*                                                                         *)
(* One process holds the CodeWriteLease, so one run at a time changes the  *)
(* index.  Each action below ends in at most one Tantivy commit; a crash   *)
(* or an error may fall between any two of them, and editors change the    *)
(* source tree at any moment.                                              *)
(*                                                                         *)
(* Abstractions.  A file's content is what the pipeline gets out of it:    *)
(* the names it declares, the names it refers to and the files it imports; *)
(* the content hash is the content itself.  A file's symbols share one id, *)
(* the id of the registration they were written with.  A batch of files is *)
(* committed file by file, which has every intermediate state a larger     *)
(* batch has, and more.                                                    *)
(***************************************************************************)
EXTENDS Integers, FiniteSets

CONSTANTS
    Files,      \* source paths
    Names,      \* symbol names
    Contents,   \* [declares, uses : SUBSET Names, imports : SUBSET Files]
    Writable,   \* what editors may write: [Files -> SUBSET Contents]
    InitDisk,   \* the source tree of the first, complete index
    InitId,     \* the ids it gave out, and
    InitCounter,\* the last of them
    Roots,      \* indexed directories
    RootOf,     \* the root a path lies under
    Absent,     \* no such file, no such registration, no path
    MaxEdits,   \* bound on changes of the source tree
    MaxFaults,  \* bound on errors and crashes
    MaxSelects, \* bound on runs over explicitly selected files
    KeepGoing,  \* is a root's error logged, and the other roots resolved?
    Deletes,    \* may editors delete files?
    Restores    \* may a deleted file come back before its deletion is indexed?

ASSUME ContentsAssumption ==
    Contents \subseteq [declares : SUBSET Names, uses : SUBSET Names, imports : SUBSET Files]
ASSUME FilesAssumption == IsFiniteSet(Files) /\ Absent \notin Files
ASSUME AbsentAssumption == Absent \notin Contents /\ Absent \notin [content : Contents, id : Nat]
ASSUME DiskAssumption ==
    /\ Writable \in [Files -> SUBSET Contents]
    /\ InitDisk \in [Files -> Contents \cup {Absent}]
    /\ InitCounter \in Nat /\ InitId \in [Files -> 0..InitCounter]
    /\ \A f, g \in Files : f # g => InitId[f] # InitId[g]
ASSUME RootsAssumption == RootOf \in [Files -> Roots]
ASSUME BoundsAssumption ==
    /\ MaxEdits \in Nat /\ MaxFaults \in Nat /\ MaxSelects \in Nat
    /\ KeepGoing \in BOOLEAN /\ Deletes \in BOOLEAN /\ Restores \in BOOLEAN

VARIABLES
    disk,       \* the source tree
    row,        \* committed registrations, with the symbols and imports of the file
    edges,      \* committed relationships between symbols
    queue,      \* committed pending_resolution records
    counter,    \* committed FileCounter/SymbolCounter
    pc,         \* where the current run is
    todo,       \* roots, or selected files, the run has still to visit
    work,       \* locals of the root (or selected file) in progress
    mem,        \* the run's PendingResolution
    budget      \* edits, faults and selected-file runs so far

committed == <<row, edges, queue, counter>>
vars == <<disk, row, edges, queue, counter, pc, todo, work, mem, budget>>

-----------------------------------------------------------------------------
(* The committed index.                                                    *)

Registered == {f \in Files : row[f] # Absent}
Ids(S) == {row[f].id : f \in S \cap Registered}
LiveIds == Ids(Files)
Owner(id) == CHOOSE f \in Registered : row[f].id = id

\* Mutant: every candidate of the best evidence is a target, not only a unique one.
AllCandidates(rows, f, n) ==
    LET declarers == {g \in Files \ {f} : rows[g] # Absent /\ n \in rows[g].content.declares}
        imported == declarers \cap rows[f].content.imports
    IN IF imported # {} THEN imported ELSE declarers

\* Two candidates that the same kind of evidence supports leave the reference
\* unresolved; an import outranks a mere namesake.
Target(rows, f, n) ==
    LET declarers == {g \in Files \ {f} : rows[g] # Absent /\ n \in rows[g].content.declares}
        imported == declarers \cap rows[f].content.imports
        matches == IF imported # {} THEN imported ELSE declarers
    IN IF Cardinality(matches) = 1 THEN matches ELSE {}

Outgoing(rows, f) ==
    UNION {{[from |-> rows[f].id, name |-> n, to |-> rows[g].id] : g \in Target(rows, f, n)} :
              n \in rows[f].content.uses}

EdgeType == [from : Nat, name : Names, to : Nat]

\* Deleting a file's rows deletes its symbols, its imports and every
\* relationship that starts or ends at one of its symbols.
WithoutRows(S) == [f \in Files |-> IF f \in S THEN Absent ELSE row[f]]
WithoutEdges(S) == {e \in edges : e.from \notin Ids(S) /\ e.to \notin Ids(S)}

-----------------------------------------------------------------------------
(* A run's memory.                                                         *)

NoWork == [deleted |-> {}, renamed |-> {}, modified |-> {}, index |-> {},
           planned |-> {}, read |-> Absent, unresolved |-> {}, captured |-> {}, failed |-> FALSE]

NoPending == [unresolved |-> {}, captured |-> {}, changed |-> {}, processed |-> {},
              queued |-> {}, completed |-> {}, ran |-> FALSE, bounded |-> FALSE]

CapturedType ==
    [from : Nat, name : Names, target : Files, fresh : Files \cup {Absent}]

WorkType ==
    [deleted : SUBSET Files, renamed : SUBSET (Files \X Files), modified : SUBSET Files,
     index : SUBSET Files, planned : SUBSET Files, read : Contents \cup {Absent},
     unresolved : SUBSET Nat, captured : SUBSET CapturedType, failed : BOOLEAN]

PendingType ==
    [unresolved : SUBSET Nat, captured : SUBSET CapturedType, changed : SUBSET Files,
     processed : SUBSET Files, queued : SUBSET Files, completed : SUBSET Files,
     ran : BOOLEAN, bounded : BOOLEAN]

Fresh(captured) == {c.fresh : c \in captured} \ {Absent}

\* Edges into `files` whose source is not itself replaced in this cleanup.
\* A source without an obligation yet is marked: its obligation is this wave's.
CapturedInto(files, inFlight) ==
    {[from |-> e.from, name |-> e.name, target |-> Owner(e.to),
      fresh |-> IF Owner(e.from) \in queue THEN Absent ELSE Owner(e.from)] :
        e \in {x \in edges : x.to \in Ids(files) /\ x.from \notin Ids(inFlight)}}

Sources(captured) == {Owner(c.from) : c \in captured}

-----------------------------------------------------------------------------
Init ==
    /\ disk = InitDisk
    /\ row = [f \in Files |-> IF InitDisk[f] = Absent THEN Absent
                              ELSE [content |-> InitDisk[f], id |-> InitId[f]]]
    /\ edges = UNION {Outgoing(row, f) : f \in Registered}
    /\ queue = {}
    /\ counter = InitCounter
    /\ pc = "idle" /\ todo = {} /\ work = NoWork /\ mem = NoPending
    /\ budget = [edits |-> 0, faults |-> 0, selects |-> 0]

(* Editors.                                                                *)

Stale(f) == IF disk[f] = Absent THEN row[f] # Absent
            ELSE row[f] = Absent \/ row[f].content # disk[f]

Edit(f) ==
    /\ budget.edits < MaxEdits
    /\ \E c \in Writable[f] \cup (IF Deletes THEN {Absent} ELSE {}) :
          /\ c # disk[f]
          /\ (disk[f] = Absent /\ row[f] # Absent) => Restores
          /\ disk' = [disk EXCEPT ![f] = c]
    /\ budget' = [budget EXCEPT !.edits = @ + 1]
    /\ UNCHANGED <<committed, pc, todo, work, mem>>

(* Starting a run.                                                         *)

\* index_directories_with_options, and the per-root loops over
\* index_directory_deferred: every root in turn, then one resolution.
StartRoots ==
    /\ pc = "idle"
    /\ pc' = "visit" /\ todo' = Roots
    /\ UNCHANGED <<disk, committed, work, mem, budget>>

\* index_file (a watcher event), or an explicit inventory: --max-files and
\* network snapshots may not reopen files outside it.
StartSelected(S, bounded) ==
    /\ pc = "idle"
    /\ budget.selects < MaxSelects
    /\ bounded \/ \E f \in S : S = {f}
    /\ pc' = "select" /\ todo' = S
    /\ mem' = [NoPending EXCEPT !.bounded = bounded]
    /\ budget' = [budget EXCEPT !.selects = @ + 1]
    /\ UNCHANGED <<disk, committed, work>>

(* Discovery.                                                              *)

\* A deleted and a new path are a rename only when no other path of either
\* kind has the same content.
PairRelocations(deleted, new) ==
    {p \in deleted \X new :
        LET hash == row[p[1]].content
        IN /\ {f \in deleted : row[f].content = hash} = {p[1]}
           /\ {f \in new : disk[f] = hash} = {p[2]}}

InboundCallerFiles(targets, inRun) ==
    {f \in Registered \ inRun :
        disk[f] # Absent /\ \E e \in edges : e.from = row[f].id /\ e.to \in Ids(targets)}

Discovered(r) ==
    LET mine == {f \in Files : RootOf[f] = r}
        present == {f \in mine : disk[f] # Absent}
        indexed == mine \cap Registered
        deleted == indexed \ present
        new == present \ indexed
        modified == {f \in present \cap indexed : row[f].content # disk[f]}
        renamed == PairRelocations(deleted, new)
        old == {p[1] : p \in renamed}
        inRun == new \cup modified \cup deleted
        callers == InboundCallerFiles(deleted, inRun)
    IN [changed |-> inRun,
        work |-> [NoWork EXCEPT !.deleted = deleted \ old, !.renamed = renamed,
                                !.modified = modified \cup callers,
                                !.index = new \cup modified \cup callers,
                                !.planned = new \cup modified \cup callers]]

Discover(r) ==
    /\ pc = "visit"
    /\ r \in todo
    /\ todo' = todo \ {r}
    /\ LET found == Discovered(r)
       IN IF found.changed = {} THEN UNCHANGED <<pc, work, mem>>
          ELSE /\ pc' = "cleanup"
               /\ work' = found.work
               /\ mem' = [mem EXCEPT !.changed = @ \cup found.changed]
    /\ UNCHANGED <<disk, committed, budget>>

\* index_file_content: the bytes are read, and the unchanged file without an
\* obligation is left alone.
Select(f) ==
    /\ pc = "select"
    /\ f \in todo
    /\ disk[f] # Absent
    /\ todo' = todo \ {f}
    /\ \E force \in IF mem.bounded THEN BOOLEAN ELSE {FALSE} :
          IF ~force /\ ~Stale(f) /\ f \notin queue THEN UNCHANGED <<pc, work>>
          ELSE /\ pc' = "cleanup"
               /\ work' = [NoWork EXCEPT !.modified = {f} \cap Registered, !.index = {f},
                                         !.planned = {f}, !.read = disk[f]]
    /\ UNCHANGED <<disk, committed, mem, budget>>

(* Cleanup: at most three commits, deletions first.                        *)

CleanupDeleted ==
    /\ pc = "cleanup"
    /\ work.deleted # {}
    /\ row' = WithoutRows(work.deleted)
    /\ edges' = WithoutEdges(work.deleted)
    /\ queue' = queue \ work.deleted
    /\ work' = [work EXCEPT !.deleted = {}]
    /\ UNCHANGED <<disk, counter, pc, todo, mem, budget>>

CleanupRenamed ==
    /\ pc = "cleanup"
    /\ work.deleted = {} /\ work.renamed # {}
    /\ LET old == {p[1] : p \in work.renamed}
           moved == {[c EXCEPT !.target = (CHOOSE p \in work.renamed : p[1] = c.target)[2]] :
                        c \in CapturedInto(old, old \cup work.modified)}
       IN /\ row' = WithoutRows(old)
          /\ edges' = WithoutEdges(old)
          /\ queue' = (queue \cup Sources(moved)) \ old
          /\ work' = [work EXCEPT !.renamed = {}, !.captured = @ \cup moved]
    /\ UNCHANGED <<disk, counter, pc, todo, mem, budget>>

\* cleanup_files_for_reindex: the callers' obligations and the deletion of the
\* rows their edges end in are one commit.
CleanupForReindex(S) ==
    LET captured == CapturedInto(S, S)
    IN /\ row' = WithoutRows(S)
       /\ edges' = WithoutEdges(S)
       /\ queue' = queue \cup Sources(captured)
       /\ work' = [work EXCEPT !.modified = {}, !.captured = @ \cup captured]
       /\ UNCHANGED counter

CleanupModified ==
    /\ pc = "cleanup"
    /\ work.deleted = {} /\ work.renamed = {} /\ work.modified # {}
    /\ CleanupForReindex(work.modified)
    /\ UNCHANGED <<disk, pc, todo, mem, budget>>

(* Phase 1: read, parse, and commit rows with fresh ids.                   *)

CleanupDone == work.deleted = {} /\ work.renamed = {} /\ work.modified = {}
Indexing == pc \in {"cleanup", "reparse"} /\ CleanupDone

\* The registration, its symbols and imports, its obligation and the counters
\* are one commit.
IndexFile(f) ==
    /\ Indexing
    /\ f \in work.index
    /\ LET content == IF work.read = Absent THEN disk[f] ELSE work.read
       IN /\ content # Absent
          /\ row' = [row EXCEPT ![f] = [content |-> content, id |-> counter + 1]]
    /\ counter' = counter + 1
    /\ queue' = queue \cup {f}
    /\ work' = [work EXCEPT !.index = @ \ {f}, !.unresolved = @ \cup {counter + 1}]
    /\ UNCHANGED <<disk, edges, pc, todo, mem, budget>>

\* A file that vanished since discovery is counted, and the others go on.
ReadFails(f) ==
    /\ Indexing
    /\ f \in work.index
    /\ work.read = Absent /\ disk[f] = Absent
    /\ work' = [work EXCEPT !.index = @ \ {f}, !.failed = TRUE]
    /\ UNCHANGED <<disk, committed, pc, todo, mem, budget>>

\* The root's outputs join the pending resolution once Phase 1 is complete.
Accumulated ==
    [mem EXCEPT !.unresolved = @ \cup work.unresolved, !.captured = @ \cup work.captured,
                !.processed = @ \cup work.planned, !.ran = TRUE]

FinishRoot ==
    /\ pc = "cleanup" /\ CleanupDone /\ work.index = {} /\ ~work.failed
    /\ mem' = IF work.read = Absent THEN Accumulated
              ELSE [Accumulated EXCEPT !.changed = @ \cup work.planned]
    /\ pc' = IF work.read = Absent THEN "visit" ELSE "select"
    /\ work' = NoWork
    /\ UNCHANGED <<disk, committed, todo, budget>>

(* resolve_pending: prepare.                                               *)

Importers(S) == {f \in Registered : row[f].content.imports \cap S # {}}

\* The least set that holds S and the importers of what it holds.
Reached(S) ==
    {f \in Files : \A T \in SUBSET Files : S \cup Importers(T) \subseteq T => f \in T}

ImportDependents(changed, processed) ==
    {f \in Files \ (changed \cup processed) : f \in Reached(changed) /\ disk[f] # Absent}

\* Mutant: the all-cached run returns early whatever is queued.
AllCachedReturnsEarly ==
    /\ pc \in {"visit", "select"} /\ todo = {}
    /\ ~mem.ran
    /\ pc' = "idle" /\ mem' = NoPending
    /\ UNCHANGED <<disk, committed, todo, work, budget>>

\* An all-cached run has nothing to resolve unless obligations are queued, and
\* a bounded one may not reopen their files.
NothingToResolve ==
    /\ pc \in {"visit", "select"} /\ todo = {}
    /\ ~mem.ran /\ (mem.bounded \/ queue = {})
    /\ pc' = "idle" /\ mem' = NoPending
    /\ UNCHANGED <<disk, committed, todo, work, budget>>

\* Mutant: the edges captured from an invalidated importer are kept for rebinding.
InvalidateKeepingCaptured ==
    /\ pc \in {"visit", "select"} /\ todo = {}
    /\ mem.ran \/ (~mem.bounded /\ queue # {})
    /\ LET dependents == ImportDependents(mem.changed \cup (queue \ Fresh(mem.captured)),
                                          mem.processed)
       IN /\ queue' = queue \cup dependents
          /\ edges' = {e \in edges : e.from \notin Ids(dependents)}
          /\ mem' = [mem EXCEPT !.queued = queue \cup dependents]
    /\ pc' = "prepare"
    /\ UNCHANGED <<disk, row, counter, todo, work, budget>>

\* invalidate_importers is durable before any importer is reopened.
Invalidate ==
    /\ pc \in {"visit", "select"} /\ todo = {}
    /\ mem.ran \/ (~mem.bounded /\ queue # {})
    /\ LET dependents == ImportDependents(mem.changed \cup (queue \ Fresh(mem.captured)),
                                          mem.processed)
       IN /\ queue' = queue \cup dependents
          /\ edges' = {e \in edges : e.from \notin Ids(dependents)}
          /\ mem' = [mem EXCEPT !.queued = queue \cup dependents,
                                !.captured = {c \in @ : c.from \notin Ids(dependents)}]
    /\ pc' = "prepare"
    /\ UNCHANGED <<disk, row, counter, todo, work, budget>>

\* Queued files outside this run's inventory are parsed again, unless the edges
\* captured from them suffice; one that is gone from disk is done with.
ToReparse == IF mem.bounded THEN {}
             ELSE mem.queued \ (mem.processed \cup Fresh(mem.captured))

Reparse ==
    /\ pc = "prepare"
    /\ LET paths == {f \in ToReparse : disk[f] # Absent}
           captured == CapturedInto(paths, paths)
       IN /\ row' = WithoutRows(paths)
          /\ edges' = WithoutEdges(paths)
          /\ queue' = queue \cup Sources(captured)
          /\ work' = [NoWork EXCEPT !.captured = captured, !.index = paths, !.planned = paths]
          /\ mem' = [mem EXCEPT !.completed = Fresh(mem.captured) \cup (ToReparse \ paths)]
    /\ pc' = "reparse"
    /\ UNCHANGED <<disk, counter, todo, budget>>

\* Mutant: the completed obligations are collected before the reparse adds its own.
PreparedTooEarly ==
    /\ pc = "reparse" /\ work.index = {} /\ ~work.failed
    /\ LET after == IF work.planned = {} THEN mem ELSE Accumulated
       IN /\ mem' = [after EXCEPT !.completed = @ \cup (mem.processed \cap mem.queued)]
          /\ pc' = IF after.ran THEN "phase2" ELSE "clear"
    /\ work' = NoWork
    /\ UNCHANGED <<disk, committed, todo, budget>>

Prepared ==
    /\ pc = "reparse" /\ work.index = {} /\ ~work.failed
    /\ LET after == IF work.planned = {} THEN mem ELSE Accumulated
       IN /\ mem' = [after EXCEPT !.completed = @ \cup (after.processed \cap mem.queued)]
          /\ pc' = IF after.ran THEN "phase2" ELSE "clear"
    /\ work' = NoWork
    /\ UNCHANGED <<disk, committed, todo, budget>>

(* resolve_pending: publication.                                           *)

\* A relationship whose file was replaced later in the same run has no file to
\* build a resolution context for, and fails the whole of Phase 2.
ContextMissing == ~(mem.unresolved \subseteq LiveIds)

ResolveFile(id) ==
    /\ pc = "phase2" /\ ~ContextMissing
    /\ id \in mem.unresolved
    /\ edges' = edges \cup Outgoing(row, Owner(id))
    /\ mem' = [mem EXCEPT !.unresolved = @ \ {id}]
    /\ UNCHANGED <<disk, row, queue, counter, pc, todo, work, budget>>

\* Mutant: the source of a captured edge is not checked to be still alive.
RebindDeadSources ==
    /\ pc = "phase2" /\ mem.unresolved = {}
    /\ LET alive == {c \in mem.captured :
                        row[c.target] # Absent /\ c.name \in row[c.target].content.declares}
       IN edges' = edges \cup {[from |-> c.from, name |-> c.name, to |-> row[c.target].id] : c \in alive}
    /\ pc' = "clear"
    /\ UNCHANGED <<disk, row, queue, counter, todo, work, mem, budget>>

\* A captured edge whose source was replaced, or whose target no longer
\* declares the name, is dropped.
RebindInboundEdges ==
    /\ pc = "phase2" /\ mem.unresolved = {}
    /\ LET alive == {c \in mem.captured :
                        /\ c.from \in LiveIds /\ row[c.target] # Absent
                        /\ c.name \in row[c.target].content.declares}
       IN edges' = edges \cup {[from |-> c.from, name |-> c.name, to |-> row[c.target].id] : c \in alive}
    /\ pc' = "clear"
    /\ UNCHANGED <<disk, row, queue, counter, todo, work, mem, budget>>

ClearPending ==
    /\ pc = "clear"
    /\ queue' = queue \ (mem.completed \cup Fresh(mem.captured))
    /\ pc' = "idle" /\ mem' = NoPending
    /\ UNCHANGED <<disk, row, edges, counter, todo, work, budget>>

(* Failures.                                                               *)

\* An error the code itself runs into: a selected file is gone, Phase 1 was
\* incomplete, or Phase 2 cannot build a context.
ErrorForced ==
    \/ pc = "select" /\ \E f \in todo : disk[f] = Absent
    \/ pc \in {"cleanup", "reparse"} /\ work.index = {} /\ work.failed
    \/ pc = "phase2" /\ ContextMissing

MayFail == ErrorForced \/ budget.faults < MaxFaults

Charged == IF ErrorForced THEN budget ELSE [budget EXCEPT !.faults = @ + 1]

\* The run returns an error, or the process dies: its memory is gone, what it
\* committed stays.
RunFails ==
    /\ pc # "idle" /\ MayFail
    /\ pc' = "idle" /\ todo' = {} /\ work' = NoWork /\ mem' = NoPending
    /\ budget' = Charged
    /\ UNCHANGED <<disk, committed>>

\* The per-root loops of the watcher note a root's error and go on with the
\* next root, then resolve what they have (unified.rs:1109).
RootFails ==
    /\ KeepGoing
    /\ pc = "cleanup" /\ work.read = Absent /\ MayFail
    /\ pc' = "visit" /\ work' = NoWork
    /\ budget' = Charged
    /\ UNCHANGED <<disk, committed, todo, mem>>

-----------------------------------------------------------------------------
Start == StartRoots \/ \E S \in SUBSET Files, bounded \in BOOLEAN : StartSelected(S, bounded)

Advance ==
    \/ \E r \in Roots : Discover(r)
    \/ \E f \in Files : Select(f) \/ IndexFile(f) \/ ReadFails(f)
    \/ CleanupDeleted \/ CleanupRenamed \/ CleanupModified \/ FinishRoot
    \/ NothingToResolve \/ Invalidate \/ Reparse \/ Prepared
    \/ \E id \in mem.unresolved : ResolveFile(id)
    \/ RebindInboundEdges \/ ClearPending

Next ==
    \/ \E f \in Files : Edit(f)
    \/ Start \/ Advance \/ RunFails \/ RootFails

Spec == Init /\ [][Next]_vars

\* A run that is under way goes on, or returns the error it ran into; the index
\* is run again over every root from time to time.
FairSpec ==
    /\ Spec
    /\ WF_vars(Advance) /\ WF_vars(ErrorForced /\ RunFails) /\ WF_vars(StartRoots)

-----------------------------------------------------------------------------
(* Properties.                                                             *)

\* The variables have their types.
TypeOK ==
    /\ disk \in [Files -> Contents \cup {Absent}]
    /\ row \in [Files -> [content : Contents, id : Nat] \cup {Absent}]
    /\ edges \subseteq EdgeType
    /\ queue \subseteq Files
    /\ counter \in Nat
    /\ pc \in {"idle", "visit", "select", "cleanup", "prepare", "reparse", "phase2", "clear"}
    /\ todo \subseteq Files \cup Roots
    /\ work \in WorkType
    /\ mem \in PendingType
    /\ budget \in [edits : Nat, faults : Nat, selects : Nat]

\* Every committed relationship joins two symbols that exist: the source file
\* refers to the name and the target file declares it, whatever was replaced
\* between the capture of an edge and its rebinding ("reviving the old source
\* id would create a durable orphan").
EdgesJoinLiveSymbols ==
    \A e \in edges :
        \E f, g \in Registered :
            /\ row[f].id = e.from /\ e.name \in row[f].content.uses
            /\ row[g].id = e.to /\ e.name \in row[g].content.declares

\* No replay, reparse or rebinding leaves one reference bound to two symbols.
OneTargetPerReference ==
    \A d, e \in edges : (d.from = e.from /\ d.name = e.name) => d = e

\* The names of f whose meaning its imports decide.
Evidenced(f) == {n \in row[f].content.uses :
                    \E g \in row[f].content.imports \ {f} :
                        row[g] # Absent /\ n \in row[g].content.declares}

Bound(f, n) == {e \in edges : e.from = row[f].id /\ e.name = n}
Derived(f, n) == {e \in Outgoing(row, f) : e.name = n}

Damaged(f) == \E n \in Evidenced(f) : Bound(f, n) # Derived(f, n)

\* Something makes a later run look at f again: an obligation of f or of a
\* file it imports, a difference discovery will see, or the run under way.
Owed(f) ==
    \E x \in {f} \cup row[f].content.imports :
        x \in queue \/ Stale(x) \/ x \in mem.changed \cup work.planned

\* A registered file whose committed relationships are not the ones a fresh
\* resolution would derive is never forgotten: its repair is owed durably, at
\* every point where a run may stop (the pending_resolution records of
\* process_batch, queue_inbound_recovery and invalidate_importers).
DamageIsOwed == \A f \in Registered : Damaged(f) => Owed(f)

\* A run that is not bounded to an inventory and succeeds leaves no obligation
\* behind ("The next unbounded indexing pass drains these records").
UnboundedRunsDrain == [][(ClearPending /\ ~mem.bounded) => queue' = {}]_vars

InSync == queue = {} /\ \A f \in Files : ~Stale(f) /\ (f \in Registered => ~Damaged(f))

\* Once editing and failures stop, the index comes to agree with the source
\* tree and stays so, with every obligation discharged.
Converges == <>[]InSync
=============================================================================
