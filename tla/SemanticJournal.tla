-------------------------- MODULE SemanticJournal --------------------------
(***************************************************************************)
(* The semantic vector store of one index directory: in-memory owners      *)
(* (SimpleSemanticSearch), prepared saves (SemanticSave) and the on-disk   *)
(* journal of immutable checkpoints and deltas under one atomic manifest   *)
(* (semantic/journal.rs).                                                  *)
(*                                                                         *)
(* Several processes own the directory at once: each loads it or starts    *)
(* empty, changes vectors in memory, and publishes them in steps that may  *)
(* be cut by an I/O error, the death of the process, or a loss of power.   *)
(*                                                                         *)
(* Abstractions.  One directory, so "same path" is "has a saved manifest". *)
(* A vector, its language and its segments are one token of Vecs; its      *)
(* provenance is bound or not.  Files are named by a counter instead of a  *)
(* random suffix.  Checksums are the flag "whole".  The embedding cache,   *)
(* whose save only logs, is left out.                                      *)
(***************************************************************************)
EXTENDS Integers, Sequences, FiniteSets

CONSTANTS
    Owners,        \* in-memory instances, each in a process of its own
    Saves,         \* slots for prepared saves
    Ids,           \* symbol ids
    Vecs,          \* vectors a symbol may have
    NoVec,         \* a symbol without a vector
    Nobody,        \* who holds a free lock
    MaxDeltas,     \* MAX_DELTAS
    MaxDeltaIds,   \* MAX_DELTA_IDS
    Provenance,    \* do the owners record source provenance?
    MaxRevision,   \* bound: in-memory changes of one owner
    MaxArtifacts   \* bound: files ever created in the directory

ASSUME SemanticJournalAssumption ==
    /\ MaxDeltas \in Nat
    /\ MaxDeltaIds \in Nat
    /\ MaxRevision \in Nat
    /\ MaxArtifacts \in Nat
    /\ Provenance \in BOOLEAN
    /\ IsFiniteSet(Ids)
    /\ NoVec \notin Vecs
    /\ Nobody \notin Saves \cup Owners

VARIABLES
    status,     \* per owner: "down", "loading", "up"
    mem,        \* per owner: the cells it holds in memory
    pending,    \* per owner: ids whose source hash awaits a code commit
    tracker,    \* per owner: its Persistence
    lane,       \* per owner: the save inside its I/O lane
    pc,         \* per save: where it is
    job,        \* per save: what it prepared and will publish
    writer,     \* the save holding .semantic.lock exclusively
    readers,    \* the owners holding it shared
    artifact,   \* the gen-* files that exist
    synced,     \* those whose directory entry is durable
    manifest,   \* metadata.json as every process sees it
    durable,    \* metadata.json as a loss of power would leave it
    minted      \* how many gen-* names were ever made

memory == <<status, mem, pending, tracker>>
locks  == <<lane, writer, readers>>
disk   == <<artifact, synced, manifest, durable, minted>>
vars   == <<memory, locks, pc, job, disk>>

---------------------------------------------------------------------------
(* Data *)

Cell    == [vec : Vecs \cup {NoVec}, prov : BOOLEAN]
Absent  == [vec |-> NoVec, prov |-> FALSE]
Content == [Ids -> Cell]
Live(c) == {i \in Ids : c[i].vec # NoVec}
Proven(c) == {i \in Ids : c[i].prov}

Name     == 1..MaxArtifacts
Artifact == [whole : BOOLEAN, cells : UNION {[D -> Cell] : D \in SUBSET Ids}]
Torn     == [whole |-> FALSE, cells |-> [i \in {} |-> Absent]]

Manifest   == [base : 0..MaxArtifacts, deltas : Seq(Name), count : Nat, version : {3, 5}]
NoManifest == [base |-> 0, deltas |-> <<>>, count |-> 0, version |-> 3]
Referenced(m) == {m.base} \cup {m.deltas[k] : k \in DOMAIN m.deltas}

NoRevision  == -1
Persistence == [dirty : SUBSET Ids, saved : Manifest, revision : Nat,
                committed : Nat \cup {NoRevision}]
FreshTracker == [dirty |-> {}, saved |-> NoManifest, revision |-> 0, committed |-> NoRevision]

Job == [owner : Owners \cup {Nobody}, cells : Content, dirty : SUBSET Ids, saved : Manifest,
        revision : Nat, next : Manifest, file : 0..MaxArtifacts]
NoJob == [owner |-> Nobody, cells |-> [i \in Ids |-> Absent], dirty |-> {}, saved |-> NoManifest,
          revision |-> 0, next |-> NoManifest, file |-> 0]

(* The cells a manifest stands for: those of the base, unless a delta      *)
(* holds the id; then those of the last such delta.                        *)
Holds(m, k, i) == i \in DOMAIN artifact[m.deltas[k]].cells
LastDelta(m, i) ==
    {k \in DOMAIN m.deltas :
        Holds(m, k, i) /\ \A j \in DOMAIN m.deltas : j > k => ~ Holds(m, j, i)}
Replay(m) ==
    [i \in Ids |->
        IF LastDelta(m, i) = {}
        THEN artifact[m.base].cells[i]
        ELSE artifact[m.deltas[CHOOSE k \in LastDelta(m, i) : TRUE]].cells[i]]

ArtifactsPresent(m) ==
    \A n \in Referenced(m) : n \in DOMAIN artifact /\ artifact[n].whole

(* What journal::load accepts: manifest() bounds the chain, load the rest. *)
Loadable(m) ==
    /\ m # NoManifest
    /\ Len(m.deltas) <= MaxDeltas
    /\ ArtifactsPresent(m)
    /\ DOMAIN artifact[m.base].cells = Ids
    /\ m.version = 5 => Proven(artifact[m.base].cells) # {}
    /\ \A k \in DOMAIN m.deltas :
          LET cells == artifact[m.deltas[k]].cells IN
          /\ Cardinality(DOMAIN cells) <= MaxDeltaIds
          /\ m.version # 5 => \A i \in DOMAIN cells : ~ cells[i].prov
    /\ Cardinality(Live(Replay(m))) = m.count

---------------------------------------------------------------------------
Init ==
    /\ status   = [o \in Owners |-> "down"]
    /\ mem      = [o \in Owners |-> [i \in Ids |-> Absent]]
    /\ pending  = [o \in Owners |-> {}]
    /\ tracker  = [o \in Owners |-> FreshTracker]
    /\ lane     = [o \in Owners |-> Nobody]
    /\ pc       = [s \in Saves |-> "idle"]
    /\ job      = [s \in Saves |-> NoJob]
    /\ writer   = Nobody
    /\ readers  = {}
    /\ artifact = [n \in {} |-> Torn]
    /\ synced   = {}
    /\ manifest = NoManifest
    /\ durable  = NoManifest
    /\ minted   = 0

---------------------------------------------------------------------------
(* Owners: starting, loading and changing vectors in memory *)

(* SimpleSemanticSearch::new_empty*                                        *)
StartEmpty(o) ==
    /\ status[o] = "down"
    /\ status' = [status EXCEPT ![o] = "up"]
    /\ UNCHANGED <<mem, pending, tracker, locks, pc, job, disk>>

(* journal::load takes the shared lock and reads the manifest ...          *)
OpenLoad(o) ==
    /\ status[o] = "down"
    /\ writer = Nobody
    /\ manifest # NoManifest
    /\ status'  = [status EXCEPT ![o] = "loading"]
    /\ readers' = readers \cup {o}
    /\ tracker' = [tracker EXCEPT ![o].saved = manifest]
    /\ UNCHANGED <<mem, pending, lane, writer, pc, job, disk>>

(* ... then reads and replays the artifacts, and drops the lock.           *)
CompleteLoad(o) ==
    LET m == tracker[o].saved IN
    /\ status[o] = "loading"
    /\ Loadable(m)
    /\ status'  = [status EXCEPT ![o] = "up"]
    /\ mem'     = [mem EXCEPT ![o] = Replay(m)]
    /\ tracker' = [tracker EXCEPT ![o].committed = 0]
    /\ readers' = readers \ {o}
    /\ UNCHANGED <<pending, lane, writer, pc, job, disk>>

(* A malformed or unreadable artifact is an error.                         *)
FailLoad(o) ==
    /\ status[o] = "loading"
    /\ status'  = [status EXCEPT ![o] = "down"]
    /\ tracker' = [tracker EXCEPT ![o] = FreshTracker]
    /\ readers' = readers \ {o}
    /\ UNCHANGED <<mem, pending, lane, writer, pc, job, disk>>

MarkDirty(o, ids) ==
    tracker' = [tracker EXCEPT ![o].dirty = @ \cup ids,
                               ![o].revision = @ + Cardinality(ids)]

MayChange(o) ==
    /\ status[o] = "up"
    /\ tracker[o].revision < MaxRevision
    /\ UNCHANGED <<status, locks, pc, job, disk>>

(* insert_embedding: a new vector has no provenance yet.                   *)
InsertEmbedding(o, i, v) ==
    /\ MayChange(o)
    /\ mem'     = [mem EXCEPT ![o][i] = [vec |-> v, prov |-> FALSE]]
    /\ pending' = [pending EXCEPT ![o] = @ \ {i}]
    /\ MarkDirty(o, {i})

(* record_source_provenance: the embed stage, after storing a vector.      *)
RecordSourceProvenance(o, i) ==
    /\ Provenance
    /\ MayChange(o)
    /\ i \in Live(mem[o]) \ Proven(mem[o])
    /\ pending' = [pending EXCEPT ![o] = @ \cup {i}]
    /\ MarkDirty(o, {i})
    /\ UNCHANGED mem

RemoveEmbeddings(o, i) ==
    /\ MayChange(o)
    /\ i \in Live(mem[o])
    /\ mem'     = [mem EXCEPT ![o][i] = Absent]
    /\ pending' = [pending EXCEPT ![o] = @ \ {i}]
    /\ MarkDirty(o, {i})

ClearEmbeddings(o) ==
    /\ MayChange(o)
    /\ Live(mem[o]) # {}
    /\ mem'     = [mem EXCEPT ![o] = [i \in Ids |-> Absent]]
    /\ pending' = [pending EXCEPT ![o] = {}]
    /\ MarkDirty(o, Live(mem[o]))

---------------------------------------------------------------------------
(* Preparing a save, under the owner's short lock *)

PrepareFrom(s, o, cells) ==
    /\ pc[s] = "idle"
    /\ status[o] = "up"
    /\ pc'  = [pc EXCEPT ![s] = "prepared"]
    /\ job' = [job EXCEPT ![s] =
                 [owner |-> o, cells |-> cells, dirty |-> tracker[o].dirty,
                  saved |-> tracker[o].saved, revision |-> tracker[o].revision,
                  next |-> NoManifest, file |-> 0]]
    /\ UNCHANGED <<status, tracker, locks, disk>>

(* save_snapshot, as the cleanup stage and save_semantic_search call it.   *)
SaveSnapshot(s, o) ==
    /\ PrepareFrom(s, o, mem[o])
    /\ UNCHANGED <<mem, pending>>

(* bind_code_generation: bind what is pending to the code commit.  It does *)
(* not mark the ids dirty.                                                 *)
Bound(o) ==
    [i \in Ids |-> IF i \in pending[o] /\ i \in Live(mem[o])
                   THEN [mem[o][i] EXCEPT !.prov = TRUE]
                   ELSE mem[o][i]]

(* persist_embeddings, at the end of an indexing run.                      *)
PersistEmbeddings(s, o) ==
    /\ Provenance
    /\ PrepareFrom(s, o, Bound(o))
    /\ mem'     = [mem EXCEPT ![o] = Bound(o)]
    /\ pending' = [pending EXCEPT ![o] = {}]

---------------------------------------------------------------------------
(* SemanticSave::save and journal::save *)

Goto(s, here, there) ==
    /\ pc[s] = here
    /\ pc' = [pc EXCEPT ![s] = there]

End(s) ==
    /\ pc'  = [pc EXCEPT ![s] = "idle"]
    /\ job' = [job EXCEPT ![s] = NoJob]

ReleaseLane(s) == lane' = [lane EXCEPT ![job[s].owner] = Nobody]
ReleaseLock(s) == writer' = IF writer = s THEN Nobody ELSE writer

(* Mutant of Stale: an older prepared save is not recognised.              *)
StaleIgnored(s) == FALSE

Stale(s)     == tracker[job[s].owner].committed > job[s].revision
SamePath(s)  == job[s].saved # NoManifest
Unchanged(s) == SamePath(s) /\ job[s].dirty = {}

(* The I/O lane is entered, and left at once by a save that is older than  *)
(* one already committed.                                                  *)
RejectStale(s) ==
    /\ pc[s] = "prepared"
    /\ lane[job[s].owner] = Nobody
    /\ Stale(s)
    /\ End(s)
    /\ UNCHANGED <<memory, locks, disk>>

(* Mutant of Rebase: trusts whatever manifest is on disk now.              *)
RebaseOnDisk(s) ==
    LET o == job[s].owner IN
    /\ Goto(s, "prepared", "rebased")
    /\ lane[o] = Nobody
    /\ ~ Stale(s)
    /\ lane' = [lane EXCEPT ![o] = s]
    /\ job'  = [job EXCEPT ![s].saved = IF @ = NoManifest THEN @ ELSE manifest]
    /\ UNCHANGED <<memory, writer, readers, disk>>

(* Otherwise compare with the manifest the owner knows now, not the one it *)
(* knew when this save was prepared.                                       *)
Rebase(s) ==
    LET o == job[s].owner IN
    /\ Goto(s, "prepared", "rebased")
    /\ lane[o] = Nobody
    /\ ~ Stale(s)
    /\ lane' = [lane EXCEPT ![o] = s]
    /\ job'  = [job EXCEPT ![s].saved = tracker[o].saved,
                           ![s].dirty = IF tracker[o].committed = job[s].revision
                                        THEN {} ELSE @]
    /\ UNCHANGED <<memory, writer, readers, disk>>

SkipUnchanged(s) ==
    /\ Goto(s, "rebased", "released")
    /\ Unchanged(s)
    /\ UNCHANGED <<memory, locks, job, disk>>

(* Mutant of LockExclusive: writers only exclude each other.               *)
LockAmongWriters(s) ==
    /\ Goto(s, "rebased", "locked")
    /\ ~ Unchanged(s)
    /\ writer = Nobody
    /\ writer' = s
    /\ UNCHANGED <<memory, lane, readers, job, disk>>

LockExclusive(s) ==
    /\ Goto(s, "rebased", "locked")
    /\ ~ Unchanged(s)
    /\ writer = Nobody
    /\ readers = {}
    /\ writer' = s
    /\ UNCHANGED <<memory, lane, readers, job, disk>>

(* Mutant of Conflict: only a vanished manifest is noticed.                *)
ConflictIfGone(s) == SamePath(s) /\ manifest = NoManifest

(* The compare-and-swap: a writer that loaded or wrote a manifest may only *)
(* replace that one.                                                       *)
Conflict(s) == SamePath(s) /\ manifest # job[s].saved

RefuseChanged(s) ==
    /\ pc[s] = "locked"
    /\ Conflict(s)
    /\ ReleaseLane(s)
    /\ ReleaseLock(s)
    /\ End(s)
    /\ UNCHANGED <<memory, readers, disk>>

TargetVersion(s) == IF Proven(job[s].cells) = {} THEN 3 ELSE 5

(* Mutant of Incremental: a delta may change the format version.           *)
IncrementalAnyVersion(s) ==
    /\ SamePath(s)
    /\ Len(manifest.deltas) < MaxDeltas
    /\ Cardinality(job[s].dirty) <= MaxDeltaIds

(* Mutant of Incremental: a chain at its limit takes one delta more.       *)
IncrementalAtLimit(s) ==
    /\ SamePath(s)
    /\ manifest.version = TargetVersion(s)
    /\ Len(manifest.deltas) <= MaxDeltas
    /\ Cardinality(job[s].dirty) <= MaxDeltaIds

(* Mutant of Incremental: a delta of any number of ids.                    *)
IncrementalAnySize(s) ==
    /\ SamePath(s)
    /\ manifest.version = TargetVersion(s)
    /\ Len(manifest.deltas) < MaxDeltas

Incremental(s) ==
    /\ SamePath(s)
    /\ manifest.version = TargetVersion(s)
    /\ Len(manifest.deltas) < MaxDeltas
    /\ Cardinality(job[s].dirty) <= MaxDeltaIds

NextManifest(s, n) ==
    [base    |-> IF Incremental(s) THEN manifest.base ELSE n,
     deltas  |-> IF Incremental(s) THEN Append(manifest.deltas, n) ELSE <<>>,
     count   |-> Cardinality(Live(job[s].cells)),
     version |-> TargetVersion(s)]

CreateArtifact(s) ==
    LET n == minted + 1 IN
    /\ Goto(s, "locked", "writing")
    /\ ~ Conflict(s)
    /\ minted < MaxArtifacts
    /\ minted'   = n
    /\ artifact' = [m \in DOMAIN artifact \cup {n} |-> IF m = n THEN Torn ELSE artifact[m]]
    /\ job'      = [job EXCEPT ![s].next = NextManifest(s, n), ![s].file = n]
    /\ UNCHANGED <<memory, locks, synced, manifest, durable>>

(* Mutant of WrittenCells: a delta without tombstones.                     *)
WrittenWithoutTombstones(s) ==
    [i \in (IF job[s].file = job[s].next.base THEN Ids
            ELSE job[s].dirty \cap Live(job[s].cells)) |-> job[s].cells[i]]

(* A delta holds the dirty ids, a tombstone for each one without a vector; *)
(* a checkpoint holds every cell.                                          *)
WrittenCells(s) ==
    [i \in (IF job[s].file = job[s].next.base THEN Ids ELSE job[s].dirty) |-> job[s].cells[i]]

SyncArtifact(s) ==
    /\ Goto(s, "writing", "written")
    /\ artifact' = [artifact EXCEPT ![job[s].file] =
                       [whole |-> TRUE, cells |-> WrittenCells(s)]]
    /\ UNCHANGED <<memory, locks, job, synced, manifest, durable, minted>>

(* Mutant of SyncDirectory: the new file's entry is not made durable.      *)
DirectoryNotSynced(s) ==
    /\ Goto(s, "written", "staged")
    /\ UNCHANGED <<memory, locks, job, disk>>

SyncDirectory(s) ==
    /\ Goto(s, "written", "staged")
    /\ synced' = DOMAIN artifact
    /\ UNCHANGED <<memory, locks, job, artifact, manifest, durable, minted>>

PublishManifest(s) ==
    /\ Goto(s, "staged", "renamed")
    /\ manifest' = job[s].next
    /\ UNCHANGED <<memory, locks, job, artifact, synced, durable, minted>>

(* Mutant of SyncManifest: the rename is not made durable.                 *)
ManifestNotSynced(s) ==
    /\ Goto(s, "renamed", "published")
    /\ UNCHANGED <<memory, locks, job, disk>>

SyncManifest(s) ==
    /\ Goto(s, "renamed", "published")
    /\ durable' = manifest
    /\ UNCHANGED <<memory, locks, job, artifact, synced, manifest, minted>>

(* After a checkpoint every other gen-* file may go; a failure to remove   *)
(* one is ignored.  Then journal::save returns and drops the file lock.    *)
Garbage(s) ==
    IF job[s].next.deltas = <<>> THEN DOMAIN artifact \ {job[s].next.base} ELSE {}

(* Mutant of Collect: the file lock outlives journal::save.                *)
CollectHoldingLock(s) ==
    /\ Goto(s, "published", "released")
    /\ \E gone \in SUBSET Garbage(s) :
          /\ artifact' = [n \in DOMAIN artifact \ gone |-> artifact[n]]
          /\ synced'   = synced \ gone
    /\ job' = [job EXCEPT ![s].saved = job[s].next, ![s].dirty = {}]
    /\ UNCHANGED <<memory, locks, manifest, durable, minted>>

Collect(s) ==
    /\ Goto(s, "published", "released")
    /\ \E gone \in SUBSET Garbage(s) :
          /\ artifact' = [n \in DOMAIN artifact \ gone |-> artifact[n]]
          /\ synced'   = synced \ gone
    /\ ReleaseLock(s)
    /\ job' = [job EXCEPT ![s].saved = job[s].next, ![s].dirty = {}]
    /\ UNCHANGED <<memory, lane, readers, manifest, durable, minted>>

(* Mutant of Finish: forgets what was changed while the save was running.  *)
FinishClean(s) ==
    LET o == job[s].owner IN
    /\ pc[s] = "released"
    /\ tracker' = [tracker EXCEPT ![o].saved = job[s].saved,
                                  ![o].committed = job[s].revision,
                                  ![o].dirty = job[s].dirty]
    /\ ReleaseLane(s)
    /\ End(s)
    /\ UNCHANGED <<status, mem, pending, writer, readers, disk>>

(* Back in SemanticSave::save: changes made since the save was prepared    *)
(* keep every later dirty id.                                              *)
Finish(s) ==
    LET o == job[s].owner
        later == tracker[o].revision # job[s].revision
    IN
    /\ pc[s] = "released"
    /\ tracker' = [tracker EXCEPT ![o].saved = job[s].saved,
                                  ![o].committed = job[s].revision,
                                  ![o].dirty = IF later THEN @ ELSE job[s].dirty]
    /\ ReleaseLane(s)
    /\ End(s)
    /\ UNCHANGED <<status, mem, pending, writer, readers, disk>>

(* An I/O error returns from journal::save.  A file still being written is *)
(* a temporary one and goes with the error; a later one stays behind.      *)
Fail(s) ==
    /\ pc[s] \in {"rebased", "locked", "writing", "written", "staged", "renamed"}
    /\ artifact' = IF pc[s] = "writing"
                   THEN [n \in DOMAIN artifact \ {job[s].file} |-> artifact[n]]
                   ELSE artifact
    /\ ReleaseLane(s)
    /\ ReleaseLock(s)
    /\ End(s)
    /\ UNCHANGED <<memory, readers, synced, manifest, durable, minted>>

---------------------------------------------------------------------------
(* The environment *)

(* The death of the processes of the owners in dead: the kernel drops      *)
(* their locks, the files stay as they are.                                *)
Die(dead) ==
    LET mine == {s \in Saves : pc[s] # "idle" /\ job[s].owner \in dead} IN
    /\ status'  = [o \in Owners |-> IF o \in dead THEN "down" ELSE status[o]]
    /\ mem'     = [o \in Owners |-> IF o \in dead THEN [i \in Ids |-> Absent] ELSE mem[o]]
    /\ pending' = [o \in Owners |-> IF o \in dead THEN {} ELSE pending[o]]
    /\ tracker' = [o \in Owners |-> IF o \in dead THEN FreshTracker ELSE tracker[o]]
    /\ lane'    = [o \in Owners |-> IF o \in dead THEN Nobody ELSE lane[o]]
    /\ pc'      = [s \in Saves |-> IF s \in mine THEN "idle" ELSE pc[s]]
    /\ job'     = [s \in Saves |-> IF s \in mine THEN NoJob ELSE job[s]]
    /\ writer'  = IF writer \in mine THEN Nobody ELSE writer
    /\ readers' = readers \ dead

Crash(o) ==
    /\ status[o] # "down"
    /\ Die({o})
    /\ UNCHANGED disk

(* A loss of power also loses directory entries never synced and may undo  *)
(* a rename never synced.                                                  *)
PowerLoss ==
    /\ Die(Owners)
    /\ \E lost \in SUBSET (DOMAIN artifact \ synced), m \in {manifest, durable} :
          /\ artifact' = [n \in DOMAIN artifact \ lost |-> artifact[n]]
          /\ synced'   = DOMAIN artifact \ lost
          /\ manifest' = m
          /\ durable'  = m
    /\ UNCHANGED minted

---------------------------------------------------------------------------
Advance(s) ==
    \/ RejectStale(s)    \/ Rebase(s)         \/ SkipUnchanged(s)
    \/ LockExclusive(s)  \/ RefuseChanged(s)  \/ CreateArtifact(s)
    \/ SyncArtifact(s)   \/ SyncDirectory(s)  \/ PublishManifest(s)
    \/ SyncManifest(s)   \/ Collect(s)        \/ Finish(s)

SaveStep(s) == Advance(s) \/ Fail(s)

OwnerStep(o) ==
    \/ StartEmpty(o) \/ OpenLoad(o) \/ CompleteLoad(o) \/ FailLoad(o)
    \/ \E i \in Ids, v \in Vecs : InsertEmbedding(o, i, v)
    \/ \E i \in Ids : RecordSourceProvenance(o, i)
    \/ \E i \in Ids : RemoveEmbeddings(o, i)
    \/ ClearEmbeddings(o)
    \/ Crash(o)

Next ==
    \/ \E s \in Saves : SaveStep(s)
    \/ \E s \in Saves, o \in Owners : SaveSnapshot(s, o) \/ PersistEmbeddings(s, o)
    \/ \E o \in Owners : OwnerStep(o)
    \/ PowerLoss

Spec == Init /\ [][Next]_vars
---------------------------------------------------------------------------
(* Properties *)

(* Every variable has its type; a save that is under way has a job.        *)
TypeOK ==
    /\ status   \in [Owners -> {"down", "loading", "up"}]
    /\ mem      \in [Owners -> Content]
    /\ pending  \in [Owners -> SUBSET Ids]
    /\ tracker  \in [Owners -> Persistence]
    /\ lane     \in [Owners -> Saves \cup {Nobody}]
    /\ pc       \in [Saves -> {"idle", "prepared", "rebased", "locked", "writing", "written",
                               "staged", "renamed", "published", "released"}]
    /\ job      \in [Saves -> Job]
    /\ \A s \in Saves : pc[s] # "idle" => job[s].owner \in Owners
    /\ writer   \in Saves \cup {Nobody}
    /\ readers  \subseteq Owners
    /\ DOMAIN artifact \subseteq Name
    /\ artifact \in [DOMAIN artifact -> Artifact]
    /\ synced   \subseteq DOMAIN artifact
    /\ manifest \in Manifest
    /\ durable  \in Manifest
    /\ minted   \in 0..MaxArtifacts

(* Whatever is interrupted, the manifest on disk, and the one a loss of    *)
(* power would bring back, can be loaded: its checkpoint and deltas exist, *)
(* are whole, and replay to the count the manifest states (journal.rs      *)
(* refuses anything else as corrupt).                                      *)
CommittedStateIsLoadable ==
    \A m \in {manifest, durable} : m # NoManifest => Loadable(m)

(* A loader holding the shared lock never loses the checkpoint it pinned   *)
(* to another process's compaction.                                        *)
LoadersKeepTheirGeneration ==
    \A o \in Owners : status[o] = "loading" => ArtifactsPresent(tracker[o].saved)

(* An owner in step with the disk has every vector that differs from it    *)
(* marked dirty: what it holds as clean is what a restart would load.      *)
InStep(o) == status[o] = "up" /\ manifest # NoManifest /\ tracker[o].saved = manifest
CleanVectorsAreDurable ==
    \A o \in Owners : InStep(o) =>
        \A i \in Ids \ tracker[o].dirty : Replay(manifest)[i].vec = mem[o][i].vec

(* "Version-5 semantic indexes record each vector's indexed source hash    *)
(* and producing code generation": provenance an owner has bound, and has  *)
(* nothing left to save for, is in its version-5 manifest.                 *)
ProvenanceIsRecorded ==
    \A o \in Owners : (InStep(o) /\ manifest.version = 5 /\ tracker[o].dirty = {}) =>
        Proven(mem[o]) \subseteq Proven(Replay(manifest))

(* A save of changes that returned Ok survives a loss of power: what the   *)
(* disk would come back with is at least as new.                           *)
Newest(m) == IF m.deltas = <<>> THEN m.base ELSE m.deltas[Len(m.deltas)]
AcknowledgedIsDurable ==
    \A o \in Owners :
       tracker[o].committed > 0 => Newest(durable) >= Newest(tracker[o].saved)

Publishing(s) == pc[s] = "staged" /\ pc'[s] = "renamed"

(* "An older prepared save must never overwrite a newer completed save."   *)
NoStaleOverwrite ==
    [][\A s \in Saves : Publishing(s) =>
          job[s].revision >= tracker[job[s].owner].committed]_vars

(* An owner that loaded or wrote a manifest never replaces another one:    *)
(* nobody else's publication is lost without an error.                     *)
NoForeignOverwrite ==
    [][\A s \in Saves : Publishing(s) =>
          tracker[job[s].owner].saved \in {NoManifest, manifest}]_vars

(* The journal implements one atomically replaced value.                   *)
LastPublished(o) ==
    IF lane[o] = Nobody THEN tracker[o].saved
    ELSE CASE pc[lane[o]] \in {"renamed", "published"} -> job[lane[o]].next
           [] pc[lane[o]] = "released"                 -> job[lane[o]].saved
           [] OTHER                                    -> tracker[o].saved

(* The value is the vectors.  Provenance is no part of it: a delta carries *)
(* that of its own ids only, while persist_embeddings binds others too.    *)
VectorsOf(cells) == [i \in Ids |-> cells[i].vec]
NoVectors        == [i \in Ids |-> NoVec]
ValueOf(m)       == IF m = NoManifest THEN NoVectors ELSE VectorsOf(Replay(m))

Store == INSTANCE SnapshotStore WITH
    Writers   <- Owners,
    Contents  <- [Ids -> Vecs \cup {NoVec}],
    Empty     <- NoVectors,
    Versions  <- Manifest,
    NoVersion <- NoManifest,
    value     <- ValueOf(manifest),
    version   <- manifest,
    backup    <- [value |-> ValueOf(durable), version |-> durable],
    known     <- [o \in Owners |-> tracker[o].saved],
    mine      <- [o \in Owners |-> LastPublished(o)],
    offers    <- [o \in Owners |->
                    {VectorsOf(job[s].cells) :
                        s \in {t \in Saves : pc[t] # "idle" /\ job[t].owner = o}}]

ImplementsStore == Store!Spec

(* Every save ends, with success or an error: none waits forever for the   *)
(* lane of its owner or for the file lock, or stops half way.              *)
SavesEnd == \A s \in Saves : []<>(pc[s] = "idle")

(* A lock that keeps being released is granted to each waiter in the end;  *)
(* a save that may proceed proceeds.  No error is ever owed to a save,     *)
(* except at the bound on files.                                           *)
AtBound(s) == pc[s] = "locked" /\ minted = MaxArtifacts /\ Fail(s)

FairSpec ==
    /\ Spec
    /\ \A s \in Saves :
          /\ WF_vars(Advance(s) \/ AtBound(s))
          /\ SF_vars(Rebase(s) \/ RejectStale(s) \/ LockExclusive(s))
    /\ \A o \in Owners : WF_vars(CompleteLoad(o) \/ FailLoad(o))
=============================================================================
