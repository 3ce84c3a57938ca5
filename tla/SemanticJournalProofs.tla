----------------------- MODULE SemanticJournalProofs -----------------------
(* Theorems about SemanticJournal, for every value of its constants. *)
EXTENDS SemanticJournal, FiniteSetTheorems, SequenceTheorems, TLAPS

(***************************************************************************)
(* The inductive invariant.  Locks says who may be where; Versions that a  *)
(* save past the compare-and-swap still compares equal; Files that nothing *)
(* a manifest names, or is about to name, can go missing.                  *)
(***************************************************************************)
Locked == {"locked", "writing", "written", "staged", "renamed", "published"}
InLane == Locked \cup {"rebased", "released"}
Building == {"writing", "written", "staged"}

Locks ==
    /\ \A s \in Saves : pc[s] \in Locked => writer = s
    /\ \A s \in Saves : writer = s => pc[s] \in Locked /\ readers = {}
    /\ \A s \in Saves : pc[s] \in InLane => lane[job[s].owner] = s
    /\ \A s \in Saves : pc[s] # "idle" => status[job[s].owner] = "up"
    /\ \A o \in Owners : status[o] = "loading" <=> o \in readers

Versions ==
    /\ \A s \in Saves : pc[s] \in InLane => tracker[job[s].owner].committed <= job[s].revision
    /\ \A s \in Saves : pc[s] \in Locked \cup {"rebased"} =>
                           tracker[job[s].owner].saved = job[s].saved
    /\ \A s \in Saves : pc[s] \in Building => job[s].saved \in {NoManifest, manifest}
    /\ \A s \in Saves : pc[s] \in {"renamed", "published"} => manifest = job[s].next
    /\ \A s \in Saves : pc[s] = "published" => durable = job[s].next
    /\ \A o \in Owners : status[o] = "loading" =>
                           tracker[o].saved = manifest /\ manifest # NoManifest

Kept(n) == n \in synced /\ artifact[n].whole
KeptBy(m) == m # NoManifest => \A n \in Referenced(m) : Kept(n)

Files ==
    /\ \A n \in DOMAIN artifact : n <= minted
    /\ KeptBy(manifest)
    /\ KeptBy(durable)
    /\ \A s \in Saves : pc[s] \in Building =>
          /\ job[s].file \in DOMAIN artifact
          /\ manifest # NoManifest => job[s].file \notin Referenced(manifest)
          /\ durable # NoManifest => job[s].file \notin Referenced(durable)
          /\ job[s].next # NoManifest
          /\ \A n \in Referenced(job[s].next) \ {job[s].file} : Kept(n)
    /\ \A s \in Saves : pc[s] = "writing" => job[s].file \notin synced
    /\ \A s \in Saves : pc[s] \in {"written", "staged"} => artifact[job[s].file].whole
    /\ \A s \in Saves : pc[s] = "staged" => job[s].file \in synced

IInv == TypeOK /\ Locks /\ Versions /\ Files

---------------------------------------------------------------------------
(* Types *)

(* Sets of ids are finite: the count a manifest states is a number.        *)
LEMMA CardinalityOfIds == \A S \in SUBSET Ids : Cardinality(S) \in Nat
  BY SemanticJournalAssumption, FS_Subset, FS_CardinalityType

(* The values a fresh directory and a fresh owner start with are typed.    *)
LEMMA ConstantsTyped ==
    /\ [i \in Ids |-> Absent] \in Content
    /\ NoManifest \in Manifest
    /\ FreshTracker \in Persistence
    /\ NoJob \in Job
  <1>1. Absent \in Cell
    BY DEF Absent, Cell
  <1>2. [i \in Ids |-> Absent] \in Content
    BY <1>1 DEF Content
  <1>3. NoManifest \in Manifest
    BY SemanticJournalAssumption DEF NoManifest, Manifest
  <1>4. FreshTracker \in Persistence
    BY <1>3 DEF FreshTracker, Persistence, NoRevision
  <1>5. NoJob \in Job
    BY <1>2, <1>3, SemanticJournalAssumption DEF NoJob, Job
  <1> QED
    BY <1>2, <1>3, <1>4, <1>5

(* The initial state is typed.                                             *)
LEMMA InitTyped == Init => TypeOK
  BY ConstantsTyped, SemanticJournalAssumption DEF Init, TypeOK

(* The death of processes leaves everything but the disk typed.            *)
LEMMA DieTyped ==
  ASSUME TypeOK, NEW dead \in SUBSET Owners, Die(dead)
  PROVE  /\ status' \in [Owners -> {"down", "loading", "up"}]
         /\ mem' \in [Owners -> Content]
         /\ pending' \in [Owners -> SUBSET Ids]
         /\ tracker' \in [Owners -> Persistence]
         /\ lane' \in [Owners -> Saves \cup {Nobody}]
         /\ pc' \in [Saves -> {"idle", "prepared", "rebased", "locked", "writing", "written",
                               "staged", "renamed", "published", "released"}]
         /\ job' \in [Saves -> Job]
         /\ \A s \in Saves : pc'[s] # "idle" => job'[s].owner \in Owners
         /\ writer' \in Saves \cup {Nobody}
         /\ readers' \subseteq Owners
  <1>1. /\ status' \in [Owners -> {"down", "loading", "up"}]
        /\ mem' \in [Owners -> Content]
        /\ pending' \in [Owners -> SUBSET Ids]
        /\ tracker' \in [Owners -> Persistence]
        /\ lane' \in [Owners -> Saves \cup {Nobody}]
    BY ConstantsTyped DEF Die, TypeOK
  <1>2. /\ job' \in [Saves -> Job]
        /\ pc' \in [Saves -> {"idle", "prepared", "rebased", "locked", "writing", "written",
                               "staged", "renamed", "published", "released"}]
        /\ \A s \in Saves : pc'[s] # "idle" => job'[s].owner \in Owners
    BY ConstantsTyped DEF Die, TypeOK
  <1>3. writer' \in Saves \cup {Nobody} /\ readers' \subseteq Owners
    BY DEF Die, TypeOK
  <1> QED
    BY <1>1, <1>2, <1>3

(* Marking ids dirty (mark_dirty) keeps the tracker typed.                 *)
LEMMA MarkDirtyTyped ==
  ASSUME tracker \in [Owners -> Persistence], NEW o \in Owners, NEW ids \in SUBSET Ids,
         MarkDirty(o, ids)
  PROVE  tracker' \in [Owners -> Persistence]
  <1>1. tracker[o].dirty \cup ids \in SUBSET Ids
    BY DEF Persistence
  <1>2. tracker[o].revision + Cardinality(ids) \in Nat
    BY CardinalityOfIds DEF Persistence
  <1>3. [tracker[o] EXCEPT !.dirty = @ \cup ids, !.revision = @ + Cardinality(ids)] \in Persistence
    BY <1>1, <1>2 DEF Persistence
  <1> QED
    BY <1>3 DEF MarkDirty

(* What a load replays is a content: the base holds every id, and a delta  *)
(* is only asked for an id it holds.                                       *)
LEMMA ReplayTyped ==
  ASSUME TypeOK, NEW m \in Manifest, Loadable(m)
  PROVE  Replay(m) \in Content
  <1> SUFFICES ASSUME NEW i \in Ids PROVE Replay(m)[i] \in Cell
    BY DEF Replay, Content
  <1>1. \A n \in Referenced(m) : artifact[n] \in Artifact
    BY DEF Loadable, ArtifactsPresent, TypeOK
  <1>2. \A n \in Referenced(m) : \A j \in DOMAIN artifact[n].cells : artifact[n].cells[j] \in Cell
    BY <1>1 DEF Artifact
  <1>3. CASE LastDelta(m, i) = {}
    <2>1. i \in DOMAIN artifact[m.base].cells
      BY DEF Loadable
    <2> QED
      BY <1>2, <1>3, <2>1 DEF Replay, Referenced
  <1>4. CASE LastDelta(m, i) # {}
    <2> DEFINE k == CHOOSE j \in LastDelta(m, i) : TRUE
    <2>1. k \in DOMAIN m.deltas /\ Holds(m, k, i)
      BY <1>4 DEF LastDelta
    <2>2. m.deltas[k] \in Referenced(m)
      BY <2>1 DEF Referenced
    <2> QED
      BY <1>2, <1>4, <2>1, <2>2 DEF Replay, Holds
  <1> QED
    BY <1>3, <1>4

(* Actions of an owner in memory leave the locks, the saves and the disk   *)
(* alone.                                                                  *)
LEMMA OwnerStepTyped == TypeOK /\ (\E o \in Owners : OwnerStep(o)) => TypeOK'
  <1> SUFFICES ASSUME TypeOK, NEW o \in Owners, OwnerStep(o) PROVE TypeOK'
    OBVIOUS
  <1>1. CASE StartEmpty(o)
    BY <1>1 DEF StartEmpty, TypeOK, locks, disk
  <1>2. CASE OpenLoad(o)
    <2>1. tracker[o] \in Persistence /\ manifest \in Manifest
      BY DEF TypeOK
    <2>2. [tracker[o] EXCEPT !.saved = manifest] \in Persistence
      BY <2>1 DEF Persistence
    <2> QED
      BY <1>2, <2>2 DEF OpenLoad, TypeOK, disk
  <1>3. CASE CompleteLoad(o)
    <2>1. tracker[o] \in Persistence
      BY DEF TypeOK
    <2>2. [tracker[o] EXCEPT !.committed = 0] \in Persistence
      BY <2>1 DEF Persistence
    <2>3. Replay(tracker[o].saved) \in Content
      BY <1>3, <2>1, ReplayTyped DEF CompleteLoad, Persistence
    <2> QED
      BY <1>3, <2>2, <2>3 DEF CompleteLoad, TypeOK, disk
  <1>4. CASE FailLoad(o)
    BY <1>4, ConstantsTyped DEF FailLoad, TypeOK, disk
  <1>5. ASSUME NEW i \in Ids, NEW v \in Vecs, InsertEmbedding(o, i, v) PROVE TypeOK'
    <2>1. tracker' \in [Owners -> Persistence]
      BY <1>5, MarkDirtyTyped DEF InsertEmbedding, TypeOK
    <2>2. [vec |-> v, prov |-> FALSE] \in Cell
      BY DEF Cell, Absent
    <2>3. mem' \in [Owners -> Content]
      BY <1>5, <2>2 DEF InsertEmbedding, TypeOK, Content
    <2> QED
      BY <1>5, <2>1, <2>3 DEF InsertEmbedding, MayChange, TypeOK, locks, disk
  <1>6. ASSUME NEW i \in Ids, RecordSourceProvenance(o, i) PROVE TypeOK'
    <2>1. tracker' \in [Owners -> Persistence]
      BY <1>6, MarkDirtyTyped DEF RecordSourceProvenance, TypeOK
    <2> QED
      BY <1>6, <2>1 DEF RecordSourceProvenance, MayChange, TypeOK, locks, disk
  <1>7. ASSUME NEW i \in Ids, RemoveEmbeddings(o, i) PROVE TypeOK'
    <2>1. tracker' \in [Owners -> Persistence]
      BY <1>7, MarkDirtyTyped DEF RemoveEmbeddings, TypeOK
    <2>2. Absent \in Cell
      BY DEF Cell, Absent
    <2>3. mem' \in [Owners -> Content]
      BY <1>7, <2>2 DEF RemoveEmbeddings, TypeOK, Content
    <2> QED
      BY <1>7, <2>1, <2>3 DEF RemoveEmbeddings, MayChange, TypeOK, locks, disk
  <1>8. CASE ClearEmbeddings(o)
    <2>1. tracker' \in [Owners -> Persistence]
      BY <1>8, MarkDirtyTyped DEF ClearEmbeddings, TypeOK, Live
    <2> QED
      BY <1>8, <2>1, ConstantsTyped DEF ClearEmbeddings, MayChange, TypeOK, locks, disk
  <1>9. CASE Crash(o)
    BY <1>9, DieTyped DEF Crash, TypeOK, disk
  <1> QED
    BY <1>1, <1>2, <1>3, <1>4, <1>5, <1>6, <1>7, <1>8, <1>9 DEF OwnerStep

(* Preparing a save (save_snapshot, persist_embeddings) keeps the types.   *)
LEMMA PrepareTyped ==
  ASSUME TypeOK, NEW s \in Saves, NEW o \in Owners,
         SaveSnapshot(s, o) \/ PersistEmbeddings(s, o)
  PROVE  TypeOK'
  <1>1. Bound(o) \in Content /\ mem[o] \in Content
    <2> SUFFICES ASSUME NEW i \in Ids PROVE Bound(o)[i] \in Cell
      BY DEF TypeOK, Bound, Content
    <2>1. mem[o][i] \in Cell
      BY DEF TypeOK, Content
    <2> QED
      BY <2>1 DEF Bound, Cell
  <1>2. ASSUME NEW cells \in Content, PrepareFrom(s, o, cells)
        PROVE  /\ job' \in [Saves -> Job]
               /\ \A t \in Saves : pc'[t] # "idle" => job'[t].owner \in Owners
               /\ pc' = [pc EXCEPT ![s] = "prepared"]
    <2>1. tracker[o] \in Persistence
      BY DEF TypeOK
    <2>2. [owner |-> o, cells |-> cells, dirty |-> tracker[o].dirty,
           saved |-> tracker[o].saved, revision |-> tracker[o].revision,
           next |-> NoManifest, file |-> 0] \in Job
      BY <2>1, ConstantsTyped, SemanticJournalAssumption DEF Job, Persistence
    <2> QED
      BY <1>2, <2>2 DEF PrepareFrom, TypeOK
  <1>3. CASE SaveSnapshot(s, o)
    BY <1>1, <1>2, <1>3 DEF SaveSnapshot, PrepareFrom, TypeOK, locks, disk
  <1>4. CASE PersistEmbeddings(s, o)
    BY <1>1, <1>2, <1>4 DEF PersistEmbeddings, PrepareFrom, TypeOK, locks, disk
  <1> QED
    BY <1>3, <1>4

(* A file still being written is an artifact.                              *)
LEMMA TornTyped == Torn \in Artifact
  <1>1. [i \in {} |-> Absent] \in [{} -> Cell]
    OBVIOUS
  <1>2. {} \in SUBSET Ids
    OBVIOUS
  <1> QED
    BY <1>1, <1>2 DEF Torn, Artifact

(* The manifest a save is about to publish is a manifest.                  *)
LEMMA NextManifestTyped ==
  ASSUME TypeOK, NEW s \in Saves, NEW n \in Name
  PROVE  NextManifest(s, n) \in Manifest
  <1>1. Cardinality(Live(job[s].cells)) \in Nat
    BY CardinalityOfIds DEF Live
  <1>2. manifest.base \in 0..MaxArtifacts /\ manifest.deltas \in Seq(Name)
    BY DEF TypeOK, Manifest
  <1>3. Append(manifest.deltas, n) \in Seq(Name)
    BY <1>2
  <1>4. n \in 0..MaxArtifacts
    BY SemanticJournalAssumption DEF Name
  <1> QED
    BY <1>1, <1>2, <1>3, <1>4 DEF NextManifest, Manifest, TargetVersion

(* A step of a save under way.                                             *)
LEMMA SaveStepTyped ==
  ASSUME TypeOK, Files, NEW s \in Saves, SaveStep(s)
  PROVE  TypeOK'
  <1> DEFINE o == job[s].owner
  <1>1. job[s] \in Job /\ tracker \in [Owners -> Persistence] /\ (pc[s] # "idle" => o \in Owners)
    BY DEF TypeOK
  <1>2. ASSUME End(s)
        PROVE  /\ pc' \in [Saves -> {"idle", "prepared", "rebased", "locked", "writing", "written",
                                     "staged", "renamed", "published", "released"}]
               /\ job' \in [Saves -> Job]
               /\ \A t \in Saves : pc'[t] # "idle" => job'[t].owner \in Owners
    BY <1>2, ConstantsTyped DEF End, TypeOK
  <1>0. ASSUME NEW j \in Job, j.owner = o, pc[s] # "idle", job' = [job EXCEPT ![s] = j],
               NEW q \in {"rebased", "writing", "released"}, pc' = [pc EXCEPT ![s] = q]
        PROVE  /\ pc' \in [Saves -> {"idle", "prepared", "rebased", "locked", "writing", "written",
                                     "staged", "renamed", "published", "released"}]
               /\ job' \in [Saves -> Job]
               /\ \A t \in Saves : pc'[t] # "idle" => job'[t].owner \in Owners
    <2>1. pc \in [Saves -> {"idle", "prepared", "rebased", "locked", "writing", "written",
                            "staged", "renamed", "published", "released"}]
      BY DEF TypeOK
    <2>2. job \in [Saves -> Job] /\ \A t \in Saves : pc[t] # "idle" => job[t].owner \in Owners
      BY DEF TypeOK
    <2> QED
      BY <1>0, <1>1, <2>1, <2>2
  <1>3. CASE RejectStale(s)
    BY <1>2, <1>3 DEF RejectStale, TypeOK, memory, locks, disk
  <1>4. CASE Rebase(s)
    <2>1. tracker[o] \in Persistence
      BY <1>1, <1>4 DEF Rebase, Goto
    <2> DEFINE j == [job[s] EXCEPT !.saved = tracker[o].saved,
                                   !.dirty = IF tracker[o].committed = job[s].revision THEN {} ELSE @]
    <2>2. j \in Job /\ j.owner = o
      BY <1>1, <2>1 DEF Job, Persistence
    <2>3. job' = [job EXCEPT ![s] = j]
      BY <1>4 DEF Rebase
    <2> HIDE DEF j
    <2>4. /\ pc' \in [Saves -> {"idle", "prepared", "rebased", "locked", "writing", "written",
                               "staged", "renamed", "published", "released"}]
          /\ job' \in [Saves -> Job]
          /\ \A u \in Saves : pc'[u] # "idle" => job'[u].owner \in Owners
      BY <1>0, <1>4, <2>2, <2>3 DEF Rebase, Goto
    <2>5. /\ UNCHANGED <<status, mem, pending, tracker, writer, readers, artifact, synced,
                         manifest, durable, minted>>
          /\ lane' \in [Owners -> Saves \cup {Nobody}]
      BY <1>4 DEF Rebase, TypeOK, memory, disk
    <2> QED
      BY <2>4, <2>5 DEF TypeOK
  <1>5. CASE SkipUnchanged(s)
    BY <1>5 DEF SkipUnchanged, Goto, TypeOK, memory, locks, disk
  <1>6. CASE LockExclusive(s)
    BY <1>6 DEF LockExclusive, Goto, TypeOK, memory, disk
  <1>7. CASE RefuseChanged(s)
    BY <1>1, <1>2, <1>7 DEF RefuseChanged, ReleaseLane, ReleaseLock, TypeOK, memory, disk
  <1>8. CASE CreateArtifact(s)
    <2> DEFINE n == minted + 1
               j == [job[s] EXCEPT !.next = NextManifest(s, n), !.file = n]
    <2>1. n \in Name /\ n \in 0..MaxArtifacts
      BY <1>8, SemanticJournalAssumption DEF CreateArtifact, TypeOK, Name
    <2>2. NextManifest(s, n) \in Manifest
      BY <1>1, <2>1, NextManifestTyped
    <2>3. j \in Job /\ j.owner = o
      BY <1>1, <2>1, <2>2 DEF Job
    <2>4. job' = [job EXCEPT ![s] = j]
      BY <1>8 DEF CreateArtifact
    <2>5. /\ DOMAIN artifact' \subseteq Name
          /\ artifact' \in [DOMAIN artifact' -> Artifact]
          /\ synced' \subseteq DOMAIN artifact'
      BY <1>8, <2>1, TornTyped DEF CreateArtifact, TypeOK
    <2> HIDE DEF j
    <2>6. /\ pc' \in [Saves -> {"idle", "prepared", "rebased", "locked", "writing", "written",
                               "staged", "renamed", "published", "released"}]
          /\ job' \in [Saves -> Job]
          /\ \A t \in Saves : pc'[t] # "idle" => job'[t].owner \in Owners
      BY <1>0, <1>8, <2>3, <2>4 DEF CreateArtifact, Goto
    <2>7. /\ UNCHANGED <<status, mem, pending, tracker, lane, writer, readers, manifest, durable>>
          /\ minted' \in 0..MaxArtifacts
      BY <1>8, <2>1 DEF CreateArtifact, memory, locks
    <2> QED
      BY <2>5, <2>6, <2>7 DEF TypeOK
  <1>9. CASE SyncArtifact(s)
    <2>1. [whole |-> TRUE, cells |-> WrittenCells(s)] \in Artifact
      <3> DEFINE D == IF job[s].file = job[s].next.base THEN Ids ELSE job[s].dirty
      <3>1. D \in SUBSET Ids /\ job[s].cells \in [Ids -> Cell]
        BY <1>1 DEF Job, Content
      <3>2. WrittenCells(s) \in [D -> Cell]
        BY <3>1 DEF WrittenCells
      <3> QED
        BY <3>1, <3>2 DEF Artifact
    <2>2. job[s].file \in DOMAIN artifact
      BY <1>9 DEF SyncArtifact, Goto, Files, Building
    <2> QED
      BY <1>9, <2>1, <2>2 DEF SyncArtifact, Goto, TypeOK, memory, locks
  <1>10. CASE SyncDirectory(s)
    BY <1>10 DEF SyncDirectory, Goto, TypeOK, memory, locks
  <1>11. CASE PublishManifest(s)
    <2>1. job[s].next \in Manifest
      BY <1>1 DEF Job
    <2> QED
      BY <1>11, <2>1 DEF PublishManifest, Goto, TypeOK, memory, locks
  <1>12. CASE SyncManifest(s)
    BY <1>12 DEF SyncManifest, Goto, TypeOK, memory, locks
  <1>13. CASE Collect(s)
    <2>1. PICK gone \in SUBSET Garbage(s) :
            /\ artifact' = [n \in DOMAIN artifact \ gone |-> artifact[n]]
            /\ synced' = synced \ gone
      BY <1>13 DEF Collect
    <2> DEFINE j == [job[s] EXCEPT !.saved = job[s].next, !.dirty = {}]
    <2>2. j \in Job /\ j.owner = o
      BY <1>1 DEF Job
    <2>3. job' = [job EXCEPT ![s] = j]
      BY <1>13 DEF Collect
    <2>4. /\ DOMAIN artifact' \subseteq Name
          /\ artifact' \in [DOMAIN artifact' -> Artifact]
          /\ synced' \subseteq DOMAIN artifact'
      BY <2>1 DEF TypeOK
    <2> HIDE DEF j
    <2>5. /\ pc' \in [Saves -> {"idle", "prepared", "rebased", "locked", "writing", "written",
                               "staged", "renamed", "published", "released"}]
          /\ job' \in [Saves -> Job]
          /\ \A u \in Saves : pc'[u] # "idle" => job'[u].owner \in Owners
      BY <1>0, <1>13, <2>2, <2>3 DEF Collect, Goto
    <2>6. /\ UNCHANGED <<status, mem, pending, tracker, lane, readers, manifest, durable, minted>>
          /\ writer' \in Saves \cup {Nobody}
      BY <1>13 DEF Collect, ReleaseLock, TypeOK, memory
    <2> QED
      BY <2>4, <2>5, <2>6 DEF TypeOK
  <1>14. CASE Finish(s)
    <2>1. o \in Owners /\ tracker[o] \in Persistence
      BY <1>1, <1>14 DEF Finish
    <2> DEFINE t == [tracker[o] EXCEPT !.saved = job[s].saved, !.committed = job[s].revision,
                       !.dirty = IF tracker[o].revision # job[s].revision THEN @ ELSE job[s].dirty]
    <2>2. t \in Persistence
      BY <1>1, <2>1 DEF Persistence, Job
    <2>3. tracker' = [tracker EXCEPT ![o] = t]
      BY <1>14 DEF Finish
    <2> HIDE DEF t
    <2>4. tracker' \in [Owners -> Persistence] /\ lane' \in [Owners -> Saves \cup {Nobody}]
      BY <1>14, <2>1, <2>2, <2>3 DEF Finish, ReleaseLane, TypeOK
    <2>5. UNCHANGED <<status, mem, pending, writer, readers, artifact, synced, manifest, durable,
                      minted>>
      BY <1>14 DEF Finish, disk
    <2> QED
      BY <1>2, <1>14, <2>4, <2>5 DEF Finish, TypeOK
  <1>15. CASE Fail(s)
    <2>1. lane' \in [Owners -> Saves \cup {Nobody}] /\ writer' \in Saves \cup {Nobody}
      BY <1>1, <1>15 DEF Fail, ReleaseLane, ReleaseLock, TypeOK
    <2>2. /\ DOMAIN artifact' \subseteq Name
          /\ artifact' \in [DOMAIN artifact' -> Artifact]
      BY <1>15 DEF Fail, TypeOK
    <2>3. synced' \subseteq DOMAIN artifact'
      BY <1>15 DEF Fail, TypeOK, Files
    <2> QED
      BY <1>2, <1>15, <2>1, <2>2, <2>3 DEF Fail, TypeOK, memory, disk
  <1> QED
    BY <1>3, <1>4, <1>5, <1>6, <1>7, <1>8, <1>9, <1>10, <1>11, <1>12, <1>13, <1>14, <1>15
    DEF SaveStep, Advance

(* A loss of power keeps the types.                                        *)
LEMMA PowerLossTyped == TypeOK /\ PowerLoss => TypeOK'
  <1> SUFFICES ASSUME TypeOK, PowerLoss PROVE TypeOK'
    OBVIOUS
  <1>1. /\ status' \in [Owners -> {"down", "loading", "up"}]
        /\ mem' \in [Owners -> Content]
        /\ pending' \in [Owners -> SUBSET Ids]
        /\ tracker' \in [Owners -> Persistence]
        /\ lane' \in [Owners -> Saves \cup {Nobody}]
        /\ pc' \in [Saves -> {"idle", "prepared", "rebased", "locked", "writing", "written",
                               "staged", "renamed", "published", "released"}]
        /\ job' \in [Saves -> Job]
        /\ \A s \in Saves : pc'[s] # "idle" => job'[s].owner \in Owners
        /\ writer' \in Saves \cup {Nobody}
        /\ readers' \subseteq Owners
    BY DieTyped DEF PowerLoss
  <1>3. PICK lost \in SUBSET (DOMAIN artifact \ synced), m \in {manifest, durable} :
          /\ artifact' = [n \in DOMAIN artifact \ lost |-> artifact[n]]
          /\ synced'   = DOMAIN artifact \ lost
          /\ manifest' = m
          /\ durable'  = m
    BY DEF PowerLoss
  <1> QED
    BY <1>1, <1>3 DEF PowerLoss, TypeOK

(* Every step keeps the types.                                             *)
LEMMA NextTyped == TypeOK /\ Files /\ [Next]_vars => TypeOK'
  <1> SUFFICES ASSUME TypeOK, Files, [Next]_vars PROVE TypeOK'
    OBVIOUS
  <1>1. CASE UNCHANGED vars
    BY <1>1 DEF vars, memory, locks, disk, TypeOK
  <1>2. CASE Next
    BY <1>2, SaveStepTyped, PrepareTyped, OwnerStepTyped, PowerLossTyped DEF Next
  <1> QED
    BY <1>1, <1>2

---------------------------------------------------------------------------
(* Locks *)

(* Nothing is locked at the start.                                         *)
LEMMA InitLocks == Init => Locks
  BY SemanticJournalAssumption DEF Init, Locks, Locked, InLane

(* Dying processes give up exactly the locks they held.                    *)
LEMMA DieLocks ==
  ASSUME TypeOK, Locks, NEW dead \in SUBSET Owners, Die(dead)
  PROVE  Locks'
  BY SemanticJournalAssumption DEF Die, TypeOK, Locks, Locked, InLane

(* Loading takes and returns the shared lock; memory changes no lock.      *)
LEMMA OwnerStepLocks ==
  ASSUME TypeOK, Locks, NEW o \in Owners, OwnerStep(o)
  PROVE  Locks'
  <1> USE DEF TypeOK, Locks, Locked, InLane
  <1>1. CASE StartEmpty(o)
    BY <1>1 DEF StartEmpty, locks, disk
  <1>2. CASE OpenLoad(o)
    BY <1>2, SemanticJournalAssumption DEF OpenLoad, disk
  <1>3. CASE CompleteLoad(o)
    BY <1>3 DEF CompleteLoad, disk
  <1>4. CASE FailLoad(o)
    BY <1>4 DEF FailLoad, disk
  <1>5. CASE MayChange(o)
    BY <1>5 DEF MayChange, locks
  <1>6. CASE Crash(o)
    BY <1>6, DieLocks DEF Crash
  <1> QED
    BY <1>1, <1>2, <1>3, <1>4, <1>5, <1>6
    DEF OwnerStep, InsertEmbedding, RecordSourceProvenance, RemoveEmbeddings, ClearEmbeddings

(* Preparing a save takes no lock.                                         *)
LEMMA PrepareLocks ==
  ASSUME TypeOK, Locks, NEW s \in Saves, NEW o \in Owners, NEW cells, PrepareFrom(s, o, cells)
  PROVE  Locks'
  BY DEF PrepareFrom, TypeOK, Locks, Locked, InLane, locks

(* A save holds its lane and the file lock exactly where its pc says.      *)
LEMMA SaveStepLocks ==
  ASSUME TypeOK, Locks, NEW s \in Saves, SaveStep(s)
  PROVE  Locks'
  <1> USE SemanticJournalAssumption DEF TypeOK, Locks, Locked, InLane
  <1>1. CASE RejectStale(s)
    BY <1>1 DEF RejectStale, End, memory, locks
  <1>2. CASE Rebase(s)
    BY <1>2 DEF Rebase, Goto, memory
  <1>3. CASE SkipUnchanged(s)
    BY <1>3 DEF SkipUnchanged, Goto, Unchanged, memory, locks
  <1>4. CASE LockExclusive(s)
    BY <1>4 DEF LockExclusive, Goto, memory
  <1>5. CASE RefuseChanged(s)
    BY <1>5 DEF RefuseChanged, ReleaseLane, ReleaseLock, End, memory
  <1>6. CASE CreateArtifact(s)
    BY <1>6 DEF CreateArtifact, Goto, memory, locks
  <1>7. CASE SyncArtifact(s)
    BY <1>7 DEF SyncArtifact, Goto, memory, locks
  <1>8. CASE SyncDirectory(s)
    BY <1>8 DEF SyncDirectory, Goto, memory, locks
  <1>9. CASE PublishManifest(s)
    BY <1>9 DEF PublishManifest, Goto, memory, locks
  <1>10. CASE SyncManifest(s)
    BY <1>10 DEF SyncManifest, Goto, memory, locks
  <1>11. CASE Collect(s)
    BY <1>11 DEF Collect, Goto, ReleaseLock, memory
  <1>12. CASE Finish(s)
    BY <1>12 DEF Finish, ReleaseLane, End
  <1>13. CASE Fail(s)
    BY <1>13 DEF Fail, ReleaseLane, ReleaseLock, End, memory
  <1> QED
    BY <1>1, <1>2, <1>3, <1>4, <1>5, <1>6, <1>7, <1>8, <1>9, <1>10, <1>11, <1>12, <1>13
    DEF SaveStep, Advance

(* Every step keeps Locks.                                                 *)
LEMMA NextLocks == TypeOK /\ Locks /\ [Next]_vars => Locks'
  <1> SUFFICES ASSUME TypeOK, Locks, [Next]_vars PROVE Locks'
    OBVIOUS
  <1>1. CASE UNCHANGED vars
    BY <1>1 DEF vars, memory, locks, Locks
  <1>2. CASE Next
    BY <1>2, SaveStepLocks, PrepareLocks, OwnerStepLocks, DieLocks
    DEF Next, PowerLoss, SaveSnapshot, PersistEmbeddings
  <1> QED
    BY <1>1, <1>2

---------------------------------------------------------------------------
(* Versions: what the compare-and-swap established still holds *)

(* No save has compared anything at the start.                             *)
LEMMA InitVersions == Init => Versions
  BY DEF Init, Versions, InLane, Locked, Building

(* The death of processes changes neither the manifest nor what the        *)
(* survivors compared with it.                                             *)
LEMMA DieVersions ==
  ASSUME TypeOK, Versions, NEW dead \in SUBSET Owners, Die(dead),
         dead = Owners \/ UNCHANGED disk
  PROVE  Versions'
  BY DEF Die, disk, TypeOK, Versions, InLane, Locked, Building

(* A change in memory leaves every comparison standing.                    *)
LEMMA MarkDirtyVersions ==
  ASSUME TypeOK, Versions, NEW o \in Owners, NEW ids, MarkDirty(o, ids), MayChange(o)
  PROVE  Versions'
  <1>1. \A p \in Owners : /\ tracker'[p].committed = tracker[p].committed
                          /\ tracker'[p].saved = tracker[p].saved
    BY DEF MarkDirty, TypeOK, Persistence
  <1> QED
    BY <1>1 DEF MayChange, locks, disk, TypeOK, Versions, InLane, Locked, Building

(* A load sees the manifest that will stand until it is done.              *)
LEMMA OwnerStepVersions ==
  ASSUME TypeOK, Locks, Versions, NEW o \in Owners, OwnerStep(o)
  PROVE  Versions'
  <1>1. CASE StartEmpty(o)
    BY <1>1 DEF StartEmpty, locks, disk, TypeOK, Versions, InLane, Locked, Building
  <1>2. CASE OpenLoad(o)
    BY <1>2 DEF OpenLoad, disk, TypeOK, Locks, Versions, InLane, Locked, Building, Persistence
  <1>3. CASE CompleteLoad(o)
    BY <1>3 DEF CompleteLoad, disk, TypeOK, Locks, Versions, InLane, Locked, Building, Persistence
  <1>4. CASE FailLoad(o)
    BY <1>4 DEF FailLoad, disk, TypeOK, Locks, Versions, InLane, Locked, Building, Persistence
  <1>5. ASSUME NEW ids, MarkDirty(o, ids), MayChange(o) PROVE Versions'
    BY <1>5, MarkDirtyVersions
  <1>6. CASE Crash(o)
    BY <1>6, DieVersions DEF Crash
  <1> QED
    BY <1>1, <1>2, <1>3, <1>4, <1>5, <1>6
    DEF OwnerStep, InsertEmbedding, RecordSourceProvenance, RemoveEmbeddings, ClearEmbeddings

(* A prepared save has compared nothing yet.                               *)
LEMMA PrepareVersions ==
  ASSUME TypeOK, Versions, NEW s \in Saves, NEW o \in Owners, NEW cells, PrepareFrom(s, o, cells)
  PROVE  Versions'
  BY DEF PrepareFrom, disk, TypeOK, Versions, InLane, Locked, Building

(* What the compare-and-swap established stands until the save releases    *)
(* its lock.                                                               *)
LEMMA SaveStepVersions ==
  ASSUME TypeOK, Locks, Versions, NEW s \in Saves, SaveStep(s)
  PROVE  Versions'
  <1> USE SemanticJournalAssumption DEF TypeOK, Locks, Versions, InLane, Locked, Building
  <1>1. CASE RejectStale(s)
    BY <1>1 DEF RejectStale, End, memory, disk
  <1>2. CASE Rebase(s)
    <2> DEFINE o == job[s].owner
    <2>1. o \in Owners /\ job[s] \in Job /\ tracker[o] \in Persistence
      BY <1>2 DEF Rebase, Goto
    <2>2. tracker[o].committed <= job[s].revision
      BY <1>2, <2>1 DEF Rebase, Stale, Job, Persistence, NoRevision
    <2>3. /\ pc'[s] = "rebased" /\ job'[s].owner = o
          /\ job'[s].saved = tracker[o].saved /\ job'[s].revision = job[s].revision
      BY <1>2, <2>1 DEF Rebase, Goto, Job
    <2>4. \A t \in Saves \ {s} : pc'[t] = pc[t] /\ job'[t] = job[t]
      BY <1>2 DEF Rebase, Goto
    <2>5. UNCHANGED <<status, tracker, manifest, durable>>
      BY <1>2 DEF Rebase, memory, disk
    <2> HIDE DEF o
    <2>6. \A t \in Saves : pc'[t] \in InLane =>
                              tracker'[job'[t].owner].committed <= job'[t].revision
      BY <2>2, <2>3, <2>4, <2>5 DEF o
    <2>7. \A t \in Saves : pc'[t] \in Locked \cup {"rebased"} =>
                              tracker'[job'[t].owner].saved = job'[t].saved
      BY <2>3, <2>4, <2>5
    <2> QED
      BY <2>3, <2>4, <2>5, <2>6, <2>7
  <1>3. CASE SkipUnchanged(s)
    BY <1>3 DEF SkipUnchanged, Goto, memory, disk
  <1>4. CASE LockExclusive(s)
    BY <1>4 DEF LockExclusive, Goto, memory, disk
  <1>5. CASE RefuseChanged(s)
    BY <1>5 DEF RefuseChanged, End, memory, disk
  <1>6. CASE CreateArtifact(s)
    BY <1>6 DEF CreateArtifact, Goto, Conflict, SamePath, memory
  <1>7. CASE SyncArtifact(s)
    BY <1>7 DEF SyncArtifact, Goto, memory
  <1>8. CASE SyncDirectory(s)
    BY <1>8 DEF SyncDirectory, Goto, memory
  <1>9. CASE PublishManifest(s)
    BY <1>9 DEF PublishManifest, Goto, memory
  <1>10. CASE SyncManifest(s)
    BY <1>10 DEF SyncManifest, Goto, memory
  <1>11. CASE Collect(s)
    BY <1>11 DEF Collect, Goto, memory
  <1>12. CASE Finish(s)
    <2> DEFINE o == job[s].owner
    <2>1. /\ pc'[s] = "idle"
          /\ \A t \in Saves \ {s} : pc'[t] = pc[t] /\ job'[t] = job[t]
          /\ UNCHANGED <<status, manifest, durable>>
      BY <1>12 DEF Finish, End, disk
    <2>2. \A p \in Owners \ {o} : tracker'[p] = tracker[p]
      BY <1>12 DEF Finish
    <2>3. \A t \in Saves \ {s} : pc[t] \in InLane => job[t].owner \in Owners \ {o}
      BY <1>12 DEF Finish
    <2>4. \A p \in Owners : status[p] = "loading" => p # o
      BY <1>12 DEF Finish
    <2> QED
      BY <2>1, <2>2, <2>3, <2>4
  <1>13. CASE Fail(s)
    BY <1>13 DEF Fail, End, memory
  <1> QED
    BY <1>1, <1>2, <1>3, <1>4, <1>5, <1>6, <1>7, <1>8, <1>9, <1>10, <1>11, <1>12, <1>13
    DEF SaveStep, Advance

(* Every step keeps Versions.                                              *)
LEMMA NextVersions == TypeOK /\ Locks /\ Versions /\ [Next]_vars => Versions'
  <1> SUFFICES ASSUME TypeOK, Locks, Versions, [Next]_vars PROVE Versions'
    OBVIOUS
  <1>1. CASE UNCHANGED vars
    BY <1>1 DEF vars, memory, locks, disk, Versions
  <1>2. CASE Next
    BY <1>2, SaveStepVersions, PrepareVersions, OwnerStepVersions, DieVersions
    DEF Next, PowerLoss, SaveSnapshot, PersistEmbeddings
  <1> QED
    BY <1>1, <1>2

---------------------------------------------------------------------------
(* Files: nothing a manifest names can go missing *)

(* An empty directory lacks no file.                                       *)
LEMMA InitFiles == Init => Files
  BY DEF Init, Files, Building, KeptBy

(* While the disk and the saves that build on it stand still, so do the    *)
(* facts about files.                                                      *)
LEMMA DiskStill ==
  ASSUME Files, UNCHANGED disk,
         \A s \in Saves : pc'[s] \in Building => pc'[s] = pc[s] /\ job'[s] = job[s]
  PROVE  Files'
  BY DEF Files, Building, KeptBy, Kept, disk

(* Owners do not touch the files.                                          *)
LEMMA OwnerStepFiles ==
  ASSUME TypeOK, Files, NEW o \in Owners, OwnerStep(o)
  PROVE  Files'
  <1>1. UNCHANGED disk
    BY DEF OwnerStep, StartEmpty, OpenLoad, CompleteLoad, FailLoad, InsertEmbedding,
           RecordSourceProvenance, RemoveEmbeddings, ClearEmbeddings, MayChange, Crash
  <1>2. CASE Crash(o)
    BY <1>1, <1>2, DiskStill DEF Crash, Die, Building
  <1>3. CASE UNCHANGED <<pc, job>>
    BY <1>1, <1>3, DiskStill
  <1> QED
    BY <1>2, <1>3
    DEF OwnerStep, StartEmpty, OpenLoad, CompleteLoad, FailLoad, InsertEmbedding,
        RecordSourceProvenance, RemoveEmbeddings, ClearEmbeddings, MayChange

(* Preparing a save does not touch the files.                              *)
LEMMA PrepareFiles ==
  ASSUME TypeOK, Files, NEW s \in Saves, NEW o \in Owners, NEW cells, PrepareFrom(s, o, cells)
  PROVE  Files'
  BY DiskStill DEF PrepareFrom, TypeOK, Building

(* A loss of power loses no file that a durable manifest names.            *)
LEMMA PowerLossFiles == TypeOK /\ Files /\ PowerLoss => Files'
  <1> SUFFICES ASSUME TypeOK, Files, PowerLoss PROVE Files'
    OBVIOUS
  <1>1. PICK lost \in SUBSET (DOMAIN artifact \ synced), m \in {manifest, durable} :
          /\ artifact' = [n \in DOMAIN artifact \ lost |-> artifact[n]]
          /\ synced'   = DOMAIN artifact \ lost
          /\ manifest' = m
          /\ durable'  = m
    BY DEF PowerLoss
  <1>2. \A s \in Saves : pc'[s] = "idle"
    BY DEF PowerLoss, Die, TypeOK
  <1>3. \A n : Kept(n) => Kept(n)'
    BY <1>1 DEF Kept, TypeOK
  <1>4. KeptBy(manifest)' /\ KeptBy(durable)'
    BY <1>1, <1>3 DEF Files, KeptBy, Referenced
  <1> QED
    BY <1>1, <1>2, <1>4 DEF Files, Building, PowerLoss

(* A save writes, removes and names only files no manifest on disk needs.  *)
LEMMA SaveStepFiles ==
  ASSUME TypeOK, Locks, Versions, Files, NEW s \in Saves, SaveStep(s)
  PROVE  Files'
  <1>0. \A t \in Saves \ {s} : pc'[t] = pc[t] /\ job'[t] = job[t]
    BY DEF SaveStep, Advance, RejectStale, Rebase, SkipUnchanged, LockExclusive, RefuseChanged,
           CreateArtifact, SyncArtifact, SyncDirectory, PublishManifest, SyncManifest, Collect,
           Finish, Fail, Goto, End, TypeOK
  <1>1. \A t \in Saves \ {s} : pc[t] \in Locked => pc[s] \notin Locked
    BY DEF Locks
  <1>2. CASE UNCHANGED disk /\ (pc'[s] \notin Building)
    BY <1>0, <1>2, DiskStill
  <1>3. CASE CreateArtifact(s)
    <2> DEFINE n == minted + 1
    <2>1. /\ job'[s].file = n /\ job'[s].next = NextManifest(s, n)
          /\ pc[s] = "locked" /\ pc'[s] = "writing"
      BY <1>3 DEF CreateArtifact, Goto, TypeOK, Job
    <2>2. n \notin DOMAIN artifact
      BY DEF Files, TypeOK, Name
    <2>3. \A t \in Saves : pc'[t] \in Building => t = s
      BY <1>0, <1>1, <2>1 DEF Building, Locked
    <2>4. \A k : Kept(k) => Kept(k)' /\ k # n
      BY <1>3, <2>2 DEF CreateArtifact, Kept, TypeOK
    <2>5. n \notin synced /\ synced' = synced
      BY <1>3, <2>2 DEF CreateArtifact, TypeOK
    <2>6. /\ NextManifest(s, n) # NoManifest
          /\ \A k \in Referenced(NextManifest(s, n)) \ {n} : Kept(k)'
      <3>1. CASE Incremental(s)
        <4>1. manifest # NoManifest
          BY <1>3, <3>1 DEF CreateArtifact, Conflict, Incremental, SamePath
        <4>2. manifest.deltas \in Seq(Name)
          BY DEF TypeOK, Manifest
        <4>3. /\ NextManifest(s, n).base = manifest.base
              /\ NextManifest(s, n).deltas = Append(manifest.deltas, n)
          BY <3>1 DEF NextManifest
        <4>4. Append(manifest.deltas, n) # <<>>
          <5>1. n \in Name
            BY <1>3, SemanticJournalAssumption DEF CreateArtifact, TypeOK, Name
          <5> QED
            BY <4>2, <5>1, AppendProperties
        <4>5. \A k \in Referenced(NextManifest(s, n)) \ {n} : k \in Referenced(manifest)
          <5>1. \A j \in DOMAIN Append(manifest.deltas, n) :
                   \/ Append(manifest.deltas, n)[j] = n
                   \/ /\ j \in DOMAIN manifest.deltas
                      /\ Append(manifest.deltas, n)[j] = manifest.deltas[j]
            BY <4>2
          <5> QED
            BY <4>3, <5>1 DEF Referenced
        <4>6. \A k \in Referenced(manifest) : Kept(k)
          BY <4>1 DEF Files, KeptBy
        <4> QED
          BY <2>4, <4>3, <4>4, <4>5, <4>6 DEF NoManifest
      <3>2. CASE ~ Incremental(s)
        <4>1. NextManifest(s, n).base = n /\ NextManifest(s, n).deltas = <<>>
          BY <3>2 DEF NextManifest
        <4>2. Referenced(NextManifest(s, n)) = {n} /\ n # 0
          BY <4>1 DEF Referenced, TypeOK
        <4> QED
          BY <4>1, <4>2 DEF NoManifest
      <3> QED
        BY <3>1, <3>2
    <2>7. \A k \in DOMAIN artifact' : k <= minted'
      BY <1>3 DEF CreateArtifact, Files, TypeOK, Name
    <2> QED
      BY <1>3, <2>1, <2>2, <2>3, <2>4, <2>5, <2>6, <2>7
      DEF CreateArtifact, Files, Building, KeptBy, TypeOK
  <1>4. CASE SyncArtifact(s)
    <2>1. pc[s] = "writing" /\ pc'[s] = "written" /\ job'[s] = job[s]
      BY <1>4 DEF SyncArtifact, Goto, TypeOK
    <2>2. \A t \in Saves : pc'[t] \in Building => t = s
      BY <1>0, <1>1, <2>1 DEF Building, Locked
    <2>3. DOMAIN artifact' = DOMAIN artifact /\ artifact'[job[s].file].whole
      BY <1>4, <2>1 DEF SyncArtifact, Files, Building, TypeOK
    <2>4. \A k : Kept(k) => Kept(k)'
      BY <1>4 DEF SyncArtifact, Kept, TypeOK
    <2> QED
      BY <1>4, <2>1, <2>2, <2>3, <2>4 DEF SyncArtifact, Files, Building, KeptBy
  <1>5. CASE SyncDirectory(s)
    <2>1. pc[s] = "written" /\ pc'[s] = "staged" /\ job'[s] = job[s]
      BY <1>5 DEF SyncDirectory, Goto, TypeOK
    <2>2. \A t \in Saves : pc'[t] \in Building => t = s
      BY <1>0, <1>1, <2>1 DEF Building, Locked
    <2>3. \A k : Kept(k) => Kept(k)'
      BY <1>5 DEF SyncDirectory, Kept, TypeOK
    <2> QED
      BY <1>5, <2>1, <2>2, <2>3 DEF SyncDirectory, Files, Building, KeptBy
  <1>6. CASE PublishManifest(s)
    <2>1. pc[s] = "staged" /\ pc'[s] = "renamed" /\ job'[s] = job[s] /\ manifest' = job[s].next
      BY <1>6 DEF PublishManifest, Goto, TypeOK
    <2>2. \A t \in Saves : pc'[t] \notin Building
      BY <1>0, <1>1, <2>1 DEF Building, Locked
    <2>3. \A k \in Referenced(job[s].next) : Kept(k)
      BY <2>1 DEF Files, Building, Kept
    <2> QED
      BY <1>6, <2>1, <2>2, <2>3 DEF PublishManifest, Files, Building, KeptBy, Kept
  <1>7. CASE SyncManifest(s)
    <2>1. pc[s] = "renamed" /\ pc'[s] = "published" /\ job'[s] = job[s]
      BY <1>7 DEF SyncManifest, Goto, TypeOK
    <2>2. \A t \in Saves : pc'[t] \notin Building
      BY <1>0, <1>1, <2>1 DEF Building, Locked
    <2> QED
      BY <1>7, <2>1, <2>2 DEF SyncManifest, Files, Building, KeptBy, Kept
  <1>8. CASE Collect(s)
    <2>1. PICK gone \in SUBSET Garbage(s) :
            /\ artifact' = [n \in DOMAIN artifact \ gone |-> artifact[n]]
            /\ synced' = synced \ gone
      BY <1>8 DEF Collect
    <2>2. pc[s] = "published" /\ pc'[s] = "released"
      BY <1>8 DEF Collect, Goto, TypeOK
    <2>3. manifest = job[s].next /\ durable = job[s].next
      BY <2>2 DEF Versions
    <2>4. \A t \in Saves : pc'[t] \notin Building
      BY <1>0, <1>1, <2>2 DEF Building, Locked
    <2>5. \A k \in Referenced(job[s].next) : k \notin gone
      BY DEF Garbage, Referenced
    <2>6. \A k : Kept(k) /\ k \notin gone => Kept(k)'
      BY <2>1 DEF Kept, TypeOK
    <2> QED
      BY <1>8, <2>1, <2>3, <2>4, <2>5, <2>6 DEF Collect, Files, Building, KeptBy
  <1>9. CASE Fail(s)
    <2>1. pc'[s] = "idle"
      BY <1>9 DEF Fail, End, TypeOK
    <2>2. CASE pc[s] = "writing"
      <3>1. \A t \in Saves : pc'[t] \notin Building
        BY <1>0, <1>1, <2>1, <2>2 DEF Building, Locked
      <3>2. job[s].file \notin synced
        BY <2>2 DEF Files
      <3>3. \A k : Kept(k) => Kept(k)'
        BY <1>9, <2>2, <3>2 DEF Fail, Kept, TypeOK
      <3> QED
        BY <1>9, <2>2, <3>1, <3>3 DEF Fail, Files, Building, KeptBy
    <2>3. CASE pc[s] # "writing"
      BY <1>0, <1>9, <2>1, <2>3, DiskStill DEF Fail, disk, Building
    <2> QED
      BY <2>2, <2>3
  <1> QED
    BY <1>2, <1>3, <1>4, <1>5, <1>6, <1>7, <1>8, <1>9
    DEF SaveStep, Advance, RejectStale, Rebase, SkipUnchanged, LockExclusive, RefuseChanged, Finish,
        Goto, End, Building, TypeOK

(* Every step keeps Files.                                                 *)
LEMMA NextFiles == TypeOK /\ Locks /\ Versions /\ Files /\ [Next]_vars => Files'
  <1> SUFFICES ASSUME TypeOK, Locks, Versions, Files, [Next]_vars PROVE Files'
    OBVIOUS
  <1>1. CASE UNCHANGED vars
    BY <1>1, DiskStill DEF vars
  <1>2. CASE Next
    BY <1>2, SaveStepFiles, PrepareFiles, OwnerStepFiles, PowerLossFiles
    DEF Next, SaveSnapshot, PersistEmbeddings
  <1> QED
    BY <1>1, <1>2

---------------------------------------------------------------------------
(* Theorems *)

(* IInv holds initially and every step keeps it.                           *)
LEMMA InductiveInvariant == Spec => []IInv
  <1>1. Init => IInv
    BY InitTyped, InitLocks, InitVersions, InitFiles DEF IInv
  <1>2. IInv /\ [Next]_vars => IInv'
    BY NextTyped, NextLocks, NextVersions, NextFiles DEF IInv
  <1> QED
    BY <1>1, <1>2, PTL DEF Spec

(* Types, for every number of owners, saves and ids and every bound.       *)
THEOREM TypeCorrectness == Spec => []TypeOK
  <1>1. IInv => TypeOK
    BY DEF IInv
  <1> QED
    BY <1>1, InductiveInvariant, PTL

(* No interleaving of saves, loads, compactions, I/O errors, process       *)
(* deaths and losses of power leaves a manifest, visible or durable, that  *)
(* names a missing or unfinished file.                                     *)
ManifestArtifactsPresent ==
    \A m \in {manifest, durable} : m # NoManifest => ArtifactsPresent(m)
(* No crash, error or compaction leaves a manifest that names a file gone. *)
THEOREM ManifestsNeverDangle == Spec => []ManifestArtifactsPresent
  <1>1. IInv => ManifestArtifactsPresent
    BY DEF IInv, TypeOK, Files, KeptBy, Kept, ManifestArtifactsPresent, ArtifactsPresent
  <1> QED
    BY <1>1, InductiveInvariant, PTL

(* A loader keeps the generation it pinned (journal.rs: "an old pinned     *)
(* checkpoint is never removed while a reader is loading it").             *)
THEOREM LoadersAreSafe == Spec => []LoadersKeepTheirGeneration
  <1>1. IInv => LoadersKeepTheirGeneration
    BY DEF IInv, TypeOK, Versions, Files, KeptBy, Kept, LoadersKeepTheirGeneration,
           ArtifactsPresent
  <1> QED
    BY <1>1, InductiveInvariant, PTL

(* An older prepared save never replaces a newer completed one.            *)
THEOREM NoStaleOverwrites == Spec => NoStaleOverwrite
  <1>1. IInv /\ [Next]_vars =>
          [\A s \in Saves : Publishing(s) =>
              job[s].revision >= tracker[job[s].owner].committed]_vars
    <2> SUFFICES ASSUME IInv, NEW s \in Saves, Publishing(s)
                 PROVE  job[s].revision >= tracker[job[s].owner].committed
      OBVIOUS
    <2>1. tracker[job[s].owner].committed <= job[s].revision
      BY DEF IInv, Versions, Publishing, InLane, Locked
    <2>2. tracker[job[s].owner].committed \in Int /\ job[s].revision \in Int
      <3>1. job[s] \in Job /\ tracker[job[s].owner] \in Persistence
        BY DEF IInv, TypeOK, Publishing
      <3> QED
        BY <3>1 DEF Job, Persistence, NoRevision
    <2> QED
      BY <2>1, <2>2
  <1> QED
    BY <1>1, InductiveInvariant, PTL DEF Spec, NoStaleOverwrite

(* An owner that knows a manifest never replaces another one.              *)
THEOREM NoForeignOverwrites == Spec => NoForeignOverwrite
  <1>1. IInv /\ [Next]_vars =>
          [\A s \in Saves : Publishing(s) =>
              tracker[job[s].owner].saved \in {NoManifest, manifest}]_vars
    BY DEF IInv, Versions, Publishing, Locked, Building
  <1> QED
    BY <1>1, InductiveInvariant, PTL DEF Spec, NoForeignOverwrite

---------------------------------------------------------------------------
(***************************************************************************)
(* What is saved.  Marks relates an owner's dirty ids to its revisions;    *)
(* Ages orders the manifests anybody knows by their newest file, so that   *)
(* what is about to be published is new to everyone; Forms says how the    *)
(* manifest under construction extends the one on disk; Snapshots compares *)
(* an owner's saves with it and with each other; Stored follows the        *)
(* vectors of a snapshot into the artifacts, under the condition that its  *)
(* owner still compares equal to the disk: once somebody else has          *)
(* published, the artifacts it knew may be gone and nothing is said.       *)
(***************************************************************************)
Preparing == {"prepared", "rebased", "locked", "writing", "written", "staged"}
Written == {"written", "staged", "renamed", "published"}

Marks ==
    /\ \A o \in Owners : status[o] = "down" => tracker[o] = FreshTracker
    /\ \A o \in Owners : status[o] = "loading" =>
          /\ tracker[o].committed = NoRevision
          /\ tracker[o].dirty = {} /\ tracker[o].revision = 0
    /\ \A o \in Owners :
          /\ tracker[o].committed <= tracker[o].revision
          /\ tracker[o].committed = tracker[o].revision => tracker[o].dirty = {}
          /\ tracker[o].revision > 0 /\ tracker[o].dirty = {} => tracker[o].committed > 0
    /\ \A s \in Saves : pc[s] # "idle" => job[s].revision <= tracker[job[s].owner].revision
    /\ \A s \in Saves : pc[s] \in {"prepared", "rebased"} /\ job[s].dirty = {} /\ job[s].revision > 0
                           => tracker[job[s].owner].committed > 0
    /\ \A s \in Saves : pc[s] = "released" => job[s].dirty = {}

KnownManifests ==
    {manifest, durable} \cup {tracker[o].saved : o \in Owners} \cup {job[s].saved : s \in Saves}

Ages ==
    /\ \A m \in KnownManifests : Newest(m) <= minted
    /\ Newest(durable) <= Newest(manifest)
    /\ \A s \in Saves : pc[s] \in Building =>
          /\ Newest(job[s].next) = job[s].file /\ job[s].file <= minted
          /\ \A m \in KnownManifests : Newest(m) < job[s].file
    /\ AcknowledgedIsDurable
    /\ \A s \in Saves : pc[s] = "released" /\ job[s].revision > 0 =>
                           Newest(durable) >= Newest(job[s].saved)

\* The manifest under construction is a checkpoint, or extends the one on disk.
Forms ==
    \A s \in Saves : pc[s] \in Building =>
        /\ job[s].next.version = TargetVersion(s)
        /\ job[s].next.count = Cardinality(Live(job[s].cells))
        /\ \/ job[s].next.base = job[s].file /\ job[s].next.deltas = <<>>
           \/ /\ manifest # NoManifest /\ job[s].saved = manifest
              /\ job[s].next.base = manifest.base
              /\ job[s].next.deltas = Append(manifest.deltas, job[s].file)
              /\ manifest.version = TargetVersion(s)
              /\ Len(manifest.deltas) < MaxDeltas
              /\ Cardinality(job[s].dirty) <= MaxDeltaIds

Agree(c, d, S) == \A i \in S : c[i].vec = d[i].vec
Fits(o) == manifest # NoManifest /\ tracker[o].saved = manifest
Current(s) == pc[s] # "idle" /\ job[s].revision >= tracker[job[s].owner].committed

\* Saves of one owner agree with it, and with each other, where nothing changed between them.
Snapshots ==
    /\ \A s \in Saves : pc[s] # "idle" /\ job[s].revision = tracker[job[s].owner].revision =>
          Agree(mem[job[s].owner], job[s].cells, Ids)
    /\ \A s \in Saves : Current(s) =>
          Agree(mem[job[s].owner], job[s].cells, Ids \ tracker[job[s].owner].dirty)
    /\ \A s, t \in Saves :
          pc[s] # "idle" /\ pc[t] # "idle" /\ job[s].owner = job[t].owner =>
             /\ job[s].revision = job[t].revision => Agree(job[s].cells, job[t].cells, Ids)
             /\ pc[s] = "prepared" /\ Current(t) /\ job[t].revision <= job[s].revision =>
                   Agree(job[s].cells, job[t].cells, Ids \ job[s].dirty)

\* Replay, with the artifacts as a parameter.
LastOf(a, m, i) ==
    {k \in DOMAIN m.deltas :
        i \in DOMAIN a[m.deltas[k]].cells
        /\ \A j \in DOMAIN m.deltas : j > k => i \notin DOMAIN a[m.deltas[j]].cells}
ReplayOf(a, m) ==
    [i \in Ids |-> IF LastOf(a, m, i) = {} THEN a[m.base].cells[i]
                   ELSE a[m.deltas[CHOOSE k \in LastOf(a, m, i) : TRUE]].cells[i]]
OnDisk == ReplayOf(artifact, manifest)

\* The disk agrees with an owner in step with it, and with its saves, where they are clean.
Stored ==
    /\ \A o \in Owners : status[o] = "up" /\ Fits(o) =>
          Agree(OnDisk, mem[o], Ids \ tracker[o].dirty)
    /\ \A s \in Saves : Current(s) /\ pc[s] \in Preparing /\ Fits(job[s].owner) =>
          /\ Agree(OnDisk, job[s].cells, Ids \ job[s].dirty)
          /\ job[s].revision = tracker[job[s].owner].committed => Agree(OnDisk, job[s].cells, Ids)
    /\ \A s \in Saves : pc[s] \in Written =>
          Agree(ReplayOf(artifact, job[s].next), job[s].cells, Ids)
    /\ \A s \in Saves : pc[s] = "released" /\ manifest # NoManifest /\ job[s].saved = manifest =>
          Agree(OnDisk, job[s].cells, Ids)

\* What journal::load asks of a manifest, without the presence of its artifacts.
SoundOn(a, m) ==
    /\ Len(m.deltas) <= MaxDeltas
    /\ DOMAIN a[m.base].cells = Ids
    /\ m.version = 5 => Proven(a[m.base].cells) # {}
    /\ \A k \in DOMAIN m.deltas :
          LET cells == a[m.deltas[k]].cells IN
          /\ Cardinality(DOMAIN cells) <= MaxDeltaIds
          /\ m.version # 5 => \A i \in DOMAIN cells : ~ cells[i].prov
    /\ Cardinality(Live(ReplayOf(a, m))) = m.count

Soundness ==
    /\ \A m \in {manifest, durable} : m # NoManifest => SoundOn(artifact, m)
    /\ \A s \in Saves : pc[s] \in Written => SoundOn(artifact, job[s].next)

---------------------------------------------------------------------------
(* Marks *)

(* The parts of a tracker and of a job, at their types.                    *)
LEMMA TrackerTyped ==
  ASSUME TypeOK, NEW o \in Owners
  PROVE  /\ tracker[o] \in Persistence
         /\ tracker[o].dirty \subseteq Ids /\ tracker[o].saved \in Manifest
         /\ tracker[o].revision \in Nat /\ tracker[o].committed \in Int
         /\ tracker[o].committed >= -1
  <1>1. tracker[o] \in Persistence
    BY DEF TypeOK
  <1> QED
    BY <1>1 DEF Persistence, NoRevision

LEMMA JobTyped ==
  ASSUME TypeOK, NEW s \in Saves
  PROVE  /\ job[s] \in Job
         /\ job[s].cells \in Content /\ job[s].dirty \subseteq Ids
         /\ job[s].saved \in Manifest /\ job[s].next \in Manifest
         /\ job[s].revision \in Nat /\ job[s].file \in 0..MaxArtifacts
         /\ pc[s] # "idle" => job[s].owner \in Owners
  <1>1. job[s] \in Job
    BY DEF TypeOK
  <1> QED
    BY <1>1 DEF Job, TypeOK

(* Marking some id dirty moves the revision on and leaves the rest.        *)
LEMMA MarkDirtyMoves ==
  ASSUME TypeOK, NEW o \in Owners, NEW ids \in SUBSET Ids, ids # {}, MarkDirty(o, ids)
  PROVE  /\ tracker' \in [Owners -> Persistence]
         /\ \A p \in Owners \ {o} : tracker'[p] = tracker[p]
         /\ tracker'[o].saved = tracker[o].saved
         /\ tracker'[o].committed = tracker[o].committed
         /\ tracker'[o].dirty = tracker[o].dirty \cup ids
         /\ tracker'[o].revision > tracker[o].revision
  <1>1. tracker' \in [Owners -> Persistence]
    BY MarkDirtyTyped DEF TypeOK
  <1>2. IsFiniteSet(ids) /\ Cardinality(ids) \in Nat /\ Cardinality(ids) # 0
    BY SemanticJournalAssumption, CardinalityOfIds, FS_Subset, FS_EmptySet
  <1>3. tracker'[o].revision = tracker[o].revision + Cardinality(ids)
    BY TrackerTyped DEF MarkDirty, TypeOK, Persistence
  <1>4. /\ \A p \in Owners \ {o} : tracker'[p] = tracker[p]
        /\ tracker'[o].saved = tracker[o].saved
        /\ tracker'[o].committed = tracker[o].committed
        /\ tracker'[o].dirty = tracker[o].dirty \cup ids
    BY TrackerTyped DEF MarkDirty, TypeOK, Persistence
  <1> QED
    BY <1>1, <1>2, <1>3, <1>4, TrackerTyped

(* Every change of vectors or provenance in memory marks what it changes.  *)
LEMMA ChangesAreMarked ==
  ASSUME TypeOK, NEW o \in Owners,
         \/ \E i \in Ids, v \in Vecs : InsertEmbedding(o, i, v)
         \/ \E i \in Ids : RecordSourceProvenance(o, i) \/ RemoveEmbeddings(o, i)
         \/ ClearEmbeddings(o)
  PROVE  \E ids \in SUBSET Ids :
            /\ ids # {} /\ MarkDirty(o, ids) /\ MayChange(o)
            /\ \A p \in Owners \ {o} : mem'[p] = mem[p]
            /\ Agree(mem'[o], mem[o], Ids \ ids)
  <1>0. mem \in [Owners -> Content] /\ mem[o] \in Content
    BY DEF TypeOK
  <1>1. ASSUME NEW i \in Ids, NEW v \in Vecs, InsertEmbedding(o, i, v)
        PROVE  /\ MarkDirty(o, {i}) /\ MayChange(o)
               /\ \A p \in Owners \ {o} : mem'[p] = mem[p]
               /\ Agree(mem'[o], mem[o], Ids \ {i})
    BY <1>0, <1>1 DEF InsertEmbedding, Agree, Content
  <1>2. ASSUME NEW i \in Ids, RecordSourceProvenance(o, i)
        PROVE  /\ MarkDirty(o, {i}) /\ MayChange(o)
               /\ \A p \in Owners \ {o} : mem'[p] = mem[p]
               /\ Agree(mem'[o], mem[o], Ids \ {i})
    BY <1>0, <1>2 DEF RecordSourceProvenance, Agree
  <1>3. ASSUME NEW i \in Ids, RemoveEmbeddings(o, i)
        PROVE  /\ MarkDirty(o, {i}) /\ MayChange(o)
               /\ \A p \in Owners \ {o} : mem'[p] = mem[p]
               /\ Agree(mem'[o], mem[o], Ids \ {i})
    BY <1>0, <1>3 DEF RemoveEmbeddings, Agree, Content
  <1>4. ASSUME ClearEmbeddings(o)
        PROVE  /\ Live(mem[o]) \in SUBSET Ids /\ Live(mem[o]) # {}
               /\ MarkDirty(o, Live(mem[o])) /\ MayChange(o)
               /\ \A p \in Owners \ {o} : mem'[p] = mem[p]
               /\ Agree(mem'[o], mem[o], Ids \ Live(mem[o]))
    <2>1. mem' = [mem EXCEPT ![o] = [i \in Ids |-> Absent]]
      BY <1>4 DEF ClearEmbeddings
    <2>2. mem'[o] = [i \in Ids |-> Absent] /\ \A p \in Owners \ {o} : mem'[p] = mem[p]
      BY <1>0, <2>1
    <2>3. Agree(mem'[o], mem[o], Ids \ Live(mem[o]))
      BY <2>2 DEF Agree, Live, Absent
    <2> QED
      BY <1>4, <2>2, <2>3 DEF ClearEmbeddings, Live
  <1>5. \A i \in Ids : {i} \in SUBSET Ids /\ {i} # {}
    OBVIOUS
  <1> QED
    BY <1>1, <1>2, <1>3, <1>4, <1>5

(* At the start nothing is marked and nothing prepared.                    *)
LEMMA InitMarks == Init => Marks
  BY DEF Init, Marks, FreshTracker, NoRevision

(* Dying owners start anew, and their saves are gone.                      *)
LEMMA DieMarks ==
  ASSUME TypeOK, Marks, NEW dead \in SUBSET Owners, Die(dead)
  PROVE  Marks'
  <1>1. \A o \in Owners : IF o \in dead THEN status'[o] = "down" /\ tracker'[o] = FreshTracker
                          ELSE status'[o] = status[o] /\ tracker'[o] = tracker[o]
    BY DEF Die
  <1>2. \A s \in Saves : pc'[s] # "idle" => /\ pc'[s] = pc[s] /\ job'[s] = job[s]
                                            /\ job[s].owner \in Owners \ dead
    BY DEF Die, TypeOK
  <1>3. /\ FreshTracker.committed = -1 /\ FreshTracker.revision = 0 /\ FreshTracker.dirty = {}
    BY DEF FreshTracker, NoRevision
  <1>4. \A o \in Owners : tracker[o].revision \in Nat /\ tracker[o].committed \in Int
    BY TrackerTyped
  <1> QED
    BY <1>1, <1>2, <1>3, <1>4 DEF Marks

(* Owners.                                                                 *)
LEMMA OwnerStepMarks ==
  ASSUME TypeOK, Locks, Marks, NEW o \in Owners, OwnerStep(o)
  PROVE  Marks'
  <1>0. \A p \in Owners : tracker[p] \in Persistence /\ tracker[p].revision \in Nat
                          /\ tracker[p].committed \in Int
    BY TrackerTyped
  <1>1. CASE StartEmpty(o)
    BY <1>1 DEF StartEmpty, locks, TypeOK, Marks
  <1>2. CASE OpenLoad(o)
    <2>1. /\ tracker'[o].dirty = {} /\ tracker'[o].revision = 0
          /\ tracker'[o].committed = NoRevision
          /\ status'[o] = "loading"
          /\ \A p \in Owners \ {o} : tracker'[p] = tracker[p] /\ status'[p] = status[p]
          /\ pc' = pc /\ job' = job
      BY <1>2 DEF OpenLoad, Marks, TypeOK, FreshTracker
    <2>2. \A s \in Saves : pc[s] # "idle" => job[s].owner # o
      BY <1>2 DEF OpenLoad, Locks
    <2> QED
      BY <1>0, <2>1, <2>2 DEF Marks, NoRevision, TypeOK
  <1>3. CASE CompleteLoad(o)
    <2>1. /\ tracker'[o].dirty = {} /\ tracker'[o].revision = 0 /\ tracker'[o].committed = 0
          /\ status'[o] = "up"
          /\ \A p \in Owners \ {o} : tracker'[p] = tracker[p] /\ status'[p] = status[p]
          /\ pc' = pc /\ job' = job
      BY <1>0, <1>3 DEF CompleteLoad, Marks, TypeOK, Persistence
    <2>2. \A s \in Saves : pc[s] # "idle" => job[s].owner # o
      BY <1>3 DEF CompleteLoad, Locks
    <2> QED
      BY <1>0, <2>1, <2>2 DEF Marks, TypeOK
  <1>4. CASE FailLoad(o)
    <2>1. /\ tracker'[o] = FreshTracker /\ status'[o] = "down"
          /\ \A p \in Owners \ {o} : tracker'[p] = tracker[p] /\ status'[p] = status[p]
          /\ pc' = pc /\ job' = job
      BY <1>4 DEF FailLoad, TypeOK
    <2>2. \A s \in Saves : pc[s] # "idle" => job[s].owner # o
      BY <1>4 DEF FailLoad, Locks
    <2>3. FreshTracker.committed = -1 /\ FreshTracker.revision = 0 /\ FreshTracker.dirty = {}
      BY DEF FreshTracker, NoRevision
    <2> QED
      BY <1>0, <2>1, <2>2, <2>3 DEF Marks, TypeOK
  <1>5. CASE \/ \E i \in Ids, v \in Vecs : InsertEmbedding(o, i, v)
             \/ \E i \in Ids : RecordSourceProvenance(o, i) \/ RemoveEmbeddings(o, i)
             \/ ClearEmbeddings(o)
    <2>1. PICK ids \in SUBSET Ids : ids # {} /\ MarkDirty(o, ids) /\ MayChange(o)
      BY <1>5, ChangesAreMarked
    <2>2. /\ \A p \in Owners \ {o} : tracker'[p] = tracker[p]
          /\ tracker'[o].committed = tracker[o].committed
          /\ tracker'[o].dirty # {}
          /\ tracker'[o].revision > tracker[o].revision
          /\ tracker'[o].revision \in Nat
      BY <2>1, MarkDirtyMoves DEF Persistence
    <2>3. status' = status /\ status[o] = "up" /\ pc' = pc /\ job' = job
      BY <2>1 DEF MayChange
    <2>4. \A s \in Saves : job[s].revision \in Nat
      BY JobTyped
    <2> QED
      BY <1>0, <2>2, <2>3, <2>4 DEF Marks, TypeOK
  <1>6. CASE Crash(o)
    BY <1>6, DieMarks DEF Crash
  <1> QED
    BY <1>1, <1>2, <1>3, <1>4, <1>5, <1>6 DEF OwnerStep

(* A prepared save has the marks of its owner.                             *)
LEMMA PrepareMarks ==
  ASSUME TypeOK, Marks, NEW s \in Saves, NEW o \in Owners, NEW cells, PrepareFrom(s, o, cells)
  PROVE  Marks'
  <1>1. /\ pc'[s] = "prepared" /\ job'[s].owner = o /\ job'[s].dirty = tracker[o].dirty
        /\ job'[s].revision = tracker[o].revision
        /\ \A t \in Saves \ {s} : pc'[t] = pc[t] /\ job'[t] = job[t]
        /\ status' = status /\ tracker' = tracker
    BY DEF PrepareFrom, TypeOK
  <1>2. tracker[o].revision \in Nat
    BY TrackerTyped
  <1> QED
    BY <1>1, <1>2 DEF Marks

(* Saves.                                                                  *)
LEMMA SaveStepMarks ==
  ASSUME TypeOK, Locks, Versions, Marks, NEW s \in Saves, SaveStep(s)
  PROVE  Marks'
  <1> DEFINE o == job[s].owner
  <1>0. /\ pc[s] # "idle" /\ o \in Owners /\ tracker[o] \in Persistence
        /\ tracker[o].revision \in Nat /\ tracker[o].committed \in Int
        /\ job[s] \in Job /\ job[s].revision \in Nat
    <2>1. pc[s] # "idle"
      BY DEF SaveStep, Advance, RejectStale, Rebase, SkipUnchanged, LockExclusive, RefuseChanged,
             CreateArtifact, SyncArtifact, SyncDirectory, PublishManifest, SyncManifest, Collect,
             Finish, Fail, Goto
    <2> QED
      BY <2>1, JobTyped, TrackerTyped
  <1>1. \A t \in Saves \ {s} : pc'[t] = pc[t] /\ job'[t] = job[t]
    BY DEF SaveStep, Advance, RejectStale, Rebase, SkipUnchanged, LockExclusive, RefuseChanged,
           CreateArtifact, SyncArtifact, SyncDirectory, PublishManifest, SyncManifest, Collect,
           Finish, Fail, Goto, End, TypeOK
  <1>2. CASE /\ UNCHANGED <<status, tracker>>
             /\ pc'[s] \notin {"prepared", "rebased"}
             /\ pc'[s] # "idle" => job'[s].owner = o /\ job'[s].revision = job[s].revision
             /\ pc'[s] = "released" => job'[s].dirty = {}
    BY <1>0, <1>1, <1>2 DEF Marks
  <1>3. CASE RejectStale(s) \/ RefuseChanged(s) \/ Fail(s)
    BY <1>2, <1>3 DEF RejectStale, RefuseChanged, Fail, End, memory, TypeOK
  <1>4. CASE Rebase(s)
    <2>1. /\ pc'[s] = "rebased" /\ job'[s].owner = o /\ job'[s].revision = job[s].revision
          /\ job'[s].dirty = IF tracker[o].committed = job[s].revision THEN {} ELSE job[s].dirty
          /\ pc[s] = "prepared" /\ UNCHANGED <<status, tracker>>
      BY <1>0, <1>4 DEF Rebase, Goto, memory, TypeOK, Job
    <2> QED
      BY <1>0, <1>1, <2>1 DEF Marks
  <1>5. CASE SkipUnchanged(s)
    BY <1>2, <1>5 DEF SkipUnchanged, Unchanged, Goto, memory, TypeOK
  <1>6. CASE LockExclusive(s) \/ SyncArtifact(s) \/ SyncDirectory(s) \/ PublishManifest(s)
             \/ SyncManifest(s)
    BY <1>2, <1>6 DEF LockExclusive, SyncArtifact, SyncDirectory, PublishManifest, SyncManifest,
                      Goto, memory, TypeOK
  <1>7. CASE CreateArtifact(s)
    <2>1. pc'[s] = "writing" /\ job'[s].owner = o /\ job'[s].revision = job[s].revision
      BY <1>0, <1>7 DEF CreateArtifact, Goto, TypeOK, Job
    <2> QED
      BY <1>2, <1>7, <2>1 DEF CreateArtifact, memory
  <1>8. CASE Collect(s)
    <2>1. /\ pc'[s] = "released" /\ job'[s].owner = o /\ job'[s].revision = job[s].revision
          /\ job'[s].dirty = {}
      BY <1>0, <1>8 DEF Collect, Goto, TypeOK, Job
    <2> QED
      BY <1>2, <1>8, <2>1 DEF Collect, memory
  <1>9. CASE Finish(s)
    <2>1. /\ pc'[s] = "idle" /\ pc[s] = "released" /\ status' = status
          /\ \A p \in Owners \ {o} : tracker'[p] = tracker[p]
          /\ tracker'[o].committed = job[s].revision /\ tracker'[o].revision = tracker[o].revision
          /\ tracker'[o].dirty = IF tracker[o].revision # job[s].revision THEN tracker[o].dirty
                                 ELSE job[s].dirty
      BY <1>0, <1>9 DEF Finish, End, TypeOK, Persistence
    <2>2. /\ job[s].dirty = {} /\ job[s].revision <= tracker[o].revision
          /\ tracker[o].committed <= job[s].revision
          /\ status[o] = "up"
      BY <1>0, <2>1 DEF Marks, Versions, InLane, Locks
    <2>3. \A t \in Saves : pc[t] # "idle" => job[t].owner \in Owners
      BY JobTyped
    <2> QED
      BY <1>0, <1>1, <2>1, <2>2, <2>3 DEF Marks
  <1> QED
    BY <1>3, <1>4, <1>5, <1>6, <1>7, <1>8, <1>9 DEF SaveStep, Advance

(* Every step keeps Marks.                                                 *)
LEMMA NextMarks == TypeOK /\ Locks /\ Versions /\ Marks /\ [Next]_vars => Marks'
  <1> SUFFICES ASSUME TypeOK, Locks, Versions, Marks, [Next]_vars PROVE Marks'
    OBVIOUS
  <1>1. CASE UNCHANGED vars
    BY <1>1 DEF vars, memory, Marks
  <1>2. CASE Next
    BY <1>2, SaveStepMarks, PrepareMarks, OwnerStepMarks, DieMarks
    DEF Next, PowerLoss, SaveSnapshot, PersistEmbeddings
  <1> QED
    BY <1>1, <1>2

---------------------------------------------------------------------------
(* Ages *)

(* The newest file of a manifest is one of the names.                      *)
LEMMA NewestTyped ==
  /\ \A m \in Manifest : Newest(m) \in Nat
  /\ Newest(NoManifest) = 0
  <1>1. ASSUME NEW m \in Manifest PROVE Newest(m) \in Nat
    <2>1. m.base \in Nat /\ m.deltas \in Seq(Name)
      BY SemanticJournalAssumption DEF Manifest
    <2>2. CASE m.deltas # <<>>
      <3>1. Len(m.deltas) \in DOMAIN m.deltas
        BY <2>1, <2>2
      <3>2. m.deltas[Len(m.deltas)] \in Name
        BY <2>1, <3>1
      <3> QED
        BY <2>2, <3>2, SemanticJournalAssumption DEF Newest, Name
    <2> QED
      BY <2>1, <2>2 DEF Newest
  <1>2. Newest(NoManifest) = 0
    BY DEF Newest, NoManifest
  <1> QED
    BY <1>1, <1>2

(* Everything known is a manifest.                                         *)
LEMMA KnownTyped ==
  ASSUME TypeOK
  PROVE  KnownManifests \subseteq Manifest
  BY TrackerTyped, JobTyped DEF KnownManifests, TypeOK

(* A step that makes no manifest known keeps the order of their ages, if   *)
(* it takes no acknowledgement back.                                       *)
LEMMA NothingNewAges ==
  ASSUME TypeOK, Ages, UNCHANGED minted,
         KnownManifests' \subseteq KnownManifests \cup {NoManifest},
         Newest(durable') <= Newest(manifest'),
         \A s \in Saves : pc'[s] \in Building =>
            pc[s] \in Building /\ job'[s].next = job[s].next /\ job'[s].file = job[s].file,
         \A o \in Owners : tracker'[o].committed > 0 =>
            Newest(durable') >= Newest(tracker'[o].saved),
         \A s \in Saves : pc'[s] = "released" /\ job'[s].revision > 0 =>
            Newest(durable') >= Newest(job'[s].saved)
  PROVE  Ages'
  <1>1. KnownManifests \subseteq Manifest /\ manifest \in KnownManifests
    BY KnownTyped DEF KnownManifests
  <1>2. /\ Newest(NoManifest) = 0
        /\ \A m \in KnownManifests : Newest(m) \in Nat
    BY <1>1, NewestTyped
  <1>3. \A s \in Saves : job[s].file \in Nat /\ minted \in Nat
    BY JobTyped, SemanticJournalAssumption DEF TypeOK
  <1>4. minted \in Nat
    BY SemanticJournalAssumption DEF TypeOK
  <1>5. \A m \in KnownManifests' : Newest(m) <= minted'
    BY <1>2, <1>4 DEF Ages
  <1>6. ASSUME NEW s \in Saves, pc'[s] \in Building
        PROVE  /\ Newest(job'[s].next) = job'[s].file /\ job'[s].file <= minted'
               /\ \A m \in KnownManifests' : Newest(m) < job'[s].file
    <2>1. /\ Newest(job[s].next) = job[s].file /\ job[s].file <= minted
          /\ \A m \in KnownManifests : Newest(m) < job[s].file
      BY <1>6 DEF Ages
    <2>2. 0 < job[s].file
      BY <1>1, <1>2, <1>3, <2>1
    <2> QED
      BY <1>2, <1>6, <2>1, <2>2
  <1>7. AcknowledgedIsDurable'
    BY DEF AcknowledgedIsDurable
  <1> QED
    BY <1>5, <1>6, <1>7 DEF Ages

(* An empty directory has no ages.                                         *)
LEMMA InitAges == Init => Ages
  <1> SUFFICES ASSUME Init PROVE Ages
    OBVIOUS
  <1>1. FreshTracker.committed = -1 /\ FreshTracker.saved = NoManifest /\ NoJob.saved = NoManifest
    BY DEF FreshTracker, NoJob, NoRevision
  <1>2. \A m \in KnownManifests : m = NoManifest
    BY <1>1 DEF Init, KnownManifests
  <1>3. AcknowledgedIsDurable
    BY <1>1 DEF Init, AcknowledgedIsDurable
  <1> QED
    BY <1>2, <1>3, NewestTyped DEF Init, Ages, Building

(* The dead know nothing.                                                  *)
LEMMA DieAges ==
  ASSUME TypeOK, Ages, NEW dead \in SUBSET Owners, Die(dead),
         \/ UNCHANGED disk
         \/ dead = Owners /\ UNCHANGED minted /\ manifest' \in {manifest, durable}
                          /\ durable' = manifest'
  PROVE  Ages'
  <1>1. FreshTracker.committed = -1 /\ FreshTracker.saved = NoManifest /\ NoJob.saved = NoManifest
    BY DEF FreshTracker, NoJob, NoRevision
  <1>2. \A o \in Owners : tracker'[o] = IF o \in dead THEN FreshTracker ELSE tracker[o]
    BY DEF Die
  <1>3. \A s \in Saves : /\ pc'[s] # "idle" => /\ pc'[s] = pc[s] /\ job'[s] = job[s]
                                               /\ job[s].owner \in Owners \ dead
                         /\ job'[s] = job[s] \/ job'[s] = NoJob
    BY DEF Die, TypeOK
  <1>4. KnownManifests' \subseteq KnownManifests \cup {NoManifest}
    BY <1>1, <1>2, <1>3 DEF KnownManifests, disk
  <1>5. Newest(durable') <= Newest(manifest') /\ UNCHANGED minted
    <2>1. durable' \in Manifest /\ manifest' \in Manifest
      BY DEF TypeOK, disk
    <2> QED
      BY <2>1, NewestTyped DEF disk, Ages
  <1>6. \A s \in Saves : pc'[s] \in Building =>
            pc[s] \in Building /\ job'[s].next = job[s].next /\ job'[s].file = job[s].file
    BY <1>3 DEF Building
  <1>7. \A o \in Owners : tracker'[o].committed > 0 =>
            Newest(durable') >= Newest(tracker'[o].saved)
    BY <1>1, <1>2 DEF Ages, AcknowledgedIsDurable, disk
  <1>8. \A s \in Saves : pc'[s] = "released" /\ job'[s].revision > 0 =>
            Newest(durable') >= Newest(job'[s].saved)
    BY <1>3 DEF Ages, disk
  <1> QED
    BY <1>4, <1>5, <1>6, <1>7, <1>8, NothingNewAges

(* An owner knows what is on disk, or nothing; a load acknowledges no save.*)
LEMMA OwnerStepAges ==
  ASSUME TypeOK, Marks, Ages, NEW o \in Owners, OwnerStep(o)
  PROVE  Ages'
  <1>0. FreshTracker.committed = -1 /\ FreshTracker.saved = NoManifest
    BY DEF FreshTracker, NoRevision
  <1>1. CASE Crash(o)
    BY <1>1, DieAges DEF Crash
  <1>2. ASSUME UNCHANGED <<disk, pc, job>>,
               \A p \in Owners \ {o} : tracker'[p] = tracker[p],
               tracker'[o].saved \in {tracker[o].saved, manifest, NoManifest},
               tracker'[o].committed > 0 => tracker'[o].committed = tracker[o].committed
                                            /\ tracker'[o].saved = tracker[o].saved
        PROVE  Ages'
    <2>1. KnownManifests' \subseteq KnownManifests \cup {NoManifest}
      BY <1>2 DEF KnownManifests, disk
    <2>2. \A p \in Owners : tracker'[p].committed > 0 =>
            Newest(durable') >= Newest(tracker'[p].saved)
      BY <1>2 DEF Ages, AcknowledgedIsDurable, disk
    <2> QED
      BY <1>2, <2>1, <2>2, NothingNewAges DEF Ages, disk
  <1>3. CASE StartEmpty(o)
    BY <1>2, <1>3 DEF StartEmpty
  <1>4. CASE OpenLoad(o)
    BY <1>0, <1>2, <1>4 DEF OpenLoad, Marks, TypeOK, Persistence
  <1>5. CASE CompleteLoad(o)
    BY <1>2, <1>5 DEF CompleteLoad, TypeOK, Persistence
  <1>6. CASE FailLoad(o)
    BY <1>0, <1>2, <1>6 DEF FailLoad, TypeOK
  <1>7. CASE \/ \E i \in Ids, v \in Vecs : InsertEmbedding(o, i, v)
             \/ \E i \in Ids : RecordSourceProvenance(o, i) \/ RemoveEmbeddings(o, i)
             \/ ClearEmbeddings(o)
    <2>1. PICK ids \in SUBSET Ids : ids # {} /\ MarkDirty(o, ids) /\ MayChange(o)
      BY <1>7, ChangesAreMarked
    <2> QED
      BY <1>2, <2>1, MarkDirtyMoves DEF MayChange
  <1> QED
    BY <1>1, <1>3, <1>4, <1>5, <1>6, <1>7 DEF OwnerStep

(* A prepared save knows what its owner knows.                             *)
LEMMA PrepareAges ==
  ASSUME TypeOK, Ages, NEW s \in Saves, NEW o \in Owners, NEW cells, PrepareFrom(s, o, cells)
  PROVE  Ages'
  <1>1. /\ pc'[s] = "prepared" /\ job'[s].saved = tracker[o].saved
        /\ \A t \in Saves \ {s} : pc'[t] = pc[t] /\ job'[t] = job[t]
        /\ UNCHANGED <<tracker, minted, manifest, durable>>
    BY DEF PrepareFrom, TypeOK, disk
  <1>2. KnownManifests' \subseteq KnownManifests \cup {NoManifest}
    BY <1>1 DEF KnownManifests
  <1>3. \A p \in Owners : tracker'[p].committed > 0 =>
            Newest(durable') >= Newest(tracker'[p].saved)
    BY <1>1 DEF Ages, AcknowledgedIsDurable
  <1> QED
    BY <1>1, <1>2, <1>3, NothingNewAges DEF Ages, Building

(* The file a save creates is newer than all that is known; what it        *)
(* publishes is durable before it is acknowledged.                         *)
LEMMA SaveStepAges ==
  ASSUME TypeOK, Locks, Versions, Marks, Ages, NEW s \in Saves, SaveStep(s)
  PROVE  Ages'
  <1> DEFINE o == job[s].owner
  <1>0. /\ pc[s] # "idle" /\ o \in Owners /\ tracker[o] \in Persistence
        /\ job[s] \in Job /\ NoJob.saved = NoManifest
    <2>1. pc[s] # "idle"
      BY DEF SaveStep, Advance, RejectStale, Rebase, SkipUnchanged, LockExclusive, RefuseChanged,
             CreateArtifact, SyncArtifact, SyncDirectory, PublishManifest, SyncManifest, Collect,
             Finish, Fail, Goto
    <2> QED
      BY <2>1, JobTyped, TrackerTyped DEF NoJob
  <1>1. \A t \in Saves \ {s} : pc'[t] = pc[t] /\ job'[t] = job[t]
    BY DEF SaveStep, Advance, RejectStale, Rebase, SkipUnchanged, LockExclusive, RefuseChanged,
           CreateArtifact, SyncArtifact, SyncDirectory, PublishManifest, SyncManifest, Collect,
           Finish, Fail, Goto, End, TypeOK
  <1>2. pc[s] \in Locked => \A t \in Saves \ {s} : pc[t] \notin Building
    BY DEF Locks, Locked, Building
  <1>3. ASSUME UNCHANGED <<tracker, minted, manifest, durable>>,
               job'[s].saved \in KnownManifests \cup {NoManifest},
               pc'[s] \in Building =>
                  pc[s] \in Building /\ job'[s].next = job[s].next /\ job'[s].file = job[s].file,
               pc'[s] = "released" /\ job'[s].revision > 0 =>
                  Newest(durable) >= Newest(job'[s].saved)
        PROVE  Ages'
    <2>1. KnownManifests' \subseteq KnownManifests \cup {NoManifest}
      BY <1>1, <1>3 DEF KnownManifests
    <2>2. \A p \in Owners : tracker'[p].committed > 0 =>
            Newest(durable') >= Newest(tracker'[p].saved)
      BY <1>3 DEF Ages, AcknowledgedIsDurable
    <2>3. \A t \in Saves : pc'[t] \in Building =>
            pc[t] \in Building /\ job'[t].next = job[t].next /\ job'[t].file = job[t].file
      BY <1>1, <1>3
    <2>4. \A t \in Saves : pc'[t] = "released" /\ job'[t].revision > 0 =>
            Newest(durable') >= Newest(job'[t].saved)
      BY <1>1, <1>3 DEF Ages
    <2> QED
      BY <1>3, <2>1, <2>2, <2>3, <2>4, NothingNewAges DEF Ages
  <1>4. CASE RejectStale(s) \/ RefuseChanged(s) \/ Fail(s)
    BY <1>0, <1>3, <1>4 DEF RejectStale, RefuseChanged, Fail, End, memory, disk, Building, TypeOK
  <1>5. CASE Rebase(s)
    <2>1. job'[s].saved = tracker[o].saved /\ pc'[s] = "rebased"
          /\ UNCHANGED <<tracker, minted, manifest, durable>>
      BY <1>0, <1>5 DEF Rebase, Goto, memory, disk, TypeOK, Job
    <2> QED
      BY <1>0, <1>3, <2>1 DEF KnownManifests, Building
  <1>6. CASE SkipUnchanged(s)
    <2>1. /\ pc[s] = "rebased" /\ job[s].dirty = {} /\ pc'[s] = "released" /\ job' = job
          /\ UNCHANGED <<tracker, minted, manifest, durable>>
      BY <1>6 DEF SkipUnchanged, Unchanged, Goto, memory, disk, TypeOK
    <2>2. job[s].revision > 0 => tracker[o].committed > 0 /\ tracker[o].saved = job[s].saved
      BY <2>1 DEF Marks, Versions
    <2> QED
      BY <1>0, <1>3, <2>1, <2>2 DEF KnownManifests, Building, Ages, AcknowledgedIsDurable
  <1>7. CASE LockExclusive(s)
    BY <1>3, <1>7 DEF LockExclusive, Goto, memory, disk, TypeOK, KnownManifests, Building
  <1>8. CASE CreateArtifact(s)
    <2> DEFINE n == minted + 1
    <2>1. /\ pc[s] = "locked" /\ pc'[s] = "writing" /\ minted' = n
          /\ job'[s].next = NextManifest(s, n) /\ job'[s].file = n
          /\ job'[s].saved = job[s].saved
          /\ UNCHANGED <<tracker, manifest, durable>>
      BY <1>0, <1>8 DEF CreateArtifact, Goto, memory, TypeOK, Job
    <2>2. KnownManifests' = KnownManifests
      BY <1>1, <2>1 DEF KnownManifests
    <2>3. n \in Nat /\ minted \in Nat /\ minted < n
      BY SemanticJournalAssumption DEF TypeOK
    <2>4. Newest(NextManifest(s, n)) = n
      <3>1. manifest.deltas \in Seq(Name)
        BY DEF TypeOK, Manifest
      <3>2. /\ n \in Name
        BY <1>8, <2>3, SemanticJournalAssumption DEF CreateArtifact, Name
      <3>3. /\ Append(manifest.deltas, n) # <<>>
            /\ Append(manifest.deltas, n)[Len(Append(manifest.deltas, n))] = n
        BY <3>1, <3>2, AppendProperties
      <3> HIDE DEF n
      <3> QED
        BY <3>3 DEF NextManifest, Newest
    <2>5. \A m \in KnownManifests : Newest(m) <= minted /\ Newest(m) \in Nat
      BY KnownTyped, NewestTyped DEF Ages
    <2>6. AcknowledgedIsDurable'
      BY <2>1 DEF Ages, AcknowledgedIsDurable
    <2>7. \A t \in Saves : pc'[t] \in Building => t = s
      BY <1>1, <1>2, <2>1 DEF Locked
    <2>8. \A t \in Saves : pc'[t] = "released" /\ job'[t].revision > 0 =>
            Newest(durable') >= Newest(job'[t].saved)
      BY <1>1, <2>1 DEF Ages
    <2>9. \A m \in KnownManifests' : Newest(m) <= minted' /\ Newest(m) < n
      BY <2>1, <2>2, <2>3, <2>5
    <2>10. Newest(durable') <= Newest(manifest')
      BY <2>1 DEF Ages
    <2> HIDE DEF n
    <2> QED
      BY <2>1, <2>3, <2>4, <2>6, <2>7, <2>8, <2>9, <2>10 DEF Ages
  <1>9. CASE SyncArtifact(s) \/ SyncDirectory(s)
    BY <1>3, <1>9 DEF SyncArtifact, SyncDirectory, Goto, memory, TypeOK, KnownManifests, Building
  <1>10. CASE PublishManifest(s)
    <2>1. /\ pc[s] = "staged" /\ pc'[s] = "renamed" /\ manifest' = job[s].next /\ job' = job
          /\ UNCHANGED <<tracker, minted, durable>>
      BY <1>10 DEF PublishManifest, Goto, memory, TypeOK
    <2>2. KnownManifests' \subseteq KnownManifests \cup {job[s].next}
      BY <2>1 DEF KnownManifests
    <2>3. /\ Newest(job[s].next) = job[s].file /\ job[s].file <= minted
          /\ Newest(durable) < job[s].file
      BY <2>1 DEF Ages, Building, KnownManifests
    <2>4. \A m \in KnownManifests' : Newest(m) <= minted'
      BY <2>1, <2>2, <2>3 DEF Ages
    <2>5. Newest(durable') <= Newest(manifest')
      BY <2>1, <2>3, NewestTyped, JobTyped DEF TypeOK
    <2>6. \A t \in Saves : pc'[t] \notin Building
      BY <1>1, <1>2, <2>1 DEF Locked, Building
    <2>7. AcknowledgedIsDurable'
      BY <2>1 DEF Ages, AcknowledgedIsDurable
    <2>8. \A t \in Saves : pc'[t] = "released" /\ job'[t].revision > 0 =>
            Newest(durable') >= Newest(job'[t].saved)
      BY <1>1, <2>1 DEF Ages
    <2> QED
      BY <2>4, <2>5, <2>6, <2>7, <2>8 DEF Ages
  <1>11. CASE SyncManifest(s)
    <2>1. /\ pc[s] = "renamed" /\ pc'[s] = "published" /\ durable' = manifest /\ job' = job
          /\ UNCHANGED <<tracker, minted, manifest>>
      BY <1>11 DEF SyncManifest, Goto, memory, TypeOK
    <2>2. KnownManifests' \subseteq KnownManifests \cup {NoManifest}
      BY <2>1 DEF KnownManifests
    <2>3. /\ Newest(durable) \in Nat /\ Newest(manifest) \in Nat
          /\ Newest(durable) <= Newest(manifest)
      BY NewestTyped DEF Ages, TypeOK
    <2>4. \A m \in Manifest : Newest(durable) >= Newest(m) => Newest(durable') >= Newest(m)
      BY <2>1, <2>3, NewestTyped
    <2>5. \A p \in Owners : tracker'[p].committed > 0 =>
            Newest(durable') >= Newest(tracker'[p].saved)
      BY <2>1, <2>4, TrackerTyped DEF Ages, AcknowledgedIsDurable
    <2>6. \A t \in Saves : pc'[t] = "released" /\ job'[t].revision > 0 =>
            Newest(durable') >= Newest(job'[t].saved)
      BY <1>1, <2>1, <2>4, JobTyped DEF Ages
    <2> QED
      BY <1>1, <2>1, <2>2, <2>3, <2>5, <2>6, NothingNewAges DEF Building
  <1>12. CASE Collect(s)
    <2>1. /\ pc[s] = "published" /\ pc'[s] = "released" /\ job'[s].saved = job[s].next
          /\ UNCHANGED <<tracker, minted, manifest, durable>>
      BY <1>0, <1>12 DEF Collect, Goto, memory, TypeOK, Job
    <2>2. durable = job[s].next
      BY <2>1 DEF Versions
    <2>3. Newest(durable) \in Nat
      BY NewestTyped DEF TypeOK
    <2> QED
      BY <1>3, <2>1, <2>2, <2>3 DEF KnownManifests, Building
  <1>13. CASE Finish(s)
    <2>1. /\ pc'[s] = "idle" /\ pc[s] = "released" /\ job'[s] = NoJob
          /\ \A p \in Owners \ {o} : tracker'[p] = tracker[p]
          /\ tracker'[o].committed = job[s].revision /\ tracker'[o].saved = job[s].saved
          /\ UNCHANGED <<minted, manifest, durable>>
      BY <1>0, <1>13 DEF Finish, End, TypeOK, Persistence, disk
    <2>2. KnownManifests' \subseteq KnownManifests \cup {NoManifest}
      BY <1>0, <1>1, <2>1 DEF KnownManifests
    <2>3. \A p \in Owners : tracker'[p].committed > 0 =>
            Newest(durable') >= Newest(tracker'[p].saved)
      BY <1>0, <2>1 DEF Ages, AcknowledgedIsDurable
    <2>4. \A t \in Saves : pc'[t] = "released" /\ job'[t].revision > 0 =>
            Newest(durable') >= Newest(job'[t].saved)
      BY <1>1, <2>1 DEF Ages
    <2> QED
      BY <1>1, <2>1, <2>2, <2>3, <2>4, NothingNewAges DEF Ages, Building
  <1> QED
    BY <1>4, <1>5, <1>6, <1>7, <1>8, <1>9, <1>10, <1>11, <1>12, <1>13 DEF SaveStep, Advance

(* Every step keeps Ages.                                                  *)
LEMMA NextAges == TypeOK /\ Locks /\ Versions /\ Marks /\ Ages /\ [Next]_vars => Ages'
  <1> SUFFICES ASSUME TypeOK, Locks, Versions, Marks, Ages, [Next]_vars PROVE Ages'
    OBVIOUS
  <1>1. CASE UNCHANGED vars
    BY <1>1 DEF vars, memory, locks, disk, Ages, KnownManifests, AcknowledgedIsDurable
  <1>2. CASE PowerLoss
    BY <1>2, DieAges DEF PowerLoss
  <1>3. CASE Next
    BY <1>2, <1>3, SaveStepAges, PrepareAges, OwnerStepAges
    DEF Next, SaveSnapshot, PersistEmbeddings
  <1> QED
    BY <1>1, <1>3

---------------------------------------------------------------------------
(* Forms *)

(* While the manifest stands still, so does what a save builds on it.      *)
LEMMA FormsStill ==
  ASSUME Forms,
         \A s \in Saves : pc'[s] \in Building =>
            pc[s] \in Building /\ job'[s] = job[s] /\ manifest' = manifest
  PROVE  Forms'
  BY DEF Forms, TargetVersion

(* A save builds a checkpoint, or a delta on the manifest it compared.     *)
LEMMA SaveStepForms ==
  ASSUME TypeOK, Locks, Forms, NEW s \in Saves, SaveStep(s)
  PROVE  Forms'
  <1>1. \A t \in Saves \ {s} : pc'[t] = pc[t] /\ job'[t] = job[t]
    BY DEF SaveStep, Advance, RejectStale, Rebase, SkipUnchanged, LockExclusive, RefuseChanged,
           CreateArtifact, SyncArtifact, SyncDirectory, PublishManifest, SyncManifest, Collect,
           Finish, Fail, Goto, End, TypeOK
  <1>2. pc[s] \in Locked => \A t \in Saves \ {s} : pc[t] \notin Building
    BY DEF Locks, Locked, Building
  <1>3. CASE CreateArtifact(s)
    <2> DEFINE n == minted + 1
    <2>1. /\ pc[s] = "locked" /\ pc'[s] = "writing" /\ manifest' = manifest
          /\ job'[s].next = NextManifest(s, n) /\ job'[s].file = n
          /\ job'[s].saved = job[s].saved /\ job'[s].cells = job[s].cells
          /\ job'[s].dirty = job[s].dirty /\ ~ Conflict(s)
      BY <1>3, JobTyped DEF CreateArtifact, Goto, TypeOK, Job
    <2>2. TargetVersion(s)' = TargetVersion(s)
      BY <2>1 DEF TargetVersion
    <2>3. \A t \in Saves : pc'[t] \in Building => t = s
      BY <1>1, <1>2, <2>1 DEF Locked
    <2>4. Incremental(s) => manifest # NoManifest /\ job[s].saved = manifest
      BY <2>1 DEF Incremental, Conflict, SamePath
    <2> HIDE DEF n
    <2> QED
      BY <2>1, <2>2, <2>3, <2>4 DEF Forms, NextManifest, Incremental
  <1>4. CASE pc'[s] \notin Building
    <2>1. pc[s] \in Locked \/ manifest' = manifest
      BY DEF SaveStep, Advance, RejectStale, Rebase, SkipUnchanged, LockExclusive, RefuseChanged,
           CreateArtifact, SyncArtifact, SyncDirectory, PublishManifest, SyncManifest, Collect,
           Finish, Fail, Goto, End, TypeOK, disk, Locked
    <2> QED
      BY <1>1, <1>2, <1>4, <2>1, FormsStill
  <1>5. CASE SyncArtifact(s) \/ SyncDirectory(s)
    <2>1. pc[s] \in Building /\ job' = job /\ manifest' = manifest
      BY <1>5 DEF SyncArtifact, SyncDirectory, Goto, Building
    <2> QED
      BY <1>1, <2>1, FormsStill
  <1> QED
    BY <1>3, <1>4, <1>5
    DEF SaveStep, Advance, RejectStale, Rebase, SkipUnchanged, LockExclusive, RefuseChanged,
        PublishManifest, SyncManifest, Collect, Finish, Fail, Goto, End, TypeOK, Building

(* Every step keeps Forms.                                                 *)
LEMMA NextForms == TypeOK /\ Locks /\ Forms /\ [Next]_vars => Forms'
  <1> SUFFICES ASSUME TypeOK, Locks, Forms, [Next]_vars PROVE Forms'
    OBVIOUS
  <1>1. CASE UNCHANGED vars
    BY <1>1, FormsStill DEF vars, disk
  <1>2. ASSUME NEW s \in Saves, NEW o \in Owners, NEW cells, PrepareFrom(s, o, cells)
        PROVE  Forms'
    BY <1>2, FormsStill DEF PrepareFrom, disk, TypeOK, Building
  <1>3. ASSUME NEW o \in Owners, OwnerStep(o) PROVE Forms'
    <2>1. CASE Crash(o)
      BY <2>1, FormsStill DEF Crash, Die, disk, Building
    <2>2. CASE UNCHANGED <<pc, job, disk>>
      BY <2>2, FormsStill DEF disk
    <2> QED
      BY <1>3, <2>1, <2>2
      DEF OwnerStep, StartEmpty, OpenLoad, CompleteLoad, FailLoad, InsertEmbedding,
          RecordSourceProvenance, RemoveEmbeddings, ClearEmbeddings, MayChange
  <1>4. CASE PowerLoss
    BY <1>4, FormsStill DEF PowerLoss, Die, TypeOK, Building
  <1>5. CASE Next
    BY <1>2, <1>3, <1>4, <1>5, SaveStepForms DEF Next, SaveSnapshot, PersistEmbeddings
  <1> QED
    BY <1>1, <1>5

---------------------------------------------------------------------------
(* Replaying *)

(* ReplayOf is Replay.                                                     *)
LEMMA ReplayIs == \A m : Replay(m) = ReplayOf(artifact, m)
  BY DEF Replay, ReplayOf, LastDelta, LastOf, Holds

(* Replaying looks at the artifacts the manifest names and at no other.    *)
LEMMA ReplaySame ==
  ASSUME NEW a, NEW b, NEW m, \A n \in Referenced(m) : a[n] = b[n]
  PROVE  ReplayOf(a, m) = ReplayOf(b, m)
  <1>1. a[m.base] = b[m.base] /\ \A k \in DOMAIN m.deltas : a[m.deltas[k]] = b[m.deltas[k]]
    BY DEF Referenced
  <1>2. \A i : LastOf(a, m, i) = LastOf(b, m, i)
    BY <1>1 DEF LastOf
  <1>3. ASSUME NEW i \in Ids PROVE ReplayOf(a, m)[i] = ReplayOf(b, m)[i]
    <2>1. LastOf(a, m, i) # {} => (CHOOSE k \in LastOf(a, m, i) : TRUE) \in DOMAIN m.deltas
      <3>1. LastOf(a, m, i) # {} => (CHOOSE k \in LastOf(a, m, i) : TRUE) \in LastOf(a, m, i)
        OBVIOUS
      <3> QED
        BY <3>1 DEF LastOf
    <2> QED
      BY <1>1, <1>2, <2>1 DEF ReplayOf
  <1> QED
    BY <1>3 DEF ReplayOf

(* A checkpoint stands for its own cells.                                  *)
LEMMA ReplayCheckpoint ==
  ASSUME NEW a, NEW m, m.deltas = <<>>
  PROVE  \A i \in Ids : ReplayOf(a, m)[i] = a[m.base].cells[i]
  BY DEF ReplayOf, LastOf

(* A delta replaces the cells it holds and leaves the others.              *)
LEMMA ReplayAppend ==
  ASSUME NEW a, NEW m \in Manifest, NEW n \in Name, NEW next,
         next.base = m.base, next.deltas = Append(m.deltas, n)
  PROVE  \A i \in Ids : ReplayOf(a, next)[i] =
            IF i \in DOMAIN a[n].cells THEN a[n].cells[i] ELSE ReplayOf(a, m)[i]
  <1> DEFINE q == m.deltas
             l == Len(q) + 1
  <1>1. /\ q \in Seq(Name) /\ Len(q) \in Nat /\ DOMAIN q = 1..Len(q)
        /\ DOMAIN Append(q, n) = 1..l /\ Append(q, n)[l] = n
        /\ \A k \in 1..Len(q) : Append(q, n)[k] = q[k]
    BY DEF Manifest
  <1> HIDE DEF q
  <1>2. TAKE i \in Ids
  <1>3. CASE i \in DOMAIN a[n].cells
    <2>1. LastOf(a, next, i) = {l}
      <3>1. l \in LastOf(a, next, i)
        BY <1>1, <1>3 DEF LastOf, q
      <3>2. ASSUME NEW k \in LastOf(a, next, i) PROVE k = l
        <4>1. k \in 1..l /\ \A j \in 1..l : j > k => i \notin DOMAIN a[Append(q, n)[j]].cells
          BY <1>1 DEF LastOf, q
        <4>2. l \in 1..l /\ i \in DOMAIN a[Append(q, n)[l]].cells
          BY <1>1, <1>3
        <4>3. ~ (l > k)
          BY <4>1, <4>2
        <4> QED
          BY <1>1, <4>1, <4>3
      <3> QED
        BY <3>1, <3>2
    <2>2. (CHOOSE k \in LastOf(a, next, i) : TRUE) = l
      BY <2>1
    <2> QED
      BY <1>1, <1>3, <2>1, <2>2 DEF ReplayOf, q
  <1>4. CASE i \notin DOMAIN a[n].cells
    <2>1. LastOf(a, next, i) = LastOf(a, m, i)
      BY <1>1, <1>4 DEF LastOf, q
    <2>2. LastOf(a, m, i) # {} => (CHOOSE k \in LastOf(a, m, i) : TRUE) \in 1..Len(q)
      <3>1. LastOf(a, m, i) # {} => (CHOOSE k \in LastOf(a, m, i) : TRUE) \in LastOf(a, m, i)
        OBVIOUS
      <3> QED
        BY <1>1, <3>1 DEF LastOf, q
    <2> QED
      BY <1>1, <1>4, <2>1, <2>2 DEF ReplayOf, q
  <1> QED
    BY <1>3, <1>4

---------------------------------------------------------------------------
(* Snapshots *)

(* Nothing is prepared at the start.                                       *)
LEMMA InitSnapshots == Init => Snapshots
  BY DEF Init, Snapshots, Current

(* The dead leave no saves.                                                *)
LEMMA DieSnapshots ==
  ASSUME TypeOK, Snapshots, NEW dead \in SUBSET Owners, Die(dead)
  PROVE  Snapshots'
  <1>1. \A o \in Owners \ dead : tracker'[o] = tracker[o] /\ mem'[o] = mem[o]
    BY DEF Die
  <1>2. \A s \in Saves : pc'[s] # "idle" => /\ pc'[s] = pc[s] /\ job'[s] = job[s]
                                            /\ job[s].owner \in Owners \ dead
    BY DEF Die, TypeOK
  <1> QED
    BY <1>1, <1>2 DEF Snapshots, Current

(* A change in memory is marked, and moves the owner past its saves.       *)
LEMMA OwnerStepSnapshots ==
  ASSUME TypeOK, Locks, Marks, Snapshots, NEW o \in Owners, OwnerStep(o)
  PROVE  Snapshots'
  <1>1. CASE Crash(o)
    BY <1>1, DieSnapshots DEF Crash
  <1>2. CASE \/ \E i \in Ids, v \in Vecs : InsertEmbedding(o, i, v)
             \/ \E i \in Ids : RecordSourceProvenance(o, i) \/ RemoveEmbeddings(o, i)
             \/ ClearEmbeddings(o)
    <2>1. PICK ids \in SUBSET Ids :
            /\ ids # {} /\ MarkDirty(o, ids) /\ MayChange(o)
            /\ \A p \in Owners \ {o} : mem'[p] = mem[p]
            /\ Agree(mem'[o], mem[o], Ids \ ids)
      BY <1>2, ChangesAreMarked
    <2>2. /\ \A p \in Owners \ {o} : tracker'[p] = tracker[p]
          /\ tracker'[o].committed = tracker[o].committed
          /\ tracker'[o].dirty = tracker[o].dirty \cup ids
          /\ tracker'[o].revision > tracker[o].revision
          /\ tracker'[o].revision \in Nat /\ tracker[o].revision \in Nat
      BY <2>1, MarkDirtyMoves, TrackerTyped DEF Persistence
    <2>3. pc' = pc /\ job' = job
      BY <2>1 DEF MayChange
    <2>4. \A s \in Saves : pc[s] # "idle" =>
            job[s].revision <= tracker[job[s].owner].revision /\ job[s].revision \in Nat
      BY JobTyped DEF Marks
    <2>5. \A s \in Saves : Current(s)' <=> Current(s)
      BY <2>2, <2>3, JobTyped DEF Current
    <2>6. ASSUME NEW s \in Saves, pc[s] # "idle",
                 job[s].revision = tracker'[job[s].owner].revision
          PROVE  Agree(mem'[job[s].owner], job[s].cells, Ids)
      BY <2>1, <2>2, <2>4, <2>6, JobTyped DEF Snapshots
    <2>7. ASSUME NEW s \in Saves, Current(s)
          PROVE  Agree(mem'[job[s].owner], job[s].cells, Ids \ tracker'[job[s].owner].dirty)
      <3>1. Agree(mem[job[s].owner], job[s].cells, Ids \ tracker[job[s].owner].dirty)
        BY <2>7 DEF Snapshots
      <3> QED
        BY <2>1, <2>2, <2>7, <3>1, JobTyped DEF Agree, Current
    <2> QED
      BY <2>3, <2>5, <2>6, <2>7 DEF Snapshots
  <1>3. CASE /\ status[o] # "up" /\ pc' = pc /\ job' = job
             /\ \A p \in Owners \ {o} : tracker'[p] = tracker[p] /\ mem'[p] = mem[p]
    <2>1. \A s \in Saves : pc[s] # "idle" => job[s].owner \in Owners \ {o}
      BY <1>3, JobTyped DEF Locks
    <2> QED
      BY <1>3, <2>1 DEF Snapshots, Current
  <1> QED
    BY <1>1, <1>2, <1>3
    DEF OwnerStep, StartEmpty, OpenLoad, CompleteLoad, FailLoad, TypeOK

(* The vectors of a snapshot are those in memory: binding the provenance   *)
(* of pending ids leaves the vectors.                                      *)
LEMMA BoundAgrees ==
  ASSUME TypeOK, NEW o \in Owners
  PROVE  Agree(Bound(o), mem[o], Ids)
  <1>1. mem[o] \in Content
    BY DEF TypeOK
  <1> QED
    BY <1>1 DEF Bound, Agree, Content, Cell

LEMMA PrepareSnapshots ==
  ASSUME TypeOK, Marks, Snapshots, NEW s \in Saves, NEW o \in Owners, NEW cells,
         PrepareFrom(s, o, cells), Agree(cells, mem[o], Ids), Agree(mem'[o], mem[o], Ids),
         \A p \in Owners \ {o} : mem'[p] = mem[p]
  PROVE  Snapshots'
  <1>1. /\ pc'[s] = "prepared" /\ pc[s] = "idle" /\ job'[s].owner = o /\ job'[s].cells = cells
        /\ job'[s].dirty = tracker[o].dirty /\ job'[s].revision = tracker[o].revision
        /\ \A t \in Saves \ {s} : pc'[t] = pc[t] /\ job'[t] = job[t]
        /\ tracker' = tracker
    BY DEF PrepareFrom, TypeOK
  <1>2. \A t \in Saves : pc[t] # "idle" => /\ job[t].owner \in Owners
                                           /\ job[t].revision <= tracker[job[t].owner].revision
                                           /\ job[t].revision \in Nat
    BY JobTyped DEF Marks
  <1>3. tracker[o].revision \in Nat
    BY TrackerTyped
  <1>4. \A t \in Saves \ {s} : Current(t)' <=> Current(t)
    BY <1>1 DEF Current
  <1>5. \A t \in Saves : pc'[t] # "idle" /\ job'[t].revision = tracker'[job'[t].owner].revision =>
          Agree(mem'[job'[t].owner], job'[t].cells, Ids)
    BY <1>1, <1>2 DEF Snapshots, Agree
  <1>6. \A t \in Saves : Current(t)' =>
          Agree(mem'[job'[t].owner], job'[t].cells, Ids \ tracker'[job'[t].owner].dirty)
    <2>1. \A t \in Saves \ {s} : Current(t) =>
            Agree(mem'[job[t].owner], job[t].cells, Ids \ tracker[job[t].owner].dirty)
      BY <1>2 DEF Snapshots, Agree, Current
    <2>2. Agree(mem'[o], cells, Ids \ tracker[o].dirty)
      BY DEF Agree
    <2> QED
      BY <1>1, <1>4, <2>1, <2>2
  <1>7. ASSUME NEW t \in Saves \ {s}, pc[t] # "idle", job[t].owner = o
        PROVE  /\ job[t].revision = tracker[o].revision => Agree(cells, job[t].cells, Ids)
               /\ Current(t) => Agree(cells, job[t].cells, Ids \ tracker[o].dirty)
    <2>1. job[t].revision = tracker[o].revision => Agree(mem[o], job[t].cells, Ids)
      BY <1>7 DEF Snapshots
    <2>2. Current(t) => Agree(mem[o], job[t].cells, Ids \ tracker[o].dirty)
      BY <1>7 DEF Snapshots
    <2> QED
      BY <2>1, <2>2 DEF Agree
  <1>8. ASSUME NEW t \in Saves, NEW u \in Saves,
               pc'[t] # "idle", pc'[u] # "idle", job'[t].owner = job'[u].owner
        PROVE  /\ job'[t].revision = job'[u].revision => Agree(job'[t].cells, job'[u].cells, Ids)
               /\ pc'[t] = "prepared" /\ Current(u)' /\ job'[u].revision <= job'[t].revision =>
                     Agree(job'[t].cells, job'[u].cells, Ids \ job'[t].dirty)
    <2>1. CASE t # s /\ u # s
      BY <1>1, <1>4, <1>8, <2>1 DEF Snapshots
    <2>2. CASE t = s /\ u = s
      BY <2>2 DEF Agree
    <2>3. CASE t = s /\ u # s
      BY <1>1, <1>4, <1>7, <1>8, <2>3
    <2>4. CASE t # s /\ u = s
      <3>1. /\ pc[t] # "idle" /\ job[t].owner = o /\ job'[t] = job[t]
            /\ job'[u].cells = cells /\ job'[u].revision = tracker[o].revision
        BY <1>1, <1>8, <2>4
      <3>2. job[t].revision = tracker[o].revision => Agree(job[t].cells, cells, Ids)
        BY <1>7, <2>4, <3>1 DEF Agree
      <3>3. job'[u].revision <= job'[t].revision => job[t].revision = tracker[o].revision
        BY <1>2, <1>3, <3>1
      <3> QED
        BY <3>1, <3>2, <3>3 DEF Agree
    <2> QED
      BY <2>1, <2>2, <2>3, <2>4
  <1> QED
    BY <1>5, <1>6, <1>8 DEF Snapshots

(* A save keeps its cells; its end can only make others out of date.       *)
LEMMA SaveStepSnapshots ==
  ASSUME TypeOK, Locks, Versions, Marks, Snapshots, NEW s \in Saves, SaveStep(s)
  PROVE  Snapshots'
  <1> DEFINE o == job[s].owner
  <1>0. /\ pc[s] # "idle" /\ o \in Owners /\ tracker[o] \in Persistence
        /\ tracker[o].revision \in Nat /\ tracker[o].committed \in Int
        /\ job[s] \in Job /\ job[s].revision \in Nat
    <2>1. pc[s] # "idle"
      BY DEF SaveStep, Advance, RejectStale, Rebase, SkipUnchanged, LockExclusive, RefuseChanged,
             CreateArtifact, SyncArtifact, SyncDirectory, PublishManifest, SyncManifest, Collect,
             Finish, Fail, Goto
    <2> QED
      BY <2>1, JobTyped, TrackerTyped
  <1>1. \A t \in Saves \ {s} : pc'[t] = pc[t] /\ job'[t] = job[t]
    BY DEF SaveStep, Advance, RejectStale, Rebase, SkipUnchanged, LockExclusive, RefuseChanged,
           CreateArtifact, SyncArtifact, SyncDirectory, PublishManifest, SyncManifest, Collect,
           Finish, Fail, Goto, End, TypeOK
  <1>2. CASE /\ UNCHANGED <<mem, tracker>>
             /\ pc'[s] # "prepared"
             /\ pc'[s] # "idle" => /\ job'[s].owner = o /\ job'[s].revision = job[s].revision
                                   /\ job'[s].cells = job[s].cells
    <2>1. \A t \in Saves : pc'[t] # "idle" =>
            /\ pc[t] # "idle" /\ job'[t].owner = job[t].owner
            /\ job'[t].revision = job[t].revision /\ job'[t].cells = job[t].cells
            /\ pc'[t] = "prepared" => pc[t] = "prepared" /\ job'[t].dirty = job[t].dirty
      BY <1>0, <1>1, <1>2
    <2>2. \A t \in Saves : Current(t)' => Current(t)
      BY <1>2, <2>1 DEF Current
    <2>3. \A t \in Saves : pc'[t] # "idle" /\ job'[t].revision = tracker'[job'[t].owner].revision
            => Agree(mem'[job'[t].owner], job'[t].cells, Ids)
      BY <1>2, <2>1 DEF Snapshots
    <2>4. \A t \in Saves : Current(t)' =>
            Agree(mem'[job'[t].owner], job'[t].cells, Ids \ tracker'[job'[t].owner].dirty)
      BY <1>2, <2>1, <2>2 DEF Snapshots, Current
    <2> QED
      BY <2>1, <2>2, <2>3, <2>4 DEF Snapshots
  <1>3. CASE RejectStale(s) \/ RefuseChanged(s) \/ Fail(s)
    BY <1>2, <1>3 DEF RejectStale, RefuseChanged, Fail, End, memory, TypeOK
  <1>4. CASE Rebase(s)
    <2>1. /\ pc'[s] = "rebased" /\ job'[s].owner = o /\ job'[s].revision = job[s].revision
          /\ job'[s].cells = job[s].cells /\ UNCHANGED <<mem, tracker>>
      BY <1>0, <1>4 DEF Rebase, Goto, memory, TypeOK, Job
    <2> QED
      BY <1>2, <2>1
  <1>5. CASE SkipUnchanged(s) \/ LockExclusive(s) \/ SyncArtifact(s) \/ SyncDirectory(s)
             \/ PublishManifest(s) \/ SyncManifest(s)
    BY <1>2, <1>5 DEF SkipUnchanged, LockExclusive, SyncArtifact, SyncDirectory, PublishManifest,
                      SyncManifest, Goto, memory, TypeOK
  <1>6. CASE CreateArtifact(s) \/ Collect(s)
    <2>1. /\ pc'[s] # "prepared" /\ job'[s].owner = o /\ job'[s].revision = job[s].revision
          /\ job'[s].cells = job[s].cells /\ UNCHANGED <<mem, tracker>>
      BY <1>0, <1>6 DEF CreateArtifact, Collect, Goto, memory, TypeOK, Job
    <2> QED
      BY <1>2, <2>1
  <1>7. CASE Finish(s)
    <2>1. /\ pc'[s] = "idle" /\ pc[s] = "released" /\ mem' = mem
          /\ \A p \in Owners \ {o} : tracker'[p] = tracker[p]
          /\ tracker'[o].committed = job[s].revision /\ tracker'[o].revision = tracker[o].revision
          /\ tracker'[o].dirty = IF tracker[o].revision # job[s].revision THEN tracker[o].dirty
                                 ELSE job[s].dirty
      BY <1>0, <1>7 DEF Finish, End, TypeOK, Persistence
    <2>2. tracker[o].committed <= job[s].revision
      BY <2>1 DEF Versions, InLane
    <2>3. \A t \in Saves : pc'[t] # "idle" =>
            /\ t # s /\ pc'[t] = pc[t] /\ job'[t] = job[t] /\ job[t].owner \in Owners
            /\ job[t].revision \in Nat /\ job[t].revision <= tracker[job[t].owner].revision
      BY <1>1, <2>1, JobTyped DEF Marks
    <2>4. ASSUME NEW t \in Saves, Current(t)'
          PROVE  /\ Current(t)
                 /\ Agree(mem'[job'[t].owner], job'[t].cells, Ids \ tracker'[job'[t].owner].dirty)
      <3>1. pc'[t] # "idle" /\ job'[t].revision >= tracker'[job'[t].owner].committed
        BY <2>4 DEF Current
      <3>2. Current(t)
        BY <1>0, <2>1, <2>2, <2>3, <3>1 DEF Current
      <3>3. Agree(mem[job[t].owner], job[t].cells, Ids \ tracker[job[t].owner].dirty)
        BY <3>2 DEF Snapshots
      <3>4. CASE job[t].owner = o /\ tracker[o].revision = job[s].revision
        <4>1. job[t].revision = tracker[o].revision
          BY <1>0, <2>1, <2>3, <3>1, <3>4
        <4>2. Agree(mem[o], job[t].cells, Ids)
          BY <2>3, <3>1, <3>4, <4>1 DEF Snapshots
        <4> QED
          BY <2>1, <2>3, <3>1, <3>2, <3>4, <4>2 DEF Agree
      <3>5. CASE job[t].owner # o \/ tracker[o].revision # job[s].revision
        BY <2>1, <2>3, <3>1, <3>2, <3>3, <3>5
      <3> QED
        BY <3>4, <3>5
    <2>5. \A t \in Saves : pc'[t] # "idle" /\ job'[t].revision = tracker'[job'[t].owner].revision
            => Agree(mem'[job'[t].owner], job'[t].cells, Ids)
      BY <2>1, <2>3 DEF Snapshots
    <2> QED
      BY <2>3, <2>4, <2>5 DEF Snapshots
  <1> QED
    BY <1>3, <1>4, <1>5, <1>6, <1>7 DEF SaveStep, Advance

(* Every step keeps Snapshots.                                             *)
LEMMA NextSnapshots ==
  TypeOK /\ Locks /\ Versions /\ Marks /\ Snapshots /\ [Next]_vars => Snapshots'
  <1> SUFFICES ASSUME TypeOK, Locks, Versions, Marks, Snapshots, [Next]_vars PROVE Snapshots'
    OBVIOUS
  <1>1. CASE UNCHANGED vars
    BY <1>1 DEF vars, memory, Snapshots, Current
  <1>2. ASSUME NEW s \in Saves, NEW o \in Owners, SaveSnapshot(s, o) PROVE Snapshots'
    <2>1. PrepareFrom(s, o, mem[o]) /\ mem' = mem /\ Agree(mem[o], mem[o], Ids)
      BY <1>2 DEF SaveSnapshot, Agree
    <2> QED
      BY <2>1, PrepareSnapshots
  <1>3. ASSUME NEW s \in Saves, NEW o \in Owners, PersistEmbeddings(s, o) PROVE Snapshots'
    <2>1. /\ PrepareFrom(s, o, Bound(o)) /\ mem'[o] = Bound(o)
          /\ \A p \in Owners \ {o} : mem'[p] = mem[p]
      BY <1>3 DEF PersistEmbeddings, TypeOK
    <2>2. Agree(Bound(o), mem[o], Ids) /\ Agree(mem'[o], mem[o], Ids)
      BY <2>1, BoundAgrees
    <2> QED
      BY <2>1, <2>2, PrepareSnapshots
  <1>4. CASE Next
    BY <1>2, <1>3, <1>4, SaveStepSnapshots, OwnerStepSnapshots, DieSnapshots DEF Next, PowerLoss
  <1> QED
    BY <1>1, <1>4

---------------------------------------------------------------------------
(* Stored *)

(* Nothing is stored at the start.                                         *)
LEMMA InitStored == Init => Stored
  BY DEF Init, Stored, Current, Written

(* A loss of power leaves no owner up and no save under way.               *)
LEMMA DieStored ==
  ASSUME TypeOK, Stored, NEW dead \in SUBSET Owners, Die(dead), dead = Owners \/ UNCHANGED disk
  PROVE  Stored'
  <1>1. \A o \in Owners : \/ status'[o] = "down"
                          \/ /\ o \notin dead /\ status'[o] = status[o]
                             /\ tracker'[o] = tracker[o] /\ mem'[o] = mem[o]
    BY DEF Die
  <1>2. \A s \in Saves : pc'[s] # "idle" => /\ pc'[s] = pc[s] /\ job'[s] = job[s]
                                            /\ job[s].owner \in Owners \ dead
    BY DEF Die, TypeOK
  <1>3. \A o \in Owners \ dead : tracker'[o] = tracker[o]
    BY DEF Die
  <1>4. CASE dead = Owners
    BY <1>2, <1>4 DEF Stored, Current, Written, Die
  <1>5. CASE UNCHANGED disk
    <2>1. OnDisk' = OnDisk /\ artifact' = artifact /\ manifest' = manifest
      BY <1>5 DEF disk, OnDisk
    <2>2. \A s \in Saves : Current(s)' => Current(s) /\ (Fits(job[s].owner)' <=> Fits(job[s].owner))
      BY <1>2, <1>3, <2>1 DEF Current, Fits
    <2>3. \A o \in Owners : status'[o] = "up" /\ Fits(o)' =>
            Agree(OnDisk', mem'[o], Ids \ tracker'[o].dirty)
      BY <1>1, <2>1 DEF Stored, Fits
    <2>4. \A s \in Saves : Current(s)' /\ pc'[s] \in Preparing /\ Fits(job[s].owner)' =>
          /\ Agree(OnDisk', job'[s].cells, Ids \ job'[s].dirty)
          /\ job'[s].revision = tracker'[job'[s].owner].committed =>
                Agree(OnDisk', job'[s].cells, Ids)
      BY <1>2, <1>3, <2>1, <2>2 DEF Stored, Current, Fits
    <2> QED
      BY <1>2, <2>1, <2>3, <2>4 DEF Stored, Written
  <1> QED
    BY <1>4, <1>5

(* A loaded owner holds what is on disk; a change in memory marks it.      *)
LEMMA OwnerStepStored ==
  ASSUME TypeOK, Locks, Versions, Marks, Stored, NEW o \in Owners, OwnerStep(o)
  PROVE  Stored'
  <1>1. CASE Crash(o)
    BY <1>1, DieStored DEF Crash
  <1>2. ASSUME UNCHANGED <<disk, pc, job>>,
               \A p \in Owners \ {o} :
                  tracker'[p] = tracker[p] /\ mem'[p] = mem[p] /\ status'[p] = status[p],
               \/ \A s \in Saves : pc[s] # "idle" => job[s].owner # o
               \/ tracker'[o].saved = tracker[o].saved
                  /\ tracker'[o].committed = tracker[o].committed,
               status'[o] = "up" /\ Fits(o)' => Agree(OnDisk, mem'[o], Ids \ tracker'[o].dirty)
        PROVE  Stored'
    <2>1. OnDisk' = OnDisk /\ artifact' = artifact /\ manifest' = manifest
      BY <1>2 DEF disk, OnDisk
    <2>2. \A s \in Saves : pc[s] # "idle" =>
            /\ job[s].owner \in Owners
            /\ tracker'[job[s].owner].saved = tracker[job[s].owner].saved
            /\ tracker'[job[s].owner].committed = tracker[job[s].owner].committed
      BY <1>2, JobTyped
    <2>3. \A p \in Owners : status'[p] = "up" /\ Fits(p)' =>
            Agree(OnDisk', mem'[p], Ids \ tracker'[p].dirty)
      BY <1>2, <2>1 DEF Stored, Fits
    <2>4. \A s \in Saves : Current(s)' /\ pc'[s] \in Preparing /\ Fits(job[s].owner)' =>
          /\ Agree(OnDisk', job'[s].cells, Ids \ job'[s].dirty)
          /\ job'[s].revision = tracker'[job'[s].owner].committed =>
                Agree(OnDisk', job'[s].cells, Ids)
      BY <1>2, <2>1, <2>2 DEF Stored, Current, Fits
    <2> QED
      BY <1>2, <2>1, <2>3, <2>4 DEF Stored
  <1>3. status[o] # "up" => \A s \in Saves : pc[s] # "idle" => job[s].owner # o
    BY DEF Locks
  <1>4. CASE StartEmpty(o)
    <2>1. tracker[o].saved = NoManifest /\ tracker' = tracker /\ manifest' = manifest
      BY <1>4 DEF StartEmpty, Marks, FreshTracker, disk
    <2>2. ~ Fits(o)'
      BY <2>1 DEF Fits
    <2> QED
      BY <1>2, <1>3, <1>4, <2>2 DEF StartEmpty, locks, TypeOK
  <1>5. CASE OpenLoad(o)
    BY <1>2, <1>3, <1>5 DEF OpenLoad, TypeOK
  <1>6. CASE CompleteLoad(o)
    <2>1. tracker[o].saved = manifest /\ mem'[o] = Replay(manifest)
      BY <1>6 DEF CompleteLoad, Versions, TypeOK
    <2>2. Agree(OnDisk, mem'[o], Ids \ tracker'[o].dirty)
      BY <2>1, ReplayIs DEF OnDisk, Agree
    <2> QED
      BY <1>2, <1>3, <1>6, <2>2 DEF CompleteLoad, TypeOK
  <1>7. CASE FailLoad(o)
    BY <1>2, <1>3, <1>7 DEF FailLoad, TypeOK
  <1>8. CASE \/ \E i \in Ids, v \in Vecs : InsertEmbedding(o, i, v)
             \/ \E i \in Ids : RecordSourceProvenance(o, i) \/ RemoveEmbeddings(o, i)
             \/ ClearEmbeddings(o)
    <2>1. PICK ids \in SUBSET Ids :
            /\ ids # {} /\ MarkDirty(o, ids) /\ MayChange(o)
            /\ \A p \in Owners \ {o} : mem'[p] = mem[p]
            /\ Agree(mem'[o], mem[o], Ids \ ids)
      BY <1>8, ChangesAreMarked
    <2>2. /\ \A p \in Owners \ {o} : tracker'[p] = tracker[p]
          /\ tracker'[o].committed = tracker[o].committed
          /\ tracker'[o].saved = tracker[o].saved
          /\ tracker'[o].dirty = tracker[o].dirty \cup ids
      BY <2>1, MarkDirtyMoves
    <2>3. UNCHANGED <<status, disk, pc, job>> /\ status[o] = "up" /\ manifest' = manifest
      BY <2>1 DEF MayChange, disk
    <2>4. Fits(o)' => Agree(OnDisk, mem'[o], Ids \ tracker'[o].dirty)
      <3>1. Fits(o)' => Agree(OnDisk, mem[o], Ids \ tracker[o].dirty)
        BY <2>2, <2>3 DEF Fits, Stored
      <3> QED
        BY <2>1, <2>2, <3>1 DEF Agree
    <2> QED
      BY <1>2, <2>1, <2>2, <2>3, <2>4
  <1> QED
    BY <1>1, <1>4, <1>5, <1>6, <1>7, <1>8 DEF OwnerStep

(* A prepared save is clean where its owner is.                            *)
LEMMA PrepareStored ==
  ASSUME TypeOK, Marks, Stored, NEW s \in Saves, NEW o \in Owners, NEW cells,
         PrepareFrom(s, o, cells), Agree(cells, mem[o], Ids), Agree(mem'[o], mem[o], Ids),
         \A p \in Owners \ {o} : mem'[p] = mem[p]
  PROVE  Stored'
  <1>1. /\ pc'[s] = "prepared" /\ job'[s].owner = o /\ job'[s].cells = cells
        /\ job'[s].dirty = tracker[o].dirty /\ job'[s].revision = tracker[o].revision
        /\ \A t \in Saves \ {s} : pc'[t] = pc[t] /\ job'[t] = job[t]
        /\ UNCHANGED <<status, tracker, disk, manifest, artifact>> /\ status[o] = "up"
    BY DEF PrepareFrom, TypeOK, disk
  <1>2. OnDisk' = OnDisk /\ \A p \in Owners : Fits(p)' <=> Fits(p)
    BY <1>1 DEF OnDisk, Fits
  <1>3. Fits(o) => Agree(OnDisk, mem[o], Ids \ tracker[o].dirty)
    BY <1>1 DEF Stored
  <1>4. \A p \in Owners : status'[p] = "up" /\ Fits(p)' =>
            Agree(OnDisk', mem'[p], Ids \ tracker'[p].dirty)
    BY <1>1, <1>2 DEF Stored, Agree
  <1>5. Fits(o) => Agree(OnDisk, cells, Ids \ tracker[o].dirty)
    BY <1>3 DEF Agree
  <1>6. tracker[o].revision = tracker[o].committed => tracker[o].dirty = {}
    BY DEF Marks
  <1>7. \A t \in Saves : Current(t)' /\ pc'[t] \in Preparing /\ Fits(job[t].owner)' =>
          /\ Agree(OnDisk', job'[t].cells, Ids \ job'[t].dirty)
          /\ job'[t].revision = tracker'[job'[t].owner].committed =>
                Agree(OnDisk', job'[t].cells, Ids)
    <2>1. ASSUME NEW t \in Saves \ {s}, Current(t)', pc'[t] \in Preparing, Fits(job[t].owner)'
          PROVE  /\ Agree(OnDisk', job'[t].cells, Ids \ job'[t].dirty)
                 /\ job'[t].revision = tracker'[job'[t].owner].committed =>
                       Agree(OnDisk', job'[t].cells, Ids)
      <3>1. Current(t) /\ pc[t] \in Preparing /\ Fits(job[t].owner)
        BY <1>1, <2>1 DEF Current, Fits
      <3> QED
        BY <1>1, <1>2, <3>1 DEF Stored
    <2>2. Fits(o) => /\ Agree(OnDisk', job'[s].cells, Ids \ job'[s].dirty)
                     /\ job'[s].revision = tracker'[o].committed => Agree(OnDisk', job'[s].cells, Ids)
      BY <1>1, <1>2, <1>5, <1>6
    <2> QED
      BY <1>1, <1>2, <2>1, <2>2
  <1> QED
    BY <1>1, <1>2, <1>4, <1>7 DEF Stored, Written

(* The file being written is named by no manifest on disk; what a          *)
(* manifest names stays through every step of a save.                      *)
LEMMA SaveStepKeepsFiles ==
  ASSUME TypeOK, Locks, Versions, Files, NEW s \in Saves, SaveStep(s)
  PROVE  \A m \in {manifest, durable} :
            m # NoManifest => \A n \in Referenced(m) : artifact[n] = artifact'[n]
  <1> SUFFICES ASSUME NEW m \in {manifest, durable}, m # NoManifest, NEW n \in Referenced(m)
               PROVE  artifact[n] = artifact'[n]
    OBVIOUS
  <1>1. n \in DOMAIN artifact
    BY DEF Files, KeptBy, Kept, TypeOK
  <1>2. CASE CreateArtifact(s)
    <2>1. minted + 1 \notin DOMAIN artifact
      BY SemanticJournalAssumption DEF Files, TypeOK, Name
    <2> QED
      BY <1>1, <1>2, <2>1 DEF CreateArtifact
  <1>3. CASE SyncArtifact(s)
    <2>1. job[s].file # n
      BY <1>3 DEF SyncArtifact, Goto, Files, Building
    <2> QED
      BY <1>1, <1>3, <2>1 DEF SyncArtifact
  <1>4. CASE Collect(s)
    <2>1. PICK gone \in SUBSET Garbage(s) :
            artifact' = [k \in DOMAIN artifact \ gone |-> artifact[k]]
      BY <1>4 DEF Collect
    <2>2. m = job[s].next
      BY <1>4 DEF Collect, Goto, Versions
    <2>3. n \notin gone
      BY <2>2 DEF Garbage, Referenced
    <2> QED
      BY <1>1, <2>1, <2>3
  <1>5. CASE Fail(s)
    <2>1. pc[s] = "writing" => job[s].file # n
      BY DEF Files, Building
    <2> QED
      BY <1>1, <1>5, <2>1 DEF Fail
  <1>6. CASE artifact' = artifact
    BY <1>6
  <1> QED
    BY <1>2, <1>3, <1>4, <1>5, <1>6
    DEF SaveStep, Advance, RejectStale, Rebase, SkipUnchanged, LockExclusive, RefuseChanged,
        SyncDirectory, PublishManifest, SyncManifest, Finish, disk

LEMMA SaveStepKeepsReplay ==
  ASSUME TypeOK, Locks, Versions, Files, NEW s \in Saves, SaveStep(s),
         ~ PublishManifest(s), manifest # NoManifest
  PROVE  OnDisk' = OnDisk
  <1>1. manifest' = manifest
    BY DEF SaveStep, Advance, RejectStale, Rebase, SkipUnchanged, LockExclusive, RefuseChanged,
           CreateArtifact, SyncArtifact, SyncDirectory, SyncManifest, Collect, Finish, Fail, disk
  <1> QED
    BY <1>1, SaveStepKeepsFiles, ReplaySame DEF OnDisk

(* What a save writes, on top of what its manifest extends, replays to its *)
(* snapshot.                                                               *)
LEMMA WrittenReplays ==
  ASSUME TypeOK, Locks, Versions, Files, Forms, Stored, NEW s \in Saves, SyncArtifact(s)
  PROVE  Agree(ReplayOf(artifact', job[s].next), job[s].cells, Ids)
  <1> DEFINE n == job[s].file
             next == job[s].next
             cells == job[s].cells
  <1>0. /\ pc[s] = "writing" /\ n \in DOMAIN artifact /\ n \in Name
        /\ artifact'[n].cells = WrittenCells(s) /\ manifest' = manifest
    BY DEF SyncArtifact, Goto, Files, Building, TypeOK
  <1>1. CASE next.base = n /\ next.deltas = <<>>
    <2>1. WrittenCells(s) = [i \in Ids |-> cells[i]]
      BY <1>1 DEF WrittenCells
    <2>2. \A i \in Ids : ReplayOf(artifact', next)[i] = artifact'[n].cells[i]
      BY <1>1, ReplayCheckpoint
    <2> QED
      BY <1>0, <2>1, <2>2 DEF Agree
  <1>2. CASE /\ manifest # NoManifest /\ job[s].saved = manifest
             /\ next.base = manifest.base /\ next.deltas = Append(manifest.deltas, n)
    <2>1. n \notin Referenced(manifest)
      BY <1>0, <1>2 DEF Files, Building
    <2>2. WrittenCells(s) = [i \in job[s].dirty |-> cells[i]]
      BY <1>2, <2>1 DEF WrittenCells, Referenced
    <2>3. \A i \in Ids : ReplayOf(artifact', next)[i] =
            IF i \in DOMAIN artifact'[n].cells THEN artifact'[n].cells[i]
            ELSE ReplayOf(artifact', manifest)[i]
      <3>1. manifest \in Manifest /\ n \in Name
        BY <1>0 DEF TypeOK
      <3> HIDE DEF n, next
      <3> QED
        BY <1>2, <3>1, ReplayAppend
    <2>4. ReplayOf(artifact', manifest) = OnDisk
      <3>1. \A k \in Referenced(manifest) : artifact'[k] = artifact[k]
        BY <2>1, <1>2 DEF SyncArtifact, Files, KeptBy, Kept, TypeOK
      <3> QED
        BY <3>1, ReplaySame DEF OnDisk
    <2>5. Agree(OnDisk, cells, Ids \ job[s].dirty)
      <3>1. /\ tracker[job[s].owner].committed <= job[s].revision
            /\ tracker[job[s].owner].saved = job[s].saved
        BY <1>0 DEF Versions, InLane, Locked
      <3>2. Current(s)
        BY <1>0, <3>1, JobTyped, TrackerTyped DEF Current
      <3>3. Fits(job[s].owner) /\ pc[s] \in Preparing
        BY <1>0, <1>2, <3>1 DEF Fits, Preparing
      <3> QED
        BY <3>2, <3>3 DEF Stored
    <2> QED
      BY <1>0, <2>2, <2>3, <2>4, <2>5 DEF Agree
  <1> QED
    BY <1>0, <1>1, <1>2 DEF Forms, Building

(* A save stores its snapshot, publishes what is new to everyone, and      *)
(* leaves its owner in step with it.                                       *)
LEMMA SaveStepStored ==
  ASSUME TypeOK, Locks, Versions, Files, Marks, Ages, Forms, Snapshots, Stored,
         NEW s \in Saves, SaveStep(s)
  PROVE  Stored'
  <1> DEFINE o == job[s].owner
  <1>0. /\ pc[s] # "idle" /\ o \in Owners /\ tracker[o] \in Persistence
        /\ tracker[o].revision \in Nat /\ tracker[o].committed \in Int
        /\ job[s] \in Job /\ job[s].revision \in Nat
    <2>1. pc[s] # "idle"
      BY DEF SaveStep, Advance, RejectStale, Rebase, SkipUnchanged, LockExclusive, RefuseChanged,
             CreateArtifact, SyncArtifact, SyncDirectory, PublishManifest, SyncManifest, Collect,
             Finish, Fail, Goto
    <2> QED
      BY <2>1, JobTyped, TrackerTyped
  <1>1. \A t \in Saves \ {s} : pc'[t] = pc[t] /\ job'[t] = job[t]
    BY DEF SaveStep, Advance, RejectStale, Rebase, SkipUnchanged, LockExclusive, RefuseChanged,
           CreateArtifact, SyncArtifact, SyncDirectory, PublishManifest, SyncManifest, Collect,
           Finish, Fail, Goto, End, TypeOK
  <1>2. status' = status /\ mem' = mem
    BY DEF SaveStep, Advance, RejectStale, Rebase, SkipUnchanged, LockExclusive, RefuseChanged,
           CreateArtifact, SyncArtifact, SyncDirectory, PublishManifest, SyncManifest, Collect,
           Finish, Fail, memory
  \* The saves that have written: none but s, unless the disk stands still.
  <1>3. \A t \in Saves \ {s} : pc'[t] \in Written =>
          Agree(ReplayOf(artifact', job'[t].next), job'[t].cells, Ids)
    <2>1. CASE pc[s] \in Locked
      BY <1>1, <2>1 DEF Locks, Locked, Written
    <2>2. CASE artifact' = artifact
      BY <1>1, <2>2 DEF Stored
    <2> QED
      BY <2>1, <2>2
      DEF SaveStep, Advance, RejectStale, Rebase, SkipUnchanged, LockExclusive, RefuseChanged,
          CreateArtifact, SyncArtifact, SyncDirectory, PublishManifest, SyncManifest, Collect,
          Finish, Fail, Goto, disk, Locked
  \* The steps that change neither the manifest nor what an owner knows.
  <1>4. ASSUME UNCHANGED <<tracker, manifest>>, ~ PublishManifest(s),
               pc'[s] # "idle" => /\ job'[s].owner = o /\ job'[s].revision = job[s].revision
                                  /\ job'[s].cells = job[s].cells,
               pc'[s] \in Preparing => /\ pc[s] \in Preparing
                                       /\ \/ job'[s].dirty = job[s].dirty
                                          \/ job[s].revision = tracker[o].committed,
               pc'[s] \in Written => Agree(ReplayOf(artifact', job'[s].next), job[s].cells, Ids),
               pc'[s] = "released" /\ manifest # NoManifest /\ job'[s].saved = manifest =>
                  Agree(OnDisk, job[s].cells, Ids)
        PROVE  Stored'
    <2>1. manifest # NoManifest => OnDisk' = OnDisk
      BY <1>4, SaveStepKeepsReplay
    <2>2. \A p \in Owners : status'[p] = "up" /\ Fits(p)' =>
            Agree(OnDisk', mem'[p], Ids \ tracker'[p].dirty)
      BY <1>2, <1>4, <2>1 DEF Stored, Fits
    <2>3. \A t \in Saves \ {s} : Current(t)' /\ pc'[t] \in Preparing /\ Fits(job[t].owner)' =>
          /\ Agree(OnDisk', job'[t].cells, Ids \ job'[t].dirty)
          /\ job'[t].revision = tracker'[job'[t].owner].committed =>
                Agree(OnDisk', job'[t].cells, Ids)
      BY <1>1, <1>4, <2>1 DEF Stored, Current, Fits
    <2>4. ASSUME Current(s)', pc'[s] \in Preparing, Fits(job[s].owner)'
          PROVE  /\ Agree(OnDisk', job'[s].cells, Ids \ job'[s].dirty)
                 /\ job'[s].revision = tracker'[job'[s].owner].committed =>
                       Agree(OnDisk', job'[s].cells, Ids)
      <3>1. pc'[s] # "idle" /\ job'[s].owner = o /\ job'[s].revision = job[s].revision
            /\ job'[s].cells = job[s].cells
        BY <1>4, <2>4 DEF Current
      <3>2. Current(s) /\ pc[s] \in Preparing /\ Fits(o) /\ OnDisk' = OnDisk
        BY <1>0, <1>4, <2>1, <2>4, <3>1 DEF Current, Fits
      <3>3. /\ Agree(OnDisk, job[s].cells, Ids \ job[s].dirty)
            /\ job[s].revision = tracker[o].committed => Agree(OnDisk, job[s].cells, Ids)
        BY <3>2 DEF Stored
      <3>4. CASE job[s].revision = tracker[o].committed
        BY <1>4, <3>1, <3>2, <3>3, <3>4 DEF Agree
      <3>5. CASE job'[s].dirty = job[s].dirty
        BY <1>4, <3>1, <3>2, <3>3, <3>5
      <3> QED
        BY <1>4, <2>4, <3>4, <3>5
    <2>5. \A t \in Saves : pc'[t] = "released" /\ manifest' # NoManifest /\ job'[t].saved = manifest'
            => Agree(OnDisk', job'[t].cells, Ids)
      BY <1>1, <1>4, <2>1 DEF Stored
    <2>6. \A t \in Saves : pc'[t] \in Written =>
            Agree(ReplayOf(artifact', job'[t].next), job'[t].cells, Ids)
      BY <1>3, <1>4 DEF Written
    <2>7. \A t \in Saves : Current(t)' /\ pc'[t] \in Preparing /\ Fits(job[t].owner)' =>
          /\ Agree(OnDisk', job'[t].cells, Ids \ job'[t].dirty)
          /\ job'[t].revision = tracker'[job'[t].owner].committed =>
                Agree(OnDisk', job'[t].cells, Ids)
      BY <2>3, <2>4
    <2> QED
      BY <2>2, <2>5, <2>6, <2>7 DEF Stored
  <1>5. pc[s] \in InLane => Current(s)
    BY <1>0 DEF Versions, Current
  <1>6. CASE RejectStale(s) \/ RefuseChanged(s) \/ Fail(s)
    <2>1. pc'[s] = "idle" /\ UNCHANGED <<tracker, manifest>> /\ ~ PublishManifest(s)
      BY <1>6 DEF RejectStale, RefuseChanged, Fail, End, memory, disk, PublishManifest, Goto, TypeOK
    <2> QED
      BY <1>4, <2>1 DEF Preparing, Written
  <1>7. CASE Rebase(s)
    <2>1. /\ pc[s] = "prepared" /\ pc'[s] = "rebased" /\ job'[s].owner = o
          /\ job'[s].revision = job[s].revision
          /\ job'[s].cells = job[s].cells /\ UNCHANGED <<tracker, manifest>>
          /\ tracker[o].committed # job[s].revision => job'[s].dirty = job[s].dirty
      BY <1>0, <1>7 DEF Rebase, Goto, memory, disk, TypeOK, Job
    <2> QED
      BY <1>4, <2>1 DEF Preparing, Written, PublishManifest, Goto
  <1>8. CASE SkipUnchanged(s)
    <2>1. /\ pc[s] = "rebased" /\ pc'[s] = "released" /\ job' = job /\ job[s].dirty = {}
          /\ UNCHANGED <<tracker, manifest>>
      BY <1>8 DEF SkipUnchanged, Unchanged, Goto, memory, disk, TypeOK
    <2>2. manifest # NoManifest /\ job[s].saved = manifest => Agree(OnDisk, job[s].cells, Ids)
      <3>1. manifest # NoManifest /\ job[s].saved = manifest => Fits(o)
        BY <2>1 DEF Versions, Fits
      <3>2. Fits(o) => Agree(OnDisk, job[s].cells, Ids \ job[s].dirty)
        BY <1>5, <2>1 DEF Stored, InLane, Preparing
      <3> QED
        BY <2>1, <3>1, <3>2
    <2> QED
      BY <1>4, <2>1, <2>2 DEF Preparing, Written, PublishManifest, Goto
  <1>9. CASE LockExclusive(s)
    <2>1. /\ pc[s] = "rebased" /\ pc'[s] = "locked" /\ job' = job /\ UNCHANGED <<tracker, manifest>>
      BY <1>9 DEF LockExclusive, Goto, memory, disk, TypeOK
    <2> QED
      BY <1>4, <2>1 DEF Preparing, Written, PublishManifest, Goto
  <1>10. CASE CreateArtifact(s)
    <2>1. /\ pc[s] = "locked" /\ pc'[s] = "writing" /\ job'[s].owner = o
          /\ job'[s].revision = job[s].revision /\ job'[s].dirty = job[s].dirty
          /\ job'[s].cells = job[s].cells /\ UNCHANGED <<tracker, manifest>>
      BY <1>0, <1>10 DEF CreateArtifact, Goto, memory, TypeOK, Job
    <2> QED
      BY <1>4, <2>1 DEF Preparing, Written, PublishManifest, Goto
  <1>11. CASE SyncArtifact(s)
    <2>1. /\ pc[s] = "writing" /\ pc'[s] = "written" /\ job' = job /\ UNCHANGED <<tracker, manifest>>
      BY <1>11 DEF SyncArtifact, Goto, memory, TypeOK
    <2>2. Agree(ReplayOf(artifact', job[s].next), job[s].cells, Ids)
      BY <1>11, WrittenReplays
    <2> QED
      BY <1>4, <2>1, <2>2 DEF Preparing, PublishManifest, Goto
  <1>12. CASE SyncDirectory(s) \/ SyncManifest(s)
    <2>1. /\ pc[s] \in Written /\ pc'[s] \in Written /\ job' = job
          /\ UNCHANGED <<tracker, manifest, artifact>> /\ ~ PublishManifest(s)
          /\ pc'[s] \in Preparing => pc[s] \in Preparing
      BY <1>12 DEF SyncDirectory, SyncManifest, PublishManifest, Goto, memory, TypeOK, Written,
                   Preparing
    <2>2. Agree(ReplayOf(artifact', job[s].next), job[s].cells, Ids)
      BY <2>1 DEF Stored
    <2> QED
      BY <1>4, <2>1, <2>2 DEF Written
  <1>13. CASE PublishManifest(s)
    <2>1. /\ pc[s] = "staged" /\ pc'[s] = "renamed" /\ job' = job /\ manifest' = job[s].next
          /\ UNCHANGED <<tracker, artifact>>
      BY <1>13 DEF PublishManifest, Goto, memory, TypeOK
    <2>2. \A m \in KnownManifests : m # manifest'
      <3>1. /\ Newest(job[s].next) = job[s].file
            /\ \A m \in KnownManifests : Newest(m) < job[s].file
        BY <2>1 DEF Ages, Building
      <3>2. job[s].file \in Nat
        BY SemanticJournalAssumption, JobTyped
      <3> QED
        BY <2>1, <3>1, <3>2
    <2>3. \A p \in Owners : ~ Fits(p)'
      BY <2>1, <2>2 DEF Fits, KnownManifests
    <2>4. \A t \in Saves : job'[t].saved # manifest'
      BY <2>1, <2>2 DEF KnownManifests
    <2>5. \A t \in Saves : pc'[t] \in Written =>
            Agree(ReplayOf(artifact', job'[t].next), job'[t].cells, Ids)
      BY <1>3, <2>1 DEF Stored, Written
    <2>6. \A t \in Saves : Current(t)' => job'[t].owner \in Owners
      BY <1>1, <2>1, JobTyped DEF Current
    <2>7. \A t \in Saves : ~ (Current(t)' /\ Fits(job[t].owner)')
      BY <2>3, <2>6
    <2> QED
      BY <2>3, <2>4, <2>5, <2>7 DEF Stored
  <1>14. CASE Collect(s)
    <2>1. /\ pc[s] = "published" /\ pc'[s] = "released" /\ job'[s].owner = o
          /\ job'[s].revision = job[s].revision /\ job'[s].cells = job[s].cells
          /\ UNCHANGED <<tracker, manifest>>
      BY <1>0, <1>14 DEF Collect, Goto, memory, TypeOK, Job
    <2>2. Agree(OnDisk, job[s].cells, Ids)
      <3>1. manifest = job[s].next
        BY <2>1 DEF Versions
      <3> QED
        BY <2>1, <3>1 DEF Stored, Written, OnDisk
    <2> QED
      BY <1>4, <2>1, <2>2 DEF Preparing, Written, PublishManifest, Goto
  <1>15. CASE Finish(s)
    <2>1. /\ pc'[s] = "idle" /\ pc[s] = "released"
          /\ \A p \in Owners \ {o} : tracker'[p] = tracker[p]
          /\ tracker'[o].committed = job[s].revision /\ tracker'[o].revision = tracker[o].revision
          /\ tracker'[o].saved = job[s].saved
          /\ tracker'[o].dirty = IF tracker[o].revision # job[s].revision THEN tracker[o].dirty
                                 ELSE job[s].dirty
          /\ UNCHANGED <<disk, artifact, manifest>>
      BY <1>0, <1>15 DEF Finish, End, TypeOK, Persistence, disk
    <2>2. Current(s) /\ lane[o] = s /\ OnDisk' = OnDisk /\ job[s].dirty = {}
      BY <1>5, <2>1 DEF InLane, Locks, OnDisk, Marks
    <2>3. manifest # NoManifest /\ job[s].saved = manifest => Agree(OnDisk, job[s].cells, Ids)
      BY <2>1 DEF Stored
    <2>4. manifest # NoManifest /\ job[s].saved = manifest =>
            Agree(OnDisk, mem[o], Ids \ tracker'[o].dirty)
      <3>1. CASE tracker[o].revision # job[s].revision
        <4>1. Agree(mem[o], job[s].cells, Ids \ tracker[o].dirty)
          BY <2>2 DEF Snapshots
        <4> QED
          BY <2>1, <2>3, <3>1, <4>1 DEF Agree
      <3>2. CASE tracker[o].revision = job[s].revision
        <4>1. Agree(mem[o], job[s].cells, Ids)
          BY <1>0, <3>2 DEF Snapshots
        <4> QED
          BY <2>3, <4>1 DEF Agree
      <3> QED
        BY <3>1, <3>2
    <2>5. \A p \in Owners : status'[p] = "up" /\ Fits(p)' =>
            Agree(OnDisk', mem'[p], Ids \ tracker'[p].dirty)
      <3>1. \A p \in Owners : Fits(p)' =>
              IF p = o THEN manifest # NoManifest /\ job[s].saved = manifest ELSE Fits(p)
        BY <2>1 DEF Fits
      <3> QED
        BY <1>2, <2>1, <2>2, <2>4, <3>1 DEF Stored
    <2>6. ASSUME NEW t \in Saves, Current(t)', pc'[t] \in Preparing, Fits(job[t].owner)'
          PROVE  /\ Agree(OnDisk', job'[t].cells, Ids \ job'[t].dirty)
                 /\ job'[t].revision = tracker'[job'[t].owner].committed =>
                       Agree(OnDisk', job'[t].cells, Ids)
      <3>1. t # s /\ pc'[t] = pc[t] /\ job'[t] = job[t] /\ pc[t] # "idle"
            /\ job[t].owner \in Owners /\ job[t].revision \in Nat
        BY <1>1, <2>1, <2>6, JobTyped DEF Preparing
      <3>2. CASE job[t].owner # o
        <4>1. Current(t) /\ Fits(job[t].owner)
          BY <2>1, <2>6, <3>1, <3>2 DEF Current, Fits
        <4> QED
          BY <2>1, <2>2, <2>6, <3>1, <3>2, <4>1 DEF Stored
      <3>3. CASE job[t].owner = o
        <4>1. pc[t] = "prepared"
          BY <2>2, <2>6, <3>1, <3>3 DEF Preparing, Locks, InLane, Locked
        <4>2. job[s].revision <= job[t].revision
          BY <1>0, <2>1, <2>6, <3>1, <3>3 DEF Current
        <4>3. Agree(OnDisk, job[s].cells, Ids)
          <5>1. manifest # NoManifest /\ job[s].saved = manifest
            BY <2>1, <2>6, <3>1, <3>3 DEF Fits
          <5> QED
            BY <2>3, <5>1
        <4>4. /\ Agree(job[t].cells, job[s].cells, Ids \ job[t].dirty)
              /\ job[t].revision = job[s].revision => Agree(job[t].cells, job[s].cells, Ids)
          BY <1>0, <2>2, <3>1, <3>3, <4>1, <4>2 DEF Snapshots
        <4> QED
          BY <2>1, <2>2, <3>1, <3>3, <4>3, <4>4 DEF Agree
      <3> QED
        BY <3>2, <3>3
    <2>7. \A t \in Saves : pc'[t] = "released" /\ manifest' # NoManifest /\ job'[t].saved = manifest'
            => Agree(OnDisk', job'[t].cells, Ids)
      BY <1>1, <2>1, <2>2 DEF Stored
    <2>8. \A t \in Saves : pc'[t] \in Written =>
            Agree(ReplayOf(artifact', job'[t].next), job'[t].cells, Ids)
      BY <1>3, <2>1 DEF Written
    <2> QED
      BY <2>5, <2>6, <2>7, <2>8 DEF Stored
  <1> QED
    BY <1>6, <1>7, <1>8, <1>9, <1>10, <1>11, <1>12, <1>13, <1>14, <1>15 DEF SaveStep, Advance

(* Every step keeps Stored.                                                *)
LEMMA NextStored ==
  IInv /\ Marks /\ Ages /\ Forms /\ Snapshots /\ Stored /\ [Next]_vars => Stored'
  <1> SUFFICES ASSUME TypeOK, Locks, Versions, Files, Marks, Ages, Forms, Snapshots, Stored,
                      [Next]_vars
               PROVE  Stored'
    BY DEF IInv
  <1>1. CASE UNCHANGED vars
    BY <1>1 DEF vars, memory, disk, Stored, Current, Fits, OnDisk
  <1>2. ASSUME NEW s \in Saves, NEW o \in Owners, SaveSnapshot(s, o) PROVE Stored'
    <2>1. PrepareFrom(s, o, mem[o]) /\ mem' = mem /\ Agree(mem[o], mem[o], Ids)
      BY <1>2 DEF SaveSnapshot, Agree
    <2> QED
      BY <2>1, PrepareStored
  <1>3. ASSUME NEW s \in Saves, NEW o \in Owners, PersistEmbeddings(s, o) PROVE Stored'
    <2>1. /\ PrepareFrom(s, o, Bound(o)) /\ mem'[o] = Bound(o)
          /\ \A p \in Owners \ {o} : mem'[p] = mem[p]
      BY <1>3 DEF PersistEmbeddings, TypeOK
    <2>2. Agree(Bound(o), mem[o], Ids) /\ Agree(mem'[o], mem[o], Ids)
      BY <2>1, BoundAgrees
    <2> QED
      BY <2>1, <2>2, PrepareStored
  <1>4. CASE Next
    BY <1>2, <1>3, <1>4, SaveStepStored, OwnerStepStored, DieStored DEF Next, PowerLoss
  <1> QED
    BY <1>1, <1>4

(* The whole invariant of what is saved.                                   *)
SavedInv == Marks /\ Ages /\ Forms /\ Snapshots /\ Stored
LEMMA SavedInvariant == Spec => []SavedInv
  <1>1. Init => SavedInv
    <2>1. Init => Forms
      BY DEF Init, Forms, Building
    <2> QED
      BY <2>1, InitMarks, InitAges, InitSnapshots, InitStored DEF SavedInv
  <1>2. IInv /\ SavedInv /\ [Next]_vars => SavedInv'
    BY NextMarks, NextAges, NextForms, NextSnapshots, NextStored DEF IInv, SavedInv
  <1> QED
    BY <1>1, <1>2, InductiveInvariant, PTL DEF Spec

(* A save that returned Ok survives a loss of power.                       *)
THEOREM AcknowledgedSavesAreDurable == Spec => []AcknowledgedIsDurable
  <1>1. SavedInv => AcknowledgedIsDurable
    BY DEF SavedInv, Ages
  <1> QED
    BY <1>1, SavedInvariant, PTL

(* What an owner in step with the disk holds as clean is what a restart    *)
(* would load, whatever saves ran, failed or were overtaken.               *)
THEOREM CleanVectorsAreStored == Spec => []CleanVectorsAreDurable
  <1>1. SavedInv => CleanVectorsAreDurable
    BY ReplayIs DEF SavedInv, Stored, CleanVectorsAreDurable, InStep, Fits, Agree, OnDisk
  <1> QED
    BY <1>1, SavedInvariant, PTL

---------------------------------------------------------------------------
(* Soundness *)

(* A manifest is as sound as the artifacts it names.                       *)
LEMMA SoundSame ==
  ASSUME NEW a, NEW b, NEW m, \A n \in Referenced(m) : a[n] = b[n], SoundOn(a, m)
  PROVE  SoundOn(b, m)
  <1>1. a[m.base] = b[m.base] /\ \A k \in DOMAIN m.deltas : a[m.deltas[k]] = b[m.deltas[k]]
    BY DEF Referenced
  <1>2. ReplayOf(a, m) = ReplayOf(b, m)
    BY ReplaySame
  <1> QED
    BY <1>1, <1>2 DEF SoundOn

(* Snapshots that agree count the same vectors.                            *)
LEMMA SameCount ==
  ASSUME NEW c, NEW d, Agree(c, d, Ids)
  PROVE  Cardinality(Live(c)) = Cardinality(Live(d))
  <1>1. Live(c) = Live(d)
    BY DEF Agree, Live
  <1> QED
    BY <1>1

(* What a save has written is what journal::load accepts.                  *)
LEMMA WrittenIsSound ==
  ASSUME TypeOK, Locks, Versions, Files, Forms, Stored, Soundness,
         NEW s \in Saves, SyncArtifact(s)
  PROVE  SoundOn(artifact', job[s].next)
  <1> DEFINE n == job[s].file
             next == job[s].next
             cells == job[s].cells
             v == TargetVersion(s)
  <1>0. /\ pc[s] = "writing" /\ n \in DOMAIN artifact /\ n \in Name /\ manifest' = manifest
        /\ artifact'[n].cells = WrittenCells(s)
    BY DEF SyncArtifact, Goto, Files, Building, TypeOK
  <1>1. next.version = v /\ next.count = Cardinality(Live(cells))
    BY <1>0 DEF Forms, Building
  <1>2. Cardinality(Live(ReplayOf(artifact', next))) = next.count
    <2>1. Agree(ReplayOf(artifact', job[s].next), job[s].cells, Ids)
      BY WrittenReplays
    <2> QED
      BY <1>1, <2>1, SameCount
  <1>3. v \in {3, 5} /\ (v = 5 => Proven(cells) # {}) /\ (v # 5 => Proven(cells) = {})
    BY DEF TargetVersion
  <1>4. CASE next.base = n /\ next.deltas = <<>>
    <2>1. WrittenCells(s) = [i \in Ids |-> cells[i]]
      BY <1>4 DEF WrittenCells
    <2>2. Proven(WrittenCells(s)) = Proven(cells)
      BY <2>1 DEF Proven
    <2>3. Len(next.deltas) <= MaxDeltas
      BY <1>4, SemanticJournalAssumption
    <2> QED
      BY <1>0, <1>1, <1>2, <1>3, <1>4, <2>1, <2>2, <2>3 DEF SoundOn
  <1>5. CASE /\ manifest # NoManifest
             /\ next.base = manifest.base /\ next.deltas = Append(manifest.deltas, n)
             /\ manifest.version = v
             /\ Len(manifest.deltas) < MaxDeltas /\ Cardinality(job[s].dirty) <= MaxDeltaIds
    <2> DEFINE q == manifest.deltas
    <2>1. n \notin Referenced(manifest)
      BY <1>0, <1>5 DEF Files, Building
    <2>2. WrittenCells(s) = [i \in job[s].dirty |-> cells[i]]
      BY <1>5, <2>1 DEF WrittenCells, Referenced
    <2>3. /\ artifact'[manifest.base] = artifact[manifest.base]
          /\ \A k \in DOMAIN q : artifact'[q[k]] = artifact[q[k]]
      BY <2>1, <1>5 DEF SyncArtifact, Files, KeptBy, Kept, TypeOK, Referenced
    <2>4. SoundOn(artifact, manifest)
      BY <1>5 DEF Soundness
    <2>5. \A k \in DOMAIN next.deltas : \/ next.deltas[k] = n
                                        \/ k \in DOMAIN q /\ next.deltas[k] = q[k]
      <3>1. q \in Seq(Name)
        BY DEF TypeOK, Manifest
      <3> QED
        BY <1>0, <1>5, <3>1
    <2>6. /\ Cardinality(DOMAIN artifact'[n].cells) <= MaxDeltaIds
          /\ v # 5 => \A i \in DOMAIN artifact'[n].cells : ~ artifact'[n].cells[i].prov
      <3>1. job[s].dirty \subseteq Ids
        BY JobTyped
      <3> QED
        BY <1>0, <1>3, <1>5, <2>2, <3>1 DEF Proven
    <2>7. \A k \in DOMAIN next.deltas :
             /\ Cardinality(DOMAIN artifact'[next.deltas[k]].cells) <= MaxDeltaIds
             /\ v # 5 => \A i \in DOMAIN artifact'[next.deltas[k]].cells :
                            ~ artifact'[next.deltas[k]].cells[i].prov
      <3>1. \A k \in DOMAIN q :
              /\ Cardinality(DOMAIN artifact[q[k]].cells) <= MaxDeltaIds
              /\ v # 5 => \A i \in DOMAIN artifact[q[k]].cells : ~ artifact[q[k]].cells[i].prov
        BY <1>5, <2>4 DEF SoundOn
      <3> HIDE DEF n, next, q, v
      <3> QED
        BY <2>3, <2>5, <2>6, <3>1
    <2>8. DOMAIN artifact'[next.base].cells = Ids /\ (v = 5 => Proven(artifact'[next.base].cells) # {})
      BY <1>5, <2>3, <2>4 DEF SoundOn
    <2>9. Len(next.deltas) <= MaxDeltas
      <3>1. q \in Seq(Name)
        BY DEF TypeOK, Manifest
      <3>2. Len(Append(q, n)) = Len(q) + 1
        BY <1>0, <3>1
      <3> QED
        BY <1>5, <3>1, <3>2, SemanticJournalAssumption
    <2> QED
      BY <1>1, <1>2, <2>7, <2>8, <2>9 DEF SoundOn
  <1> QED
    BY <1>0, <1>4, <1>5 DEF Forms, Building

(* A save publishes only what it has written.                              *)
LEMMA SaveStepSoundness ==
  ASSUME TypeOK, Locks, Versions, Files, Forms, Stored, Soundness,
         NEW s \in Saves, SaveStep(s)
  PROVE  Soundness'
  <1>0. job[s] \in Job
    BY JobTyped
  <1>1. \A t \in Saves \ {s} : pc'[t] = pc[t] /\ job'[t] = job[t]
    BY DEF SaveStep, Advance, RejectStale, Rebase, SkipUnchanged, LockExclusive, RefuseChanged,
           CreateArtifact, SyncArtifact, SyncDirectory, PublishManifest, SyncManifest, Collect,
           Finish, Fail, Goto, End, TypeOK
  <1>2. \A m \in {manifest, durable} : m # NoManifest => SoundOn(artifact', m)
    BY SaveStepKeepsFiles, SoundSame DEF Soundness
  <1>3. \A t \in Saves \ {s} : pc'[t] \in Written => SoundOn(artifact', job'[t].next)
    <2>1. CASE pc[s] \in Locked
      BY <1>1, <2>1 DEF Locks, Locked, Written
    <2>2. CASE artifact' = artifact
      BY <1>1, <2>2 DEF Soundness
    <2> QED
      BY <2>1, <2>2
      DEF SaveStep, Advance, RejectStale, Rebase, SkipUnchanged, LockExclusive, RefuseChanged,
          CreateArtifact, SyncArtifact, SyncDirectory, PublishManifest, SyncManifest, Collect,
          Finish, Fail, Goto, disk, Locked
  <1>4. pc[s] \in Written /\ artifact' = artifact => SoundOn(artifact', job[s].next)
    BY DEF Soundness
  <1>5. CASE pc'[s] \notin Written /\ UNCHANGED <<manifest, durable>>
    BY <1>2, <1>3, <1>5 DEF Soundness
  <1>6. CASE SyncArtifact(s)
    <2>1. pc'[s] = "written" /\ job' = job /\ UNCHANGED <<manifest, durable>>
      BY <1>6 DEF SyncArtifact, Goto, TypeOK
    <2>2. SoundOn(artifact', job[s].next)
      BY <1>6, WrittenIsSound
    <2> QED
      BY <1>2, <1>3, <2>1, <2>2 DEF Soundness
  <1>7. CASE SyncDirectory(s)
    <2>1. pc[s] \in Written /\ job' = job /\ UNCHANGED <<manifest, durable, artifact>>
      BY <1>7 DEF SyncDirectory, Goto, Written
    <2> QED
      BY <1>2, <1>3, <1>4, <2>1 DEF Soundness
  <1>8. CASE PublishManifest(s) \/ SyncManifest(s)
    <2>1. /\ pc[s] \in Written /\ job' = job /\ artifact' = artifact
          /\ manifest' \in {manifest, job[s].next} /\ durable' \in {manifest, durable}
      BY <1>8 DEF PublishManifest, SyncManifest, Goto, Written
    <2> QED
      BY <1>2, <1>3, <1>4, <2>1 DEF Soundness
  <1> QED
    BY <1>5, <1>6, <1>7, <1>8
    DEF SaveStep, Advance, RejectStale, Rebase, SkipUnchanged, LockExclusive, RefuseChanged,
        CreateArtifact, Collect, Finish, Fail, Goto, End, TypeOK, disk, Written

(* Every step keeps Soundness.                                             *)
LEMMA NextSoundness ==
  IInv /\ Forms /\ Stored /\ Soundness /\ [Next]_vars => Soundness'
  <1> SUFFICES ASSUME TypeOK, Locks, Versions, Files, Forms, Stored, Soundness, [Next]_vars
               PROVE  Soundness'
    BY DEF IInv
  <1>1. ASSUME UNCHANGED disk,
               \A s \in Saves : pc'[s] \in Written => pc[s] \in Written /\ job'[s] = job[s]
        PROVE  Soundness'
    BY <1>1 DEF disk, Soundness
  <1>2. CASE UNCHANGED vars
    BY <1>1, <1>2 DEF vars
  <1>3. ASSUME NEW s \in Saves, NEW o \in Owners, NEW cells, PrepareFrom(s, o, cells)
        PROVE  Soundness'
    BY <1>1, <1>3 DEF PrepareFrom, TypeOK, Written
  <1>4. ASSUME NEW o \in Owners, OwnerStep(o) PROVE Soundness'
    <2>1. CASE Crash(o)
      BY <1>1, <2>1 DEF Crash, Die, Written
    <2>2. CASE UNCHANGED <<pc, job, disk>>
      BY <1>1, <2>2
    <2> QED
      BY <1>4, <2>1, <2>2
      DEF OwnerStep, StartEmpty, OpenLoad, CompleteLoad, FailLoad, InsertEmbedding,
          RecordSourceProvenance, RemoveEmbeddings, ClearEmbeddings, MayChange
  <1>5. CASE PowerLoss
    <2>1. PICK lost \in SUBSET (DOMAIN artifact \ synced), m \in {manifest, durable} :
            /\ artifact' = [n \in DOMAIN artifact \ lost |-> artifact[n]]
            /\ manifest' = m /\ durable' = m
      BY <1>5 DEF PowerLoss
    <2>2. \A s \in Saves : pc'[s] = "idle"
      BY <1>5 DEF PowerLoss, Die, TypeOK
    <2>3. m # NoManifest => \A n \in Referenced(m) : artifact[n] = artifact'[n]
      BY <2>1 DEF Files, KeptBy, Kept, TypeOK
    <2>4. m # NoManifest => SoundOn(artifact', m)
      BY <2>3, SoundSame DEF Soundness
    <2> QED
      BY <2>1, <2>2, <2>4 DEF Soundness, Written
  <1>6. CASE Next
    BY <1>3, <1>4, <1>5, <1>6, SaveStepSoundness DEF Next, SaveSnapshot, PersistEmbeddings
  <1> QED
    BY <1>2, <1>6

LEMMA SoundnessInvariant == Spec => []Soundness
  <1>1. Init => Soundness
    BY DEF Init, Soundness, Written
  <1>2. IInv /\ SavedInv /\ Soundness /\ [Next]_vars => Soundness'
    BY NextSoundness DEF SavedInv
  <1> QED
    BY <1>1, <1>2, InductiveInvariant, SavedInvariant, PTL DEF Spec

(* No crash, error, compaction or loss of power leaves a manifest, visible *)
(* or durable, that journal::load would refuse as corrupt.                 *)
THEOREM CommittedStateLoads == Spec => []CommittedStateIsLoadable
  <1>1. IInv /\ Soundness => CommittedStateIsLoadable
    <2> SUFFICES ASSUME IInv, Soundness, NEW m \in {manifest, durable}, m # NoManifest
                 PROVE  Loadable(m)
      BY DEF CommittedStateIsLoadable
    <2>1. ArtifactsPresent(m)
      BY DEF IInv, TypeOK, Files, KeptBy, Kept, ArtifactsPresent
    <2>2. SoundOn(artifact, m)
      BY DEF Soundness
    <2>3. Replay(m) = ReplayOf(artifact, m)
      BY ReplayIs
    <2> QED
      BY <2>1, <2>2, <2>3 DEF Loadable, SoundOn
  <1> QED
    BY <1>1, InductiveInvariant, SoundnessInvariant, PTL

---------------------------------------------------------------------------
(***************************************************************************)
(* The journal implements SnapshotStore.  A step that writes, renames or   *)
(* removes files maps to a stutter unless it is PublishManifest (Publish), *)
(* SyncManifest (Secure), Finish (Acknowledge), or an end without success  *)
(* (GiveUp).                                                               *)
(***************************************************************************)

\* Whoever is in the lane of an owner is one of its saves, between Rebase and Finish.
Lanes == \A o \in Owners : lane[o] # Nobody => /\ pc[lane[o]] \in InLane
                                               /\ job[lane[o]].owner = o

Known    == [o \in Owners |-> tracker[o].saved]
Mine     == [o \in Owners |-> LastPublished(o)]
Offers   == [o \in Owners |->
               {VectorsOf(job[s].cells) : s \in {t \in Saves : pc[t] # "idle" /\ job[t].owner = o}}]

(* The lane is entered by Rebase and left by the steps that end a save.    *)
LEMMA NextLanes == TypeOK /\ Locks /\ Lanes /\ [Next]_vars => Lanes'
  <1> SUFFICES ASSUME TypeOK, Locks, Lanes, [Next]_vars PROVE Lanes'
    OBVIOUS
  <1>0. lane \in [Owners -> Saves \cup {Nobody}] /\ Nobody \notin Saves
    BY SemanticJournalAssumption DEF TypeOK
  <1>1. ASSUME lane' = lane,
               \A s \in Saves : pc[s] \in InLane => pc'[s] \in InLane /\ job'[s].owner = job[s].owner
        PROVE  Lanes'
    BY <1>0, <1>1 DEF Lanes
  <1>2. CASE UNCHANGED vars
    BY <1>1, <1>2 DEF vars, locks
  <1>3. ASSUME NEW dead \in SUBSET Owners, Die(dead) PROVE Lanes'
    BY <1>0, <1>3 DEF Die, Lanes, TypeOK
  <1>4. ASSUME NEW s \in Saves, NEW o \in Owners, NEW cells, PrepareFrom(s, o, cells)
        PROVE  Lanes'
    BY <1>1, <1>4 DEF PrepareFrom, locks, TypeOK, InLane, Locked
  <1>5. ASSUME NEW o \in Owners, OwnerStep(o) PROVE Lanes'
    <2>1. CASE Crash(o)
      BY <1>3, <2>1 DEF Crash
    <2>2. CASE UNCHANGED <<pc, job, lane>>
      BY <1>1, <2>2
    <2> QED
      BY <1>5, <2>1, <2>2
      DEF OwnerStep, StartEmpty, OpenLoad, CompleteLoad, FailLoad, InsertEmbedding,
          RecordSourceProvenance, RemoveEmbeddings, ClearEmbeddings, MayChange, locks
  <1>6. ASSUME NEW s \in Saves, SaveStep(s) PROVE Lanes'
    <2>0. job[s] \in Job
      BY JobTyped
    <2>1. \A t \in Saves \ {s} : pc'[t] = pc[t] /\ job'[t] = job[t]
      BY <1>6 DEF SaveStep, Advance, RejectStale, Rebase, SkipUnchanged, LockExclusive,
           RefuseChanged, CreateArtifact, SyncArtifact, SyncDirectory, PublishManifest,
           SyncManifest, Collect, Finish, Fail, Goto, End, TypeOK
    <2>2. CASE RejectStale(s)
      <3>1. pc[s] = "prepared" /\ lane' = lane
        BY <2>2 DEF RejectStale, locks
      <3> QED
        BY <1>1, <2>1, <3>1 DEF InLane, Locked
    <2>3. CASE Rebase(s)
      <3>1. /\ pc'[s] = "rebased" /\ job'[s].owner = job[s].owner
            /\ lane' = [lane EXCEPT ![job[s].owner] = s] /\ pc[s] = "prepared"
        BY <2>0, <2>3 DEF Rebase, Goto, TypeOK, Job
      <3> QED
        BY <1>0, <2>1, <3>1 DEF Lanes, InLane, Locked
    <2>4. CASE RefuseChanged(s) \/ Finish(s) \/ Fail(s)
      <3>1. pc[s] \in InLane /\ lane' = [lane EXCEPT ![job[s].owner] = Nobody]
        BY <2>4 DEF RefuseChanged, Finish, Fail, ReleaseLane, InLane, Locked
      <3>2. \A o \in Owners \ {job[s].owner} : lane'[o] = lane[o] /\ lane[o] # s
        BY <1>0, <3>1 DEF Lanes
      <3> QED
        BY <1>0, <2>1, <3>1, <3>2 DEF Lanes
    <2>5. CASE SkipUnchanged(s) \/ LockExclusive(s) \/ SyncArtifact(s) \/ SyncDirectory(s)
               \/ PublishManifest(s) \/ SyncManifest(s)
      <3>1. pc'[s] \in InLane /\ job' = job /\ lane' = lane
        BY <2>5 DEF SkipUnchanged, LockExclusive, SyncArtifact, SyncDirectory, PublishManifest,
                    SyncManifest, Goto, locks, TypeOK, InLane, Locked
      <3> QED
        BY <1>1, <2>1, <3>1
    <2>6. CASE CreateArtifact(s) \/ Collect(s)
      <3>1. pc'[s] \in InLane /\ job'[s].owner = job[s].owner /\ lane' = lane
        BY <2>0, <2>6 DEF CreateArtifact, Collect, Goto, locks, TypeOK, InLane, Locked, Job
      <3> QED
        BY <1>1, <2>1, <3>1
    <2> QED
      BY <1>6, <2>2, <2>3, <2>4, <2>5, <2>6 DEF SaveStep, Advance
  <1>7. CASE Next
    BY <1>3, <1>4, <1>5, <1>6, <1>7 DEF Next, SaveSnapshot, PersistEmbeddings, PowerLoss
  <1> QED
    BY <1>2, <1>7

(* The initial states.                                                     *)
LEMMA InitImplements == Init => Store!Init
  <1> SUFFICES ASSUME Init PROVE Store!Init
    OBVIOUS
  <1>1. Known = [o \in Owners |-> NoManifest]
    BY DEF Init, Known, FreshTracker
  <1>2. Mine = [o \in Owners |-> NoManifest]
    BY DEF Init, Mine, LastPublished, FreshTracker
  <1>3. Offers = [o \in Owners |-> {}]
    BY DEF Init, Offers
  <1>4. ValueOf(NoManifest) = NoVectors
    BY DEF ValueOf
  <1> QED
    BY <1>1, <1>2, <1>3, <1>4 DEF Init, Store!Init, Known, Mine, Offers

(* The value of a manifest, with the artifacts as a parameter.             *)
ValueIn(a, m) == IF m = NoManifest THEN NoVectors ELSE VectorsOf(ReplayOf(a, m))

LEMMA ValueIs ==
  /\ ValueOf(manifest) = ValueIn(artifact, manifest)
  /\ ValueOf(durable) = ValueIn(artifact, durable)
  /\ ValueOf(manifest)' = ValueIn(artifact', manifest')
  /\ ValueOf(durable)' = ValueIn(artifact', durable')
  BY DEF ValueOf, ValueIn, Replay, ReplayOf, LastDelta, LastOf, Holds

(* The value of a manifest is that of the artifacts it names.              *)
LEMMA ValueSame ==
  ASSUME NEW a, NEW b, NEW m, m # NoManifest => \A n \in Referenced(m) : a[n] = b[n]
  PROVE  ValueIn(a, m) = ValueIn(b, m)
  <1>1. m # NoManifest => ReplayOf(a, m) = ReplayOf(b, m)
    BY ReplaySame
  <1> QED
    BY <1>1 DEF ValueIn

(* Snapshots that agree have the same vectors.                             *)
LEMMA SameVectors ==
  ASSUME NEW c, NEW d, Agree(c, d, Ids)
  PROVE  VectorsOf(c) = VectorsOf(d)
  BY DEF Agree, VectorsOf

(* A step of a save concerns its owner only.                               *)
LEMMA SaveStepOthers ==
  ASSUME TypeOK, Locks, Lanes, NEW s \in Saves, SaveStep(s), NEW o \in Owners, o = job[s].owner
  PROVE  /\ Known' = [Known EXCEPT ![o] = tracker'[o].saved]
         /\ Mine' = [Mine EXCEPT ![o] = LastPublished(o)']
         /\ Offers' = [Offers EXCEPT ![o] = Offers'[o]]
         /\ Offers'[o] \subseteq Offers[o]
         /\ pc'[s] # "idle" => Offers' = Offers
  <1>0. pc[s] # "idle" /\ job[s] \in Job
    BY JobTyped DEF SaveStep, Advance, RejectStale, Rebase, SkipUnchanged, LockExclusive,
       RefuseChanged, CreateArtifact, SyncArtifact, SyncDirectory, PublishManifest, SyncManifest,
       Collect, Finish, Fail, Goto
  <1>1. \A t \in Saves \ {s} : pc'[t] = pc[t] /\ job'[t] = job[t]
    BY DEF SaveStep, Advance, RejectStale, Rebase, SkipUnchanged, LockExclusive, RefuseChanged,
           CreateArtifact, SyncArtifact, SyncDirectory, PublishManifest, SyncManifest, Collect,
           Finish, Fail, Goto, End, TypeOK
  <1>2. pc'[s] # "idle" => job'[s].owner = o /\ job'[s].cells = job[s].cells
    BY <1>0 DEF SaveStep, Advance, RejectStale, Rebase, SkipUnchanged, LockExclusive,
       RefuseChanged, CreateArtifact, SyncArtifact, SyncDirectory, PublishManifest, SyncManifest,
       Collect, Finish, Fail, Goto, End, TypeOK, Job
  <1>3. \A p \in Owners \ {o} : lane'[p] = lane[p] /\ tracker'[p] = tracker[p]
    BY DEF SaveStep, Advance, RejectStale, Rebase, SkipUnchanged, LockExclusive,
       RefuseChanged, CreateArtifact, SyncArtifact, SyncDirectory, PublishManifest, SyncManifest,
       Collect, Finish, Fail, ReleaseLane, memory, locks, TypeOK
  <1>4. ASSUME NEW p \in Owners \ {o} PROVE LastPublished(p)' = LastPublished(p)
    <2>1. lane[p] # Nobody => lane[p] \in Saves \ {s}
      BY DEF Lanes, TypeOK
    <2> QED
      BY <1>1, <1>3, <2>1 DEF LastPublished
  <1>5. ASSUME NEW p \in Owners
        PROVE  /\ Offers'[p] \subseteq Offers[p]
               /\ p # o \/ pc'[s] # "idle" => Offers'[p] = Offers[p]
    <2>1. Offers[p] = {VectorsOf(job[t].cells) : t \in {u \in Saves : pc[u] # "idle" /\ job[u].owner = p}}
      BY DEF Offers
    <2>2. Offers'[p] = {VectorsOf(job'[t].cells) : t \in {u \in Saves : pc'[u] # "idle" /\ job'[u].owner = p}}
      BY DEF Offers, VectorsOf
    <2>3. \A t \in {u \in Saves : pc'[u] # "idle" /\ job'[u].owner = p} :
             t \in {u \in Saves : pc[u] # "idle" /\ job[u].owner = p} /\ job'[t].cells = job[t].cells
      BY <1>0, <1>1, <1>2
    <2>4. p # o \/ pc'[s] # "idle" =>
          \A t \in {u \in Saves : pc[u] # "idle" /\ job[u].owner = p} :
             t \in {u \in Saves : pc'[u] # "idle" /\ job'[u].owner = p} /\ job'[t].cells = job[t].cells
      BY <1>0, <1>1, <1>2
    <2> QED
      BY <2>1, <2>2, <2>3, <2>4
  <1>6. Offers \in [Owners -> {Offers[p] : p \in Owners}] /\ DOMAIN Offers = Owners
        /\ Offers' \in [Owners -> {Offers'[p] : p \in Owners}]
    BY DEF Offers
  <1>7. Known' = [Known EXCEPT ![o] = tracker'[o].saved]
    BY <1>3 DEF Known
  <1>8. Mine' = [Mine EXCEPT ![o] = LastPublished(o)']
    BY <1>4 DEF Mine
  <1>9. Offers' = [Offers EXCEPT ![o] = Offers'[o]] /\ (pc'[s] # "idle" => Offers' = Offers)
    BY <1>5, <1>6
  <1> QED
    BY <1>5, <1>7, <1>8, <1>9

(* What the disk holds changes only where the manifest does.               *)
LEMMA SaveStepValues ==
  ASSUME TypeOK, Locks, Versions, Files, NEW s \in Saves, SaveStep(s)
  PROVE  /\ manifest' = manifest => ValueOf(manifest)' = ValueOf(manifest)
         /\ durable' = durable => ValueOf(durable)' = ValueOf(durable)
  BY SaveStepKeepsFiles, ValueSame, ValueIs

(* The steps of a save that replace nothing are stutters, ends without     *)
(* success, PublishManifest, SyncManifest or Finish.                       *)
LEMMA SaveStepImplements ==
  ASSUME IInv, SavedInv, Lanes, NEW s \in Saves, SaveStep(s)
  PROVE  Store!Next \/ UNCHANGED Store!vars
  <1> USE DEF IInv, SavedInv
  <1>0. PICK o \in Owners : o = job[s].owner
    <2>1. pc[s] # "idle"
      BY DEF SaveStep, Advance, RejectStale, Rebase, SkipUnchanged, LockExclusive, RefuseChanged,
             CreateArtifact, SyncArtifact, SyncDirectory, PublishManifest, SyncManifest, Collect,
             Finish, Fail, Goto
    <2> QED
      BY <2>1, JobTyped
  <1>1. /\ Known' = [Known EXCEPT ![o] = tracker'[o].saved]
        /\ Mine' = [Mine EXCEPT ![o] = LastPublished(o)']
        /\ Offers' = [Offers EXCEPT ![o] = Offers'[o]]
        /\ Offers'[o] \subseteq Offers[o]
        /\ pc'[s] # "idle" => Offers' = Offers
    BY <1>0, SaveStepOthers
  <1>2. /\ Known[o] = tracker[o].saved /\ Mine[o] = LastPublished(o)
        /\ Known = [Known EXCEPT ![o] = Known[o]] /\ Mine = [Mine EXCEPT ![o] = Mine[o]]
    BY DEF Known, Mine
  <1>3. /\ manifest' = manifest => ValueOf(manifest)' = ValueOf(manifest)
        /\ durable' = durable => ValueOf(durable)' = ValueOf(durable)
    BY SaveStepValues
  <1>4. Nobody \notin Saves /\ lane \in [Owners -> Saves \cup {Nobody}] /\ job[s] \in Job
    BY SemanticJournalAssumption, JobTyped DEF TypeOK
  <1>5. pc[s] \in InLane => lane[o] = s
    BY <1>0 DEF Locks
  \* A step that changes nothing the store sees.
  <1>6. ASSUME UNCHANGED <<manifest, durable, tracker>>, LastPublished(o)' = LastPublished(o),
               pc'[s] # "idle"
        PROVE  UNCHANGED Store!vars
    <2>1. Known' = Known /\ Mine' = Mine /\ Offers' = Offers
      BY <1>1, <1>2, <1>6
    <2> QED
      BY <1>3, <1>6, <2>1 DEF Store!vars, Known, Mine, Offers
  \* A step that ends a save without success.
  <1>7. ASSUME UNCHANGED <<manifest, durable, tracker>>, LastPublished(o)' = tracker[o].saved
        PROVE  Store!Next
    <2>1. Known' = Known /\ Mine' = [Mine EXCEPT ![o] = Known[o]]
      BY <1>1, <1>2, <1>7
    <2>2. Store!GiveUp(o)
      BY <1>1, <1>3, <1>7, <2>1 DEF Store!GiveUp, Store!Withdrawing, Known, Mine, Offers
    <2> QED
      BY <2>2 DEF Store!Next
  <1>8. CASE RejectStale(s)
    <2>1. /\ lane[o] = Nobody /\ lane' = lane /\ tracker' = tracker
          /\ UNCHANGED <<manifest, durable>>
      BY <1>0, <1>8 DEF RejectStale, memory, locks, disk
    <2>2. LastPublished(o)' = tracker[o].saved
      BY <2>1 DEF LastPublished
    <2> QED
      BY <1>7, <2>1, <2>2
  <1>9. CASE RefuseChanged(s) \/ Fail(s)
    <2>1. lane'[o] = Nobody /\ UNCHANGED <<manifest, durable, tracker>>
      BY <1>0, <1>4, <1>9 DEF RefuseChanged, Fail, ReleaseLane, memory, disk
    <2>2. LastPublished(o)' = tracker[o].saved
      BY <2>1 DEF LastPublished
    <2> QED
      BY <1>7, <2>1, <2>2
  <1>10. CASE Rebase(s)
    <2>1. /\ lane[o] = Nobody /\ lane'[o] = s /\ pc'[s] = "rebased"
          /\ UNCHANGED <<manifest, durable, tracker>>
      BY <1>0, <1>4, <1>10 DEF Rebase, Goto, memory, disk, TypeOK
    <2>2. LastPublished(o)' = LastPublished(o)
      BY <1>4, <2>1 DEF LastPublished
    <2> QED
      BY <1>6, <2>1, <2>2
  <1>11. CASE SkipUnchanged(s)
    <2>1. /\ pc[s] = "rebased" /\ pc'[s] = "released" /\ lane' = lane /\ job' = job
          /\ UNCHANGED <<manifest, durable, tracker>>
      BY <1>11 DEF SkipUnchanged, Goto, memory, locks, disk, TypeOK
    <2>2. lane[o] = s /\ tracker[o].saved = job[s].saved
      BY <1>0, <1>5, <2>1 DEF InLane, Versions
    <2>3. LastPublished(o)' = LastPublished(o)
      BY <1>4, <2>1, <2>2 DEF LastPublished
    <2> QED
      BY <1>6, <2>1, <2>3
  <1>12. CASE LockExclusive(s) \/ CreateArtifact(s) \/ SyncArtifact(s) \/ SyncDirectory(s)
    <2>1. /\ pc[s] \in {"rebased", "locked", "writing", "written"}
          /\ pc'[s] \in {"locked", "writing", "written", "staged"}
          /\ lane' = lane /\ UNCHANGED <<manifest, durable, tracker>>
      BY <1>12 DEF LockExclusive, CreateArtifact, SyncArtifact, SyncDirectory, Goto, memory, locks,
                   disk, TypeOK
    <2>2. lane[o] = s
      BY <1>5, <2>1 DEF InLane, Locked
    <2>3. LastPublished(o)' = LastPublished(o)
      BY <1>4, <2>1, <2>2 DEF LastPublished
    <2> QED
      BY <1>6, <2>1, <2>3
  <1>13. CASE PublishManifest(s)
    <2>1. /\ pc[s] = "staged" /\ pc'[s] = "renamed" /\ job' = job /\ manifest' = job[s].next
          /\ lane' = lane /\ UNCHANGED <<tracker, artifact, durable>>
      BY <1>13 DEF PublishManifest, Goto, memory, locks, TypeOK
    <2>2. lane[o] = s
      BY <1>5, <2>1 DEF InLane, Locked
    <2>3. LastPublished(o)' = manifest'
      BY <1>4, <2>1, <2>2 DEF LastPublished
    <2>4. Known[o] \in {NoManifest, manifest} /\ Known' = Known /\ Offers' = Offers
      BY <1>0, <1>1, <1>2, <2>1 DEF Versions, Building, Locked
    <2>5. job[s].next \in Manifest \ {manifest, NoManifest}
      <3>1. /\ Newest(job[s].next) = job[s].file /\ Newest(manifest) < job[s].file
            /\ job[s].next # NoManifest
        BY <2>1 DEF Ages, Building, KnownManifests, Files
      <3>2. Newest(manifest) \in Nat
        BY NewestTyped DEF TypeOK
      <3> QED
        BY <3>1, <3>2, JobTyped
    <2>6. ValueOf(manifest)' = VectorsOf(job[s].cells)
      <3>1. VectorsOf(ReplayOf(artifact, job[s].next)) = VectorsOf(job[s].cells)
        BY <2>1, SameVectors DEF Stored, Written
      <3> QED
        BY <2>1, <2>5, <3>1, ValueIs DEF ValueIn
    <2>7. VectorsOf(job[s].cells) \in Offers[o]
      BY <1>0, <2>1 DEF Offers
    <2>8. Store!Publish(o)
      BY <1>1, <1>3, <2>1, <2>3, <2>4, <2>5, <2>6, <2>7 DEF Store!Publish, Known, Mine, Offers
    <2> QED
      BY <2>8 DEF Store!Next
  <1>14. CASE SyncManifest(s)
    <2>1. /\ pc[s] = "renamed" /\ pc'[s] = "published" /\ job' = job /\ durable' = manifest
          /\ lane' = lane /\ UNCHANGED <<tracker, artifact, manifest>>
      BY <1>14 DEF SyncManifest, Goto, memory, locks, TypeOK
    <2>2. lane[o] = s
      BY <1>5, <2>1 DEF InLane, Locked
    <2>3. LastPublished(o)' = LastPublished(o)
      BY <1>4, <2>1, <2>2 DEF LastPublished
    <2>4. Known' = Known /\ Mine' = Mine /\ Offers' = Offers
      BY <1>1, <1>2, <2>1, <2>3
    <2>5. ValueOf(durable)' = ValueOf(manifest)
      BY <2>1, ValueIs
    <2>6. Store!Secure
      BY <1>3, <2>1, <2>4, <2>5 DEF Store!Secure, Known, Mine, Offers
    <2> QED
      BY <2>6 DEF Store!Next
  <1>15. CASE Collect(s)
    <2>1. /\ pc[s] = "published" /\ pc'[s] = "released" /\ job'[s].saved = job[s].next
          /\ lane' = lane /\ UNCHANGED <<manifest, durable, tracker>>
      BY <1>4, <1>15 DEF Collect, Goto, memory, TypeOK, Job
    <2>2. lane[o] = s
      BY <1>5, <2>1 DEF InLane, Locked
    <2>3. LastPublished(o)' = LastPublished(o)
      BY <1>4, <2>1, <2>2 DEF LastPublished
    <2> QED
      BY <1>6, <2>1, <2>3
  <1>16. CASE Finish(s)
    <2>1. /\ pc[s] = "released" /\ lane'[o] = Nobody /\ tracker'[o].saved = job[s].saved
          /\ UNCHANGED <<manifest, durable>>
      BY <1>0, <1>4, <1>16 DEF Finish, ReleaseLane, disk, TypeOK, Persistence
    <2>2. lane[o] = s
      BY <1>5, <2>1 DEF InLane, Locked
    <2>3. LastPublished(o) = job[s].saved /\ LastPublished(o)' = job[s].saved
      BY <1>4, <2>1, <2>2 DEF LastPublished
    <2>4. Known' = [Known EXCEPT ![o] = Mine[o]] /\ Mine' = Mine
      BY <1>1, <1>2, <2>1, <2>3
    <2>5. Store!Acknowledge(o)
      BY <1>1, <1>3, <2>1, <2>4 DEF Store!Acknowledge, Store!Withdrawing, Known, Mine, Offers
    <2> QED
      BY <2>5 DEF Store!Next
  <1> QED
    BY <1>8, <1>9, <1>10, <1>11, <1>12, <1>13, <1>14, <1>15, <1>16 DEF SaveStep, Advance

(* A save that is prepared offers the vectors of its snapshot.             *)
LEMMA PrepareImplements ==
  ASSUME TypeOK, Lanes, NEW s \in Saves, NEW o \in Owners, NEW cells \in Content,
         PrepareFrom(s, o, cells)
  PROVE  Store!Next
  <1>1. /\ pc[s] = "idle" /\ pc'[s] = "prepared" /\ job'[s].owner = o /\ job'[s].cells = cells
        /\ \A t \in Saves \ {s} : pc'[t] = pc[t] /\ job'[t] = job[t]
        /\ UNCHANGED <<tracker, lane, manifest, durable, artifact>>
    BY DEF PrepareFrom, locks, disk, TypeOK
  <1>2. Known' = Known /\ ValueOf(manifest)' = ValueOf(manifest) /\ ValueOf(durable)' = ValueOf(durable)
    BY <1>1, ValueIs DEF Known
  <1>3. Mine' = Mine
    <2>1. \A p \in Owners : lane[p] = Nobody \/ lane[p] \in Saves \ {s}
      BY <1>1 DEF Lanes, TypeOK, InLane, Locked
    <2>2. \A p \in Owners : LastPublished(p)' = LastPublished(p)
      BY <1>1, <2>1 DEF LastPublished
    <2> QED
      BY <2>2 DEF Mine
  <1>4. Offers' = [Offers EXCEPT ![o] = @ \cup {VectorsOf(cells)}]
    <2>1. ASSUME NEW p \in Owners
          PROVE  Offers'[p] = IF p = o THEN Offers[p] \cup {VectorsOf(cells)} ELSE Offers[p]
      <3> DEFINE before == {t \in Saves : pc[t] # "idle" /\ job[t].owner = p}
                 after  == {t \in Saves : pc'[t] # "idle" /\ job'[t].owner = p}
      <3>1. Offers[p] = {VectorsOf(job[t].cells) : t \in before}
        BY DEF Offers
      <3>2. Offers'[p] = {VectorsOf(job'[t].cells) : t \in after}
        BY DEF Offers, VectorsOf
      <3>3. /\ \A t \in before : t # s /\ t \in after /\ job'[t].cells = job[t].cells
            /\ \A t \in after : t = s \/ t \in before
            /\ s \in after <=> p = o
        BY <1>1
      <3> QED
        BY <1>1, <3>1, <3>2, <3>3
    <2> QED
      BY <2>1 DEF Offers
  <1>5. VectorsOf(cells) \in [Ids -> Vecs \cup {NoVec}]
    BY DEF VectorsOf, Content, Cell
  <1>6. \E c \in [Ids -> Vecs \cup {NoVec}] : Store!Offer(o, c)
    <2>1. Store!Offer(o, VectorsOf(cells))
      BY <1>1, <1>2, <1>3, <1>4 DEF Store!Offer, Known, Mine, Offers
    <2> QED
      BY <1>5, <2>1
  <1> QED
    BY <1>6 DEF Store!Next

(* A load reads; a failed load or the death of the process starts anew.    *)
LEMMA OwnerStepImplements ==
  ASSUME TypeOK, Locks, Lanes, NEW o \in Owners, OwnerStep(o)
  PROVE  Store!Next \/ UNCHANGED Store!vars
  <1>0. FreshTracker.saved = NoManifest /\ Nobody \notin Saves
    BY SemanticJournalAssumption DEF FreshTracker
  \* An owner that is not up has no save, and nothing in its lane.
  <1>1. status[o] # "up" => /\ \A s \in Saves : pc[s] # "idle" => job[s].owner # o
                            /\ lane[o] = Nobody
    BY DEF Locks, Lanes, TypeOK, InLane, Locked
  \* A step that changes what the owner knows, at most.
  <1>2. ASSUME UNCHANGED <<pc, job, lane, disk>>,
               \A p \in Owners \ {o} : tracker'[p] = tracker[p]
        PROVE  /\ UNCHANGED <<manifest, durable, artifact>>
               /\ ValueOf(manifest)' = ValueOf(manifest) /\ ValueOf(durable)' = ValueOf(durable)
               /\ Known' = [Known EXCEPT ![o] = tracker'[o].saved] /\ Offers' = Offers
               /\ lane[o] = Nobody => Mine' = [Mine EXCEPT ![o] = tracker'[o].saved]
               /\ tracker'[o].saved = tracker[o].saved => UNCHANGED Store!vars
    <2>1. UNCHANGED <<manifest, durable, artifact>>
      BY <1>2 DEF disk
    <2>2. ValueOf(manifest)' = ValueOf(manifest) /\ ValueOf(durable)' = ValueOf(durable)
      BY <2>1, ValueIs
    <2>3. Known' = [Known EXCEPT ![o] = tracker'[o].saved]
      BY <1>2 DEF Known
    <2>4. Offers' = Offers
      BY <1>2 DEF Offers, VectorsOf
    <2>5. \A p \in Owners \ {o} : LastPublished(p)' = LastPublished(p)
      BY <1>2 DEF LastPublished
    <2>6. lane[o] = Nobody => LastPublished(o)' = tracker'[o].saved
      BY <1>2 DEF LastPublished
    <2>7. lane[o] = Nobody => Mine' = [Mine EXCEPT ![o] = tracker'[o].saved]
      BY <2>5, <2>6 DEF Mine
    <2>8. tracker'[o].saved = tracker[o].saved => Known' = Known /\ Mine' = Mine
      <3>1. tracker'[o].saved = tracker[o].saved => LastPublished(o)' = LastPublished(o)
        BY <1>2 DEF LastPublished
      <3> QED
        BY <2>3, <2>5, <3>1 DEF Known, Mine
    <2> QED
      BY <2>1, <2>2, <2>3, <2>4, <2>7, <2>8 DEF Store!vars, Known, Mine, Offers
  <1>3. CASE StartEmpty(o)
    BY <1>2, <1>3 DEF StartEmpty, locks
  <1>4. CASE OpenLoad(o)
    <2>1. tracker'[o].saved = manifest /\ lane[o] = Nobody
      BY <1>1, <1>4 DEF OpenLoad, TypeOK, Persistence
    <2>2. UNCHANGED <<pc, job, lane, disk>> /\ \A p \in Owners \ {o} : tracker'[p] = tracker[p]
      BY <1>4 DEF OpenLoad
    <2>3. /\ UNCHANGED <<manifest, durable, artifact>>
          /\ ValueOf(manifest)' = ValueOf(manifest) /\ ValueOf(durable)' = ValueOf(durable)
          /\ Known' = [Known EXCEPT ![o] = manifest] /\ Offers' = Offers
          /\ Mine' = [Mine EXCEPT ![o] = manifest]
      BY <1>2, <2>1, <2>2
    <2>4. Store!Read(o)
      BY <2>3 DEF Store!Read, Known, Mine, Offers
    <2> QED
      BY <2>4 DEF Store!Next
  <1>5. CASE CompleteLoad(o)
    BY <1>2, <1>5 DEF CompleteLoad, TypeOK, Persistence
  <1>6. CASE FailLoad(o)
    <2>1. tracker'[o].saved = NoManifest /\ lane[o] = Nobody
      BY <1>0, <1>1, <1>6 DEF FailLoad, TypeOK
    <2>2. Offers = [Offers EXCEPT ![o] = {}]
      <3>1. Offers[o] = {}
        BY <1>1, <1>6 DEF FailLoad, Offers
      <3> QED
        BY <3>1 DEF Offers
    <2>3. UNCHANGED <<pc, job, lane, disk>> /\ \A p \in Owners \ {o} : tracker'[p] = tracker[p]
      BY <1>6 DEF FailLoad
    <2>4. /\ UNCHANGED <<manifest, durable, artifact>>
          /\ ValueOf(manifest)' = ValueOf(manifest) /\ ValueOf(durable)' = ValueOf(durable)
          /\ Known' = [Known EXCEPT ![o] = NoManifest] /\ Offers' = Offers
          /\ Mine' = [Mine EXCEPT ![o] = NoManifest]
      BY <1>2, <2>1, <2>3
    <2>5. Store!Restart(o)
      BY <2>2, <2>4 DEF Store!Restart, Known, Mine, Offers
    <2> QED
      BY <2>5 DEF Store!Next
  <1>7. CASE \/ \E i \in Ids, v \in Vecs : InsertEmbedding(o, i, v)
             \/ \E i \in Ids : RecordSourceProvenance(o, i) \/ RemoveEmbeddings(o, i)
             \/ ClearEmbeddings(o)
    <2>1. PICK ids \in SUBSET Ids : ids # {} /\ MarkDirty(o, ids) /\ MayChange(o)
      BY <1>7, ChangesAreMarked
    <2> QED
      BY <1>2, <2>1, MarkDirtyMoves DEF MayChange, locks
  <1>8. CASE Crash(o)
    <2>1. /\ \A p \in Owners \ {o} : tracker'[p] = tracker[p] /\ lane'[p] = lane[p]
          /\ tracker'[o] = FreshTracker /\ lane'[o] = Nobody
          /\ \A s \in Saves : IF pc[s] # "idle" /\ job[s].owner = o
                              THEN pc'[s] = "idle"
                              ELSE pc'[s] = pc[s] /\ job'[s] = job[s]
          /\ UNCHANGED <<manifest, durable, artifact>>
      BY <1>8 DEF Crash, Die, disk
    <2>2. Known' = [Known EXCEPT ![o] = NoManifest]
      BY <1>0, <2>1 DEF Known
    <2>3. Mine' = [Mine EXCEPT ![o] = NoManifest]
      <3>1. \A p \in Owners \ {o} :
              lane[p] # Nobody => lane[p] \in Saves /\ job[lane[p]].owner = p
        BY DEF Lanes, TypeOK
      <3>2. \A p \in Owners \ {o} : LastPublished(p)' = LastPublished(p)
        BY <2>1, <3>1 DEF LastPublished
      <3>3. LastPublished(o)' = NoManifest
        BY <1>0, <2>1 DEF LastPublished
      <3> QED
        BY <3>2, <3>3 DEF Mine
    <2>4. Offers' = [Offers EXCEPT ![o] = {}]
      <3>1. ASSUME NEW p \in Owners PROVE Offers'[p] = IF p = o THEN {} ELSE Offers[p]
        <4> DEFINE before == {t \in Saves : pc[t] # "idle" /\ job[t].owner = p}
                   after  == {t \in Saves : pc'[t] # "idle" /\ job'[t].owner = p}
        <4>1. Offers[p] = {VectorsOf(job[t].cells) : t \in before}
          BY DEF Offers
        <4>2. Offers'[p] = {VectorsOf(job'[t].cells) : t \in after}
          BY DEF Offers, VectorsOf
        <4>3. /\ p = o => after = {}
              /\ p # o => after = before /\ \A t \in before : job'[t] = job[t]
          BY <2>1
        <4> QED
          BY <4>1, <4>2, <4>3
      <3> QED
        BY <3>1 DEF Offers
    <2>5. Store!Restart(o)
      BY <2>1, <2>2, <2>3, <2>4, ValueIs DEF Store!Restart, Known, Mine, Offers
    <2> QED
      BY <2>5 DEF Store!Next
  <1> QED
    BY <1>3, <1>4, <1>5, <1>6, <1>7, <1>8 DEF OwnerStep

(* A loss of power brings back the value, or what was secured of it.       *)
LEMMA PowerLossImplements ==
  ASSUME TypeOK, Files, PowerLoss
  PROVE  Store!PowerLoss
  <1>1. PICK lost \in SUBSET (DOMAIN artifact \ synced), m \in {manifest, durable} :
          /\ artifact' = [n \in DOMAIN artifact \ lost |-> artifact[n]]
          /\ manifest' = m /\ durable' = m
    BY DEF PowerLoss
  <1>2. /\ \A o \in Owners : tracker'[o] = FreshTracker /\ lane'[o] = Nobody
        /\ \A s \in Saves : pc'[s] = "idle" /\ FreshTracker.saved = NoManifest
    BY DEF PowerLoss, Die, TypeOK, FreshTracker
  <1>3. Known' = [o \in Owners |-> NoManifest] /\ Mine' = [o \in Owners |-> NoManifest]
    BY <1>2 DEF Known, Mine, LastPublished, FreshTracker
  <1>4. Offers' = [o \in Owners |-> {}]
    BY <1>2 DEF Offers
  <1>5. ValueIn(artifact', m) = ValueIn(artifact, m)
    <2>1. m # NoManifest => \A n \in Referenced(m) : artifact[n] = artifact'[n]
      BY <1>1 DEF Files, KeptBy, Kept, TypeOK
    <2> QED
      BY <2>1, ValueSame
  <1>6. /\ ValueOf(manifest)' = ValueIn(artifact, m) /\ ValueOf(durable)' = ValueIn(artifact, m)
        /\ m = manifest => ValueIn(artifact, m) = ValueOf(manifest)
        /\ m = durable => ValueIn(artifact, m) = ValueOf(durable)
    BY <1>1, <1>5, ValueIs
  <1> DEFINE kept == [value |-> ValueIn(artifact, m), version |-> m]
  <1>7. kept \in {[value |-> ValueOf(durable), version |-> durable],
                  [value |-> ValueOf(manifest), version |-> manifest]}
    BY <1>6
  <1>8. /\ ValueOf(manifest)' = kept.value /\ manifest' = kept.version
        /\ [value |-> ValueOf(durable), version |-> durable]' = kept
    BY <1>1, <1>6
  <1> QED
    BY <1>3, <1>4, <1>7, <1>8 DEF Store!PowerLoss, Known, Mine, Offers

(* The journal implements one durable value, replaced whole by writers     *)
(* that know what they replace: for any number of owners, saves, ids and   *)
(* deltas, under crashes, I/O errors and losses of power.                  *)
THEOREM JournalImplementsStore == Spec => ImplementsStore
  <1>1. Init => Store!Init /\ Lanes
    BY InitImplements DEF Init, Lanes
  <1>2. IInv /\ SavedInv /\ Lanes /\ [Next]_vars => [Store!Next]_(Store!vars)
    <2> SUFFICES ASSUME IInv, SavedInv, Lanes, [Next]_vars
                 PROVE  Store!Next \/ UNCHANGED Store!vars
      OBVIOUS
    <2> USE DEF IInv, SavedInv
    <2>1. CASE UNCHANGED vars
      <3>1. /\ UNCHANGED <<pc, job, lane, tracker, artifact, manifest, durable>>
        BY <2>1 DEF vars, memory, locks, disk
      <3>2. ValueOf(manifest)' = ValueOf(manifest) /\ ValueOf(durable)' = ValueOf(durable)
        BY <3>1, ValueIs
      <3>3. Known' = Known /\ Offers' = Offers
        BY <3>1 DEF Known, Offers, VectorsOf
      <3>4. \A p \in Owners : LastPublished(p)' = LastPublished(p)
        BY <3>1 DEF LastPublished
      <3> QED
        BY <3>1, <3>2, <3>3, <3>4 DEF Store!vars, Known, Mine, Offers
    <2>2. ASSUME NEW s \in Saves, SaveStep(s) PROVE Store!Next \/ UNCHANGED Store!vars
      BY <2>2, SaveStepImplements
    <2>3. ASSUME NEW s \in Saves, NEW o \in Owners, SaveSnapshot(s, o) \/ PersistEmbeddings(s, o)
          PROVE  Store!Next
      <3>1. mem[o] \in Content
        BY DEF TypeOK
      <3>2. Bound(o) \in Content
        BY <3>1 DEF Bound, Content, Cell
      <3> QED
        BY <2>3, <3>1, <3>2, PrepareImplements DEF SaveSnapshot, PersistEmbeddings
    <2>4. ASSUME NEW o \in Owners, OwnerStep(o) PROVE Store!Next \/ UNCHANGED Store!vars
      BY <2>4, OwnerStepImplements
    <2>5. CASE PowerLoss
      BY <2>5, PowerLossImplements DEF Store!Next
    <2> QED
      BY <2>1, <2>2, <2>3, <2>4, <2>5 DEF Next
  <1>3. IInv /\ Lanes /\ [Next]_vars => Lanes'
    BY NextLanes DEF IInv
  <1> QED
    BY <1>1, <1>2, <1>3, InductiveInvariant, SavedInvariant, PTL
    DEF Spec, Store!Spec, ImplementsStore
=============================================================================
