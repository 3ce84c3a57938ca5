--------------------- MODULE DocumentGenerationsProofs ---------------------
(***************************************************************************)
(* Proofs about DocumentGenerations, for any stores, sources, contents and *)
(* bounds: type correctness; that the generation the committed payload     *)
(* names can always be loaded, describes the committed chunks and can be   *)
(* searched; that what a store answers is of one generation; and that the  *)
(* module implements CommittedDocuments.                                   *)
(***************************************************************************)
EXTENDS DocumentGenerations, TLAPS

CommittedTyped == docs \subseteq Doc /\ published \subseteq Doc /\ payload \in Nat
GenerationsTyped ==
    /\ DOMAIN generations \subseteq Nat
    /\ \A n \in DOMAIN generations : generations[n] \in Generation
SegmentsTyped ==
    /\ DOMAIN segments \subseteq Nat
    /\ \A n \in DOMAIN segments : segments[n] \subseteq Chunk
CountersTyped == reserved \in Ids /\ minted \in Nat /\ faults \in 0..MaxFaults
PlacesTyped ==
    /\ genLock \in Stores \cup {Nobody} /\ pubLock \in Stores \cup {Nobody}
    /\ pc \in [Stores -> Places]
MemoriesTyped == store \in [Stores -> Memory] /\ checkpoint \in [Stores -> Memory \cup {Nobody}]
WorkTyped == work \in [Stores -> Work]

LEMMA TypeParts ==
    TypeOK <=> /\ CommittedTyped /\ GenerationsTyped /\ SegmentsTyped /\ CountersTyped
               /\ PlacesTyped /\ MemoriesTyped /\ WorkTyped
BY DEF TypeOK, CommittedTyped, GenerationsTyped, SegmentsTyped, CountersTyped, PlacesTyped,
       MemoriesTyped, WorkTyped

LEMMA NextTypeParts ==
    TypeOK' <=> /\ CommittedTyped' /\ GenerationsTyped' /\ SegmentsTyped' /\ CountersTyped'
                /\ PlacesTyped' /\ MemoriesTyped' /\ WorkTyped'
BY DEF TypeOK, CommittedTyped, GenerationsTyped, SegmentsTyped, CountersTyped, PlacesTyped,
       MemoriesTyped, WorkTyped

-----------------------------------------------------------------------------
(* What the pieces of the actions return.                                  *)

LEMMA NoFilesType == NoFiles \in Files
BY DEF NoFiles, Files

LEMMA ClosedType == Closed \in Memory
BY NoFilesType, DocumentsAssumption DEF Closed, Memory, Ids

LEMMA NoWorkType == NoWork \in Work
BY NoFilesType DEF NoWork, Work

LEMMA DocsOfType ==
    ASSUME NEW files \in Files
    PROVE  DocsOf(files) \subseteq Doc
BY DEF DocsOf, Indexed, Files, Doc, Chunk

LEMMA FoundType ==
    ASSUME NEW vectors \in Seq(Segment), NEW i
    PROVE  Found(vectors, i) \subseteq Chunk
<1>1. \A k \in DOMAIN vectors : vectors[k] \in Segment
  OBVIOUS
<1>2. \A k \in DOMAIN vectors : vectors[k].vectors \subseteq Chunk
  BY <1>1 DEF Segment
<1>3. Found(vectors, i) \subseteq UNION {vectors[k].vectors : k \in DOMAIN vectors}
  BY DEF Found
<1>4. QED
  BY <1>2, <1>3

LEMMA LiveVectorsType ==
    ASSUME NEW s \in Stores, Appended(s) \in Seq(Segment)
    PROVE  LiveVectors(s) \subseteq Chunk
BY FoundType DEF LiveVectors

LEMMA LargerType ==
    ASSUME NEW a \in Ids, NEW b \in Ids
    PROVE  Larger(a, b) \in Ids
BY DEF Larger

LEMMA OpenType ==
    ASSUME NEW n \in DOMAIN generations, GenerationsTyped, SegmentsTyped, Loadable(n), n # 0
    PROVE  Open(generations[n].vectors) \in Seq(Segment)
<1> DEFINE names == generations[n].vectors
<1>1. names \in Seq(Nat)
  BY DEF GenerationsTyped, Generation
<1>2. ASSUME NEW k \in DOMAIN names
      PROVE  [name |-> names[k], vectors |-> segments[names[k]]] \in Segment
  BY <1>1, <1>2 DEF Loadable, SegmentsTyped, Segment
<1>3. DOMAIN names = 1..Len(names) /\ Len(names) \in Nat
  BY <1>1
<1>4. QED
  BY <1>2, <1>3 DEF Open

LEMMA LoadType ==
    ASSUME NEW m \in Memory, CommittedTyped, GenerationsTyped, SegmentsTyped, Loadable(payload)
    PROVE  Load(m, payload) \in Memory
<1>1. CASE payload = 0
  BY <1>1 DEF Load, Memory, CommittedTyped
<1>2. CASE payload # 0
  <2>1. payload \in DOMAIN generations /\ generations[payload] \in Generation
    BY <1>2 DEF Loadable, GenerationsTyped
  <2>2. Open(generations[payload].vectors) \in Seq(Segment)
    BY <1>2, <2>1, OpenType
  <2>3. Larger(m.next, generations[payload].next) \in Ids
    BY <2>1, LargerType DEF Memory, Generation
  <2>4. QED
    BY <1>2, <2>1, <2>2, <2>3 DEF Load, Memory, Generation, CommittedTyped
<1>3. QED
  BY <1>1, <1>2

LEMMA ReopenType ==
    ASSUME NEW m \in Memory, NEW V \in SUBSET Doc, CommittedTyped, GenerationsTyped,
           SegmentsTyped, CountersTyped, Loadable(payload)
    PROVE  LET loaded == [Load(m, payload) EXCEPT !.view = V]
               next   == Larger(loaded.next, reserved)
           IN [loaded EXCEPT !.next = next, !.end = next] \in Memory
<1> DEFINE loaded == [Load(m, payload) EXCEPT !.view = V]
           next   == Larger(loaded.next, reserved)
<1>1. loaded \in Memory
  BY LoadType DEF Memory
<1> HIDE DEF loaded
<1>2. next \in Ids
  BY <1>1, LargerType DEF Memory, CountersTyped
<1> HIDE DEF next
<1>3. [loaded EXCEPT !.next = next, !.end = next] \in Memory
  BY <1>1, <1>2 DEF Memory
<1>4. QED
  BY <1>3 DEF loaded, next

LEMMA CollectType ==
    ASSUME NEW n, NEW vectors, GenerationsTyped, SegmentsTyped, CollectObsolete(n, vectors)
    PROVE  GenerationsTyped' /\ SegmentsTyped'
BY DEF CollectObsolete, GenerationsTyped, SegmentsTyped

LEMMA GiveUpType ==
    ASSUME NEW s \in Stores, MemoriesTyped, GiveUpReload(s)
    PROVE  MemoriesTyped'
<1>1. Reloading(s) => Restored(s) \in Memory
  BY DEF Restored, Reloading, MemoriesTyped, Memory
<1>2. QED
  BY <1>1 DEF GiveUpReload, MemoriesTyped

-----------------------------------------------------------------------------
(* Type correctness, action by action.                                     *)

LEMMA GotoType ==
    ASSUME NEW s \in Stores, NEW place \in Places, PlacesTyped, Goto(s, place)
    PROVE  pc' \in [Stores -> Places]
BY DEF Goto, PlacesTyped

LEMMA OpeningTypes ==
    ASSUME TypeOK, NEW s \in Stores, Opening(s)
    PROVE  TypeOK'
<1> USE DEF Places
<1> SUFFICES /\ CommittedTyped' /\ GenerationsTyped' /\ SegmentsTyped' /\ CountersTyped'
             /\ PlacesTyped' /\ MemoriesTyped' /\ WorkTyped'
  BY NextTypeParts
<1>0. /\ CommittedTyped /\ GenerationsTyped /\ SegmentsTyped /\ CountersTyped
      /\ PlacesTyped /\ MemoriesTyped /\ WorkTyped
  BY TypeParts
<1> USE DEF Goto, disk, locks, PlacesTyped
<1>1. CASE RequestOpen(s)
  BY <1>0, <1>1 DEF RequestOpen, CommittedTyped, GenerationsTyped, SegmentsTyped, CountersTyped,
                    MemoriesTyped, WorkTyped
<1>2. CASE LockToOpen(s)
  BY <1>0, <1>2 DEF LockToOpen, CommittedTyped, GenerationsTyped, SegmentsTyped, CountersTyped,
                    MemoriesTyped, WorkTyped
<1>3. CASE OpenReader(s)
  <2>1. [store[s] EXCEPT !.view = docs] \in Memory
    BY <1>0 DEF MemoriesTyped, Memory, CommittedTyped
  <2>2. MemoriesTyped'
    BY <1>0, <1>3, <2>1 DEF OpenReader, MemoriesTyped
  <2>3. QED
    BY <1>0, <1>3, <2>2 DEF OpenReader, CommittedTyped, GenerationsTyped, SegmentsTyped,
                            CountersTyped, WorkTyped
<1>4. CASE OpenGeneration(s)
  <2>1. store[s] \in Memory /\ store[s].view \subseteq Doc
    BY <1>0 DEF MemoriesTyped, Memory
  <2>2. MemoriesTyped'
    BY <1>0, <1>4, <2>1, ReopenType DEF OpenGeneration, MemoriesTyped
  <2>3. QED
    BY <1>0, <1>4, <2>2 DEF OpenGeneration, CommittedTyped, GenerationsTyped, SegmentsTyped,
                            CountersTyped, WorkTyped
<1>5. CASE CollectOnOpen(s)
  <2>1. GenerationsTyped' /\ SegmentsTyped'
    BY <1>0, <1>5, CollectType DEF CollectOnOpen, GenerationsTyped, SegmentsTyped
  <2>2. QED
    BY <1>0, <1>5, <2>1 DEF CollectOnOpen, FinishOpen, CommittedTyped, CountersTyped,
                            MemoriesTyped, WorkTyped
<1>6. QED
  BY <1>1, <1>2, <1>3, <1>4, <1>5 DEF Opening

LEMMA StartTypes ==
    ASSUME TypeOK, NEW s \in Stores,
           RequestTransaction(s) \/ Begin(s) \/ RefuseStale(s) \/ Refresh(s) \/ Settle(s)
           \/ RefuseSettings(s) \/ Crash(s)
    PROVE  TypeOK'
<1> USE DEF Places
<1> SUFFICES /\ CommittedTyped' /\ GenerationsTyped' /\ SegmentsTyped' /\ CountersTyped'
             /\ PlacesTyped' /\ MemoriesTyped' /\ WorkTyped'
  BY NextTypeParts
<1>0. /\ CommittedTyped /\ GenerationsTyped /\ SegmentsTyped /\ CountersTyped
      /\ PlacesTyped /\ MemoriesTyped /\ WorkTyped
  BY TypeParts
<1> USE DEF Goto, disk, locks, PlacesTyped
<1>1. CASE RequestTransaction(s)
  BY <1>0, <1>1 DEF RequestTransaction, CommittedTyped, GenerationsTyped, SegmentsTyped,
                    CountersTyped, MemoriesTyped, WorkTyped
<1>2. CASE Begin(s)
  <2>1. [NoWork EXCEPT !.files = store[s].files, !.docs = docs] \in Work
    BY <1>0, NoWorkType DEF MemoriesTyped, Memory, CommittedTyped, Work
  <2>2. WorkTyped'
    BY <1>0, <1>2, <2>1 DEF Begin, Enter, WorkTyped
  <2>3. QED
    BY <1>0, <1>2, <2>2 DEF Begin, Enter, CommittedTyped, GenerationsTyped, SegmentsTyped,
                            CountersTyped, MemoriesTyped
<1>3. CASE RefuseStale(s)
  <2>1. MemoriesTyped'
    BY <1>0, <1>3, GiveUpType DEF RefuseStale
  <2>2. QED
    BY <1>0, <1>3, <2>1 DEF RefuseStale, CommittedTyped, GenerationsTyped, SegmentsTyped,
                            CountersTyped, WorkTyped
<1>4. CASE Refresh(s)
  <2>1. store[s] \in Memory
    BY <1>0 DEF MemoriesTyped
  <2>2. /\ Load(store[s], payload) \in Memory
        /\ Larger(Load(store[s], payload).next, reserved) \in Ids
    BY <1>0, <1>4, <2>1, LoadType, LargerType DEF Refresh, Memory, CountersTyped
  <2>3. [Load(store[s], payload) EXCEPT !.next = Larger(Load(store[s], payload).next, reserved),
                                        !.end  = Larger(Load(store[s], payload).next, reserved)]
           \in Memory
    BY <2>2 DEF Memory
  <2>4. MemoriesTyped'
    BY <1>0, <1>4, <2>1, <2>3 DEF Refresh, MemoriesTyped
  <2>5. QED
    BY <1>0, <1>4, <2>4 DEF Refresh, CommittedTyped, GenerationsTyped, SegmentsTyped,
                            CountersTyped, WorkTyped
<1>5. CASE Settle(s)
  <2>1. MemoriesTyped'
    BY <1>0, <1>5, ClosedType DEF Settle, KeepReload, MemoriesTyped
  <2>2. QED
    BY <1>0, <1>5, <2>1 DEF Settle, CommittedTyped, GenerationsTyped, SegmentsTyped,
                            CountersTyped, WorkTyped
<1>6. CASE RefuseSettings(s)
  <2>1. MemoriesTyped'
    BY <1>0, <1>6, GiveUpType DEF RefuseSettings
  <2>2. QED
    BY <1>0, <1>6, <2>1 DEF RefuseSettings, CommittedTyped, GenerationsTyped, SegmentsTyped,
                            CountersTyped, WorkTyped
<1>7. CASE Crash(s)
  <2>1. MemoriesTyped' /\ WorkTyped'
    BY <1>0, <1>7, ClosedType, NoWorkType DEF Crash, MemoriesTyped, WorkTyped
  <2>2. CountersTyped'
    BY <1>0, <1>7, DocumentsAssumption DEF Crash, Fault, CountersTyped
  <2>3. QED
    BY <1>0, <1>7, <2>1, <2>2 DEF Crash, CommittedTyped, GenerationsTyped, SegmentsTyped
<1>8. QED
  BY <1>1, <1>2, <1>3, <1>4, <1>5, <1>6, <1>7

LEMMA AllocateType ==
    ASSUME NEW s \in Stores, CountersTyped, MemoriesTyped, Allocate(s)
    PROVE  /\ UNCHANGED checkpoint => MemoriesTyped'
           /\ reserved' \in Ids
           /\ store[s].next \in 1..MaxId
<1>1. store[s].next \in Ids /\ store[s] \in Memory
  BY DEF MemoriesTyped, Memory
<1>2. store[s].next \in 1..MaxId
  BY <1>1, DocumentsAssumption DEF Allocate, Ids
<1>3. store[s].next + 1 \in Ids
  BY <1>2, DocumentsAssumption DEF Ids
<1>4. reserved' \in Ids
  BY <1>2, DocumentsAssumption DEF Allocate, Ids, CountersTyped
<1>5. store' \in [Stores -> Memory]
  <2>1. /\ [store[s] EXCEPT !.next = @ + 1, !.end = reserved'] \in Memory
        /\ [store[s] EXCEPT !.next = @ + 1] \in Memory
    BY <1>1, <1>3, <1>4 DEF Memory
  <2>2. QED
    BY <2>1 DEF Allocate, MemoriesTyped
<1>6. QED
  BY <1>2, <1>4, <1>5 DEF MemoriesTyped

LEMMA ChangeTypes ==
    ASSUME TypeOK, NEW s \in Stores, Change(s)
    PROVE  TypeOK'
<1> SUFFICES /\ CommittedTyped' /\ GenerationsTyped' /\ SegmentsTyped' /\ CountersTyped'
             /\ PlacesTyped' /\ MemoriesTyped' /\ WorkTyped'
  BY NextTypeParts
<1>0. /\ CommittedTyped /\ GenerationsTyped /\ SegmentsTyped /\ CountersTyped
      /\ PlacesTyped /\ MemoriesTyped /\ WorkTyped
  BY TypeParts
<1>w. work[s] \in Work
  BY <1>0 DEF WorkTyped
<1>1. ASSUME NEW f \in Sources, RemoveFile(s, f)
      PROVE  WorkTyped'
  <2>1. [work[s] EXCEPT !.files[f] = NoFile, !.docs = Without(@, f)] \in Work
    BY <1>w DEF Work, Files, Without
  <2>2. QED
    BY <1>0, <1>1, <2>1 DEF RemoveFile, WorkTyped
<1>2. ASSUME NEW f \in Sources, RemoveFile(s, f)
      PROVE  /\ CommittedTyped' /\ GenerationsTyped' /\ SegmentsTyped' /\ CountersTyped'
             /\ PlacesTyped' /\ MemoriesTyped'
  BY <1>0, <1>2 DEF RemoveFile, disk, locks, CommittedTyped, GenerationsTyped, SegmentsTyped,
                    CountersTyped, PlacesTyped, MemoriesTyped
<1>3. ASSUME NEW f \in Sources, NEW c \in Contents, IndexFile(s, f, c)
      PROVE  /\ CommittedTyped' /\ GenerationsTyped' /\ SegmentsTyped' /\ CountersTyped'
             /\ PlacesTyped' /\ MemoriesTyped' /\ WorkTyped'
  <2> DEFINE chunk == [id |-> store[s].next, content |-> c]
             after == [work[s] EXCEPT
                         !.files  = [@ EXCEPT ![f] = chunk],
                         !.docs   = Without(@, f)
                                       \cup {[source |-> f, id |-> chunk.id, content |-> c]},
                         !.staged = @ \cup {chunk},
                         !.done   = @ \cup {f}]
  <2>1. MemoriesTyped' /\ reserved' \in Ids /\ store[s].next \in 1..MaxId
    BY <1>0, <1>3, AllocateType DEF IndexFile
  <2>2. chunk \in Chunk /\ [source |-> f, id |-> chunk.id, content |-> c] \in Doc
    BY <2>1 DEF Chunk, Doc
  <2> HIDE DEF chunk
  <2>3. after \in Work
    BY <1>w, <2>2 DEF Work, Files, Without
  <2>4. work' = [work EXCEPT ![s] = after]
    BY <1>3 DEF IndexFile, chunk
  <2>5. WorkTyped'
    BY <1>0, <2>3, <2>4 DEF WorkTyped
  <2>6. work'[s].staged \subseteq Chunk
    BY <2>5 DEF WorkTyped, Work
  <2>7. Staging \in Nat
    BY <1>0 DEF Staging, CountersTyped
  <2>8. SegmentsTyped'
    BY <1>0, <1>3, <2>6, <2>7 DEF IndexFile, SegmentsTyped
  <2>9. QED
    BY <1>0, <1>3, <2>1, <2>5, <2>8 DEF IndexFile, locks, CommittedTyped, GenerationsTyped,
                                        CountersTyped, PlacesTyped
<1>4. QED
  BY <1>1, <1>2, <1>3 DEF Change

LEMMA AppendedType ==
    ASSUME NEW s \in Stores, CountersTyped, MemoriesTyped, WorkTyped
    PROVE  Appended(s) \in Seq(Segment)
<1>1. store[s].vectors \in Seq(Segment) /\ work[s].staged \subseteq Chunk
  BY DEF MemoriesTyped, Memory, WorkTyped, Work
<1>2. [name |-> Staging, vectors |-> work[s].staged] \in Segment
  BY <1>1 DEF Segment, Staging, CountersTyped
<1>3. QED
  BY <1>1, <1>2 DEF Appended

LEMMA PublishVectorsTypes ==
    ASSUME NEW s \in Stores, CountersTyped, MemoriesTyped, WorkTyped, SegmentsTyped,
           PublishVectors(s)
    PROVE  WorkTyped' /\ SegmentsTyped'
<1>1. Appended(s) \in Seq(Segment) /\ LiveVectors(s) \subseteq Chunk
  BY AppendedType, LiveVectorsType
<1>2. Compacted \in Nat
  BY DEF Compacted, CountersTyped
<1>3. <<[name |-> Compacted, vectors |-> LiveVectors(s)]>> \in Seq(Segment)
  BY <1>1, <1>2 DEF Segment
<1>4. ASSUME NEW v \in Seq(Segment), work' = [work EXCEPT ![s].vectors = v]
      PROVE  WorkTyped'
  <2>1. [work[s] EXCEPT !.vectors = v] \in Work
    BY DEF WorkTyped, Work
  <2>2. QED
    BY <1>4, <2>1 DEF WorkTyped
<1>n. <<>> \in Seq(Segment)
  OBVIOUS
<1>5. \/ work' = [work EXCEPT ![s].vectors = Appended(s)]
      \/ work' = [work EXCEPT ![s].vectors = <<>>]
      \/ work' = [work EXCEPT ![s].vectors =
                     <<[name |-> Compacted, vectors |-> LiveVectors(s)]>>]
  BY DEF PublishVectors
<1>6. WorkTyped'
  <2>1. CASE work' = [work EXCEPT ![s].vectors = Appended(s)]
    BY <1>1, <1>4, <2>1
  <2>2. CASE work' = [work EXCEPT ![s].vectors = <<>>]
    <3> DEFINE none == <<>>
    <3>1. none \in Seq(Segment) /\ work' = [work EXCEPT ![s].vectors = none]
      BY <1>n, <2>2
    <3> HIDE DEF none
    <3>2. QED
      BY <1>4, <3>1
  <2>3. CASE work' = [work EXCEPT ![s].vectors =
                         <<[name |-> Compacted, vectors |-> LiveVectors(s)]>>]
    BY <1>3, <1>4, <2>3
  <2>4. QED
    BY <1>5, <2>1, <2>2, <2>3
<1>7. SegmentsTyped'
  BY <1>1, <1>2 DEF PublishVectors, SegmentsTyped
<1>8. QED
  BY <1>6, <1>7

LEMMA PublishingTypes ==
    ASSUME TypeOK, NEW s \in Stores, Publishing(s)
    PROVE  TypeOK'
<1> USE DEF Places
<1> SUFFICES /\ CommittedTyped' /\ GenerationsTyped' /\ SegmentsTyped' /\ CountersTyped'
             /\ PlacesTyped' /\ MemoriesTyped' /\ WorkTyped'
  BY NextTypeParts
<1>0. /\ CommittedTyped /\ GenerationsTyped /\ SegmentsTyped /\ CountersTyped
      /\ PlacesTyped /\ MemoriesTyped /\ WorkTyped
  BY TypeParts
<1>w. work[s] \in Work /\ store[s] \in Memory
  BY <1>0 DEF WorkTyped, MemoriesTyped
<1> USE DEF Goto, disk, locks, PlacesTyped
<1>1. CASE LockToPublish(s)
  BY <1>0, <1>1 DEF LockToPublish, CommittedTyped, GenerationsTyped, SegmentsTyped, CountersTyped,
                    MemoriesTyped, WorkTyped
<1>2. CASE PublishVectors(s)
  BY <1>0, <1>2, PublishVectorsTypes DEF PublishVectors, CommittedTyped, GenerationsTyped,
                                         CountersTyped, MemoriesTyped
<1>3. CASE PrepareGeneration(s)
  <2> DEFINE prepared == [files |-> work[s].files, next |-> store[s].next,
                          vectors |-> [k \in DOMAIN work[s].vectors |-> work[s].vectors[k].name]]
  <2>1. work[s].vectors \in Seq(Segment)
    BY <1>w DEF Work
  <2>2. /\ DOMAIN work[s].vectors = 1..Len(work[s].vectors)
        /\ \A k \in DOMAIN work[s].vectors : work[s].vectors[k] \in Segment
    BY <2>1
  <2>5. \A k \in DOMAIN work[s].vectors : work[s].vectors[k].name \in Nat
    BY <2>2 DEF Segment
  <2>3. prepared.vectors \in Seq(Nat)
    BY <2>1, <2>2, <2>5
  <2>4. prepared \in Generation
    BY <1>w, <2>3 DEF Work, Memory, Generation
  <2>6. GenerationsTyped'
    BY <1>0, <1>3, <2>4 DEF PrepareGeneration, GenerationsTyped, CountersTyped
  <2>7. QED
    BY <1>0, <1>3, <2>6 DEF PrepareGeneration, CommittedTyped, SegmentsTyped, CountersTyped,
                            MemoriesTyped, WorkTyped
<1>4. CASE CommitMetadata(s)
  <2>1. CommittedTyped'
    BY <1>0, <1>4, <1>w DEF CommitMetadata, Commit, CommittedTyped, Work, CountersTyped
  <2>2. QED
    BY <1>0, <1>4, <2>1 DEF CommitMetadata, GenerationsTyped, SegmentsTyped, CountersTyped,
                            MemoriesTyped, WorkTyped
<1>5. CASE Adopt(s)
  <2>1. [store[s] EXCEPT !.gen = minted, !.files = work[s].files, !.vectors = work[s].vectors,
                         !.view = docs] \in Memory
    BY <1>0, <1>w DEF Memory, Work, CountersTyped, CommittedTyped
  <2>2. MemoriesTyped'
    BY <1>0, <1>5, <2>1 DEF Adopt, MemoriesTyped
  <2>3. QED
    BY <1>0, <1>5, <2>2 DEF Adopt, CommittedTyped, GenerationsTyped, SegmentsTyped, CountersTyped,
                            WorkTyped
<1>6. CASE MirrorState(s)
  BY <1>0, <1>6 DEF MirrorState, CommittedTyped, GenerationsTyped, SegmentsTyped, CountersTyped,
                    MemoriesTyped, WorkTyped
<1>7. QED
  BY <1>1, <1>2, <1>3, <1>4, <1>5, <1>6 DEF Publishing

LEMMA FailingTypes ==
    ASSUME TypeOK, NEW s \in Stores, Failing(s) \/ End(s)
    PROVE  TypeOK'
<1> USE DEF Places
<1> SUFFICES /\ CommittedTyped' /\ GenerationsTyped' /\ SegmentsTyped' /\ CountersTyped'
             /\ PlacesTyped' /\ MemoriesTyped' /\ WorkTyped'
  BY NextTypeParts
<1>0. /\ CommittedTyped /\ GenerationsTyped /\ SegmentsTyped /\ CountersTyped
      /\ PlacesTyped /\ MemoriesTyped /\ WorkTyped
  BY TypeParts
<1>w. work[s] \in Work /\ store[s] \in Memory
  BY <1>0 DEF WorkTyped, MemoriesTyped
<1> USE DEF Goto, disk, locks, PlacesTyped
<1>f. Fault => faults' \in 0..MaxFaults
  BY <1>0, DocumentsAssumption DEF Fault, CountersTyped
<1>1. CASE StepFails(s)
  BY <1>0, <1>1, <1>f DEF StepFails, Fail, CommittedTyped, GenerationsTyped, SegmentsTyped,
                          CountersTyped, MemoriesTyped, WorkTyped
<1>2. CASE CommitReportsError(s)
  <2>1. CommittedTyped'
    BY <1>0, <1>2, <1>w DEF CommitReportsError, Commit, CommittedTyped, Work, CountersTyped
  <2>2. QED
    BY <1>0, <1>2, <1>f, <2>1 DEF CommitReportsError, Fail, GenerationsTyped, SegmentsTyped,
                                  CountersTyped, MemoriesTyped, WorkTyped
<1>3. CASE IdsExhausted(s)
  BY <1>0, <1>3 DEF IdsExhausted, CommittedTyped, GenerationsTyped, SegmentsTyped,
                    CountersTyped, MemoriesTyped, WorkTyped
<1>4. CASE Rollback(s)
  BY <1>0, <1>4 DEF Rollback, CommittedTyped, GenerationsTyped, SegmentsTyped,
                    CountersTyped, MemoriesTyped, WorkTyped
<1>5. CASE Recover(s)
  <2>1. MemoriesTyped'
    BY <1>0, <1>5, <1>w, LoadType DEF Recover, MemoriesTyped
  <2>2. QED
    BY <1>0, <1>5, <2>1 DEF Recover, CommittedTyped, GenerationsTyped, SegmentsTyped,
                            CountersTyped, WorkTyped
<1>6. CASE RecoverUnmirrored(s)
  <2>1. MemoriesTyped'
    BY <1>0, <1>6, <1>w, LoadType DEF RecoverUnmirrored, MemoriesTyped
  <2>2. QED
    BY <1>0, <1>6, <1>f, <2>1 DEF RecoverUnmirrored, CommittedTyped, GenerationsTyped,
                                  SegmentsTyped, CountersTyped, WorkTyped
<1>7. CASE RecoveryFails(s)
  BY <1>0, <1>7, <1>f DEF RecoveryFails, CommittedTyped, GenerationsTyped, SegmentsTyped,
                          CountersTyped, MemoriesTyped, WorkTyped
<1>8. CASE End(s)
  <2>1. GenerationsTyped' /\ SegmentsTyped'
    BY <1>0, <1>8, CollectType DEF End, GenerationsTyped, SegmentsTyped
  <2>2. MemoriesTyped'
    <3>1. KeepReload(s) => MemoriesTyped'
      BY <1>0, ClosedType DEF KeepReload, MemoriesTyped
    <3>2. QED
      BY <1>0, <1>8, <3>1, GiveUpType DEF End
  <2>3. WorkTyped'
    BY <1>0, <1>8, NoWorkType DEF End, WorkTyped
  <2>4. QED
    BY <1>0, <1>8, <2>1, <2>2, <2>3 DEF End, CommittedTyped, CountersTyped
<1>9. QED
  BY <1>1, <1>2, <1>3, <1>4, <1>5, <1>6, <1>7, <1>8 DEF Failing

LEMMA InitTypes == Init => TypeOK
<1> SUFFICES ASSUME Init
             PROVE  /\ CommittedTyped /\ GenerationsTyped /\ SegmentsTyped /\ CountersTyped
                    /\ PlacesTyped /\ MemoriesTyped /\ WorkTyped
  BY TypeParts
<1>1. QED
  BY ClosedType, NoWorkType, DocumentsAssumption
     DEF Init, CommittedTyped, GenerationsTyped, SegmentsTyped, CountersTyped, PlacesTyped,
         MemoriesTyped, WorkTyped, Places, Ids

LEMMA NextTypes == TypeOK /\ [Next]_vars => TypeOK'
<1>1. ASSUME TypeOK, NEW s \in Stores, Step(s)
      PROVE  TypeOK'
  BY <1>1, OpeningTypes, StartTypes, ChangeTypes, PublishingTypes, FailingTypes DEF Step
<1>2. ASSUME TypeOK, UNCHANGED vars
      PROVE  TypeOK'
  BY <1>2 DEF TypeOK, vars
<1>3. QED
  BY <1>1, <1>2 DEF Next

\* Whatever the stores do and whatever fails, every variable keeps its type: in
\* particular no chunk id passes the width of an id (allocate_chunk_id).
THEOREM TypeCorrectness == Spec => []TypeOK
BY InitTypes, NextTypes, PTL DEF Spec

-----------------------------------------------------------------------------
(* The committed generation can always be loaded.  The property alone is   *)
(* not inductive: what keeps the collection of one store away from what    *)
(* another has staged are the two locks, and that a store which collects   *)
(* has in memory what the payload names.                                   *)

TransactionPlaces ==
    {"staging", "publishing", "vectors", "prepared", "committed", "adopted", "failed",
     "ending", "undone", "unmirrored", "unrecovered"}
PublicationPlaces ==
    {"reading", "reader", "opened", "publishing", "vectors", "prepared", "committed", "adopted"}
InTransaction(s) == pc[s] \in TransactionPlaces
InPublication(s) == pc[s] \in PublicationPlaces
Uncommitted(s) == pc[s] \in {"staging", "publishing", "vectors", "prepared"}
UpToDate(s)    == Uncommitted(s) \/ pc[s] \in {"opened", "adopted", "ending", "undone"}

LocksHeld ==
    \A s \in Stores : /\ InTransaction(s) => genLock = s
                      /\ InPublication(s) => pubLock = s

NumbersOrdered ==
    /\ payload <= minted
    /\ \A s \in Stores : Uncommitted(s) => payload < minted

CollectorsCurrent == \A s \in Stores : UpToDate(s) => store[s].gen = payload

\* Generation g has the file states and the segments of m.
Segments(g)     == {g.vectors[k] : k \in DOMAIN g.vectors}
Describes(g, m) == g.files = m.files /\ Segments(g) = Names(m.vectors)

Known(m) ==
    /\ m.gen <= payload
    /\ m.gen = 0 => m.files = NoFiles /\ m.vectors = <<>>
    /\ m.gen = payload /\ payload # 0 => Describes(generations[payload], m)
\* What a settings reload may go back to.
Kept(m) == m # Nobody => Known(m)

MemoriesKnown == \A s \in Stores : Known(store[s]) /\ Kept(checkpoint[s])

WorkDescribed ==
    \A s \in Stores :
        /\ Uncommitted(s) => work[s].docs = DocsOf(work[s].files)
        /\ pc[s] \in {"vectors", "prepared"} => Names(work[s].vectors) \subseteq DOMAIN segments
        /\ At(s, "prepared") => /\ minted \in DOMAIN generations
                                /\ Describes(generations[minted], work[s])
        /\ At(s, "committed") => /\ payload = minted /\ payload # 0
                                 /\ Describes(generations[payload], work[s])

Inv == /\ CommittedIsLoadable /\ LocksHeld /\ NumbersOrdered /\ CollectorsCurrent
       /\ MemoriesKnown /\ WorkDescribed

LEMMA InitInv == Init => Inv
<1> SUFFICES ASSUME Init PROVE Inv
  OBVIOUS
<1>1. CommittedIsLoadable
  BY DEF Init, CommittedIsLoadable, Loadable
<1>2. /\ LocksHeld /\ NumbersOrdered /\ CollectorsCurrent /\ WorkDescribed
  BY DEF Init, LocksHeld, InTransaction, InPublication, TransactionPlaces, PublicationPlaces,
         NumbersOrdered, Uncommitted, CollectorsCurrent, UpToDate, WorkDescribed, At
<1>3. MemoriesKnown
  BY DEF Init, MemoriesKnown, Known, Kept, Closed
<1>4. QED
  BY <1>1, <1>2, <1>3 DEF Inv

\* A store that moves on has the locks of its new place, and takes none of another's.
LEMMA MoveLocks ==
    ASSUME TypeOK, LocksHeld, NEW s \in Stores, NEW place, Goto(s, place),
           place \in TransactionPlaces => genLock' = s,
           place \in PublicationPlaces => pubLock' = s,
           \A t \in Stores \ {s} : /\ genLock = t => genLock' = t
                                   /\ pubLock = t => pubLock' = t
    PROVE  LocksHeld'
<1>1. pc \in [Stores -> Places]
  BY TypeParts DEF PlacesTyped
<1>2. QED
  BY <1>1 DEF Goto, LocksHeld, InTransaction, InPublication

LEMMA StepLocks ==
    ASSUME TypeOK, LocksHeld, NEW s \in Stores, Step(s)
    PROVE  LocksHeld'
<1>0. s # Nobody /\ (InTransaction(s) => genLock = s) /\ (InPublication(s) => pubLock = s)
  BY DocumentsAssumption DEF LocksHeld
<1> USE DEF At, InTransaction, InPublication, TransactionPlaces, PublicationPlaces, disk, locks
<1>1. CASE Opening(s)
  <2>1. CASE RequestOpen(s)
    BY <2>1, MoveLocks DEF RequestOpen
  <2>2. CASE LockToOpen(s)
    BY <1>0, <2>2, MoveLocks, DocumentsAssumption DEF LockToOpen
  <2>3. CASE OpenReader(s)
    BY <1>0, <2>3, MoveLocks DEF OpenReader
  <2>4. CASE OpenGeneration(s)
    BY <1>0, <2>4, MoveLocks DEF OpenGeneration
  <2>5. CASE CollectOnOpen(s)
    BY <1>0, <2>5, MoveLocks DEF CollectOnOpen, FinishOpen
  <2>6. QED
    BY <1>1, <2>1, <2>2, <2>3, <2>4, <2>5 DEF Opening
<1>2. CASE RequestTransaction(s) \/ RefuseStale(s)
  BY <1>2, MoveLocks DEF RequestTransaction, RefuseStale
<1>b. CASE Begin(s)
  BY <1>0, <1>b, MoveLocks, DocumentsAssumption DEF Begin, Enter
<1>3. CASE Change(s)
  BY <1>0, <1>3 DEF Change, RemoveFile, IndexFile, LocksHeld
<1>4. CASE Publishing(s)
  <2>1. CASE LockToPublish(s)
    BY <1>0, <2>1, MoveLocks, DocumentsAssumption DEF LockToPublish
  <2>2. CASE PublishVectors(s)
    BY <1>0, <2>2, MoveLocks DEF PublishVectors
  <2>3. CASE PrepareGeneration(s)
    BY <1>0, <2>3, MoveLocks DEF PrepareGeneration
  <2>4. CASE CommitMetadata(s)
    BY <1>0, <2>4, MoveLocks DEF CommitMetadata
  <2>5. CASE Adopt(s)
    BY <1>0, <2>5, MoveLocks DEF Adopt
  <2>6. CASE MirrorState(s)
    BY <1>0, <2>6, MoveLocks DEF MirrorState
  <2>7. QED
    BY <1>4, <2>1, <2>2, <2>3, <2>4, <2>5, <2>6 DEF Publishing
<1>5. CASE Failing(s)
  <2>1. CASE StepFails(s) \/ CommitReportsError(s)
    BY <1>0, <2>1, MoveLocks DEF StepFails, CommitReportsError, Fail
  <2>2. CASE IdsExhausted(s)
    BY <1>0, <2>2, MoveLocks DEF IdsExhausted
  <2>3. CASE Rollback(s) \/ Recover(s)
    BY <1>0, <2>3, MoveLocks DEF Rollback, Recover
  <2>4. CASE RecoverUnmirrored(s) \/ RecoveryFails(s)
    BY <1>0, <2>4, MoveLocks DEF RecoverUnmirrored, RecoveryFails
  <2>5. QED
    BY <1>5, <2>1, <2>2, <2>3, <2>4 DEF Failing
<1>6. CASE End(s)
  BY <1>0, <1>6, MoveLocks DEF End
<1>7. CASE Refresh(s) \/ Settle(s) \/ RefuseSettings(s)
  BY <1>7, MoveLocks DEF Refresh, Settle, RefuseSettings
<1>8. CASE Crash(s)
  BY <1>0, <1>8, MoveLocks DEF Crash
<1>9. QED
  BY <1>1, <1>2, <1>b, <1>3, <1>4, <1>5, <1>6, <1>7, <1>8 DEF Step

LEMMA OthersOutside ==
    ASSUME LocksHeld, NEW s \in Stores, genLock \in {s, Nobody}
    PROVE  \A t \in Stores \ {s} : ~ InTransaction(t)
BY DocumentsAssumption DEF LocksHeld

LEMMA OpenNames ==
    ASSUME NEW names \in Seq(Nat)
    PROVE  Names(Open(names)) = {names[k] : k \in DOMAIN names}
BY DEF Names, Open

\* What a memory reads from the committed generation is what the payload names.
LEMMA LoadKnown ==
    ASSUME TypeOK, NEW m \in Memory, Known(m), Loadable(payload)
    PROVE  /\ Load(m, payload).gen = payload
           /\ Known(Load(m, payload))
<1>0. payload \in Nat /\ GenerationsTyped
  BY TypeParts DEF CommittedTyped
<1>1. CASE payload = 0
  BY <1>1 DEF Load, Memory, Known
<1>2. CASE payload # 0
  <2>1. generations[payload].vectors \in Seq(Nat)
    BY <1>0, <1>2 DEF Loadable, GenerationsTyped, Generation
  <2>2. Names(Open(generations[payload].vectors)) = Segments(generations[payload])
    BY <2>1, OpenNames DEF Segments
  <2>3. /\ Load(m, payload).gen = payload
        /\ Load(m, payload).files = generations[payload].files
        /\ Load(m, payload).vectors = Open(generations[payload].vectors)
    BY <1>2 DEF Load, Memory
  <2>4. QED
    BY <1>0, <1>2, <2>2, <2>3 DEF Known, Describes
<1>3. QED
  BY <1>1, <1>2

\* Known says nothing of the chunks in view and of ids.
LEMMA KnownSame ==
    ASSUME NEW m, NEW n, Known(m), n.gen = m.gen, n.files = m.files, n.vectors = m.vectors
    PROVE  Known(n)
BY DEF Known, Describes

LEMMA ClosedKnown == TypeOK => Known(Closed)
BY TypeParts DEF CommittedTyped, Known, Closed

\* WorkDescribed' for one store.
DescribedNext(t) ==
    /\ Uncommitted(t)' => work'[t].docs = DocsOf(work'[t].files)
    /\ pc'[t] \in {"vectors", "prepared"} => Names(work'[t].vectors) \subseteq DOMAIN segments'
    /\ At(t, "prepared")' => /\ minted' \in DOMAIN generations'
                             /\ Describes(generations'[minted'], work'[t])
    /\ At(t, "committed")' => /\ payload' = minted' /\ payload' # 0
                              /\ Describes(generations'[payload'], work'[t])

LEMMA WorkDescribedNext == (\A t \in Stores : DescribedNext(t)) => WorkDescribed'
BY DEF DescribedNext, WorkDescribed, Describes, Segments, Names

\* A step of s outside a publication keeps the invariant if it leaves what is
\* committed alone, and knows what it then answers from.
LEMMA QuietStep ==
    ASSUME TypeOK, Inv, NEW s \in Stores, NEW place, Goto(s, place),
           UNCHANGED <<docs, payload, minted>>,
           CommittedIsLoadable',
           payload # 0 => generations'[payload] = generations[payload],
           \/ UNCHANGED <<generations, segments>>
           \/ \A t \in Stores \ {s} : ~ InTransaction(t),
           \A t \in Stores \ {s} : /\ store'[t] = store[t] /\ checkpoint'[t] = checkpoint[t]
                                   /\ work'[t] = work[t],
           Known(store'[s]), Kept(checkpoint'[s]),
           place \in {"opened", "adopted", "ending", "undone"} => store'[s].gen = payload,
           place \notin {"staging", "publishing", "vectors", "prepared", "committed"}
    PROVE  /\ CommittedIsLoadable' /\ NumbersOrdered' /\ CollectorsCurrent'
           /\ MemoriesKnown' /\ WorkDescribed'
<1>0. pc \in [Stores -> Places]
  BY TypeParts DEF PlacesTyped
<1>1. /\ pc'[s] = place
      /\ \A t \in Stores \ {s} : pc'[t] = pc[t]
  BY <1>0 DEF Goto
<1>2. NumbersOrdered'
  BY <1>1 DEF Inv, NumbersOrdered, Uncommitted
<1>3. CollectorsCurrent'
  BY <1>1 DEF Inv, CollectorsCurrent, UpToDate, Uncommitted
<1>4. MemoriesKnown'
  <2>1. \A m : Known(m) => Known(m)'
    BY DEF Known, Describes, Segments
  <2>2. \A t \in Stores : Known(store'[t]) /\ Kept(checkpoint'[t])
    BY DEF Inv, MemoriesKnown
  <2>3. QED
    BY <2>1, <2>2 DEF MemoriesKnown, Kept
<1>5. WorkDescribed'
  <2>1. CASE \A t \in Stores \ {s} : ~ InTransaction(t)
    BY <1>1, <2>1 DEF WorkDescribed, InTransaction, TransactionPlaces, Uncommitted, At
  <2>2. CASE UNCHANGED <<generations, segments>>
    <3> SUFFICES ASSUME NEW t \in Stores
                 PROVE  DescribedNext(t)
      BY WorkDescribedNext
    <3>1. CASE t = s
      BY <1>1, <3>1 DEF DescribedNext, Uncommitted, At
    <3>2. CASE t # s
      BY <1>1, <2>2, <3>2 DEF DescribedNext, Inv, WorkDescribed, Uncommitted, At
    <3>3. QED
      BY <3>1, <3>2
  <2>3. QED
    BY <2>1, <2>2
<1>6. QED
  BY <1>2, <1>3, <1>4, <1>5

\* What QuietStep concludes.
Rest == /\ CommittedIsLoadable /\ NumbersOrdered /\ CollectorsCurrent
        /\ MemoriesKnown /\ WorkDescribed

\* A collection for the generation the payload names leaves it loadable.
LEMMA CollectKeeps ==
    ASSUME NEW m, CommittedIsLoadable, Known(m), m.gen = payload, CollectObsolete(m.gen, m.vectors),
           UNCHANGED <<docs, payload>>
    PROVE  /\ CommittedIsLoadable'
           /\ payload # 0 => generations'[payload] = generations[payload]
<1>1. CASE payload = 0
  BY <1>1 DEF CommittedIsLoadable, Loadable
<1>2. CASE payload # 0
  <2>1. payload \in DOMAIN generations' /\ generations'[payload] = generations[payload]
    BY <1>2 DEF CollectObsolete, CommittedIsLoadable, Loadable
  <2>2. \A k \in DOMAIN generations[payload].vectors :
           generations[payload].vectors[k] \in DOMAIN segments'
    BY <1>2 DEF CollectObsolete, CommittedIsLoadable, Loadable, Known, Describes, Segments
  <2>3. QED
    BY <1>2, <2>1, <2>2 DEF CommittedIsLoadable, Loadable
<1>3. QED
  BY <1>1, <1>2

LEMMA OpeningInv ==
    ASSUME TypeOK, Inv, NEW s \in Stores, Opening(s)
    PROVE  Rest'
<1>0. /\ Known(store[s]) /\ Kept(checkpoint[s])
      /\ store \in [Stores -> Memory] /\ checkpoint \in [Stores -> Memory \cup {Nobody}]
  BY TypeParts DEF Inv, MemoriesKnown, MemoriesTyped
<1> USE DEF disk, locks
<1>u. UNCHANGED <<docs, payload, generations, segments>> => CommittedIsLoadable'
  BY DEF Inv, CommittedIsLoadable, Loadable
<1>1. CASE RequestOpen(s)
  BY <1>0, <1>u, <1>1, QuietStep DEF RequestOpen, Rest
<1>2. CASE LockToOpen(s)
  BY <1>0, <1>u, <1>2, QuietStep DEF LockToOpen, Rest
<1>3. CASE OpenReader(s)
  <2>1. Known(store'[s])
    BY <1>0, <1>3, KnownSame DEF OpenReader, Memory
  <2>2. QED
    BY <1>0, <1>u, <1>3, <2>1, QuietStep DEF OpenReader, Rest
<1>4. CASE OpenGeneration(s)
  <2> DEFINE m == Load(store[s], payload)
  <2>1. m.gen = payload /\ Known(m) /\ m \in Memory
    BY <1>0, <1>4, LoadKnown, LoadType, TypeParts DEF OpenGeneration
  <2> HIDE DEF m
  <2>2. /\ store'[s].gen = m.gen /\ store'[s].files = m.files /\ store'[s].vectors = m.vectors
        /\ \A t \in Stores \ {s} : store'[t] = store[t]
    BY <1>0, <1>4, <2>1 DEF OpenGeneration, Memory, m
  <2>3. Known(store'[s]) /\ store'[s].gen = payload
    BY <2>1, <2>2, KnownSame
  <2>4. QED
    BY <1>0, <1>u, <1>4, <2>2, <2>3, QuietStep DEF OpenGeneration, Rest
<1>5. CASE CollectOnOpen(s)
  <2>1. store[s].gen = payload
    BY <1>5 DEF CollectOnOpen, At, Inv, CollectorsCurrent, UpToDate
  <2>2. CASE genLock = Nobody /\ CollectObsolete(store[s].gen, store[s].vectors)
    <3>1. /\ CommittedIsLoadable'
          /\ payload # 0 => generations'[payload] = generations[payload]
      BY <1>0, <1>5, <2>1, <2>2, CollectKeeps DEF CollectOnOpen, FinishOpen, Inv
    <3>2. \A t \in Stores \ {s} : ~ InTransaction(t)
      BY <2>2, OthersOutside DEF Inv
    <3>3. QED
      BY <1>0, <1>5, <3>1, <3>2, QuietStep DEF CollectOnOpen, FinishOpen, Rest
  <2>3. CASE UNCHANGED <<generations, segments>>
    BY <1>0, <1>u, <1>5, <2>3, QuietStep DEF CollectOnOpen, FinishOpen, Rest
  <2>4. QED
    BY <1>5, <2>2, <2>3 DEF CollectOnOpen
<1>6. QED
  BY <1>1, <1>2, <1>3, <1>4, <1>5 DEF Opening

\* A reload given up, kept or settled answers from a generation it knows.
LEMMA ReloadKnown ==
    ASSUME TypeOK, Inv, NEW s \in Stores, GiveUpReload(s) \/ KeepReload(s)
    PROVE  /\ Known(store'[s]) /\ Kept(checkpoint'[s])
           /\ \A t \in Stores \ {s} : store'[t] = store[t] /\ checkpoint'[t] = checkpoint[t]
<1>0. /\ Known(store[s]) /\ Kept(checkpoint[s])
      /\ store \in [Stores -> Memory] /\ checkpoint \in [Stores -> Memory \cup {Nobody}]
  BY TypeParts DEF Inv, MemoriesKnown, MemoriesTyped
<1>1. Reloading(s) => Known(Restored(s))
  BY <1>0, KnownSame DEF Restored, Reloading, Kept, Memory
<1>2. QED
  BY <1>0, <1>1 DEF GiveUpReload, KeepReload, Kept

LEMMA FailingInv ==
    ASSUME TypeOK, Inv, NEW s \in Stores,
           \/ StepFails(s) \/ IdsExhausted(s)
           \/ Rollback(s) \/ Recover(s) \/ RecoverUnmirrored(s) \/ RecoveryFails(s)
    PROVE  Rest'
<1>0. /\ Known(store[s]) /\ Kept(checkpoint[s])
      /\ store \in [Stores -> Memory] /\ checkpoint \in [Stores -> Memory \cup {Nobody}]
  BY TypeParts DEF Inv, MemoriesKnown, MemoriesTyped
<1> USE DEF disk, locks
<1>u. UNCHANGED <<docs, payload, generations, segments>> => CommittedIsLoadable'
  BY DEF Inv, CommittedIsLoadable, Loadable
<1>1. CASE StepFails(s)
  BY <1>0, <1>u, <1>1, QuietStep DEF StepFails, Fail, Rest
<1>2. CASE IdsExhausted(s)
  BY <1>0, <1>u, <1>2, QuietStep DEF IdsExhausted, Rest
<1>3. CASE Rollback(s)
  BY <1>0, <1>u, <1>3, QuietStep DEF Rollback, Rest
<1>4. CASE Recover(s) \/ RecoverUnmirrored(s)
  <2>1. /\ store' = [store EXCEPT ![s] = Load(store[s], payload)]
        /\ Loadable(payload)
    BY <1>4 DEF Recover, RecoverUnmirrored
  <2>2. Known(store'[s]) /\ store'[s].gen = payload
    BY <1>0, <2>1, LoadKnown
  <2>3. \A t \in Stores \ {s} : store'[t] = store[t]
    BY <1>0, <2>1
  <2>4. CASE Recover(s)
    BY <1>0, <1>u, <2>2, <2>3, <2>4, QuietStep DEF Recover, Rest
  <2>5. CASE RecoverUnmirrored(s)
    BY <1>0, <1>u, <2>2, <2>3, <2>5, QuietStep DEF RecoverUnmirrored, Rest
  <2>6. QED
    BY <1>4, <2>4, <2>5
<1>5. CASE RecoveryFails(s)
  BY <1>0, <1>u, <1>5, QuietStep DEF RecoveryFails, Rest
<1>6. QED
  BY <1>1, <1>2, <1>3, <1>4, <1>5

LEMMA EndingInv ==
    ASSUME TypeOK, Inv, NEW s \in Stores, End(s)
    PROVE  Rest'
<1>0. store \in [Stores -> Memory] /\ work \in [Stores -> Work] /\ Known(store[s])
  BY TypeParts DEF MemoriesTyped, WorkTyped, Inv, MemoriesKnown
<1>1. /\ Known(store'[s]) /\ Kept(checkpoint'[s])
      /\ \A t \in Stores \ {s} : store'[t] = store[t] /\ checkpoint'[t] = checkpoint[t]
  BY ReloadKnown DEF End
<1>2. \A t \in Stores \ {s} : work'[t] = work[t]
  BY <1>0 DEF End
<1>3. CASE Collects(s) /\ CollectObsolete(store[s].gen, store[s].vectors)
  <2>1. store[s].gen = payload
    BY <1>3 DEF End, Collects, Inv, CollectorsCurrent, UpToDate
  <2>2. /\ CommittedIsLoadable'
        /\ payload # 0 => generations'[payload] = generations[payload]
    BY <1>0, <1>3, <2>1, CollectKeeps DEF End, Inv
  <2>3. \A t \in Stores \ {s} : ~ InTransaction(t)
    BY OthersOutside DEF Inv, LocksHeld, InTransaction, TransactionPlaces, End
  <2>4. QED
    BY <1>1, <1>2, <2>2, <2>3, QuietStep DEF End, Rest
<1>4. CASE UNCHANGED <<generations, segments>>
  <2>1. CommittedIsLoadable'
    BY <1>4 DEF End, Inv, CommittedIsLoadable, Loadable
  <2>2. QED
    BY <1>1, <1>2, <1>4, <2>1, QuietStep DEF End, Rest
<1>5. QED
  BY <1>3, <1>4 DEF End

LEMMA ReloadInv ==
    ASSUME TypeOK, Inv, NEW s \in Stores,
           \/ RequestTransaction(s) \/ RefuseStale(s)
           \/ Refresh(s) \/ Settle(s) \/ RefuseSettings(s) \/ Crash(s)
    PROVE  Rest'
<1>0. /\ Known(store[s]) /\ Kept(checkpoint[s])
      /\ store \in [Stores -> Memory] /\ checkpoint \in [Stores -> Memory \cup {Nobody}]
      /\ work \in [Stores -> Work]
  BY TypeParts DEF Inv, MemoriesKnown, MemoriesTyped, WorkTyped
<1> USE DEF disk, locks
<1>u. UNCHANGED <<docs, payload, generations, segments>> => CommittedIsLoadable'
  BY DEF Inv, CommittedIsLoadable, Loadable
<1>1. CASE RequestTransaction(s)
  BY <1>0, <1>u, <1>1, QuietStep DEF RequestTransaction, Rest
<1>2. CASE RefuseStale(s)
  BY <1>u, <1>2, ReloadKnown, QuietStep DEF RefuseStale, Rest
<1>3. CASE Refresh(s)
  <2> DEFINE m == Load(store[s], payload)
  <2>1. m.gen = payload /\ Known(m) /\ m \in Memory
    BY <1>0, <1>3, LoadKnown, LoadType, TypeParts DEF Refresh
  <2> HIDE DEF m
  <2>2. /\ store'[s].gen = m.gen /\ store'[s].files = m.files /\ store'[s].vectors = m.vectors
        /\ \A t \in Stores \ {s} : store'[t] = store[t]
    BY <1>0, <1>3, <2>1 DEF Refresh, Memory, m
  <2>3. Known(store'[s])
    BY <2>1, <2>2, KnownSame
  <2>4. /\ Kept(checkpoint'[s])
        /\ \A t \in Stores \ {s} : checkpoint'[t] = checkpoint[t]
    BY <1>0, <1>3 DEF Refresh, Kept
  <2>5. QED
    BY <1>u, <1>3, <2>2, <2>3, <2>4, QuietStep DEF Refresh, Rest
<1>4. CASE Settle(s)
  BY <1>u, <1>4, ReloadKnown, QuietStep DEF Settle, Rest
<1>5. CASE RefuseSettings(s)
  BY <1>u, <1>5, ReloadKnown, QuietStep DEF RefuseSettings, Rest
<1>6. CASE Crash(s)
  <2>1. /\ Known(store'[s]) /\ Kept(checkpoint'[s])
        /\ \A t \in Stores \ {s} : /\ store'[t] = store[t] /\ checkpoint'[t] = checkpoint[t]
                                   /\ work'[t] = work[t]
    BY <1>0, <1>6, ClosedKnown DEF Crash, Kept
  <2>2. QED
    BY <1>u, <1>6, <2>1, QuietStep DEF Crash, Rest
<1>7. QED
  BY <1>1, <1>2, <1>3, <1>4, <1>5, <1>6

\* What a transaction that has not committed must have staged at a place.
StagedFor(s, place) ==
    /\ work'[s].docs = DocsOf(work'[s].files)
    /\ place \in {"vectors", "prepared"} => Names(work'[s].vectors) \subseteq DOMAIN segments'
    /\ place = "prepared" => /\ minted' \in DOMAIN generations'
                             /\ Describes(generations'[minted'], work'[s])

\* A step of the writer before its commit keeps the invariant if it keeps what
\* is committed and has staged what its next place asks for.
LEMMA WriterStep ==
    ASSUME TypeOK, Inv, NEW s \in Stores, NEW place, Goto(s, place), genLock \in {s, Nobody},
           place \in {"staging", "publishing", "vectors", "prepared"},
           UNCHANGED <<docs, payload, checkpoint>>, payload < minted', minted' \in Nat,
           CommittedIsLoadable',
           payload # 0 => generations'[payload] = generations[payload],
           \A t \in Stores \ {s} : store'[t] = store[t],
           store'[s].gen = payload, Known(store'[s]),
           StagedFor(s, place)
    PROVE  Rest'
<1>0. /\ pc \in [Stores -> Places] /\ payload \in Nat /\ minted \in Nat
      /\ \A t \in Stores \ {s} : ~ InTransaction(t)
  BY TypeParts, OthersOutside DEF PlacesTyped, CommittedTyped, CountersTyped, Inv
<1>1. /\ pc'[s] = place
      /\ \A t \in Stores \ {s} : pc'[t] = pc[t]
  BY <1>0 DEF Goto
<1>2. NumbersOrdered'
  <2>1. \A t \in Stores \ {s} : ~ Uncommitted(t)'
    BY <1>0, <1>1 DEF Uncommitted, InTransaction, TransactionPlaces
  <2>2. payload' < minted' /\ payload' <= minted'
    BY <1>0
  <2>3. QED
    BY <2>1, <2>2 DEF NumbersOrdered
<1>3. CollectorsCurrent'
  BY <1>1 DEF Inv, CollectorsCurrent, UpToDate, Uncommitted
<1>4. MemoriesKnown'
  <2>1. \A m : Known(m) => Known(m)'
    BY DEF Known, Describes, Segments
  <2>2. \A t \in Stores : Known(store'[t]) /\ Kept(checkpoint'[t])
    BY DEF Inv, MemoriesKnown
  <2>3. QED
    BY <2>1, <2>2 DEF MemoriesKnown, Kept
<1>5. WorkDescribed'
  <2>1. ASSUME NEW t \in Stores \ {s}
        PROVE  ~ Uncommitted(t)' /\ pc'[t] \notin {"vectors", "prepared", "committed"}
    BY <1>0, <1>1 DEF Uncommitted, InTransaction, TransactionPlaces
  <2>2. /\ work'[s].docs = DocsOf(work'[s].files)
        /\ pc'[s] \in {"vectors", "prepared"} => Names(work'[s].vectors) \subseteq DOMAIN segments'
        /\ pc'[s] = "prepared" => /\ minted' \in DOMAIN generations'
                                  /\ Describes(generations'[minted'], work'[s])
        /\ pc'[s] # "committed"
    BY <1>1 DEF StagedFor
  <2>3. \A t \in Stores : DescribedNext(t)
    BY <2>1, <2>2 DEF DescribedNext, At
  <2>4. QED
    BY <2>3, WorkDescribedNext
<1>6. QED
  BY <1>2, <1>3, <1>4, <1>5 DEF Rest

\* Writing a generation or a segment beside what is committed keeps it loadable.
LEMMA WrittenBeside ==
    ASSUME CommittedIsLoadable, UNCHANGED <<docs, payload>>,
           DOMAIN segments \subseteq DOMAIN segments',
           DOMAIN generations \subseteq DOMAIN generations',
           payload # 0 => generations'[payload] = generations[payload]
    PROVE  CommittedIsLoadable'
<1>1. CASE payload = 0
  BY <1>1 DEF CommittedIsLoadable, Loadable
<1>2. CASE payload # 0
  BY <1>2 DEF CommittedIsLoadable, Loadable
<1>3. QED
  BY <1>1, <1>2

LEMMA BeginInv ==
    ASSUME TypeOK, Inv, NEW s \in Stores, Begin(s)
    PROVE  Rest'
<1>0. /\ work \in [Stores -> Work] /\ Known(store[s])
      /\ payload \in Nat /\ minted \in Nat
  BY TypeParts DEF WorkTyped, CommittedTyped, CountersTyped, Inv, MemoriesKnown
<1>1. payload < minted' /\ minted' \in Nat
  BY <1>0 DEF Begin, Enter, Inv, NumbersOrdered
<1>2. CommittedIsLoadable'
  BY WrittenBeside DEF Begin, Enter, Inv
<1>3. docs = DocsOf(store[s].files)
  <2>1. CASE payload = 0
    BY <1>0, <2>1 DEF Begin, Known, Inv, CommittedIsLoadable, DocsOf, Indexed, NoFiles
  <2>2. CASE payload # 0
    BY <1>0, <2>2 DEF Begin, Known, Inv, CommittedIsLoadable, Describes
  <2>3. QED
    BY <2>1, <2>2
<1>4. work'[s].files = store[s].files /\ work'[s].docs = docs
  BY <1>0 DEF Begin, Enter, NoWork
<1>5. StagedFor(s, "staging")
  BY <1>3, <1>4 DEF StagedFor
<1>6. QED
  BY <1>0, <1>1, <1>2, <1>5, WriterStep DEF Begin, Enter

LEMMA DocsOfRemoved ==
    ASSUME NEW files \in Files, NEW f \in Sources
    PROVE  DocsOf([files EXCEPT ![f] = NoFile]) = Without(DocsOf(files), f)
BY DEF DocsOf, Indexed, Without, Files

LEMMA DocsOfReplaced ==
    ASSUME NEW files \in Files, NEW f \in Sources, NEW chunk \in Chunk
    PROVE  DocsOf([files EXCEPT ![f] = chunk]) =
              Without(DocsOf(files), f)
                 \cup {[source |-> f, id |-> chunk.id, content |-> chunk.content]}
<1>1. chunk # NoFile
  BY DocumentsAssumption DEF Chunk
<1>2. QED
  BY <1>1 DEF DocsOf, Indexed, Without, Files

LEMMA ChangeInv ==
    ASSUME TypeOK, Inv, NEW s \in Stores, Change(s)
    PROVE  Rest'
<1>0. /\ work \in [Stores -> Work] /\ store \in [Stores -> Memory] /\ Known(store[s])
      /\ work[s] \in Work /\ work[s].files \in Files
      /\ payload \in Nat /\ minted \in Nat /\ pc \in [Stores -> Places]
  BY TypeParts DEF WorkTyped, Work, MemoriesTyped, CommittedTyped, CountersTyped, PlacesTyped,
                   Inv, MemoriesKnown
<1>1. /\ At(s, "staging") /\ UNCHANGED <<docs, payload, generations, minted, pc, checkpoint>>
      /\ DOMAIN segments \subseteq DOMAIN segments'
      /\ \A t \in Stores \ {s} : store'[t] = store[t]
      /\ store'[s].gen = store[s].gen /\ store'[s].files = store[s].files
      /\ store'[s].vectors = store[s].vectors
  <2>1. /\ At(s, "staging") /\ UNCHANGED <<docs, payload, generations, minted, pc, checkpoint>>
        /\ DOMAIN segments \subseteq DOMAIN segments'
    BY DEF Change, RemoveFile, IndexFile, disk, locks
  <2>2. store' = store \/ Allocate(s)
    BY DEF Change, RemoveFile, IndexFile
  <2>3. CASE store' = store
    BY <2>1, <2>3
  <2>4. CASE Allocate(s)
    BY <1>0, <2>1, <2>4 DEF Allocate, Memory
  <2>5. QED
    BY <2>2, <2>3, <2>4
<1>2. /\ genLock = s /\ payload < minted /\ store[s].gen = payload
      /\ work[s].docs = DocsOf(work[s].files)
  BY <1>1 DEF Inv, LocksHeld, InTransaction, TransactionPlaces, NumbersOrdered, Uncommitted, At,
              CollectorsCurrent, UpToDate, WorkDescribed
<1>3. Goto(s, "staging")
  BY <1>0, <1>1 DEF Goto, At
<1>4. Known(store'[s])
  BY <1>0, <1>1, KnownSame
<1>5. CommittedIsLoadable'
  BY <1>1, WrittenBeside DEF Inv
<1>6. work'[s].docs = DocsOf(work'[s].files)
  <2>1. ASSUME NEW f \in Sources, RemoveFile(s, f)
        PROVE  work'[s].docs = DocsOf(work'[s].files)
    BY <1>0, <1>2, <2>1, DocsOfRemoved DEF RemoveFile, Work
  <2>2. ASSUME NEW f \in Sources, NEW c \in Contents, IndexFile(s, f, c)
        PROVE  work'[s].docs = DocsOf(work'[s].files)
    <3> DEFINE chunk == [id |-> store[s].next, content |-> c]
    <3>1. store[s].next \in 1..MaxId
      BY <2>2, TypeParts, AllocateType DEF IndexFile
    <3>2. chunk \in Chunk /\ chunk.id = store[s].next /\ chunk.content = c
      BY <3>1 DEF Chunk
    <3>3. /\ work'[s].files = [work[s].files EXCEPT ![f] = chunk]
          /\ work'[s].docs = Without(work[s].docs, f)
                                \cup {[source |-> f, id |-> chunk.id, content |-> chunk.content]}
      BY <1>0, <2>2 DEF IndexFile, Work
    <3> HIDE DEF chunk
    <3>4. QED
      BY <1>0, <1>2, <3>2, <3>3, DocsOfReplaced
  <2>3. QED
    BY <2>1, <2>2 DEF Change
<1>7. StagedFor(s, "staging")
  BY <1>6 DEF StagedFor
<1>8. QED
  BY <1>0, <1>1, <1>2, <1>3, <1>4, <1>5, <1>7, WriterStep

\* The writer before its commit: what holds where it stands.
LEMMA WriterFacts ==
    ASSUME TypeOK, Inv, NEW s \in Stores, Uncommitted(s)
    PROVE  /\ genLock = s /\ payload < minted /\ minted \in Nat
           /\ store[s].gen = payload /\ Known(store[s])
           /\ work[s].docs = DocsOf(work[s].files)
BY TypeParts DEF Inv, LocksHeld, InTransaction, TransactionPlaces, NumbersOrdered, Uncommitted,
                 CollectorsCurrent, UpToDate, MemoriesKnown, WorkDescribed, CountersTyped

LEMMA LockToPublishInv ==
    ASSUME TypeOK, Inv, NEW s \in Stores, LockToPublish(s)
    PROVE  Rest'
<1>1. Uncommitted(s)
  BY DEF LockToPublish, At, Uncommitted
<1>2. StagedFor(s, "publishing") /\ CommittedIsLoadable'
  BY <1>1, WriterFacts, WrittenBeside DEF LockToPublish, disk, StagedFor, Inv
<1>3. QED
  BY <1>1, <1>2, WriterFacts, WriterStep DEF LockToPublish, disk

LEMMA PublishVectorsInv ==
    ASSUME TypeOK, Inv, NEW s \in Stores, PublishVectors(s)
    PROVE  Rest'
<1>1. Uncommitted(s)
  BY DEF PublishVectors, At, Uncommitted
<1>0. /\ work \in [Stores -> Work] /\ work[s] \in Work /\ Appended(s) \in Seq(Segment)
      /\ store[s].vectors \in Seq(Segment)
  BY TypeParts, AppendedType DEF WorkTyped, MemoriesTyped, Memory
<1>2. Names(store[s].vectors) \subseteq DOMAIN segments
  <2>1. CASE payload = 0
    BY <1>1, <2>1, WriterFacts DEF Known, Names
  <2>2. CASE payload # 0
    BY <1>1, <2>2, WriterFacts DEF Known, Inv, CommittedIsLoadable, Loadable, Describes, Segments
  <2>3. QED
    BY <2>1, <2>2
<1>3. Names(Appended(s)) \subseteq DOMAIN segments
  <2>1. CASE work[s].staged = {}
    BY <1>2, <2>1 DEF Appended
  <2>2. CASE work[s].staged # {}
    <3> DEFINE new == [name |-> Staging, vectors |-> work[s].staged]
    <3>1. /\ Appended(s) = Append(store[s].vectors, new)
          /\ Staging \in DOMAIN segments /\ new.name = Staging
      BY <2>2 DEF Appended, PublishVectors
    <3> HIDE DEF new
    <3> DEFINE old == store[s].vectors
    <3>d. Len(old) \in Nat /\ DOMAIN old = 1..Len(old)
      BY <1>0
    <3>e. Append(old, new) = [k \in 1..(Len(old) + 1) |-> IF k <= Len(old) THEN old[k] ELSE new]
      BY <1>0, <3>d
    <3>2. ASSUME NEW k \in DOMAIN Append(old, new)
          PROVE  \/ Append(old, new)[k] = new
                 \/ k \in DOMAIN old /\ Append(old, new)[k] = old[k]
      BY <3>d, <3>e, <3>2
    <3>3. QED
      BY <1>2, <3>1, <3>2 DEF Names
  <2>3. QED
    BY <2>1, <2>2
<1>4. /\ Names(work'[s].vectors) \subseteq DOMAIN segments'
      /\ work'[s].docs = work[s].docs /\ work'[s].files = work[s].files
  BY <1>0, <1>3 DEF PublishVectors, Names, Work
<1>5. DOMAIN segments \subseteq DOMAIN segments'
  BY DEF PublishVectors
<1>6. StagedFor(s, "vectors") /\ CommittedIsLoadable'
  BY <1>1, <1>4, <1>5, WriterFacts, WrittenBeside DEF PublishVectors, StagedFor, Inv
<1>7. QED
  BY <1>1, <1>6, WriterFacts, WriterStep DEF PublishVectors

LEMMA PrepareInv ==
    ASSUME TypeOK, Inv, NEW s \in Stores, PrepareGeneration(s)
    PROVE  Rest'
<1>1. Uncommitted(s) /\ Names(work[s].vectors) \subseteq DOMAIN segments
  BY DEF PrepareGeneration, At, Uncommitted, Inv, WorkDescribed
<1>0. work[s] \in Work /\ payload \in Nat /\ minted \in Nat
  BY TypeParts DEF WorkTyped, CommittedTyped, CountersTyped
<1>2. /\ minted \in DOMAIN generations' /\ DOMAIN generations \subseteq DOMAIN generations'
      /\ generations'[minted].files = work[s].files
      /\ generations'[minted].vectors =
            [k \in DOMAIN work[s].vectors |-> work[s].vectors[k].name]
      /\ CommittedIsLoadable
      /\ payload # 0 => generations'[payload] = generations[payload]
  BY <1>0, <1>1, WriterFacts DEF PrepareGeneration, Inv, CommittedIsLoadable, Loadable
<1>3. Describes(generations'[minted], work[s])
  BY <1>2 DEF Describes, Segments, Names
<1>4. StagedFor(s, "prepared") /\ CommittedIsLoadable'
  BY <1>1, <1>2, <1>3, WriterFacts, WrittenBeside DEF PrepareGeneration, StagedFor
<1>5. QED
  BY <1>1, <1>2, <1>4, WriterFacts, WriterStep DEF PrepareGeneration

LEMMA CommitInv ==
    ASSUME TypeOK, Inv, NEW s \in Stores, NEW place \in {"committed", "failed"},
           At(s, "prepared"), Commit(s), Goto(s, place),
           UNCHANGED <<generations, segments, minted, store, work, checkpoint>>
    PROVE  Rest'
<1>0. /\ pc \in [Stores -> Places] /\ payload \in Nat /\ minted \in Nat
      /\ \A t \in Stores : /\ store[t].gen \in Nat
                           /\ checkpoint[t] # Nobody => checkpoint[t].gen \in Nat
  BY TypeParts DEF PlacesTyped, CommittedTyped, CountersTyped, MemoriesTyped, Memory
<1>1. /\ Uncommitted(s) /\ genLock = s /\ payload < minted /\ pubLock = s /\ s # Nobody
      /\ work[s].docs = DocsOf(work[s].files)
      /\ Names(work[s].vectors) \subseteq DOMAIN segments
      /\ minted \in DOMAIN generations /\ Describes(generations[minted], work[s])
  BY WriterFacts, DocumentsAssumption
     DEF At, Uncommitted, Inv, WorkDescribed, LocksHeld, InPublication, PublicationPlaces
<1>2. /\ pc'[s] = place /\ place # "prepared"
      /\ \A t \in Stores \ {s} : pc'[t] = pc[t] /\ ~ InTransaction(t) /\ pc[t] # "opened"
  BY <1>0, <1>1, OthersOutside DEF Goto, Inv, LocksHeld, InPublication, PublicationPlaces
<1>3. CommittedIsLoadable'
  <2>1. payload' = minted /\ minted # 0 /\ docs' = DocsOf(generations[minted].files)
    BY <1>0, <1>1 DEF Commit, Describes
  <2>2. \A k \in DOMAIN generations[minted].vectors : generations[minted].vectors[k] \in DOMAIN segments
    BY <1>1 DEF Describes, Segments
  <2>3. QED
    BY <1>1, <2>1, <2>2 DEF CommittedIsLoadable, Loadable
<1>4. \A t \in Stores : ~ Uncommitted(t)' /\ ~ UpToDate(t)'
  BY <1>2 DEF Uncommitted, UpToDate, InTransaction, TransactionPlaces
<1>5. NumbersOrdered' /\ CollectorsCurrent'
  BY <1>0, <1>4 DEF NumbersOrdered, CollectorsCurrent, Commit
<1>6. MemoriesKnown'
  <2>1. \A m : Known(m) /\ m.gen \in Nat => Known(m)'
    BY <1>0, <1>1 DEF Known, Commit, Describes, Segments
  <2>2. \A t \in Stores : /\ store'[t] = store[t] /\ checkpoint'[t] = checkpoint[t]
                          /\ Known(store[t]) /\ Kept(checkpoint[t])
    BY DEF Inv, MemoriesKnown
  <2>3. \A t \in Stores : Known(store'[t]) /\ Kept(checkpoint'[t])
    BY <2>2
  <2>4. \A m : Kept(m) /\ (m # Nobody => m.gen \in Nat) => Kept(m)'
    BY <2>1 DEF Kept
  <2>5. ASSUME NEW t \in Stores
        PROVE  /\ store'[t].gen \in Nat
               /\ checkpoint'[t] # Nobody => checkpoint'[t].gen \in Nat
    BY <1>0, <2>2
  <2>6. QED
    BY <2>1, <2>3, <2>4, <2>5 DEF MemoriesKnown
<1>7. WorkDescribed'
  <2>1. \A t \in Stores : /\ ~ Uncommitted(t)' /\ pc'[t] \notin {"vectors", "prepared"}
                          /\ pc'[t] = "committed" => t = s
    BY <1>2 DEF Uncommitted, InTransaction, TransactionPlaces
  <2>2. /\ payload' = minted' /\ payload' # 0
        /\ Describes(generations'[payload'], work'[s])
    BY <1>0, <1>1 DEF Commit
  <2>3. Describes(generations[payload], work[s])'
    BY <2>2 DEF Describes, Segments, Names
  <2>4. QED
    BY <2>1, <2>2, <2>3 DEF WorkDescribed, At
<1>8. QED
  BY <1>3, <1>5, <1>6, <1>7 DEF Rest

LEMMA AdoptInv ==
    ASSUME TypeOK, Inv, NEW s \in Stores, Adopt(s) \/ MirrorState(s)
    PROVE  Rest'
<1>0. /\ store \in [Stores -> Memory] /\ Known(store[s]) /\ Kept(checkpoint[s])
      /\ payload \in Nat
  BY TypeParts DEF MemoriesTyped, CommittedTyped, Inv, MemoriesKnown
<1>1. CommittedIsLoadable'
  BY WrittenBeside DEF Adopt, MirrorState, disk, Inv
<1>2. CASE Adopt(s)
  <2>1. payload = minted /\ payload # 0 /\ Describes(generations[payload], work[s])
    BY <1>2 DEF Adopt, Inv, WorkDescribed, At
  <2>2. /\ store'[s].gen = payload /\ store'[s].files = work[s].files
        /\ store'[s].vectors = work[s].vectors
        /\ \A t \in Stores \ {s} : store'[t] = store[t]
    BY <1>0, <1>2, <2>1 DEF Adopt, Memory
  <2>4. Known(store'[s])
    BY <1>0, <2>1, <2>2 DEF Known, Describes
  <2>5. QED
    BY <1>0, <1>1, <1>2, <2>2, <2>4, QuietStep DEF Adopt, disk, Rest
<1>3. CASE MirrorState(s)
  <2>1. store[s].gen = payload
    BY <1>3 DEF MirrorState, At, Inv, CollectorsCurrent, UpToDate
  <2>2. QED
    BY <1>0, <1>1, <1>3, <2>1, QuietStep DEF MirrorState, disk, Rest
<1>4. QED
  BY <1>2, <1>3

LEMMA NextInv == TypeOK /\ Inv /\ [Next]_vars => Inv'
<1>1. ASSUME TypeOK, Inv, NEW s \in Stores, Step(s)
      PROVE  Inv'
  <2>1. ASSUME Publishing(s) PROVE Rest'
    <3>1. CASE CommitMetadata(s)
      BY <1>1, <3>1, CommitInv DEF CommitMetadata
    <3>2. QED
      BY <1>1, <2>1, <3>1, LockToPublishInv, PublishVectorsInv, PrepareInv, AdoptInv
         DEF Publishing
  <2>2. ASSUME Failing(s) PROVE Rest'
    <3>1. CASE CommitReportsError(s)
      BY <1>1, <3>1, CommitInv DEF CommitReportsError, Fail
    <3>2. QED
      BY <1>1, <2>2, <3>1, FailingInv DEF Failing
  <2>3. Rest'
    BY <1>1, <2>1, <2>2, OpeningInv, ReloadInv, BeginInv, ChangeInv, EndingInv DEF Step
  <2>4. LocksHeld'
    BY <1>1, StepLocks DEF Inv
  <2>5. QED
    BY <2>3, <2>4 DEF Inv, Rest
<1>2. ASSUME Inv, UNCHANGED vars
      PROVE  Inv'
  <2>1. CommittedIsLoadable' /\ LocksHeld' /\ NumbersOrdered'
    BY <1>2 DEF vars, Inv, CommittedIsLoadable, Loadable, LocksHeld, InTransaction,
                InPublication, NumbersOrdered, Uncommitted
  <2>2. CollectorsCurrent' /\ MemoriesKnown'
    BY <1>2 DEF vars, Inv, CollectorsCurrent, UpToDate, Uncommitted, MemoriesKnown, Known,
                Kept, Describes, Segments
  <2>3. WorkDescribed'
    <3>1. \A t \in Stores : DescribedNext(t)
      BY <1>2 DEF vars, Inv, WorkDescribed, DescribedNext, Uncommitted, At
    <3>2. QED
      BY <3>1, WorkDescribedNext
  <2>4. QED
    BY <2>1, <2>2, <2>3 DEF Inv
<1>3. QED
  BY <1>1, <1>2 DEF Next

\* Whatever stores open, write, crash or fail in between, the generation that
\* Tantivy's commit names can be loaded and describes the chunks committed with
\* it (generation.rs:131, collect_obsolete at generation.rs:371).
THEOREM CommittedAlwaysLoadable == Spec => []CommittedIsLoadable
<1>1. Inv => CommittedIsLoadable
  BY DEF Inv
<1>2. QED
  BY <1>1, InitInv, NextInv, TypeCorrectness, PTL DEF Spec

-----------------------------------------------------------------------------
(* What is committed can be searched, and what a store answers from is of  *)
(* one generation.  Both need what the vectors of a segment are: the       *)
(* chunks of the generation that wrote it, with ids above all older ones,  *)
(* under a name no other transaction has.                                  *)

\* Every id of a vector, and of a committed chunk, is below i.
Below(vectors, i) == \A k \in DOMAIN vectors : \A v \in vectors[k].vectors : v.id < i
PublishedBelow(i) == \A d \in published : d.id < i

\* The segments are on disk as a memory has them, and none is named after
\* transaction n.
OnDisk(vectors) ==
    \A k \in DOMAIN vectors : /\ vectors[k].name \in DOMAIN segments
                              /\ segments[vectors[k].name] = vectors[k].vectors
NamedUpTo(vectors, n) == \A k \in DOMAIN vectors : vectors[k].name <= 2 * n + 1

UniqueIds(files) == \A f, g \in Indexed(files) : files[f].id = files[g].id => f = g

\* File states that can be searched with these vectors, all of ids below next.
Sound(files, vectors, next) ==
    Answerable(files, vectors) /\ UniqueIds(files) /\ Below(vectors, next)

CommittedSound ==
    /\ docs \subseteq published
    /\ \A d, e \in published : d.id = e.id => d = e
    /\ payload = 0 => published = {}
    /\ payload # 0 => /\ Sound(generations[payload].files, Open(generations[payload].vectors),
                               generations[payload].next)
                      /\ \A n \in Segments(generations[payload]) : n <= 2 * payload + 1
                      /\ PublishedBelow(generations[payload].next)

\* What a memory of the committed generation has besides.
Current(m) ==
    m.gen = payload => /\ OnDisk(m.vectors) /\ NamedUpTo(m.vectors, payload)
                       /\ PublishedBelow(m.next)

MemorySound(s) ==
    /\ Sound(store[s].files, store[s].vectors, store[s].next)
    /\ Current(store[s])

\* A settings reload goes back to a generation that is no longer the committed one.
CheckpointSound(s) ==
    Reloading(s) =>
        /\ Sound(checkpoint[s].files, checkpoint[s].vectors, checkpoint[s].next)
        /\ checkpoint[s].gen < payload
        /\ checkpoint[s].next <= store[s].next

\* Chunks and file states agree, but between the two steps of opening.
ViewSound(s) ==
    /\ store[s].view = IF At(s, "reader") THEN docs ELSE DocsOf(store[s].files)
    /\ Reloading(s) => checkpoint[s].view = DocsOf(checkpoint[s].files)

\* What is staged has ids newer than all that was.
StagedSound(s) ==
    Uncommitted(s) =>
        /\ \A v \in work[s].staged :
              v.id < store[s].next /\ PublishedBelow(v.id) /\ Below(store[s].vectors, v.id)
        /\ \A v, w \in work[s].staged : v.id = w.id => v = w
        /\ \A f \in Indexed(work[s].files) :
              work[s].files[f] \in work[s].staged \cup {store[s].files[f]}
        /\ UniqueIds(work[s].files)
        /\ pc[s] \in {"staging", "publishing"} /\ work[s].staged # {} =>
              Staging \in DOMAIN segments /\ segments[Staging] = work[s].staged

\* What is to be committed, or has just been.
WrittenSound(s) ==
    pc[s] \in {"vectors", "prepared", "committed"} =>
        /\ Sound(work[s].files, work[s].vectors, store[s].next)
        /\ OnDisk(work[s].vectors) /\ NamedUpTo(work[s].vectors, minted)
        /\ At(s, "prepared") =>
              /\ generations[minted].next = store[s].next
              /\ generations[minted].vectors =
                    [k \in DOMAIN work[s].vectors |-> work[s].vectors[k].name]
        /\ At(s, "committed") => PublishedBelow(store[s].next)

ContentSound(s) == /\ MemorySound(s) /\ CheckpointSound(s) /\ ViewSound(s)
                   /\ StagedSound(s) /\ WrittenSound(s)

AllSound == CommittedSound /\ \A s \in Stores : ContentSound(s)

-----------------------------------------------------------------------------
(* Which vector a search finds.                                            *)

\* The first segment with a vector of c's id is the k-th, and c is its only one.
First(vectors, c, k) ==
    /\ k \in DOMAIN vectors /\ c \in vectors[k].vectors
    /\ \A j \in 1..(k - 1) : \A w \in vectors[j].vectors : w.id # c.id
    /\ \A w \in vectors[k].vectors : w.id = c.id => w = c

LEMMA FoundFirst ==
    ASSUME NEW vectors, NEW i, NEW c, Found(vectors, i) = {c}
    PROVE  c.id = i /\ \E k : First(vectors, c, k)
<1>1. c \in Found(vectors, i)
  OBVIOUS
<1>2. PICK k \in DOMAIN vectors :
              /\ c \in vectors[k].vectors
              /\ \A j \in 1..(k - 1) : \A w \in vectors[j].vectors : w.id # i
  BY <1>1 DEF Found
<1>3. \A w \in vectors[k].vectors : w.id = i => w \in Found(vectors, i)
  BY <1>2 DEF Found
<1>4. c.id = i
  BY <1>1 DEF Found
<1>5. First(vectors, c, k)
  BY <1>2, <1>3, <1>4 DEF First
<1>6. QED
  BY <1>4, <1>5

LEMMA FoundAt ==
    ASSUME NEW vectors \in Seq(Segment), NEW c, NEW k, First(vectors, c, k)
    PROVE  Found(vectors, c.id) = {c}
<1> USE DEF First
<1>1. c \in Found(vectors, c.id)
  BY DEF Found
<1>2. ASSUME NEW v \in Found(vectors, c.id)
      PROVE  v = c
  <2>1. PICK l \in DOMAIN vectors :
                /\ v \in vectors[l].vectors
                /\ \A j \in 1..(l - 1) : \A w \in vectors[j].vectors : w.id # c.id
    BY <1>2 DEF Found
  <2>2. v.id = c.id
    BY <1>2 DEF Found
  <2>3. DOMAIN vectors = 1..Len(vectors) /\ Len(vectors) \in Nat
    OBVIOUS
  <2>4. ~ (l \in 1..(k - 1)) /\ ~ (k \in 1..(l - 1))
    BY <2>1, <2>2
  <2>5. k = l
    BY <2>3, <2>4
  <2>6. QED
    BY <2>1, <2>2, <2>5
<1>3. QED
  BY <1>1, <1>2

LEMMA AppendIs ==
    ASSUME NEW old \in Seq(Segment), NEW new \in Segment
    PROVE  /\ Append(old, new) \in Seq(Segment)
           /\ DOMAIN old = 1..Len(old) /\ Len(old) \in Nat
           /\ DOMAIN Append(old, new) = 1..(Len(old) + 1)
           /\ \A k \in 1..Len(old) : Append(old, new)[k] = old[k]
           /\ Append(old, new)[Len(old) + 1] = new
<1>1. Len(old) \in Nat /\ DOMAIN old = 1..Len(old)
  OBVIOUS
<1>2. Append(old, new) \in Seq(Segment) /\ Len(Append(old, new)) = Len(old) + 1
  OBVIOUS
<1>3. DOMAIN Append(old, new) = 1..(Len(old) + 1)
  BY <1>1, <1>2
<1>4. \A k \in 1..Len(old) : Append(old, new)[k] = old[k]
  BY <1>1
<1>5. Append(old, new)[Len(old) + 1] = new
  BY <1>1
<1>6. QED
  BY <1>1, <1>2, <1>3, <1>4, <1>5

Finds(vectors, i, c) == Found(vectors, i) = {c}

\* An older vector is still met first when a segment is appended,
LEMMA StillFound ==
    ASSUME NEW old \in Seq(Segment), NEW new \in Segment, NEW i, NEW c, Finds(old, i, c)
    PROVE  Finds(Append(old, new), i, c)
<1> USE DEF Finds
<1>1. PICK k : First(old, c, k)
  BY FoundFirst
<1>2. c.id = i
  BY FoundFirst
<1> DEFINE both == Append(old, new)
<1>3. /\ both \in Seq(Segment) /\ DOMAIN old = 1..Len(old) /\ Len(old) \in Nat
      /\ DOMAIN both = 1..(Len(old) + 1)
      /\ \A j \in 1..Len(old) : both[j] = old[j]
  BY AppendIs
<1> HIDE DEF both
<1>4. /\ k \in DOMAIN both /\ both[k] = old[k]
      /\ \A j \in 1..(k - 1) : both[j] = old[j]
  BY <1>1, <1>3 DEF First
<1>5. First(both, c, k)
  BY <1>1, <1>4 DEF First
<1>6. QED
  BY <1>2, <1>3, <1>5, FoundAt DEF both

\* and so is a vector of the new one, if its id is newer than all before it.
LEMMA NewFound ==
    ASSUME NEW old \in Seq(Segment), NEW new \in Segment, NEW c \in new.vectors,
           Below(old, c.id), \A w \in new.vectors : w.id = c.id => w = c, c.id \in Nat
    PROVE  Found(Append(old, new), c.id) = {c}
<1> DEFINE both == Append(old, new)
           k    == Len(old) + 1
<1>1. /\ both \in Seq(Segment) /\ DOMAIN old = 1..Len(old) /\ Len(old) \in Nat
      /\ DOMAIN both = 1..(Len(old) + 1)
      /\ \A j \in 1..Len(old) : both[j] = old[j]
      /\ both[k] = new
  BY AppendIs
<1> HIDE DEF both
<1>2. k \in DOMAIN both /\ 1..(k - 1) = 1..Len(old)
  BY <1>1
<1>3. \A j \in 1..(k - 1) : \A w \in both[j].vectors : w.id # c.id
  <2>1. ASSUME NEW j \in 1..Len(old), NEW w \in old[j].vectors
        PROVE  w.id # c.id
    <3>1. w.id < c.id
      BY <1>1, <2>1 DEF Below
    <3>2. QED
      BY <3>1
  <2>2. QED
    BY <1>1, <1>2, <2>1
<1> HIDE DEF k
<1>4. First(both, c, k)
  BY <1>1, <1>2, <1>3 DEF First
<1>5. QED
  BY <1>1, <1>4, FoundAt DEF both

\* Of one segment, what is found is what it has.
LEMMA FoundAlone ==
    ASSUME NEW segment \in Segment, NEW i
    PROVE  Found(<<segment>>, i) = {v \in segment.vectors : v.id = i}
<1> DEFINE one == <<segment>>
<1>1. DOMAIN one = {1} /\ one[1] = segment
  OBVIOUS
<1> HIDE DEF one
<1>2. Found(one, i) = {v \in segment.vectors : v.id = i}
  BY <1>1 DEF Found
<1>3. QED
  BY <1>2 DEF one

LEMMA FoundHas ==
    ASSUME NEW vectors, NEW i, NEW v \in Found(vectors, i)
    PROVE  v.id = i /\ \E k \in DOMAIN vectors : v \in vectors[k].vectors
BY DEF Found

\* Indexed chunks have ids below what bounds the vectors.
LEMMA AnswerableBelow ==
    ASSUME NEW files, NEW vectors, NEW n, Answerable(files, vectors), Below(vectors, n),
           NEW f \in Indexed(files)
    PROVE  files[f].id < n
<1>1. files[f] \in Found(vectors, files[f].id)
  BY DEF Answerable
<1>2. QED
  BY <1>1, FoundHas DEF Below

LEMMA SoundLater ==
    ASSUME NEW files, NEW vectors \in Seq(Segment), NEW n \in Nat, NEW m \in Nat,
           Sound(files, vectors, n), n <= m
    PROVE  Sound(files, vectors, m)
<1>1. \A k \in DOMAIN vectors : \A v \in vectors[k].vectors : v.id \in Nat
  <2>1. \A k \in DOMAIN vectors : vectors[k] \in Segment
    OBVIOUS
  <2>2. QED
    BY <2>1 DEF Segment, Chunk
<1>2. QED
  BY <1>1 DEF Sound, Below

-----------------------------------------------------------------------------
(* What a step that commits nothing leaves as it is.                       *)

\* The committed generation stays on disk.
CommittedKept ==
    payload # 0 => /\ generations'[payload] = generations[payload]
                   /\ \A n \in Segments(generations[payload]) :
                         n \in DOMAIN segments' /\ segments'[n] = segments[n]

LEMMA CommittedStaysSound ==
    ASSUME CommittedSound, UNCHANGED <<docs, payload, published>>, CommittedKept
    PROVE  CommittedSound'
<1>1. CASE payload = 0
  BY <1>1 DEF CommittedSound
<1>2. CASE payload # 0
  <2>1. generations'[payload'] = generations[payload]
    BY <1>2 DEF CommittedKept
  <2>2. Open(generations[payload].vectors)' = Open(generations[payload].vectors)
    <3> DEFINE names == generations[payload].vectors
    <3>1. \A k \in DOMAIN names : segments'[names[k]] = segments[names[k]]
      BY <1>2 DEF CommittedKept, Segments
    <3>2. [k \in DOMAIN names |-> [name |-> names[k], vectors |-> segments'[names[k]]]]
            = [k \in DOMAIN names |-> [name |-> names[k], vectors |-> segments[names[k]]]]
      BY <3>1
    <3>3. QED
      BY <2>1, <3>2 DEF Open
  <2>3. Segments(generations[payload])' = Segments(generations[payload])
    BY <2>1 DEF Segments
  <2>4. PublishedBelow(generations[payload].next)' = PublishedBelow(generations[payload].next)
    BY <2>1 DEF PublishedBelow
  <2>5. QED
    BY <1>2, <2>1, <2>2, <2>3, <2>4 DEF CommittedSound
<1>3. QED
  BY <1>1, <1>2

LEMMA CurrentStays ==
    ASSUME NEW m, Known(m), Current(m), UNCHANGED <<payload, published>>, CommittedKept
    PROVE  Current(m)'
<1>1. SUFFICES ASSUME m.gen = payload
               PROVE  OnDisk(m.vectors)' /\ NamedUpTo(m.vectors, payload) /\ PublishedBelow(m.next)'
  BY DEF Current
<1>2. OnDisk(m.vectors) /\ NamedUpTo(m.vectors, payload) /\ PublishedBelow(m.next)'
  BY <1>1 DEF Current, PublishedBelow
<1>3. OnDisk(m.vectors)'
  <2>1. CASE payload = 0
    BY <1>1, <2>1 DEF Known, OnDisk
  <2>2. CASE payload # 0
    <3>1. Segments(generations[payload]) = Names(m.vectors)
      BY <1>1, <2>2 DEF Known, Describes
    <3>2. \A k \in DOMAIN m.vectors : m.vectors[k].name \in Segments(generations[payload])
      BY <3>1 DEF Names
    <3>3. QED
      BY <1>2, <2>2, <3>2 DEF CommittedKept, OnDisk
  <2>3. QED
    BY <2>1, <2>2
<1>4. QED
  BY <1>2, <1>3

\* A store that does not move is undisturbed, unless it writes and its segments go.
LEMMA OtherStaysSound ==
    ASSUME Inv, NEW t \in Stores, ContentSound(t),
           UNCHANGED <<docs, payload, published>>, CommittedKept,
           pc'[t] = pc[t], store'[t] = store[t], checkpoint'[t] = checkpoint[t],
           work'[t] = work[t],
           InTransaction(t) => UNCHANGED <<minted, generations, segments>>
    PROVE  ContentSound(t)'
<1>1. MemorySound(t)'
  <2>1. Known(store[t]) /\ Current(store[t])
    BY DEF Inv, MemoriesKnown, ContentSound, MemorySound
  <2>2. PICK m : m = store[t]
    OBVIOUS
  <2>3. Current(m)'
    BY <2>1, <2>2, CurrentStays
  <2>4. Current(store[t])'
    BY <2>2, <2>3 DEF Current, OnDisk, NamedUpTo, PublishedBelow
  <2>5. QED
    BY <2>4 DEF ContentSound, MemorySound
<1>2. CheckpointSound(t)' /\ ViewSound(t)'
  BY DEF ContentSound, CheckpointSound, ViewSound, Reloading, At
<1>3. StagedSound(t)'
  BY DEF ContentSound, StagedSound, Uncommitted, InTransaction, TransactionPlaces, Staging,
         PublishedBelow
<1>4. WrittenSound(t)'
  BY DEF ContentSound, WrittenSound, InTransaction, TransactionPlaces, At, OnDisk, PublishedBelow
<1>5. QED
  BY <1>1, <1>2, <1>3, <1>4 DEF ContentSound

\* So a step of s that commits nothing has only to keep s itself sound.
LEMMA StepSound ==
    ASSUME TypeOK, Inv, AllSound, NEW s \in Stores, NEW place, Goto(s, place),
           UNCHANGED <<docs, payload, published>>, CommittedKept,
           \A t \in Stores \ {s} : /\ store'[t] = store[t] /\ checkpoint'[t] = checkpoint[t]
                                   /\ work'[t] = work[t],
           genLock \in {s, Nobody} \/ UNCHANGED <<minted, generations, segments>>,
           ContentSound(s)'
    PROVE  AllSound'
<1>1. \A t \in Stores \ {s} : pc'[t] = pc[t]
  BY TypeParts DEF PlacesTyped, Goto
<1>2. \A t \in Stores \ {s} : InTransaction(t) => UNCHANGED <<minted, generations, segments>>
  BY OthersOutside DEF Inv
<1>3. \A t \in Stores \ {s} : ContentSound(t)'
  BY <1>1, <1>2, OtherStaysSound DEF AllSound
<1>4. CommittedSound'
  BY CommittedStaysSound DEF AllSound
<1>5. QED
  BY <1>3, <1>4 DEF AllSound

-----------------------------------------------------------------------------
(* Memories.                                                               *)

LEMMA MemoryFields ==
    ASSUME NEW m \in Memory
    PROVE  /\ m.gen \in Nat /\ m.files \in Files /\ m.vectors \in Seq(Segment)
           /\ m.next \in Nat /\ m.next \in Ids
BY DEF Memory, Ids

LEMMA PublishedBelowLater ==
    ASSUME CommittedTyped, NEW n \in Nat, NEW m \in Nat, PublishedBelow(n), n <= m
    PROVE  PublishedBelow(m)
<1>1. \A d \in published : d.id \in Nat /\ d.id < n
  BY DEF CommittedTyped, PublishedBelow, Doc
<1>2. QED
  BY <1>1 DEF PublishedBelow

\* Of a memory of the committed generation, the file states are the chunks.
LEMMA KnownDocs ==
    ASSUME CommittedIsLoadable, NEW m, Known(m), m.gen = payload
    PROVE  docs = DocsOf(m.files)
<1>1. CASE payload = 0
  BY <1>1 DEF Known, CommittedIsLoadable, DocsOf, Indexed, NoFiles
<1>2. CASE payload # 0
  BY <1>2 DEF Known, CommittedIsLoadable, Describes
<1>3. QED
  BY <1>1, <1>2

\* What a memory reads from the committed generation is sound.
LEMMA LoadSound ==
    ASSUME TypeOK, CommittedIsLoadable, CommittedSound, NEW m \in Memory, Known(m), Current(m),
           Sound(m.files, m.vectors, m.next)
    PROVE  LET l == Load(m, payload)
           IN /\ l \in Memory /\ l.gen = payload /\ l.view = docs /\ docs = DocsOf(l.files)
              /\ Sound(l.files, l.vectors, l.next) /\ Current(l)
              /\ m.next <= l.next
<1> DEFINE l == Load(m, payload)
<1>1. l \in Memory /\ l.gen = payload /\ Known(l)
  BY LoadType, LoadKnown, TypeParts DEF CommittedIsLoadable
<1>2. docs = DocsOf(l.files)
  BY <1>1, KnownDocs
<1>3. CASE payload = 0
  <2>1. /\ l.files = m.files /\ l.vectors = m.vectors /\ l.next = m.next /\ l.view = docs
        /\ m.gen = payload
    BY <1>3, TypeParts DEF Load, Memory, Known, CommittedTyped
  <2>2. Current(l)
    BY <1>1, <2>1 DEF Current
  <2>3. QED
    BY <1>1, <1>2, <2>1, <2>2, MemoryFields
<1>4. CASE payload # 0
  <2> DEFINE g == generations[payload]
  <2>1. g \in Generation /\ g.vectors \in Seq(Nat) /\ g.next \in Nat /\ m.next \in Nat
    BY <1>4, TypeParts, MemoryFields
       DEF GenerationsTyped, CommittedIsLoadable, Loadable, Generation, Ids
  <2>2. /\ l.files = g.files /\ l.vectors = Open(g.vectors) /\ l.view = docs
        /\ l.next = Larger(m.next, g.next)
    BY <1>4 DEF Load, Memory
  <2>3. l.next \in Nat /\ m.next <= l.next /\ g.next <= l.next
    BY <2>1, <2>2 DEF Larger
  <2>4. Sound(l.files, l.vectors, g.next) /\ l.vectors \in Seq(Segment)
    BY <1>1, <1>4, <2>2, MemoryFields DEF CommittedSound
  <2>5. Sound(l.files, l.vectors, l.next)
    BY <2>1, <2>3, <2>4, SoundLater
  <2>6. PublishedBelow(l.next)
    BY <1>4, <2>1, <2>3, PublishedBelowLater, TypeParts DEF CommittedSound
  <2>7. /\ DOMAIN l.vectors = DOMAIN g.vectors
        /\ \A k \in DOMAIN g.vectors : /\ l.vectors[k].name = g.vectors[k]
                                       /\ l.vectors[k].vectors = segments[g.vectors[k]]
    BY <2>2 DEF Open
  <2> HIDE DEF l
  <2>8. OnDisk(l.vectors)
    <3>1. \A k \in DOMAIN g.vectors : g.vectors[k] \in DOMAIN segments
      BY <1>4 DEF CommittedIsLoadable, Loadable
    <3>2. QED
      BY <2>7, <3>1 DEF OnDisk
  <2>9. NamedUpTo(l.vectors, payload)
    <3>1. \A k \in DOMAIN g.vectors : g.vectors[k] <= 2 * payload + 1
      BY <1>4 DEF CommittedSound, Segments
    <3>2. QED
      BY <2>7, <3>1 DEF NamedUpTo
  <2>10. Current(l)
    BY <2>6, <2>8, <2>9 DEF Current
  <2>11. QED
    BY <1>1, <1>2, <2>2, <2>3, <2>5, <2>10 DEF l
<1>5. QED
  BY <1>3, <1>4

\* and stays so when ids that were reserved meanwhile are left out.
LEMMA RaisedSound ==
    ASSUME TypeOK, NEW l \in Memory, NEW m, Sound(l.files, l.vectors, l.next), Current(l),
           m.gen = l.gen, m.files = l.files, m.vectors = l.vectors,
           m.next \in Nat, l.next <= m.next
    PROVE  Sound(m.files, m.vectors, m.next) /\ Current(m)
<1>1. Sound(m.files, m.vectors, m.next)
  BY MemoryFields, SoundLater
<1>2. PublishedBelow(l.next) => PublishedBelow(m.next)
  BY MemoryFields, PublishedBelowLater, TypeParts
<1>3. QED
  BY <1>1, <1>2 DEF Current

\* Current' of a store, from what it is now.
LEMMA StoreCurrent ==
    ASSUME NEW s \in Stores, Current(store'[s]), Known(store'[s]), CommittedKept,
           UNCHANGED <<payload, published>>,
           Sound(store'[s].files, store'[s].vectors, store'[s].next)
    PROVE  MemorySound(s)'
<1>1. PICK m : m = store'[s]
  OBVIOUS
<1>2. Current(m)'
  BY <1>1, CurrentStays
<1>3. Current(store[s])'
  BY <1>1, <1>2 DEF Current, OnDisk, NamedUpTo, PublishedBelow
<1>4. QED
  BY <1>3 DEF MemorySound

\* A store that answers from what it answered from.
LEMMA UnchangedSound ==
    ASSUME Inv, NEW s \in Stores, ContentSound(s), UNCHANGED <<docs, payload, published>>,
           CommittedKept, store'[s] = store[s], checkpoint'[s] = checkpoint[s],
           pc[s] # "reader", pc'[s] # "reader"
    PROVE  MemorySound(s)' /\ CheckpointSound(s)' /\ ViewSound(s)'
<1>1. MemorySound(s)'
  <2>1. Known(store'[s]) /\ Current(store'[s])
        /\ Sound(store'[s].files, store'[s].vectors, store'[s].next)
    BY DEF Inv, MemoriesKnown, ContentSound, MemorySound
  <2>2. QED
    BY <2>1, StoreCurrent
<1>2. CheckpointSound(s)' /\ ViewSound(s)'
  BY DEF ContentSound, CheckpointSound, ViewSound, Reloading, At
<1>3. QED
  BY <1>1, <1>2

LEMMA ReloadSound ==
    ASSUME TypeOK, Inv, NEW s \in Stores, ContentSound(s), UNCHANGED <<docs, payload, published>>,
           CommittedKept, GiveUpReload(s) \/ KeepReload(s), pc[s] # "reader", pc'[s] # "reader"
    PROVE  MemorySound(s)' /\ CheckpointSound(s)' /\ ViewSound(s)'
<1>0. store[s] \in Memory /\ store \in [Stores -> Memory] /\ s \in DOMAIN checkpoint
  BY TypeParts DEF MemoriesTyped
<1>1. checkpoint'[s] = Nobody
  BY <1>0 DEF GiveUpReload, KeepReload
<1>2. CheckpointSound(s)'
  BY <1>1 DEF CheckpointSound, Reloading
<1>3. CASE store'[s] = store[s]
  <2>1. Known(store'[s]) /\ Current(store'[s])
        /\ Sound(store'[s].files, store'[s].vectors, store'[s].next)
    BY <1>3 DEF Inv, MemoriesKnown, ContentSound, MemorySound
  <2>2. ViewSound(s)'
    BY <1>1, <1>3 DEF ContentSound, ViewSound, Reloading, At
  <2>3. QED
    BY <1>2, <2>1, <2>2, StoreCurrent
<1>4. CASE Reloading(s) /\ store'[s] = Restored(s)
  <2> DEFINE c == checkpoint[s]
  <2>1. c \in Memory
    BY <1>4, TypeParts DEF MemoriesTyped, Reloading
  <2>2. /\ store'[s].gen = c.gen /\ store'[s].files = c.files /\ store'[s].vectors = c.vectors
        /\ store'[s].view = c.view /\ store'[s].next = store[s].next
    BY <1>4, <2>1 DEF Restored, Memory
  <2>3. /\ Sound(c.files, c.vectors, c.next) /\ c.gen < payload /\ c.next <= store[s].next
        /\ c.view = DocsOf(c.files)
    BY <1>4 DEF ContentSound, CheckpointSound, ViewSound
  <2>4. Sound(store'[s].files, store'[s].vectors, store'[s].next)
    BY <1>0, <2>1, <2>2, <2>3, MemoryFields, SoundLater
  <2>5. store'[s].gen # payload
    BY <2>1, <2>2, <2>3, TypeParts, MemoryFields DEF CommittedTyped
  <2>6. MemorySound(s)'
    BY <2>4, <2>5 DEF MemorySound, Current
  <2>7. ViewSound(s)'
    BY <1>1, <2>2, <2>3 DEF ViewSound, Reloading, At
  <2>8. QED
    BY <1>2, <2>6, <2>7
<1>5. QED
  BY <1>0, <1>3, <1>4 DEF GiveUpReload, KeepReload

-----------------------------------------------------------------------------
(* Steps outside a publication.                                            *)

LEMMA UntouchedKept ==
    ASSUME CommittedIsLoadable, UNCHANGED <<generations, segments>>
    PROVE  CommittedKept
BY DEF CommittedIsLoadable, Loadable, CommittedKept, Segments

LEMMA CollectedKept ==
    ASSUME CommittedIsLoadable, NEW m, Known(m), m.gen = payload, CollectObsolete(m.gen, m.vectors)
    PROVE  CommittedKept
<1>1. SUFFICES ASSUME payload # 0
               PROVE  /\ generations'[payload] = generations[payload]
                      /\ \A n \in Segments(generations[payload]) :
                            n \in DOMAIN segments' /\ segments'[n] = segments[n]
  BY DEF CommittedKept
<1>2. payload \in DOMAIN generations /\ Segments(generations[payload]) \subseteq DOMAIN segments
  BY <1>1 DEF CommittedIsLoadable, Loadable, Segments
<1>3. Segments(generations[payload]) = Names(m.vectors)
  BY <1>1 DEF Known, Describes
<1>4. QED
  BY <1>2, <1>3 DEF CollectObsolete

LEMMA QuietSound ==
    ASSUME TypeOK, Inv, AllSound, NEW s \in Stores, NEW place, Goto(s, place),
           UNCHANGED <<docs, payload, published>>, CommittedKept,
           \A t \in Stores \ {s} : /\ store'[t] = store[t] /\ checkpoint'[t] = checkpoint[t]
                                   /\ work'[t] = work[t],
           genLock \in {s, Nobody} \/ UNCHANGED <<minted, generations, segments>>,
           place \notin {"staging", "publishing", "vectors", "prepared", "committed"},
           MemorySound(s)' /\ CheckpointSound(s)' /\ ViewSound(s)'
    PROVE  AllSound'
<1>1. pc'[s] = place
  BY TypeParts DEF PlacesTyped, Goto
<1>2. StagedSound(s)' /\ WrittenSound(s)'
  BY <1>1 DEF StagedSound, WrittenSound, Uncommitted
<1>3. ContentSound(s)'
  BY <1>2 DEF ContentSound
<1>4. QED
  BY <1>3, StepSound

LEMMA Variables ==
    ASSUME TypeOK
    PROVE  /\ store \in [Stores -> Memory] /\ checkpoint \in [Stores -> Memory \cup {Nobody}]
           /\ work \in [Stores -> Work] /\ pc \in [Stores -> Places]
BY TypeParts DEF MemoriesTyped, WorkTyped, PlacesTyped

\* Memories change for s alone.
LEMMA OneStore ==
    ASSUME TypeOK, NEW s \in Stores
    PROVE  /\ \A m : store' = [store EXCEPT ![s] = m] =>
                        store'[s] = m /\ \A t \in Stores \ {s} : store'[t] = store[t]
           /\ \A m : checkpoint' = [checkpoint EXCEPT ![s] = m] =>
                        /\ checkpoint'[s] = m
                        /\ \A t \in Stores \ {s} : checkpoint'[t] = checkpoint[t]
           /\ \A m : work' = [work EXCEPT ![s] = m] =>
                        work'[s] = m /\ \A t \in Stores \ {s} : work'[t] = work[t]
           /\ \A place : Goto(s, place) => pc'[s] = place
BY TypeParts DEF MemoriesTyped, WorkTyped, PlacesTyped, Goto

\* A store that reads the committed generation and leaves out ids reserved by now.
LEMMA ReadSound ==
    ASSUME TypeOK, Inv, AllSound, NEW s \in Stores, NEW m \in Memory, m = store'[s],
           UNCHANGED <<docs, payload, published>>, CommittedKept,
           m.gen = Load(store[s], payload).gen, m.files = Load(store[s], payload).files,
           m.vectors = Load(store[s], payload).vectors, Load(store[s], payload).next <= m.next
    PROVE  /\ MemorySound(s)' /\ store[s].next <= m.next
           /\ docs = DocsOf(m.files)
<1> DEFINE l == Load(store[s], payload)
<1>1. store[s] \in Memory /\ Known(store[s]) /\ CommittedIsLoadable /\ CommittedSound
      /\ Current(store[s]) /\ Sound(store[s].files, store[s].vectors, store[s].next)
  BY TypeParts DEF MemoriesTyped, Inv, MemoriesKnown, AllSound, ContentSound, MemorySound
<1>2. /\ l \in Memory /\ docs = DocsOf(l.files)
      /\ Sound(l.files, l.vectors, l.next) /\ Current(l) /\ store[s].next <= l.next
  BY <1>1, LoadSound
<1>3. Known(l)
  BY <1>1, LoadKnown DEF CommittedIsLoadable
<1> HIDE DEF l
<1>4. m.gen = l.gen /\ m.files = l.files /\ m.vectors = l.vectors /\ l.next <= m.next
  BY DEF l
<1>5. m.next \in Nat /\ l.next \in Nat /\ store[s].next \in Nat
  BY <1>1, <1>2, MemoryFields
<1>6. Sound(m.files, m.vectors, m.next) /\ Current(m)
  BY <1>2, <1>4, <1>5, RaisedSound
<1>7. Known(m)
  BY <1>3, <1>4, KnownSame
<1>8. MemorySound(s)'
  BY <1>6, <1>7, StoreCurrent
<1>9. QED
  BY <1>2, <1>4, <1>5, <1>8

LEMMA OpeningSound ==
    ASSUME TypeOK, Inv, AllSound, NEW s \in Stores, Opening(s)
    PROVE  AllSound'
<1>0. ContentSound(s) /\ CommittedIsLoadable /\ CollectorsCurrent /\ Known(store[s])
  BY DEF AllSound, Inv, MemoriesKnown
<1>u. UNCHANGED <<generations, segments>> => CommittedKept
  BY <1>0, UntouchedKept
<1> USE DEF disk, locks, At
<1>1. CASE RequestOpen(s)
  <2>1. Goto(s, "opening") /\ CommittedKept
    BY <1>u, <1>1 DEF RequestOpen
  <2>2. MemorySound(s)' /\ CheckpointSound(s)' /\ ViewSound(s)'
    BY <1>0, <1>1, <2>1, UnchangedSound, OneStore DEF RequestOpen
  <2>3. QED
    BY <1>1, <2>1, <2>2, QuietSound DEF RequestOpen
<1>2. CASE LockToOpen(s)
  <2>1. Goto(s, "reading") /\ CommittedKept
    BY <1>u, <1>2 DEF LockToOpen
  <2>2. MemorySound(s)' /\ CheckpointSound(s)' /\ ViewSound(s)'
    BY <1>0, <1>2, <2>1, UnchangedSound, OneStore DEF LockToOpen
  <2>3. QED
    BY <1>2, <2>1, <2>2, QuietSound DEF LockToOpen
<1>3. CASE OpenReader(s)
  <2>1. Goto(s, "reader") /\ CommittedKept /\ UNCHANGED <<docs, payload, published>>
    BY <1>u, <1>3 DEF OpenReader
  <2>2. store[s] \in Memory /\ store' = [store EXCEPT ![s] = [store[s] EXCEPT !.view = docs]]
    BY <1>3, TypeParts DEF OpenReader, MemoriesTyped
  <2>3. /\ store'[s] = [store[s] EXCEPT !.view = docs]
        /\ \A t \in Stores \ {s} : store'[t] = store[t]
        /\ pc'[s] = "reader"
    BY <2>1, <2>2, Variables, OneStore
  <2>4. /\ store'[s].gen = store[s].gen /\ store'[s].files = store[s].files
        /\ store'[s].vectors = store[s].vectors /\ store'[s].next = store[s].next
        /\ store'[s].view = docs
    BY <2>2, <2>3 DEF Memory
  <2>5. Known(store'[s])
    BY <1>0, <2>4, KnownSame
  <2>6. Current(store'[s]) /\ Sound(store'[s].files, store'[s].vectors, store'[s].next)
    BY <1>0, <2>4 DEF ContentSound, MemorySound, Current
  <2>7. MemorySound(s)'
    BY <2>1, <2>5, <2>6, StoreCurrent
  <2>8. CheckpointSound(s)' /\ ViewSound(s)'
    BY <1>0, <1>3, <2>1, <2>3, <2>4
       DEF OpenReader, ContentSound, CheckpointSound, ViewSound, Reloading
  <2>9. QED
    BY <1>3, <2>1, <2>3, <2>7, <2>8, QuietSound DEF OpenReader
<1>4. CASE OpenGeneration(s)
  <2> DEFINE l == Load(store[s], payload)
             m == store'[s]
             next == Larger([l EXCEPT !.view = store[s].view].next, reserved)
  <2>1. Goto(s, "opened") /\ CommittedKept /\ UNCHANGED <<docs, payload, published>>
    BY <1>u, <1>4 DEF OpenGeneration
  <2>2. l \in Memory /\ l.next \in Nat /\ store[s] \in Memory /\ reserved \in Nat
    BY <1>4, LoadType, TypeParts, MemoryFields DEF OpenGeneration, MemoriesTyped, CountersTyped, Ids
  <2>3. store' = [store EXCEPT ![s] = [[l EXCEPT !.view = store[s].view]
                                          EXCEPT !.next = next, !.end = next]]
    BY <1>4 DEF OpenGeneration
  <2> HIDE DEF l
  <2>4. next \in Nat /\ l.next <= next
    BY <2>2 DEF Larger, Memory
  <2> HIDE DEF next
  <2>5. m = [[l EXCEPT !.view = store[s].view] EXCEPT !.next = next, !.end = next]
    BY <2>3, OneStore
  <2>6. /\ m.gen = l.gen /\ m.files = l.files /\ m.vectors = l.vectors /\ m.next = next
        /\ m.view = store[s].view
    BY <2>2, <2>5 DEF Memory
  <2>7. m \in Memory
    <3>1. TypeOK'
      BY OpeningTypes
    <3>2. QED
      BY <3>1, NextTypeParts DEF MemoriesTyped
  <2>8. /\ MemorySound(s)' /\ store[s].next <= m.next
        /\ docs = DocsOf(m.files)
    BY <2>1, <2>4, <2>6, <2>7, ReadSound DEF l
  <2>9. store[s].view = docs /\ pc'[s] = "opened"
    BY <1>0, <1>4, <2>1, OneStore DEF OpenGeneration, ContentSound, ViewSound
  <2>10. ViewSound(s)'
    BY <1>0, <1>4, <2>6, <2>8, <2>9 DEF OpenGeneration, ContentSound, ViewSound, Reloading
  <2>11. CheckpointSound(s)'
    <3>1. Reloading(s) => checkpoint[s].next \in Nat
      BY TypeParts, MemoryFields DEF Reloading, MemoriesTyped
    <3>2. store[s].next \in Nat /\ m.next \in Nat
      BY <2>2, <2>7, MemoryFields
    <3>3. QED
      BY <1>0, <1>4, <2>8, <3>1, <3>2
         DEF OpenGeneration, ContentSound, CheckpointSound, Reloading
  <2>12. \A t \in Stores \ {s} : store'[t] = store[t]
    BY <2>3, OneStore
  <2>13. QED
    BY <1>4, <2>1, <2>8, <2>10, <2>11, <2>12, QuietSound DEF OpenGeneration
<1>5. CASE CollectOnOpen(s)
  <2>1. Goto(s, "idle") /\ UNCHANGED <<docs, payload, published, store, checkpoint, work, minted>>
    BY <1>5 DEF CollectOnOpen, FinishOpen
  <2>2. CommittedKept /\ (genLock \in {s, Nobody} \/ UNCHANGED <<minted, generations, segments>>)
    <3>1. store[s].gen = payload
      BY <1>0, <1>5 DEF CollectOnOpen, CollectorsCurrent, UpToDate
    <3>2. CollectObsolete(store[s].gen, store[s].vectors) => CommittedKept
      BY <1>0, <3>1, CollectedKept
    <3>3. QED
      BY <1>u, <1>5, <2>1, <3>2 DEF CollectOnOpen
  <2>3. MemorySound(s)' /\ CheckpointSound(s)' /\ ViewSound(s)'
    BY <1>0, <1>5, <2>1, <2>2, UnchangedSound, OneStore DEF CollectOnOpen
  <2>4. QED
    BY <2>1, <2>2, <2>3, QuietSound
<1>6. QED
  BY <1>1, <1>2, <1>3, <1>4, <1>5 DEF Opening

\* Requests, refusals, reloads and crashes.
LEMMA ReloadingSound ==
    ASSUME TypeOK, Inv, AllSound, NEW s \in Stores,
           \/ RequestTransaction(s) \/ RefuseStale(s)
           \/ Refresh(s) \/ Settle(s) \/ RefuseSettings(s) \/ Crash(s)
    PROVE  AllSound'
<1>0. ContentSound(s) /\ CommittedIsLoadable /\ Known(store[s])
  BY DEF AllSound, Inv, MemoriesKnown
<1>k. CommittedKept /\ UNCHANGED <<docs, payload, published, minted, generations, segments>>
  BY <1>0, UntouchedKept
     DEF RequestTransaction, RefuseStale, Refresh, Settle, RefuseSettings, Crash, disk
<1> USE DEF disk, locks, At
<1>1. CASE RequestTransaction(s)
  <2>1. MemorySound(s)' /\ CheckpointSound(s)' /\ ViewSound(s)'
    BY <1>0, <1>1, <1>k, UnchangedSound, OneStore DEF RequestTransaction
  <2>2. QED
    BY <1>1, <1>k, <2>1, QuietSound DEF RequestTransaction
<1>2. CASE RefuseStale(s) \/ RefuseSettings(s) \/ Settle(s)
  <2>1. /\ Goto(s, "idle") /\ (GiveUpReload(s) \/ KeepReload(s)) /\ work' = work
        /\ pc[s] # "reader" /\ pc'[s] # "reader"
    BY <1>2, OneStore DEF RefuseStale, RefuseSettings, Settle
  <2>2. MemorySound(s)' /\ CheckpointSound(s)' /\ ViewSound(s)'
    BY <1>0, <1>k, <2>1, ReloadSound
  <2>3. \A t \in Stores \ {s} : store'[t] = store[t] /\ checkpoint'[t] = checkpoint[t]
    BY <2>1, ReloadKnown
  <2>4. QED
    BY <1>k, <2>1, <2>2, <2>3, QuietSound
<1>3. CASE Refresh(s)
  <2> DEFINE l == Load(store[s], payload)
             m == store'[s]
             next == Larger(l.next, reserved)
  <2>1. Goto(s, "refreshed") /\ UNCHANGED <<docs, payload, published>> /\ work' = work
    BY <1>3 DEF Refresh
  <2>2. l \in Memory /\ l.next \in Nat /\ store[s] \in Memory /\ reserved \in Nat
    BY <1>3, LoadType, TypeParts, MemoryFields DEF Refresh, MemoriesTyped, CountersTyped, Ids
  <2>3. store' = [store EXCEPT ![s] = [l EXCEPT !.next = next, !.end = next]]
    BY <1>3 DEF Refresh
  <2>f. l.view = docs
    BY <2>2 DEF Load, Memory
  <2> HIDE DEF l
  <2>4. next \in Nat /\ l.next <= next
    BY <2>2 DEF Larger, Memory
  <2> HIDE DEF next
  <2>5. m = [l EXCEPT !.next = next, !.end = next]
    BY <2>3, Variables
  <2>6. /\ m.gen = l.gen /\ m.files = l.files /\ m.vectors = l.vectors /\ m.next = next
        /\ m.view = docs
    BY <2>2, <2>5, <2>f DEF Memory
  <2>7. m \in Memory
    <3>1. TypeOK'
      BY <1>3, StartTypes
    <3>2. QED
      BY <3>1, NextTypeParts DEF MemoriesTyped
  <2>8. /\ MemorySound(s)' /\ store[s].next <= m.next
        /\ docs = DocsOf(m.files)
    BY <1>k, <2>1, <2>4, <2>6, <2>7, ReadSound DEF l
  <2>9. pc[s] = "idle" /\ pc'[s] = "refreshed" /\ checkpoint'[s] = store[s]
        /\ \A t \in Stores \ {s} : store'[t] = store[t] /\ checkpoint'[t] = checkpoint[t]
    BY <1>3, <2>1, <2>3, Variables, OneStore DEF Refresh
  <2>10. ViewSound(s)'
    BY <1>0, <2>6, <2>8, <2>9 DEF ContentSound, ViewSound
  <2>11. CheckpointSound(s)'
    <3>1. store[s].gen < payload
      BY <1>0, <1>3, <2>2, TypeParts, MemoryFields DEF Known, Refresh, CommittedTyped
    <3>2. QED
      BY <1>0, <1>k, <2>8, <2>9, <3>1 DEF ContentSound, CheckpointSound, MemorySound
  <2>12. QED
    BY <1>3, <1>k, <2>1, <2>8, <2>9, <2>10, <2>11, QuietSound DEF Refresh
<1>4. CASE Crash(s)
  <2>1. /\ Goto(s, "closed") /\ store'[s] = Closed /\ checkpoint'[s] = Nobody
        /\ \A t \in Stores \ {s} : /\ store'[t] = store[t] /\ checkpoint'[t] = checkpoint[t]
                                   /\ work'[t] = work[t]
        /\ pc'[s] = "closed"
    BY <1>4, Variables, OneStore DEF Crash
  <2>2. DocsOf(NoFiles) = {} /\ Indexed(NoFiles) = {}
    BY DEF DocsOf, Indexed, NoFiles
  <2>3. /\ Closed.files = NoFiles /\ Closed.vectors = <<>> /\ Closed.view = {}
        /\ Closed.gen = 0
    BY DEF Closed
  <2>4. Sound(NoFiles, <<>>, Closed.next)
    BY <2>2 DEF Sound, Answerable, UniqueIds, Below
  <2>5. Current(Closed)
    <3>1. payload = 0 => published = {}
      BY DEF AllSound, CommittedSound
    <3>2. QED
      BY <2>3, <3>1 DEF Current, OnDisk, NamedUpTo, PublishedBelow
  <2>6. MemorySound(s)'
    BY <1>k, <2>1, <2>3, <2>4, <2>5, ClosedKnown, StoreCurrent
  <2>7. CheckpointSound(s)' /\ ViewSound(s)'
    BY <2>1, <2>2, <2>3 DEF CheckpointSound, ViewSound, Reloading
  <2>8. QED
    BY <1>k, <2>1, <2>6, <2>7, QuietSound
<1>5. QED
  BY <1>1, <1>2, <1>3, <1>4

LEMMA FailingSound ==
    ASSUME TypeOK, Inv, AllSound, NEW s \in Stores,
           \/ StepFails(s) \/ IdsExhausted(s) \/ MirrorState(s)
           \/ Rollback(s) \/ Recover(s) \/ RecoverUnmirrored(s) \/ RecoveryFails(s)
    PROVE  AllSound'
<1>0. ContentSound(s) /\ CommittedIsLoadable /\ Known(store[s])
  BY DEF AllSound, Inv, MemoriesKnown
<1> USE DEF disk, locks, At
<1>k. CommittedKept /\ UNCHANGED <<docs, payload, published, minted, generations, segments>>
  BY <1>0, UntouchedKept
     DEF StepFails, Fail, IdsExhausted, MirrorState, Rollback, Recover, RecoverUnmirrored,
         RecoveryFails
<1>1. CASE ~ Recover(s) /\ ~ RecoverUnmirrored(s)
  <2>1. PICK place \in {"failed", "ending", "undone", "unrecovered"} : Goto(s, place)
    BY <1>1 DEF StepFails, Fail, IdsExhausted, MirrorState, Rollback, RecoveryFails
  <2>2. UNCHANGED <<store, checkpoint, work>> /\ pc[s] # "reader"
    BY <1>1 DEF StepFails, Fail, IdsExhausted, MirrorState, Rollback, RecoveryFails
  <2>3. MemorySound(s)' /\ CheckpointSound(s)' /\ ViewSound(s)'
    BY <1>0, <1>k, <2>1, <2>2, UnchangedSound, OneStore
  <2>4. QED
    BY <1>k, <2>1, <2>2, <2>3, QuietSound
<1>2. CASE Recover(s) \/ RecoverUnmirrored(s)
  <2> DEFINE m == store'[s]
  <2>1. PICK place \in {"ending", "unmirrored"} : Goto(s, place)
    BY <1>2 DEF Recover, RecoverUnmirrored
  <2>2. /\ store' = [store EXCEPT ![s] = Load(store[s], payload)]
        /\ UNCHANGED <<checkpoint, work>> /\ pc[s] # "reader"
    BY <1>2 DEF Recover, RecoverUnmirrored
  <2>3. /\ m = Load(store[s], payload)
        /\ \A t \in Stores \ {s} : store'[t] = store[t]
        /\ pc'[s] # "reader"
    BY <2>1, <2>2, OneStore
  <2>4. store[s] \in Memory /\ m \in Memory
    BY <1>2, <2>3, LoadType, TypeParts DEF MemoriesTyped, Recover, RecoverUnmirrored
  <2>5. m.next <= m.next /\ m.view = docs
    <3>1. \A i \in Nat : i <= i
      OBVIOUS
    <3>2. Load(store[s], payload).view = docs
      BY <2>4 DEF Load, Memory
    <3>3. QED
      BY <2>3, <2>4, <3>1, <3>2, MemoryFields
  <2>6. MemorySound(s)' /\ store[s].next <= m.next /\ docs = DocsOf(m.files)
    BY <1>k, <2>3, <2>4, <2>5, ReadSound
  <2>7. ViewSound(s)'
    BY <1>0, <2>2, <2>3, <2>5, <2>6 DEF ContentSound, ViewSound, Reloading
  <2>8. CheckpointSound(s)'
    <3>1. Reloading(s) => checkpoint[s].next \in Nat
      BY TypeParts, MemoryFields DEF Reloading, MemoriesTyped
    <3>2. store[s].next \in Nat /\ m.next \in Nat
      BY <2>4, MemoryFields
    <3>3. QED
      BY <1>0, <1>k, <2>2, <2>6, <3>1, <3>2 DEF ContentSound, CheckpointSound, Reloading
  <2>9. QED
    BY <1>k, <2>1, <2>2, <2>3, <2>6, <2>7, <2>8, QuietSound
<1>3. QED
  BY <1>1, <1>2

LEMMA EndSound ==
    ASSUME TypeOK, Inv, AllSound, NEW s \in Stores, End(s)
    PROVE  AllSound'
<1>0. ContentSound(s) /\ CommittedIsLoadable /\ Known(store[s]) /\ genLock = s
  BY DEF AllSound, Inv, MemoriesKnown, LocksHeld, InTransaction, TransactionPlaces, End
<1>1. /\ Goto(s, "idle") /\ UNCHANGED <<docs, payload, published>>
      /\ GiveUpReload(s) \/ KeepReload(s)
      /\ pc[s] # "reader"
  BY DEF End
<1>2. CommittedKept
  <2>1. Collects(s) => store[s].gen = payload
    BY DEF End, Collects, Inv, CollectorsCurrent, UpToDate
  <2>2. QED
    BY <1>0, <2>1, CollectedKept, UntouchedKept DEF End
<1>3. /\ \A t \in Stores \ {s} : store'[t] = store[t] /\ checkpoint'[t] = checkpoint[t]
      /\ \A t \in Stores \ {s} : work'[t] = work[t]
      /\ pc'[s] = "idle"
  BY <1>1, ReloadKnown, OneStore DEF End
<1>4. MemorySound(s)' /\ CheckpointSound(s)' /\ ViewSound(s)'
  BY <1>0, <1>1, <1>2, <1>3, ReloadSound
<1>5. QED
  BY <1>0, <1>1, <1>2, <1>3, <1>4, QuietSound

-----------------------------------------------------------------------------
(* The steps of a transaction up to its commit.                            *)

LEMMA WriterHas ==
    ASSUME TypeOK, Inv, AllSound, NEW s \in Stores, Uncommitted(s)
    PROVE  /\ genLock = s /\ payload \in Nat /\ minted \in Nat /\ payload < minted
           /\ store[s].gen = payload /\ store[s].next \in Nat /\ Known(store[s])
           /\ store[s].vectors \in Seq(Segment) /\ docs = DocsOf(store[s].files)
           /\ OnDisk(store[s].vectors) /\ NamedUpTo(store[s].vectors, payload)
           /\ PublishedBelow(store[s].next)
           /\ Sound(store[s].files, store[s].vectors, store[s].next)
           /\ StagedSound(s) /\ ContentSound(s)
           /\ work[s] \in Work /\ work[s].staged \subseteq Chunk /\ work[s].files \in Files
<1>1. genLock = s /\ payload < minted /\ store[s].gen = payload /\ Known(store[s])
  BY WriterFacts
<1>2. payload \in Nat /\ minted \in Nat /\ store[s] \in Memory /\ work[s] \in Work
  BY TypeParts, Variables DEF CommittedTyped, CountersTyped
<1>3. docs = DocsOf(store[s].files)
  BY <1>1, KnownDocs DEF Inv
<1>4. ContentSound(s) /\ MemorySound(s) /\ StagedSound(s)
  BY DEF AllSound, ContentSound
<1>5. QED
  BY <1>1, <1>2, <1>3, <1>4, MemoryFields DEF MemorySound, Current, Work

\* What a transaction writes has names above those of the committed generation.
LEMMA BesideKept ==
    ASSUME TypeOK, CommittedIsLoadable, CommittedSound, payload \in Nat, minted \in Nat,
           payload < minted,
           payload # 0 => generations'[payload] = generations[payload],
           \A n \in DOMAIN segments :
              n < 2 * minted => n \in DOMAIN segments' /\ segments'[n] = segments[n]
    PROVE  CommittedKept
<1>1. ASSUME payload # 0, NEW n \in Segments(generations[payload])
      PROVE  n \in DOMAIN segments' /\ segments'[n] = segments[n]
  <2>1. n \in DOMAIN segments /\ n <= 2 * payload + 1 /\ n \in Nat
    BY <1>1, TypeParts DEF CommittedIsLoadable, Loadable, CommittedSound, Segments, SegmentsTyped
  <2>2. n < 2 * minted
    BY <2>1
  <2>3. QED
    BY <2>1, <2>2
<1>2. QED
  BY <1>1 DEF CommittedKept

LEMMA BeginSound ==
    ASSUME TypeOK, Inv, AllSound, NEW s \in Stores, Begin(s)
    PROVE  AllSound'
<1>0. ContentSound(s) /\ MemorySound(s) /\ CommittedIsLoadable
  BY DEF AllSound, ContentSound, Inv
<1>1. /\ Goto(s, "staging") /\ pc[s] = "waiting" /\ pc'[s] = "staging" /\ genLock = Nobody
      /\ UNCHANGED <<docs, payload, published, store, checkpoint, generations, segments>>
      /\ work' = [work EXCEPT ![s] = [NoWork EXCEPT !.files = store[s].files, !.docs = docs]]
  BY OneStore DEF Begin, Enter, At
<1>2. CommittedKept
  BY <1>0, <1>1, UntouchedKept
<1>3. MemorySound(s)' /\ CheckpointSound(s)' /\ ViewSound(s)'
  BY <1>0, <1>1, <1>2, UnchangedSound
<1>4. /\ work'[s].files = store[s].files /\ work'[s].staged = {}
      /\ \A t \in Stores \ {s} : work'[t] = work[t]
  BY <1>1, Variables DEF NoWork
<1>5. StagedSound(s)'
  BY <1>0, <1>1, <1>4 DEF StagedSound, MemorySound, Sound
<1>6. WrittenSound(s)'
  BY <1>1 DEF WrittenSound
<1>7. ContentSound(s)'
  BY <1>3, <1>5, <1>6 DEF ContentSound
<1>8. QED
  BY <1>1, <1>2, <1>4, <1>7, StepSound

LEMMA RemoveSound ==
    ASSUME TypeOK, Inv, AllSound, NEW s \in Stores, NEW f \in Sources, RemoveFile(s, f)
    PROVE  AllSound'
<1>1. /\ pc[s] = "staging" /\ Uncommitted(s)
      /\ UNCHANGED <<docs, payload, published, store, checkpoint, generations, segments, minted, pc>>
      /\ work' = [work EXCEPT ![s].files[f] = NoFile, ![s].docs = Without(@, f)]
  BY DEF RemoveFile, At, Uncommitted, disk, locks
<1>2. Goto(s, "staging")
  BY <1>1, Variables DEF Goto
<1>3. CommittedKept
  BY <1>1, UntouchedKept DEF Inv
<1>4. StagedSound(s) /\ ContentSound(s) /\ work[s].files \in Files
  BY <1>1, WriterHas
<1>5. MemorySound(s)' /\ CheckpointSound(s)' /\ ViewSound(s)'
  BY <1>1, <1>3, <1>4, UnchangedSound
<1>6. /\ work'[s].files = [work[s].files EXCEPT ![f] = NoFile]
      /\ work'[s].staged = work[s].staged
      /\ \A t \in Stores \ {s} : work'[t] = work[t]
  BY <1>1, Variables DEF Work
<1>7. Indexed(work'[s].files) \subseteq Indexed(work[s].files)
      /\ \A g \in Indexed(work'[s].files) : work'[s].files[g] = work[s].files[g]
  BY <1>4, <1>6 DEF Indexed, Files
<1>8. StagedSound(s)'
  BY <1>1, <1>4, <1>6, <1>7
     DEF StagedSound, Uncommitted, UniqueIds, PublishedBelow, Staging
<1>9. WrittenSound(s)'
  BY <1>1 DEF WrittenSound
<1>10. ContentSound(s)'
  BY <1>5, <1>8, <1>9 DEF ContentSound
<1>11. QED
  BY <1>1, <1>2, <1>3, <1>6, <1>10, StepSound

LEMMA IndexSound ==
    ASSUME TypeOK, Inv, AllSound, NEW s \in Stores, NEW f \in Sources, NEW c \in Contents,
           IndexFile(s, f, c)
    PROVE  AllSound'
<1> DEFINE n     == store[s].next
           chunk == [id |-> n, content |-> c]
           old   == work[s]
           new   == work'[s]
<1>1. /\ pc[s] = "staging" /\ Uncommitted(s) /\ Allocate(s)
      /\ UNCHANGED <<docs, payload, published, checkpoint, generations, minted, pc>>
  BY DEF IndexFile, At, Uncommitted, locks
<1>2. Goto(s, "staging")
  BY <1>1, Variables DEF Goto
<1>h. /\ genLock = s /\ payload \in Nat /\ minted \in Nat /\ payload < minted /\ n \in Nat
      /\ store[s].vectors \in Seq(Segment)
      /\ PublishedBelow(n) /\ Sound(store[s].files, store[s].vectors, n)
      /\ StagedSound(s) /\ ContentSound(s) /\ old \in Work
      /\ old.staged \subseteq Chunk /\ old.files \in Files
  BY <1>1, WriterHas
<1>3. /\ store'[s].gen = store[s].gen /\ store'[s].files = store[s].files
      /\ store'[s].vectors = store[s].vectors /\ store'[s].view = store[s].view
      /\ store'[s].next = n + 1
      /\ \A t \in Stores \ {s} : store'[t] = store[t]
  BY <1>1, Variables DEF Allocate, Memory
<1>4. /\ new.files = [old.files EXCEPT ![f] = chunk]
      /\ new.staged = old.staged \cup {chunk}
      /\ \A t \in Stores \ {s} : work'[t] = work[t]
  BY <1>h, Variables DEF IndexFile, Work
<1>5. /\ DOMAIN segments' = DOMAIN segments \cup {Staging}
      /\ segments'[Staging] = new.staged
      /\ \A k \in DOMAIN segments : k # Staging => segments'[k] = segments[k]
  BY DEF IndexFile
<1>c. chunk.id = n /\ n \in 1..MaxId
  BY <1>1, TypeParts, AllocateType
<1> HIDE DEF n, chunk, old, new
<1>6. CommittedKept
  <2>1. \A k \in DOMAIN segments : k < 2 * minted => k # Staging
    BY <1>h DEF Staging
  <2>2. QED
    BY <1>1, <1>5, <1>h, <2>1, BesideKept DEF Inv, AllSound
<1>7. MemorySound(s)' /\ CheckpointSound(s)' /\ ViewSound(s)'
  <2>1. Known(store'[s])
    BY <1>3, KnownSame DEF Inv, MemoriesKnown
  <2>2. store[s] \in Memory /\ Current(store[s]) /\ store[s].next = n
    BY <1>h, Variables DEF n, ContentSound, MemorySound
  <2>3. n <= n + 1 /\ n + 1 \in Nat
    BY <1>h
  <2>4. Sound(store'[s].files, store'[s].vectors, store'[s].next) /\ Current(store'[s])
    BY <1>3, <1>h, <2>2, <2>3, RaisedSound
  <2>5. MemorySound(s)'
    BY <1>1, <1>6, <2>1, <2>4, StoreCurrent
  <2>6. ViewSound(s)'
    BY <1>1, <1>3, <1>h DEF ContentSound, ViewSound, Reloading, At
  <2>7. Reloading(s) => checkpoint[s].next \in Nat
    BY TypeParts, MemoryFields DEF Reloading, MemoriesTyped
  <2>8. CheckpointSound(s)'
    BY <1>1, <1>3, <1>h, <2>2, <2>3, <2>7 DEF ContentSound, CheckpointSound, Reloading
  <2>9. QED
    BY <2>5, <2>6, <2>8
<1>o. ASSUME NEW g \in Indexed(old.files)
      PROVE  /\ old.files[g] \in old.staged \cup {store[s].files[g]}
             /\ old.files[g].id \in Nat /\ old.files[g].id < n
  <2>1. old.files[g] \in old.staged \cup {store[s].files[g]} /\ g \in Sources
    BY <1>1, <1>h, <1>o DEF StagedSound, old, Indexed
  <2>2. old.files[g] \in Chunk /\ old.files[g] # NoFile
    BY <1>h, <1>o DEF Indexed, Files
  <2>3. CASE old.files[g] \in old.staged
    BY <1>1, <1>h, <2>1, <2>2, <2>3 DEF StagedSound, Chunk, old, n
  <2>4. CASE old.files[g] = store[s].files[g]
    <3>1. g \in Indexed(store[s].files)
      BY <2>1, <2>2, <2>4 DEF Indexed
    <3>2. QED
      BY <1>h, <2>1, <2>2, <2>4, <3>1, AnswerableBelow DEF Sound, Chunk
  <2>5. QED
    BY <2>1, <2>3, <2>4
<1>s. \A v \in old.staged : /\ v.id \in Nat /\ v.id < n /\ PublishedBelow(v.id)
                            /\ Below(store[s].vectors, v.id)
  BY <1>1, <1>h DEF StagedSound, Chunk, old, n
<1>8. ASSUME NEW v \in new.staged
      PROVE  /\ v.id < store'[s].next /\ PublishedBelow(v.id)
             /\ Below(store'[s].vectors, v.id)
  <2>1. CASE v = chunk
    BY <1>3, <1>c, <1>h, <2>1 DEF Sound
  <2>2. CASE v \in old.staged
    BY <1>3, <1>h, <1>s, <2>2
  <2>3. QED
    BY <1>4, <1>8, <2>1, <2>2
<1>9. \A v, w \in new.staged : v.id = w.id => v = w
  <2>1. \A v, w \in old.staged : v.id = w.id => v = w
    BY <1>1, <1>h DEF StagedSound, old
  <2>2. \A v \in old.staged : v.id # chunk.id
    BY <1>c, <1>h, <1>s
  <2>3. QED
    BY <1>4, <2>1, <2>2
<1>10. /\ Indexed(new.files) \subseteq Indexed(old.files) \cup {f}
       /\ \A g \in Indexed(new.files) \ {f} : g \in Indexed(old.files) /\ new.files[g] = old.files[g]
       /\ new.files[f] = chunk
  BY <1>4, <1>h DEF Indexed, Files
<1>11. \A g \in Indexed(new.files) : new.files[g] \in new.staged \cup {store'[s].files[g]}
  BY <1>3, <1>4, <1>10, <1>o
<1>12. UniqueIds(new.files)
  <2>1. \A g \in Indexed(new.files) \ {f} : new.files[g].id # chunk.id
    BY <1>10, <1>c, <1>h, <1>o
  <2>2. UniqueIds(old.files)
    BY <1>1, <1>h DEF StagedSound, old
  <2>3. QED
    BY <1>10, <2>1, <2>2 DEF UniqueIds
<1>13. StagedSound(s)'
  <2>1. Staging' = Staging
    BY <1>1 DEF Staging
  <2>2. \A v \in new.staged : PublishedBelow(v.id)'
    BY <1>1, <1>8 DEF PublishedBelow
  <2>3. QED
    BY <1>5, <1>8, <1>9, <1>11, <1>12, <2>1, <2>2 DEF StagedSound, new
<1>14. WrittenSound(s)'
  BY <1>1 DEF WrittenSound
<1>15. ContentSound(s)'
  BY <1>7, <1>13, <1>14 DEF ContentSound
<1>16. QED
  BY <1>1, <1>2, <1>3, <1>4, <1>6, <1>15, <1>h, StepSound

LEMMA LockSound ==
    ASSUME TypeOK, Inv, AllSound, NEW s \in Stores, LockToPublish(s)
    PROVE  AllSound'
<1>1. /\ pc[s] = "staging" /\ Uncommitted(s) /\ Goto(s, "publishing")
      /\ UNCHANGED <<docs, payload, published, store, checkpoint, generations, segments, minted, work>>
  BY DEF LockToPublish, At, Uncommitted, disk
<1>2. pc'[s] = "publishing"
  BY <1>1, OneStore
<1>3. CommittedKept /\ StagedSound(s) /\ ContentSound(s) /\ genLock = s
  BY <1>1, UntouchedKept, WriterHas DEF Inv
<1>4. MemorySound(s)' /\ CheckpointSound(s)' /\ ViewSound(s)'
  BY <1>1, <1>2, <1>3, UnchangedSound
<1>5. StagedSound(s)' /\ WrittenSound(s)'
  BY <1>1, <1>2, <1>3 DEF StagedSound, WrittenSound, Uncommitted, PublishedBelow, Staging
<1>6. ContentSound(s)'
  BY <1>4, <1>5 DEF ContentSound
<1>7. QED
  BY <1>1, <1>3, <1>6, StepSound

\* The segments with the staged vectors are sound for the file states.
LEMMA AppendedSound ==
    ASSUME TypeOK, Inv, AllSound, NEW s \in Stores, At(s, "publishing"),
           work[s].staged # {} => Staging \in DOMAIN segments
    PROVE  /\ Appended(s) \in Seq(Segment)
           /\ Sound(work[s].files, Appended(s), store[s].next)
           /\ OnDisk(Appended(s)) /\ NamedUpTo(Appended(s), minted)
<1> DEFINE old    == store[s].vectors
           staged == work[s].staged
           files  == work[s].files
           n      == store[s].next
<1>1. Uncommitted(s)
  BY DEF At, Uncommitted
<1>h. /\ payload \in Nat /\ minted \in Nat /\ payload < minted /\ n \in Nat
      /\ old \in Seq(Segment) /\ OnDisk(old) /\ NamedUpTo(old, payload)
      /\ Sound(store[s].files, old, n) /\ StagedSound(s)
      /\ staged \subseteq Chunk /\ files \in Files
  BY <1>1, WriterHas
<1>2. /\ \A v \in staged : v.id < n /\ Below(old, v.id)
      /\ \A v, w \in staged : v.id = w.id => v = w
      /\ \A f \in Indexed(files) : files[f] \in staged \cup {store[s].files[f]}
      /\ UniqueIds(files)
      /\ staged # {} => segments[Staging] = staged
  BY <1>1, <1>h DEF StagedSound, At
<1>3. \A k \in DOMAIN old : old[k] \in Segment
  BY <1>h
<1>4. NamedUpTo(old, minted)
  <2>1. \A k \in DOMAIN old : old[k].name \in Nat
    BY <1>3 DEF Segment
  <2>2. QED
    BY <1>h, <2>1 DEF NamedUpTo
<1>5. \A f \in Indexed(files) : files[f] \in staged \/ Found(old, files[f].id) = {files[f]}
  <2>1. ASSUME NEW f \in Indexed(files), files[f] = store[s].files[f]
        PROVE  Found(old, files[f].id) = {files[f]}
    <3>1. f \in Indexed(store[s].files)
      BY <2>1 DEF Indexed
    <3>2. QED
      BY <1>h, <2>1, <3>1 DEF Sound, Answerable
  <2>2. QED
    BY <1>2, <2>1
<1>6. CASE staged = {}
  <2>1. Appended(s) = old
    BY <1>6 DEF Appended
  <2>2. Answerable(files, old)
    BY <1>5, <1>6 DEF Answerable
  <2>3. QED
    BY <1>2, <1>4, <1>h, <2>1, <2>2 DEF Sound
<1>7. CASE staged # {}
  <2> DEFINE new  == [name |-> Staging, vectors |-> staged]
             both == Append(old, new)
  <2>1. /\ Appended(s) = both /\ Staging \in Nat
    BY <1>7, <1>h DEF Appended, Staging
  <2>2. new \in Segment /\ new.vectors = staged /\ new.name = Staging
    BY <1>h, <2>1 DEF Segment
  <2> HIDE DEF new
  <2>3. /\ both \in Seq(Segment) /\ DOMAIN old = 1..Len(old) /\ Len(old) \in Nat
        /\ DOMAIN both = 1..(Len(old) + 1)
        /\ \A k \in 1..Len(old) : both[k] = old[k]
        /\ both[Len(old) + 1] = new
    BY <1>h, <2>2, AppendIs
  <2>4. \A k \in DOMAIN both : both[k] = new \/ (k \in DOMAIN old /\ both[k] = old[k])
    BY <2>3
  <2>5. Answerable(files, both)
    <3> SUFFICES ASSUME NEW f \in Indexed(files)
                 PROVE  Found(both, files[f].id) = {files[f]}
      BY DEF Answerable
    <3>1. CASE files[f] \in staged
      <4>1. /\ files[f] \in new.vectors /\ Below(old, files[f].id) /\ files[f].id \in Nat
            /\ \A w \in new.vectors : w.id = files[f].id => w = files[f]
        BY <1>2, <1>h, <2>2, <3>1 DEF Chunk
      <4>2. QED
        BY <1>h, <2>2, <4>1, NewFound
    <3>2. CASE Found(old, files[f].id) = {files[f]}
      <4>1. PICK c, i : c = files[f] /\ i = files[f].id
        OBVIOUS
      <4>2. old \in Seq(Segment) /\ new \in Segment /\ Finds(old, i, c)
        BY <1>h, <2>2, <3>2, <4>1 DEF Finds
      <4>3. Finds(both, i, c)
        BY <4>2, StillFound
      <4>4. QED
        BY <4>1, <4>3 DEF Finds
    <3>3. QED
      BY <1>5, <3>1, <3>2
  <2> HIDE DEF both
  <2>6. Below(both, n)
    BY <1>2, <1>h, <2>2, <2>4 DEF Below, Sound
  <2>7. OnDisk(both)
    BY <1>2, <1>7, <1>h, <2>2, <2>4 DEF OnDisk
  <2>8. NamedUpTo(both, minted)
    BY <1>4, <1>h, <2>2, <2>4 DEF NamedUpTo, Staging
  <2>9. QED
    BY <1>2, <2>1, <2>3, <2>5, <2>6, <2>7, <2>8 DEF Sound
<1>8. QED
  BY <1>6, <1>7

\* The live vectors are the chunks of the file states, one each.
LEMMA LiveVectorsAre ==
    ASSUME NEW s \in Stores, Answerable(work[s].files, Appended(s))
    PROVE  LiveVectors(s) = {work[s].files[f] : f \in Indexed(work[s].files)}
<1>1. LiveVectors(s) = UNION {Found(Appended(s), work[s].files[f].id) : f \in Indexed(work[s].files)}
  BY DEF LiveVectors, LiveIds
<1>2. \A f \in Indexed(work[s].files) :
         Found(Appended(s), work[s].files[f].id) = {work[s].files[f]}
  BY DEF Answerable
<1>3. QED
  BY <1>1, <1>2

LEMMA PublishVectorsSound ==
    ASSUME TypeOK, Inv, AllSound, NEW s \in Stores, PublishVectors(s)
    PROVE  AllSound'
<1> DEFINE files == work[s].files
           n     == store[s].next
           all   == Appended(s)
<1>1. /\ At(s, "publishing") /\ Uncommitted(s) /\ Goto(s, "vectors")
      /\ work[s].staged # {} => Staging \in DOMAIN segments
      /\ UNCHANGED <<docs, payload, published, store, checkpoint, generations, minted>>
  BY DEF PublishVectors, At, Uncommitted
<1>2. pc'[s] = "vectors" /\ pc[s] = "publishing"
  BY <1>1, OneStore DEF At
<1>h. /\ genLock = s /\ payload \in Nat /\ minted \in Nat /\ payload < minted /\ n \in Nat
      /\ StagedSound(s) /\ ContentSound(s) /\ files \in Files /\ work[s] \in Work
  BY <1>1, WriterHas
<1>3. /\ all \in Seq(Segment) /\ Sound(files, all, n) /\ OnDisk(all) /\ NamedUpTo(all, minted)
  BY <1>1, AppendedSound
<1>l. LiveVectors(s) = {files[f] : f \in Indexed(files)}
  BY <1>3, LiveVectorsAre DEF Sound
<1>4. /\ \A k \in DOMAIN segments : k # Compacted => k \in DOMAIN segments' /\ segments'[k] = segments[k]
      /\ work'[s].files = files /\ work'[s].staged = work[s].staged
      /\ \A t \in Stores \ {s} : work'[t] = work[t]
  BY <1>h, Variables DEF PublishVectors, Work
<1>5. CommittedKept
  <2>1. \A k \in DOMAIN segments : k < 2 * minted => k # Compacted
    BY <1>h DEF Compacted
  <2>2. QED
    BY <1>1, <1>4, <1>h, <2>1, BesideKept DEF Inv, AllSound
<1>6. MemorySound(s)' /\ CheckpointSound(s)' /\ ViewSound(s)'
  BY <1>1, <1>2, <1>5, <1>h, UnchangedSound
<1>7. StagedSound(s)'
  BY <1>1, <1>2, <1>4, <1>h DEF StagedSound, Uncommitted, PublishedBelow
<1>8. WrittenSound(s)'
  <2>1. SUFFICES /\ Sound(files, work'[s].vectors, n)
                 /\ OnDisk(work[s].vectors)' /\ NamedUpTo(work'[s].vectors, minted)
    BY <1>1, <1>2, <1>4 DEF WrittenSound, At
  <2>2. CASE /\ work' = [work EXCEPT ![s].vectors = all]
             /\ UNCHANGED segments
    <3>1. work'[s].vectors = all
      BY <1>h, <2>2, Variables DEF Work
    <3>2. QED
      BY <1>3, <2>2, <3>1 DEF OnDisk
  <2>3. CASE /\ work' = [work EXCEPT ![s].vectors = <<>>]
             /\ LiveVectors(s) = {}
    <3>1. work'[s].vectors = <<>>
      BY <1>h, <2>3, Variables DEF Work
    <3>2. Indexed(files) = {}
      BY <1>l, <2>3
    <3>3. QED
      BY <3>1, <3>2 DEF OnDisk, NamedUpTo, Sound, Answerable, UniqueIds, Below
  <2>4. CASE /\ work' = [work EXCEPT ![s].vectors =
                            <<[name |-> Compacted, vectors |-> LiveVectors(s)]>>]
             /\ segments' = [k \in DOMAIN segments \cup {Compacted} |->
                                IF k = Compacted THEN LiveVectors(s) ELSE segments[k]]
    <3> DEFINE segment == [name |-> Compacted, vectors |-> LiveVectors(s)]
               one     == <<segment>>
    <3>1. segment \in Segment /\ segment.name = Compacted /\ segment.vectors = LiveVectors(s)
      <4>1. Compacted \in Nat /\ LiveVectors(s) \subseteq Chunk
        BY <1>3, <1>h, LiveVectorsType DEF Compacted
      <4>2. QED
        BY <4>1 DEF Segment
    <3>2. work'[s].vectors = one
      BY <1>h, <2>4, Variables DEF Work
    <3> HIDE DEF segment
    <3>3. DOMAIN one = {1} /\ one[1] = segment
      OBVIOUS
    <3>4. Answerable(files, one)
      <4> SUFFICES ASSUME NEW f \in Indexed(files)
                   PROVE  Found(one, files[f].id) = {files[f]}
        BY DEF Answerable
      <4>1. Found(one, files[f].id) = {v \in LiveVectors(s) : v.id = files[f].id}
        BY <3>1, FoundAlone
      <4>2. \A g \in Indexed(files) : files[g].id = files[f].id => g = f
        BY <1>3 DEF Sound, UniqueIds
      <4>3. QED
        BY <1>l, <4>1, <4>2
    <3>5. Below(one, n)
      <4>1. \A f \in Indexed(files) : files[f].id < n
        BY <1>3, AnswerableBelow DEF Sound
      <4>2. \A v \in segment.vectors : v.id < n
        BY <1>l, <3>1, <4>1
      <4> HIDE DEF one
      <4>3. QED
        BY <3>3, <4>2 DEF Below
    <3>6. Sound(files, one, n)
      BY <1>3, <3>4, <3>5 DEF Sound
    <3> HIDE DEF one
    <3>7. OnDisk(work[s].vectors)'
      BY <2>4, <3>1, <3>2, <3>3 DEF OnDisk
    <3>8. NamedUpTo(one, minted)
      BY <1>h, <3>1, <3>3 DEF NamedUpTo, Compacted
    <3>9. QED
      BY <3>2, <3>6, <3>7, <3>8
  <2>5. QED
    BY <2>2, <2>3, <2>4 DEF PublishVectors
<1>9. ContentSound(s)'
  BY <1>6, <1>7, <1>8 DEF ContentSound
<1>10. QED
  BY <1>1, <1>4, <1>5, <1>9, <1>h, StepSound

LEMMA PrepareSound ==
    ASSUME TypeOK, Inv, AllSound, NEW s \in Stores, PrepareGeneration(s)
    PROVE  AllSound'
<1>1. /\ pc[s] = "vectors" /\ Uncommitted(s) /\ Goto(s, "prepared")
      /\ UNCHANGED <<docs, payload, published, store, checkpoint, segments, minted, work>>
  BY DEF PrepareGeneration, At, Uncommitted
<1>2. pc'[s] = "prepared"
  BY <1>1, OneStore
<1>h. /\ genLock = s /\ payload \in Nat /\ minted \in Nat /\ payload < minted
      /\ StagedSound(s) /\ ContentSound(s)
  BY <1>1, WriterHas
<1>3. /\ minted \in DOMAIN generations'
      /\ generations'[minted].next = store[s].next
      /\ generations'[minted].vectors =
            [k \in DOMAIN work[s].vectors |-> work[s].vectors[k].name]
      /\ payload # 0 => generations'[payload] = generations[payload]
  BY <1>h DEF PrepareGeneration, Inv, CommittedIsLoadable, Loadable
<1>4. CommittedKept
  BY <1>1, <1>3, <1>h, BesideKept DEF Inv, AllSound
<1>5. MemorySound(s)' /\ CheckpointSound(s)' /\ ViewSound(s)'
  BY <1>1, <1>2, <1>4, <1>h, UnchangedSound
<1>6. StagedSound(s)'
  BY <1>1, <1>2, <1>h DEF StagedSound, Uncommitted, PublishedBelow
<1>7. WrittenSound(s)'
  BY <1>1, <1>2, <1>3, <1>h DEF ContentSound, WrittenSound, OnDisk, At
<1>8. ContentSound(s)'
  BY <1>5, <1>6, <1>7 DEF ContentSound
<1>9. QED
  BY <1>1, <1>4, <1>8, <1>h, StepSound

\* Adoption: the memory becomes what has just been committed.
LEMMA AdoptSound ==
    ASSUME TypeOK, Inv, AllSound, NEW s \in Stores, Adopt(s)
    PROVE  AllSound'
<1> DEFINE m == store'[s]
<1>1. /\ pc[s] = "committed" /\ Goto(s, "adopted") /\ At(s, "committed")
      /\ UNCHANGED <<docs, payload, published, checkpoint, generations, segments, minted, work>>
  BY DEF Adopt, At, disk
<1>2. pc'[s] = "adopted"
  BY <1>1, OneStore
<1>3. /\ payload = minted /\ payload # 0 /\ Describes(generations[payload], work[s])
      /\ ContentSound(s) /\ CommittedIsLoadable /\ WrittenSound(s) /\ CommittedKept
  BY <1>1, UntouchedKept DEF Inv, WorkDescribed, AllSound, ContentSound
<1>4. /\ m.gen = payload /\ m.files = work[s].files /\ m.vectors = work[s].vectors
      /\ m.view = docs /\ m.next = store[s].next
      /\ \A t \in Stores \ {s} : store'[t] = store[t]
  BY <1>3, Variables DEF Adopt, Memory
<1>5. docs = DocsOf(m.files)
  BY <1>3, <1>4 DEF CommittedIsLoadable, Describes
<1>6. Known(m)
  BY <1>3, <1>4, TypeParts DEF Known, Describes, CommittedTyped
<1>7. Sound(m.files, m.vectors, m.next) /\ Current(m)
  BY <1>1, <1>3, <1>4 DEF WrittenSound, Current
<1>8. MemorySound(s)'
  BY <1>1, <1>3, <1>6, <1>7, StoreCurrent
<1>9. CheckpointSound(s)' /\ ViewSound(s)'
  BY <1>1, <1>2, <1>3, <1>4, <1>5 DEF ContentSound, CheckpointSound, ViewSound, Reloading, At
<1>10. QED
  BY <1>1, <1>3, <1>4, <1>8, <1>9, QuietSound

\* The chunks a transaction commits are committed ones or have newer ids.
LEMMA WorkDocs ==
    ASSUME TypeOK, Inv, AllSound, NEW s \in Stores, Uncommitted(s)
    PROVE  /\ \A d \in work[s].docs : d.id < store[s].next
           /\ \A d \in work[s].docs, e \in published : d.id = e.id => d = e
           /\ \A d, e \in work[s].docs : d.id = e.id => d = e
           /\ work[s].docs \subseteq Doc
<1> DEFINE files == work[s].files
<1>1. work[s].docs = DocsOf(files) /\ files \in Files
  BY WriterFacts, WriterHas
<1>2. /\ docs = DocsOf(store[s].files) /\ StagedSound(s)
      /\ Sound(store[s].files, store[s].vectors, store[s].next)
      /\ store[s].next \in Nat /\ work[s].staged \subseteq Chunk
  BY WriterHas
<1>3. /\ docs \subseteq published /\ published \subseteq Doc
      /\ \A d, e \in published : d.id = e.id => d = e
  BY TypeParts DEF AllSound, CommittedSound, CommittedTyped
<1>4. ASSUME NEW f \in Indexed(files), NEW d, files[f] = store[s].files[f],
             d = [source |-> f, id |-> files[f].id, content |-> files[f].content]
      PROVE  d \in docs /\ d.id < store[s].next
  <2>1. f \in Indexed(store[s].files)
    BY <1>4 DEF Indexed
  <2>2. d \in docs
    BY <1>2, <1>4, <2>1 DEF DocsOf
  <2>3. d.id = store[s].files[f].id
    BY <1>4
  <2>4. QED
    BY <1>2, <2>1, <2>2, <2>3, AnswerableBelow DEF Sound
<1>5. ASSUME NEW f \in Indexed(files), NEW d, files[f] \in work[s].staged,
             d = [source |-> f, id |-> files[f].id, content |-> files[f].content]
      PROVE  d.id < store[s].next /\ \A e \in published : d.id # e.id
  <2>1. d.id = files[f].id /\ files[f].id \in Nat
    BY <1>2, <1>5 DEF Chunk
  <2>2. files[f].id < store[s].next /\ PublishedBelow(files[f].id)
    BY <1>2, <1>5 DEF StagedSound
  <2>3. \A e \in published : e.id \in Nat /\ e.id < files[f].id
    BY <1>3, <2>2 DEF PublishedBelow, Doc
  <2>4. QED
    BY <2>1, <2>2, <2>3
<1>6. ASSUME NEW d \in work[s].docs
      PROVE  d.id < store[s].next /\ \A e \in published : d.id = e.id => d = e
  <2>1. PICK f \in Indexed(files) :
                d = [source |-> f, id |-> files[f].id, content |-> files[f].content]
    BY <1>1 DEF DocsOf
  <2>2. files[f] \in work[s].staged \/ files[f] = store[s].files[f]
    BY <1>2 DEF StagedSound
  <2>3. QED
    BY <1>3, <1>4, <1>5, <2>1, <2>2
<1>7. \A d, e \in work[s].docs : d.id = e.id => d = e
  <2>1. UniqueIds(files)
    BY <1>2 DEF StagedSound
  <2>2. QED
    BY <1>1, <2>1 DEF DocsOf, UniqueIds
<1>8. work[s].docs \subseteq Doc
  BY <1>1, DocsOfType
<1>9. QED
  BY <1>6, <1>7, <1>8

LEMMA CommitSound ==
    ASSUME TypeOK, Inv, AllSound, NEW s \in Stores, NEW place \in {"committed", "failed"},
           At(s, "prepared"), Commit(s), Goto(s, place),
           UNCHANGED <<generations, segments, minted, store, work, checkpoint>>
    PROVE  AllSound'
<1> DEFINE g == generations[minted]
<1>1. Uncommitted(s) /\ pc[s] = "prepared"
  BY DEF At, Uncommitted
<1>h. /\ genLock = s /\ payload \in Nat /\ minted \in Nat /\ payload < minted
      /\ store[s].next \in Nat /\ PublishedBelow(store[s].next) /\ ContentSound(s)
      /\ work[s] \in Work
  BY <1>1, WriterHas
<1>2. /\ Sound(work[s].files, work[s].vectors, store[s].next)
      /\ OnDisk(work[s].vectors) /\ NamedUpTo(work[s].vectors, minted)
      /\ g.next = store[s].next
      /\ g.vectors = [k \in DOMAIN work[s].vectors |-> work[s].vectors[k].name]
  BY <1>h, <1>1 DEF ContentSound, WrittenSound, At
<1>3. g.files = work[s].files /\ pubLock = s
  BY <1>1 DEF Inv, WorkDescribed, At, Describes, LocksHeld, InPublication, PublicationPlaces
<1>4. payload' = minted /\ minted # 0 /\ docs' = work[s].docs /\ published' = published \cup work[s].docs
  BY <1>h DEF Commit
<1>5. Open(g.vectors) = work[s].vectors
  <2>1. work[s].vectors \in Seq(Segment)
    BY <1>h DEF Work
  <2>2. /\ DOMAIN Open(g.vectors) = DOMAIN work[s].vectors
        /\ \A k \in DOMAIN work[s].vectors :
              Open(g.vectors)[k] = [name    |-> work[s].vectors[k].name,
                                    vectors |-> work[s].vectors[k].vectors]
    BY <1>2 DEF Open, OnDisk
  <2>3. \A k \in DOMAIN work[s].vectors : work[s].vectors[k] \in Segment
    BY <2>1
  <2>4. \A k \in DOMAIN work[s].vectors : Open(g.vectors)[k] = work[s].vectors[k]
    BY <2>2, <2>3 DEF Segment
  <2>5. Open(g.vectors) = [k \in DOMAIN work[s].vectors |-> work[s].vectors[k]]
    BY <2>2, <2>4 DEF Open
  <2>6. work[s].vectors = [k \in DOMAIN work[s].vectors |-> work[s].vectors[k]]
    BY <2>1
  <2>7. QED
    BY <2>5, <2>6
<1>6. \A d \in published' : d.id < store[s].next
  BY <1>1, <1>4, <1>h, WorkDocs DEF PublishedBelow
<1>7. CommittedSound'
  <2>1. \A d, e \in published' : d.id = e.id => d = e
    BY <1>1, <1>4, WorkDocs DEF AllSound, CommittedSound
  <2>2. Open(generations[payload].vectors)' = work[s].vectors
    BY <1>4, <1>5 DEF Open
  <2>3. \A n \in Segments(g) : n <= 2 * minted + 1
    BY <1>2 DEF Segments, NamedUpTo
  <2>4. Segments(generations[payload])' = Segments(g)
    BY <1>4 DEF Segments
  <2>5. PublishedBelow(generations[payload].next)'
    BY <1>2, <1>4, <1>6 DEF PublishedBelow
  <2>6. /\ payload' # 0 /\ generations'[payload'] = g /\ docs' \subseteq published'
    BY <1>4
  <2>7. QED
    BY <1>2, <1>3, <1>4, <2>1, <2>2, <2>3, <2>4, <2>5, <2>6 DEF CommittedSound
<1>8. ASSUME NEW t \in Stores
      PROVE  ContentSound(t)'
  <2>1. ContentSound(t) /\ Known(store[t]) /\ store[t] \in Memory
    BY Variables DEF AllSound, Inv, MemoriesKnown
  <2>2. /\ pc'[s] = place /\ (t # s => pc'[t] = pc[t])
        /\ t # s => ~ InTransaction(t) /\ pc[t] # "reader"
    <3>1. t # s => ~ InTransaction(t)
      BY <1>h, OthersOutside DEF Inv
    <3>2. t # s => pc[t] # "reader"
      BY <1>3 DEF Inv, LocksHeld, InPublication, PublicationPlaces
    <3>3. QED
      BY <3>1, <3>2, Variables DEF Goto
  <2>3. MemorySound(t)'
    <3>1. store'[t].gen # payload'
      BY <1>4, <1>h, <2>1, MemoryFields DEF Known
    <3>2. QED
      BY <2>1, <3>1 DEF ContentSound, MemorySound, Current
  <2>4. CheckpointSound(t)'
    <3>1. Reloading(t) => checkpoint[t].gen \in Nat
      BY Variables, MemoryFields DEF Reloading
    <3>2. QED
      BY <1>4, <1>h, <2>1, <3>1 DEF ContentSound, CheckpointSound, Reloading
  <2>5. ViewSound(t)'
    <3>1. ~ At(t, "reader") /\ ~ At(t, "reader")'
      BY <1>1, <2>2 DEF At
    <3>2. QED
      BY <2>1, <3>1 DEF ContentSound, ViewSound, Reloading
  <2>6. StagedSound(t)'
    BY <2>2 DEF StagedSound, Uncommitted, InTransaction, TransactionPlaces
  <2>7. WrittenSound(t)'
    <3>1. CASE t # s
      BY <2>2, <3>1 DEF WrittenSound, InTransaction, TransactionPlaces
    <3>2. CASE t = s
      <4>1. OnDisk(work[s].vectors)' /\ PublishedBelow(store[s].next)'
        BY <1>2, <1>6 DEF OnDisk, PublishedBelow
      <4>2. QED
        BY <1>2, <2>2, <3>2, <4>1 DEF WrittenSound, At
    <3>3. QED
      BY <3>1, <3>2
  <2>8. QED
    BY <2>3, <2>4, <2>5, <2>6, <2>7 DEF ContentSound
<1>9. QED
  BY <1>7, <1>8 DEF AllSound

LEMMA InitSound == Init => AllSound
<1> SUFFICES ASSUME Init PROVE AllSound
  OBVIOUS
<1>1. DocsOf(NoFiles) = {} /\ Indexed(NoFiles) = {}
  BY DEF DocsOf, Indexed, NoFiles
<1>2. /\ Closed.files = NoFiles /\ Closed.vectors = <<>> /\ Closed.view = {} /\ Closed.gen = 0
  BY DEF Closed
<1>3. Sound(NoFiles, <<>>, Closed.next)
  BY <1>1 DEF Sound, Answerable, UniqueIds, Below
<1>4. CommittedSound
  BY DEF Init, CommittedSound
<1>5. Current(Closed)
  BY <1>2 DEF Init, Current, OnDisk, NamedUpTo, PublishedBelow
<1>6. ASSUME NEW s \in Stores
      PROVE  ContentSound(s)
  <2>1. store[s] = Closed /\ pc[s] = "closed" /\ ~ Reloading(s)
    BY DEF Init, Reloading
  <2>2. QED
    BY <1>1, <1>2, <1>3, <1>5, <2>1
       DEF ContentSound, MemorySound, CheckpointSound, ViewSound, StagedSound, WrittenSound,
           Uncommitted, At
<1>7. QED
  BY <1>4, <1>6 DEF AllSound

LEMMA NextSound == TypeOK /\ Inv /\ AllSound /\ [Next]_vars => AllSound'
<1>1. ASSUME TypeOK, Inv, AllSound, NEW s \in Stores, Step(s)
      PROVE  AllSound'
  <2>1. ASSUME Publishing(s) PROVE AllSound'
    <3>1. CASE CommitMetadata(s)
      BY <1>1, <3>1, CommitSound DEF CommitMetadata
    <3>2. QED
      BY <1>1, <2>1, <3>1, LockSound, PublishVectorsSound, PrepareSound, AdoptSound, FailingSound
         DEF Publishing
  <2>2. ASSUME Failing(s) PROVE AllSound'
    <3>1. CASE CommitReportsError(s)
      BY <1>1, <3>1, CommitSound DEF CommitReportsError, Fail
    <3>2. QED
      BY <1>1, <2>2, <3>1, FailingSound DEF Failing
  <2>3. QED
    BY <1>1, <2>1, <2>2, OpeningSound, ReloadingSound, BeginSound, RemoveSound, IndexSound, EndSound
       DEF Step, Change
<1>2. ASSUME AllSound, UNCHANGED vars
      PROVE  AllSound'
  <2>1. CommittedSound'
    BY <1>2 DEF vars, AllSound, CommittedSound, Open, Segments, PublishedBelow
  <2>2. ASSUME NEW s \in Stores
        PROVE  ContentSound(s)'
    BY <1>2 DEF vars, AllSound, ContentSound, MemorySound, CheckpointSound, ViewSound, StagedSound,
                WrittenSound, Current, OnDisk, PublishedBelow, Reloading, At, Uncommitted, Staging
  <2>3. QED
    BY <2>1, <2>2 DEF AllSound
<1>3. QED
  BY <1>1, <1>2 DEF Next

LEMMA Contained == Spec => [](TypeOK /\ Inv /\ AllSound)
<1>1. Init => TypeOK /\ Inv /\ AllSound
  BY InitTypes, InitInv, InitSound
<1>2. TypeOK /\ Inv /\ AllSound /\ [Next]_vars => TypeOK' /\ Inv' /\ AllSound'
  BY NextTypes, NextInv, NextSound
<1>3. QED
  BY <1>1, <1>2, PTL DEF Spec

\* A search of the committed generation finds the vector of each chunk, and not
\* one of a chunk that was replaced (append and compact at generation.rs:290).
THEOREM CommittedAlwaysSearchable == Spec => []CommittedIsSearchable
<1>1. AllSound => CommittedIsSearchable
  BY DEF AllSound, CommittedSound, Sound, CommittedIsSearchable
<1>2. QED
  BY <1>1, Contained, PTL

\* A store that takes queries answers with text, file states and vectors of one
\* generation, whatever failed before it (with_committed_generation, store.rs:2114).
THEOREM AnswersAgree == Spec => []AnswersAreOneGeneration
<1>1. AllSound => AnswersAreOneGeneration
  BY DEF AllSound, ContentSound, MemorySound, ViewSound, Sound, AnswersAreOneGeneration, At
<1>2. QED
  BY <1>1, Contained, PTL

-----------------------------------------------------------------------------
(* The generations implement the abstract committed set: of each step, what *)
(* stores answer from and may go back to, and what is committed.            *)

Answers   == [s \in Stores |-> Seen(s)]
Fallbacks == [s \in Stores |-> Fallback(s)]
Settled   == [version |-> payload, docs |-> docs]

LEMMA VersionIsSomething ==
    ASSUME NEW m \in Memory
    PROVE  Version(m) # Nobody
<1>1. Version(m) \in [version : Nat, docs : SUBSET Doc]
  BY DEF Version, Memory
<1>2. QED
  BY <1>1, NobodyIsApart

\* A step moves one store.
LEMMA OneStoreMoves ==
    ASSUME TypeOK, NEW s \in Stores, Step(s)
    PROVE  \A t \in Stores \ {s} : /\ pc'[t] = pc[t] /\ store'[t] = store[t]
                                   /\ checkpoint'[t] = checkpoint[t]
<1>1. /\ \A place : Goto(s, place) => \A t \in Stores \ {s} : pc'[t] = pc[t]
      /\ \A m : store' = [store EXCEPT ![s] = m] => \A t \in Stores \ {s} : store'[t] = store[t]
      /\ \A m : checkpoint' = [checkpoint EXCEPT ![s] = m] =>
                   \A t \in Stores \ {s} : checkpoint'[t] = checkpoint[t]
  BY Variables DEF Goto
<1>2. CASE Opening(s)
  BY <1>1, <1>2 DEF Opening, RequestOpen, LockToOpen, OpenReader, OpenGeneration, CollectOnOpen,
                    FinishOpen
<1>3. CASE RequestTransaction(s) \/ Begin(s) \/ RefuseStale(s)
  BY <1>1, <1>3 DEF RequestTransaction, Begin, Enter, RefuseStale, GiveUpReload
<1>4. CASE Change(s)
  <2>1. UNCHANGED <<pc, checkpoint>> /\ (UNCHANGED store \/ Allocate(s))
    BY <1>4 DEF Change, RemoveFile, IndexFile
  <2>2. Allocate(s) => \A t \in Stores \ {s} : store'[t] = store[t]
    BY Variables DEF Allocate
  <2>3. QED
    BY <2>1, <2>2
<1>5. CASE Publishing(s)
  BY <1>1, <1>5 DEF Publishing, LockToPublish, PublishVectors, PrepareGeneration, CommitMetadata,
                    Adopt, MirrorState
<1>6. CASE Failing(s)
  BY <1>1, <1>6 DEF Failing, StepFails, CommitReportsError, Fail, IdsExhausted, Rollback, Recover,
                    RecoverUnmirrored, RecoveryFails
<1>7. CASE End(s) \/ Refresh(s) \/ Settle(s) \/ RefuseSettings(s) \/ Crash(s)
  BY <1>1, <1>7 DEF End, Refresh, Settle, RefuseSettings, Crash, KeepReload, GiveUpReload
<1>8. QED
  BY <1>2, <1>3, <1>4, <1>5, <1>6, <1>7 DEF Step

LEMMA OneStoreShows ==
    ASSUME TypeOK, NEW s \in Stores, Step(s)
    PROVE  /\ Answers' = [Answers EXCEPT ![s] = Seen(s)']
           /\ Fallbacks' = [Fallbacks EXCEPT ![s] = Fallback(s)']
<1>1. \A t \in Stores \ {s} : Seen(t)' = Seen(t) /\ Fallback(t)' = Fallback(t)
  BY OneStoreMoves DEF Seen, Fallback, Reloading, Version
<1>2. QED
  BY <1>1 DEF Answers, Fallbacks

\* A step that commits nothing and after which every store shows what it showed.
LEMMA NothingShows ==
    ASSUME TypeOK, NEW s \in Stores, Step(s), UNCHANGED <<docs, payload, published>>,
           Seen(s)' = Seen(s), Fallback(s)' = Fallback(s)
    PROVE  UNCHANGED Abstract!vars
<1>1. Answers' = Answers /\ Fallbacks' = Fallbacks
  BY OneStoreShows DEF Answers, Fallbacks
<1>2. QED
  BY <1>1 DEF Abstract!vars, Answers, Fallbacks

\* A step of which one store comes to answer from the committed set.
LEMMA AdoptShows ==
    ASSUME TypeOK, NEW s \in Stores, Step(s), UNCHANGED <<docs, payload, published>>,
           Seen(s)' = Settled, Fallback(s)' \in {Fallback(s), Seen(s)}
    PROVE  Abstract!Next
<1>1. Answers' = [Answers EXCEPT ![s] = Settled] /\ Settled' = Settled
  BY OneStoreShows DEF Settled
<1>2. Fallbacks' \in {Fallbacks, [Fallbacks EXCEPT ![s] = Answers[s]]}
  BY OneStoreShows DEF Fallbacks, Answers
<1>3. Abstract!Adopt(s)
  BY <1>1, <1>2 DEF Abstract!Adopt, Answers, Fallbacks, Settled
<1>4. QED
  BY <1>3 DEF Abstract!Next

\* A settings reload that is undone, and one that is kept.
LEMMA ReloadShows ==
    ASSUME TypeOK, NEW s \in Stores, Step(s), UNCHANGED <<docs, payload, published>>,
           GiveUpReload(s) \/ KeepReload(s), pc[s] \notin Unopened, pc'[s] \notin Unopened
    PROVE  Abstract!Next \/ UNCHANGED Abstract!vars
<1>1. /\ store \in [Stores -> Memory] /\ checkpoint \in [Stores -> Memory \cup {Nobody}]
      /\ Seen(s) = Version(store[s]) /\ Seen(s)' = Version(store'[s])
  BY Variables DEF Seen, Version
<1>2. Fallback(s)' = Nobody
  BY <1>1 DEF GiveUpReload, KeepReload, Fallback, Reloading
<1>3. CASE Reloading(s) /\ GiveUpReload(s)
  <2>1. checkpoint[s] \in Memory /\ Fallback(s) = Version(checkpoint[s])
    BY <1>1, <1>3 DEF Reloading, Fallback
  <2>2. Seen(s)' = Fallback(s) /\ Fallback(s) # Nobody
    BY <1>1, <1>3, <2>1, VersionIsSomething DEF GiveUpReload, Restored, Version, Memory
  <2>3. /\ Answers' = [Answers EXCEPT ![s] = Fallbacks[s]] /\ Fallbacks[s] # Nobody
        /\ Fallbacks' = [Fallbacks EXCEPT ![s] = Nobody]
    BY <1>2, <2>2, OneStoreShows DEF Fallbacks
  <2>4. Abstract!GoBack(s)
    BY <2>3 DEF Abstract!GoBack, Answers, Fallbacks
  <2>5. QED
    BY <2>4 DEF Abstract!Next
<1>4. CASE KeepReload(s) \/ ~ Reloading(s)
  <2>1. Seen(s)' = Seen(s)
    BY <1>1, <1>4 DEF GiveUpReload, KeepReload
  <2>2. Answers' = Answers /\ Fallbacks' = [Fallbacks EXCEPT ![s] = Nobody]
    BY <1>2, <2>1, OneStoreShows DEF Answers
  <2>3. Abstract!Settle(s)
    BY <2>2 DEF Abstract!Settle, Answers, Fallbacks
  <2>4. QED
    BY <2>3 DEF Abstract!Next
<1>5. QED
  BY <1>3, <1>4

\* A process that dies shows nothing any more.
LEMMA CrashShows ==
    ASSUME TypeOK, NEW s \in Stores, Step(s), Crash(s)
    PROVE  Abstract!Next
<1>1. Seen(s)' = Nobody /\ Fallback(s)' = Nobody
  BY Variables DEF Crash, Goto, Seen, Unopened, Fallback, Reloading
<1>2. Answers' = [Answers EXCEPT ![s] = Nobody] /\ Fallbacks' = [Fallbacks EXCEPT ![s] = Nobody]
  BY <1>1, OneStoreShows
<1>3. Abstract!Close(s)
  BY <1>2 DEF Abstract!Close, Answers, Fallbacks, Crash, disk
<1>4. QED
  BY <1>3 DEF Abstract!Next

\* What a writer commits, it has seen what it replaces, and its new ids are new.
LEMMA CommitShows ==
    ASSUME TypeOK, Inv, AllSound, NEW s \in Stores, Step(s), At(s, "prepared"), Commit(s),
           UNCHANGED <<minted, store, checkpoint>>, pc'[s] \in {"committed", "failed"}
    PROVE  Abstract!Next
<1>1. Uncommitted(s) /\ pc[s] = "prepared"
  BY DEF At, Uncommitted
<1>2. /\ payload < minted /\ store[s].gen = payload /\ docs = DocsOf(store[s].files)
      /\ store[s].view = DocsOf(store[s].files)
  BY <1>1, WriterHas DEF ContentSound, ViewSound, At
<1>3. Seen(s) = Settled /\ Seen(s)' = Seen(s) /\ Fallback(s)' = Fallback(s)
  BY <1>1, <1>2 DEF Seen, Unopened, Settled, Version, Fallback, Reloading
<1>4. Answers' = Answers /\ Fallbacks' = Fallbacks /\ Answers[s] = Settled
  BY <1>3, OneStoreShows DEF Answers, Fallbacks
<1>5. Settled'.version > Settled.version /\ Settled'.docs = work[s].docs
      /\ \A d \in Settled'.docs, e \in published : d.id = e.id => d = e
  BY <1>1, <1>2, WorkDocs DEF Commit, Settled
<1>6. published' = published \cup Settled'.docs
  BY DEF Commit, Settled
<1>7. Abstract!Publish(s)
  BY <1>4, <1>5, <1>6 DEF Abstract!Publish, Answers, Fallbacks, Settled
<1>8. QED
  BY <1>7 DEF Abstract!Next

\* Opening a store: nothing is answered before the generation is read.
LEMMA OpeningShows ==
    ASSUME TypeOK, Inv, AllSound, NEW s \in Stores, Step(s), Opening(s)
    PROVE  Abstract!Next \/ UNCHANGED Abstract!vars
<1>1. UNCHANGED <<docs, payload, published, checkpoint>> /\ Fallback(s)' = Fallback(s)
  BY DEF Opening, RequestOpen, LockToOpen, OpenReader, OpenGeneration, CollectOnOpen, FinishOpen,
         disk, Fallback, Reloading, Version
<1>2. CASE OpenGeneration(s)
  <2>1. /\ pc[s] = "reader" /\ pc'[s] = "opened" /\ store[s] \in Memory
        /\ store[s].view = docs
    BY <1>2, Variables DEF OpenGeneration, At, Goto, AllSound, ContentSound, ViewSound
  <2>2. Load(store[s], payload) \in Memory /\ Load(store[s], payload).gen = payload
    <3>1. /\ Known(store[s]) /\ Current(store[s]) /\ CommittedIsLoadable /\ CommittedSound
          /\ Sound(store[s].files, store[s].vectors, store[s].next)
      BY DEF Inv, MemoriesKnown, AllSound, ContentSound, MemorySound
    <3>2. QED
      BY <2>1, <3>1, LoadSound
  <2>3. store'[s].gen = payload /\ store'[s].view = docs
    BY <1>2, <2>1, <2>2, Variables DEF OpenGeneration, Memory
  <2>4. Seen(s)' = Settled
    BY <2>1, <2>3 DEF Seen, Unopened, Version, Settled
  <2>5. QED
    BY <1>1, <2>4, AdoptShows
<1>3. CASE CollectOnOpen(s)
  <2>1. Seen(s)' = Seen(s)
    BY <1>3, Variables DEF CollectOnOpen, FinishOpen, Goto, At, Seen, Unopened, Version
  <2>2. QED
    BY <1>1, <2>1, NothingShows
<1>4. CASE RequestOpen(s) \/ LockToOpen(s) \/ OpenReader(s)
  <2>1. Seen(s)' = Seen(s)
    BY <1>4, Variables DEF RequestOpen, LockToOpen, OpenReader, Goto, At, Seen, Unopened
  <2>2. QED
    BY <1>1, <2>1, NothingShows
<1>5. QED
  BY <1>2, <1>3, <1>4 DEF Opening

\* Loading the generation of the payload, after a failure or for a reload.
LEMMA LoadShows ==
    ASSUME TypeOK, Inv, AllSound, NEW s \in Stores,
           Recover(s) \/ RecoverUnmirrored(s) \/ Refresh(s), Step(s)
    PROVE  Abstract!Next
<1>1. /\ UNCHANGED <<docs, payload, published>> /\ store[s] \in Memory
      /\ pc[s] \notin Unopened /\ pc'[s] \notin Unopened
  BY Variables DEF Recover, RecoverUnmirrored, Refresh, disk, At, Goto, Unopened
<1>2. /\ Load(store[s], payload) \in Memory /\ Load(store[s], payload).gen = payload
      /\ Load(store[s], payload).view = docs
  <2>1. /\ Known(store[s]) /\ Current(store[s]) /\ CommittedIsLoadable /\ CommittedSound
        /\ Sound(store[s].files, store[s].vectors, store[s].next)
    BY DEF Inv, MemoriesKnown, AllSound, ContentSound, MemorySound
  <2>2. QED
    BY <1>1, <2>1, LoadSound
<1>3. store'[s].gen = payload /\ store'[s].view = docs
  BY <1>2, Variables DEF Recover, RecoverUnmirrored, Refresh, Memory
<1>4. Seen(s)' = Settled
  BY <1>1, <1>3 DEF Seen, Version, Settled
<1>5. Fallback(s)' \in {Fallback(s), Seen(s)}
  <2>1. CASE Refresh(s)
    <3>1. checkpoint'[s] = store[s] /\ store[s] # Nobody
      BY <1>1, <2>1, Variables, NobodyIsApart DEF Refresh
    <3>2. QED
      BY <1>1, <3>1 DEF Fallback, Reloading, Seen, Version
  <2>2. CASE Recover(s) \/ RecoverUnmirrored(s)
    BY <2>2 DEF Recover, RecoverUnmirrored, Fallback, Reloading, Version
  <2>3. QED
    BY <2>1, <2>2
<1>6. QED
  BY <1>1, <1>4, <1>5, AdoptShows

\* Staging, preparing and failing show nothing of what is not yet committed.
LEMMA StagingShows ==
    ASSUME TypeOK, NEW s \in Stores, Step(s),
           \/ RequestTransaction(s) \/ Begin(s) \/ Change(s)
           \/ LockToPublish(s) \/ PublishVectors(s) \/ PrepareGeneration(s) \/ MirrorState(s)
           \/ StepFails(s) \/ IdsExhausted(s) \/ Rollback(s) \/ RecoveryFails(s)
    PROVE  UNCHANGED Abstract!vars
<1>1. /\ UNCHANGED <<docs, payload, published, checkpoint>>
      /\ pc[s] \notin Unopened /\ pc'[s] \notin Unopened
  BY Variables
     DEF RequestTransaction, Begin, Enter, Change, RemoveFile, IndexFile, LockToPublish,
         PublishVectors, PrepareGeneration, MirrorState, StepFails, Fail, IdsExhausted, Rollback,
         RecoveryFails, disk, At, Goto, Unopened
<1>2. store'[s].gen = store[s].gen /\ store'[s].view = store[s].view
  <2>1. CASE \E f \in Sources, c \in Contents : IndexFile(s, f, c)
    <3>1. Allocate(s)
      BY <2>1 DEF IndexFile
    <3>2. QED
      BY <3>1, Variables DEF Allocate, Memory
  <2>2. CASE UNCHANGED store
    BY <2>2
  <2>3. QED
    BY <2>1, <2>2
       DEF RequestTransaction, Begin, Enter, Change, RemoveFile, LockToPublish,
           PublishVectors, PrepareGeneration, MirrorState, StepFails, Fail, IdsExhausted, Rollback,
           RecoveryFails
<1>3. Seen(s)' = Seen(s) /\ Fallback(s)' = Fallback(s)
  BY <1>1, <1>2 DEF Seen, Version, Fallback, Reloading
<1>4. QED
  BY <1>1, <1>3, NothingShows

\* The memory of a writer becomes that of the generation it has committed.
LEMMA WriterAdopts ==
    ASSUME TypeOK, Inv, NEW s \in Stores, Step(s), Adopt(s)
    PROVE  Abstract!Next
<1>1. /\ UNCHANGED <<docs, payload, published, checkpoint>> /\ pc'[s] = "adopted"
      /\ store'[s].gen = minted /\ store'[s].view = docs
  BY Variables DEF Adopt, disk, Goto, Memory
<1>2. payload = minted
  BY DEF Adopt, Inv, WorkDescribed
<1>3. Seen(s)' = Settled /\ Fallback(s)' = Fallback(s)
  BY <1>1, <1>2 DEF Seen, Unopened, Version, Settled, Fallback, Reloading
<1>4. QED
  BY <1>1, <1>3, AdoptShows

\* Where a settings reload comes to its end.
LEMMA ReloadEnds ==
    ASSUME TypeOK, NEW s \in Stores, Step(s),
           RefuseStale(s) \/ End(s) \/ Settle(s) \/ RefuseSettings(s)
    PROVE  Abstract!Next \/ UNCHANGED Abstract!vars
<1>1. /\ UNCHANGED <<docs, payload, published>> /\ (GiveUpReload(s) \/ KeepReload(s))
      /\ pc[s] \notin Unopened /\ pc'[s] \notin Unopened
  BY Variables DEF RefuseStale, End, Settle, RefuseSettings, disk, At, Goto, Unopened
<1>2. QED
  BY <1>1, ReloadShows

\* Stores publish and adopt whole sets of chunks, one after the other: nothing
\* that another process committed is overwritten unseen, and no committed chunk
\* id ever names another chunk (store.rs:2114, allocate_chunk_id at store.rs:1709).
THEOREM GenerationsImplementDocuments == Spec => ImplementsCommittedDocuments
<1>1. Init => Abstract!Init
  BY DEF Init, Abstract!Init, Seen, Fallback, Unopened, Reloading
<1>2. TypeOK /\ Inv /\ AllSound /\ [Next]_vars => [Abstract!Next]_(Abstract!vars)
  <2>1. ASSUME TypeOK, Inv, AllSound, NEW s \in Stores, Step(s)
        PROVE  Abstract!Next \/ UNCHANGED Abstract!vars
    <3>1. CASE CommitMetadata(s) \/ CommitReportsError(s)
      <4>1. /\ At(s, "prepared") /\ Commit(s) /\ UNCHANGED <<minted, store, checkpoint>>
            /\ pc'[s] \in {"committed", "failed"}
        BY <2>1, <3>1, Variables DEF CommitMetadata, CommitReportsError, Fail, Goto
      <4>2. QED
        BY <2>1, <4>1, CommitShows
    <3>2. CASE Opening(s)
      BY <2>1, <3>2, OpeningShows
    <3>3. CASE Recover(s) \/ RecoverUnmirrored(s) \/ Refresh(s)
      BY <2>1, <3>3, LoadShows
    <3>4. CASE Adopt(s) \/ Crash(s)
      BY <2>1, <3>4, WriterAdopts, CrashShows
    <3>5. CASE RefuseStale(s) \/ End(s) \/ Settle(s) \/ RefuseSettings(s)
      BY <2>1, <3>5, ReloadEnds
    <3>6. CASE \/ RequestTransaction(s) \/ Begin(s) \/ Change(s)
               \/ LockToPublish(s) \/ PublishVectors(s) \/ PrepareGeneration(s) \/ MirrorState(s)
               \/ StepFails(s) \/ IdsExhausted(s) \/ Rollback(s) \/ RecoveryFails(s)
      BY <2>1, <3>6, StagingShows
    <3>7. QED
      BY <2>1, <3>1, <3>2, <3>3, <3>4, <3>5, <3>6 DEF Step, Publishing, Failing
  <2>2. UNCHANGED vars => UNCHANGED Abstract!vars
    BY DEF vars, Abstract!vars, Seen, Fallback, Reloading, Version
  <2>3. QED
    BY <2>1, <2>2 DEF Next
<1>3. QED
  BY <1>1, <1>2, Contained, PTL DEF Spec, Abstract!Spec, ImplementsCommittedDocuments
=============================================================================
