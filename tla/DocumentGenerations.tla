------------------------ MODULE DocumentGenerations ------------------------
(***************************************************************************)
(* The document index of one directory (src/src/documents/store.rs and     *)
(* generation.rs): immutable generations of file states and vector         *)
(* segments, of which Tantivy's commit payload names the current one.      *)
(*                                                                         *)
(* Several processes open the directory.  Each keeps a generation in       *)
(* memory and answers queries from it; a transaction stages chunks and     *)
(* vectors beside it, publishes them as the next generation, and collects  *)
(* what is obsolete.  generation.lock serializes transactions,             *)
(* publication.lock keeps an opening store and a publication apart.        *)
(*                                                                         *)
(* Abstractions.  A file is one chunk; a vector is the content it was made *)
(* from.  Every store embeds with the same model.  Names come from a       *)
(* counter instead of a random suffix.  Collections are sets of sources    *)
(* chosen by the caller.  state.json is never read once a generation is    *)
(* committed and is left out; so are spool files and cluster data.         *)
(***************************************************************************)
EXTENDS Integers, Sequences, FiniteSets

CONSTANTS
    Stores,           \* DocumentStore values, each in a process of its own
    Sources,          \* paths of documents
    Contents,         \* what a document may say
    NoFile,           \* no state for a source
    Nobody,           \* who holds a free lock, and what no reload goes back to
    Block,            \* chunk ids reserved at once, 4096 in the code
    MaxId,            \* the last chunk id, u32::MAX in the code
    MaxSegments,      \* MAX_SEGMENTS, 8 in the code
    MaxPublications,  \* bound: no transaction is requested after that many
    MaxFaults         \* bound: errors and crashes

ASSUME DocumentsAssumption ==
    /\ Block \in Nat \ {0} /\ MaxId \in Nat
    /\ MaxSegments \in Nat /\ MaxPublications \in Nat /\ MaxFaults \in Nat
    /\ IsFiniteSet(Sources)
    /\ Nobody \notin Stores
    /\ NoFile \notin [id : 1..MaxId, content : Contents]

VARIABLES
    docs,         \* the chunks in the committed Tantivy index
    payload,      \* the generation its commit payload names; 0: none yet
    generations,  \* the generation files there are
    segments,     \* the vector segments there are
    reserved,     \* next-chunk-id.json
    minted,       \* transactions that began, which name what they write
    genLock,      \* who holds generation.lock
    pubLock,      \* who holds publication.lock
    pc,           \* per store: where it is
    store,        \* per store: the generation it answers from
    work,         \* per store: what its transaction has staged
    checkpoint,   \* per store: the ReloadCheckpoint of a settings reload, or Nobody
    faults,       \* errors and crashes so far
    published     \* every chunk ever committed

disk  == <<docs, payload, generations, segments, reserved, minted, published>>
locks == <<genLock, pubLock>>
vars  == <<docs, payload, generations, segments, reserved, minted, genLock, pubLock,
           pc, store, work, checkpoint, faults, published>>

-----------------------------------------------------------------------------
(* Data.                                                                   *)

Chunk   == [id : 1..MaxId, content : Contents]
Files   == [Sources -> Chunk \cup {NoFile}]
Doc     == [source : Sources, id : 1..MaxId, content : Contents]
Segment == [name : Nat, vectors : SUBSET Chunk]
NoFiles == [f \in Sources |-> NoFile]

Indexed(files) == {f \in Sources : files[f] # NoFile}
DocsOf(files) ==
    {[source |-> f, id |-> files[f].id, content |-> files[f].content] : f \in Indexed(files)}
LiveIds(files) == {files[f].id : f \in Indexed(files)}

Names(vectors) == {vectors[k].name : k \in DOMAIN vectors}

\* The vector a search finds for an id: the one in the first segment that has one.
Found(vectors, i) ==
    {v \in UNION {vectors[k].vectors : k \in DOMAIN vectors} :
        /\ v.id = i
        /\ \E k \in DOMAIN vectors :
              /\ v \in vectors[k].vectors
              /\ \A j \in 1..(k - 1) : \A w \in vectors[j].vectors : w.id # i}

Ids        == 1..(MaxId + 1)
Generation == [files : Files, next : Ids, vectors : Seq(Nat)]
Memory     == [gen : Nat, files : Files, vectors : Seq(Segment), view : SUBSET Doc,
               next : Ids, end : Ids]
Closed == [gen |-> 0, files |-> NoFiles, vectors |-> <<>>, view |-> {}, next |-> 1, end |-> 1]

ASSUME NobodyIsApart == Nobody \notin Memory /\ Nobody \notin [version : Nat, docs : SUBSET Doc]

Work == [files : Files, docs : SUBSET Doc, staged : SUBSET Chunk, done : SUBSET Sources,
         vectors : Seq(Segment)]
NoWork == [files |-> NoFiles, docs |-> {}, staged |-> {}, done |-> {}, vectors |-> <<>>]

Init ==
    /\ docs = {} /\ payload = 0
    /\ generations = [n \in {} |-> 0] /\ segments = [n \in {} |-> {}]
    /\ reserved = 1 /\ minted = 0
    /\ genLock = Nobody /\ pubLock = Nobody
    /\ pc = [s \in Stores |-> "closed"]
    /\ store = [s \in Stores |-> Closed]
    /\ work = [s \in Stores |-> NoWork]
    /\ checkpoint = [s \in Stores |-> Nobody]
    /\ faults = 0
    /\ published = {}

At(s, place) == pc[s] = place
Goto(s, place) == pc' = [pc EXCEPT ![s] = place]
Larger(a, b) == IF a >= b THEN a ELSE b

Fault ==
    /\ faults < MaxFaults
    /\ faults' = faults + 1

\* What loading generation n from its files gives.  Ids already handed out in
\* memory are never taken back.
Open(vectors) == [k \in DOMAIN vectors |-> [name |-> vectors[k], vectors |-> segments[vectors[k]]]]
Load(m, n) ==
    IF n = 0 THEN [m EXCEPT !.view = docs]
    ELSE [m EXCEPT !.gen = n, !.files = generations[n].files,
                   !.vectors = Open(generations[n].vectors), !.view = docs,
                   !.next = Larger(@, generations[n].next)]
Loadable(n) ==
    n # 0 =>
       /\ n \in DOMAIN generations
       /\ \A k \in DOMAIN generations[n].vectors : generations[n].vectors[k] \in DOMAIN segments

\* Everything but the generation and the segments named goes.
CollectObsolete(n, vectors) ==
    /\ generations' = [g \in DOMAIN generations \cap {n} |-> generations[g]]
    /\ segments' = [v \in DOMAIN segments \cap Names(vectors) |-> segments[v]]

-----------------------------------------------------------------------------
(* DocumentStore::new.                                                     *)

RequestOpen(s) ==
    /\ At(s, "closed")
    /\ Goto(s, "opening")
    /\ UNCHANGED <<disk, locks, store, work, checkpoint, faults>>

\* Mutant: the committed state is read without the publication lock.
OpenUnlocked(s) ==
    /\ At(s, "opening")
    /\ Goto(s, "reading")
    /\ UNCHANGED <<disk, locks, store, work, checkpoint, faults>>

LockToOpen(s) ==
    /\ At(s, "opening") /\ pubLock = Nobody
    /\ pubLock' = s
    /\ Goto(s, "reading")
    /\ UNCHANGED <<disk, genLock, store, work, checkpoint, faults>>

OpenReader(s) ==
    /\ At(s, "reading")
    /\ store' = [store EXCEPT ![s].view = docs]
    /\ Goto(s, "reader")
    /\ UNCHANGED <<disk, locks, work, checkpoint, faults>>

\* Mutant: the ids start over.
OpenFromFirstId(s) ==
    /\ At(s, "reader")
    /\ Loadable(payload)
    /\ store' = [store EXCEPT ![s] = [Load(@, payload) EXCEPT !.view = store[s].view,
                                                                !.next = 1]]
    /\ Goto(s, "opened")
    /\ UNCHANGED <<disk, locks, work, checkpoint, faults>>

\* The generation the payload names now, and the ids reserved by now.
OpenGeneration(s) ==
    /\ At(s, "reader")
    /\ Loadable(payload)
    /\ LET loaded == [Load(store[s], payload) EXCEPT !.view = store[s].view]
           next   == Larger(loaded.next, reserved)
       IN store' = [store EXCEPT ![s] = [loaded EXCEPT !.next = next, !.end = next]]
    /\ Goto(s, "opened")
    /\ UNCHANGED <<disk, locks, work, checkpoint, faults>>

FinishOpen(s) ==
    /\ pubLock' = IF pubLock = s THEN Nobody ELSE pubLock
    /\ Goto(s, "idle")
    /\ UNCHANGED <<docs, payload, reserved, minted, published, genLock, store, work,
                   checkpoint, faults>>

\* Mutant: waits for the writer before it collects.
CollectOnOpenBlocking(s) ==
    /\ At(s, "opened")
    /\ genLock = Nobody
    /\ CollectObsolete(store[s].gen, store[s].vectors)
    /\ FinishOpen(s)

\* Mutant: collects although a transaction is under way.
CollectOnOpenAnyway(s) ==
    /\ At(s, "opened")
    /\ CollectObsolete(store[s].gen, store[s].vectors)
    /\ FinishOpen(s)

\* Leftovers are collected unless a transaction is under way.
CollectOnOpen(s) ==
    /\ At(s, "opened")
    /\ \/ genLock = Nobody /\ CollectObsolete(store[s].gen, store[s].vectors)
       \/ genLock # Nobody /\ UNCHANGED <<generations, segments>>
    /\ FinishOpen(s)

-----------------------------------------------------------------------------
(* A transaction: index_collection, reindex_file, remove_file,             *)
(* delete_collection and reconfigure_collections.                          *)

RequestTransaction(s) ==
    /\ pc[s] \in {"idle", "refreshed"}
    /\ minted < MaxPublications
    /\ Goto(s, "waiting")
    /\ UNCHANGED <<disk, locks, store, work, checkpoint, faults>>

\* The memory a failed settings reload goes back to.
Restored(s) == [checkpoint[s] EXCEPT !.next = store[s].next, !.end = store[s].end]
Reloading(s) == checkpoint[s] # Nobody

GiveUpReload(s) ==
    /\ store' = [store EXCEPT ![s] = IF Reloading(s) THEN Restored(s) ELSE @]
    /\ checkpoint' = [checkpoint EXCEPT ![s] = Nobody]

\* A reload whose generation was committed is not undone.
KeepReload(s) ==
    /\ checkpoint' = [checkpoint EXCEPT ![s] = Nobody]
    /\ UNCHANGED store

Enter(s) ==
    /\ genLock' = s
    /\ minted' = minted + 1
    /\ work' = [work EXCEPT ![s] = [NoWork EXCEPT !.files = store[s].files, !.docs = docs]]
    /\ Goto(s, "staging")
    /\ UNCHANGED <<docs, payload, generations, segments, reserved, published, pubLock, store,
                   checkpoint, faults>>

\* Mutant: does not ask whether another writer has committed since.
BeginStale(s) ==
    /\ At(s, "waiting") /\ genLock = Nobody
    /\ Enter(s)

Begin(s) ==
    /\ At(s, "waiting") /\ genLock = Nobody
    /\ payload = store[s].gen
    /\ Enter(s)

\* "Document generation changed in another writer; reopen the document store".
RefuseStale(s) ==
    /\ At(s, "waiting") /\ genLock = Nobody
    /\ payload # store[s].gen
    /\ GiveUpReload(s)
    /\ Goto(s, "idle")
    /\ UNCHANGED <<disk, locks, work, faults>>

Without(chunks, f) == {d \in chunks : d.source # f}

\* Mutant: the width of an id is not checked.
AllocateUnchecked(s) ==
    /\ store' = [store EXCEPT ![s].next = @ + 1, ![s].end = store[s].next + Block]
    /\ reserved' = store[s].next + Block

\* A block of ids is made durable before its first id is used.
Allocate(s) ==
    /\ store[s].next <= MaxId
    /\ \/ /\ store[s].next >= store[s].end
          /\ reserved' = IF store[s].next + Block <= MaxId + 1 THEN store[s].next + Block
                                                               ELSE MaxId + 1
          /\ store' = [store EXCEPT ![s].next = @ + 1, ![s].end = reserved']
       \/ /\ store[s].next < store[s].end
          /\ store' = [store EXCEPT ![s].next = @ + 1]
          /\ UNCHANGED reserved

\* The directory a transaction stages its vectors in, and the one it copies live
\* vectors to.
Staging   == 2 * minted
Compacted == 2 * minted + 1

\* The chunks of the source are replaced, and its vector staged.  The directory
\* of the staged vectors is a segment like the others, for who collects them.
IndexFile(s, f, c) ==
    /\ At(s, "staging") /\ f \notin work[s].done
    /\ Allocate(s)
    /\ LET chunk == [id |-> store[s].next, content |-> c] IN
       /\ work' = [work EXCEPT
           ![s].files  = [@ EXCEPT ![f] = chunk],
           ![s].docs   = Without(@, f) \cup {[source |-> f, id |-> chunk.id, content |-> c]},
           ![s].staged = @ \cup {chunk},
           ![s].done   = @ \cup {f}]
       /\ segments' = [n \in DOMAIN segments \cup {Staging} |->
                          IF n = Staging THEN work'[s].staged ELSE segments[n]]
    /\ UNCHANGED <<docs, payload, generations, minted, published, locks, pc, checkpoint, faults>>

RemoveFile(s, f) ==
    /\ At(s, "staging") /\ f \notin work[s].done
    /\ work[s].files[f] # NoFile
    /\ work' = [work EXCEPT ![s].files[f] = NoFile, ![s].docs = Without(@, f)]
    /\ UNCHANGED <<disk, locks, pc, store, checkpoint, faults>>

-----------------------------------------------------------------------------
(* Publication: commit.                                                    *)

LockToPublish(s) ==
    /\ At(s, "staging") /\ pubLock = Nobody
    /\ pubLock' = s
    /\ Goto(s, "publishing")
    /\ UNCHANGED <<disk, genLock, store, work, checkpoint, faults>>

Size(vectors) ==
    Cardinality(UNION {{k} \X vectors[k].vectors : k \in DOMAIN vectors})

Appended(s) ==
    IF work[s].staged = {} THEN store[s].vectors
    ELSE Append(store[s].vectors, [name |-> Staging, vectors |-> work[s].staged])

\* Mutant: looks for live vectors before the staged ones are appended.
LiveBeforeAppend(s) == UNION {Found(store[s].vectors, i) : i \in LiveIds(work[s].files)}

LiveVectors(s) == UNION {Found(Appended(s), i) : i \in LiveIds(work[s].files)}

Crowded(vectors, files) ==
    \/ Size(vectors) > 2 * Cardinality(LiveIds(files))
    \/ Len(vectors) > MaxSegments

\* The staged vectors become a segment; too many dead vectors or segments are
\* copied into one.
PublishVectors(s) ==
    /\ At(s, "publishing")
    /\ work[s].staged # {} => Staging \in DOMAIN segments
    /\ \/ /\ ~ Crowded(Appended(s), work[s].files)
          /\ work' = [work EXCEPT ![s].vectors = Appended(s)]
          /\ UNCHANGED segments
       \/ /\ Crowded(Appended(s), work[s].files)
          /\ LiveVectors(s) = {}
          /\ work' = [work EXCEPT ![s].vectors = <<>>]
          /\ UNCHANGED segments
       \/ /\ Crowded(Appended(s), work[s].files)
          /\ LiveVectors(s) # {}
          /\ work' = [work EXCEPT ![s].vectors =
                         <<[name |-> Compacted, vectors |-> LiveVectors(s)]>>]
          /\ segments' = [n \in DOMAIN segments \cup {Compacted} |->
                             IF n = Compacted THEN LiveVectors(s) ELSE segments[n]]
    /\ Goto(s, "vectors")
    /\ UNCHANGED <<docs, payload, generations, reserved, minted, published, locks, store,
                   checkpoint, faults>>

PrepareGeneration(s) ==
    /\ At(s, "vectors")
    /\ generations' = [n \in DOMAIN generations \cup {minted} |->
          IF n = minted
          THEN [files |-> work[s].files, next |-> store[s].next,
                vectors |-> [k \in DOMAIN work[s].vectors |-> work[s].vectors[k].name]]
          ELSE generations[n]]
    /\ Goto(s, "prepared")
    /\ UNCHANGED <<docs, payload, segments, reserved, minted, published, locks, store, work,
                   checkpoint, faults>>

Commit(s) ==
    /\ docs' = work[s].docs
    /\ payload' = minted
    /\ published' = published \cup work[s].docs

CommitMetadata(s) ==
    /\ At(s, "prepared")
    /\ Commit(s)
    /\ Goto(s, "committed")
    /\ UNCHANGED <<generations, segments, reserved, minted, locks, store, work, checkpoint, faults>>

\* The reader is reloaded, and the memory becomes that of the new generation.
Adopt(s) ==
    /\ At(s, "committed")
    /\ store' = [store EXCEPT ![s].gen = minted, ![s].files = work[s].files,
                              ![s].vectors = work[s].vectors, ![s].view = docs]
    /\ Goto(s, "adopted")
    /\ UNCHANGED <<disk, locks, work, checkpoint, faults>>

\* The mirror is written or not: the generation stays committed either way.
MirrorState(s) ==
    /\ At(s, "adopted")
    /\ pubLock' = Nobody
    /\ Goto(s, "ending")
    /\ UNCHANGED <<disk, genLock, store, work, checkpoint, faults>>

-----------------------------------------------------------------------------
(* Errors of a transaction.                                                *)

Fail(s) ==
    /\ Fault
    /\ pubLock' = IF pubLock = s THEN Nobody ELSE pubLock
    /\ Goto(s, "failed")
    /\ UNCHANGED <<generations, segments, reserved, minted, genLock, store, work, checkpoint>>

\* Any step may return an error, among them the reload after the commit.
StepFails(s) ==
    /\ pc[s] \in {"staging", "publishing", "vectors", "prepared", "committed"}
    /\ UNCHANGED <<docs, payload, published>>
    /\ Fail(s)

\* Tantivy reports an error although its metadata has been replaced.
CommitReportsError(s) ==
    /\ At(s, "prepared")
    /\ Commit(s)
    /\ Fail(s)

\* The chunk ids run out.
IdsExhausted(s) ==
    /\ At(s, "staging") /\ store[s].next > MaxId
    /\ UNCHANGED <<docs, payload, published>>
    /\ Goto(s, "failed")
    /\ UNCHANGED <<generations, segments, reserved, minted, locks, store, work, checkpoint, faults>>

\* Mutant: an error means that nothing was committed.
RollbackAnyway(s) ==
    /\ At(s, "failed")
    /\ Goto(s, "undone")
    /\ UNCHANGED <<disk, locks, store, work, checkpoint, faults>>

\* Nothing was committed: the memory of before is still right.
Rollback(s) ==
    /\ At(s, "failed") /\ payload = store[s].gen
    /\ Goto(s, "undone")
    /\ UNCHANGED <<disk, locks, store, work, checkpoint, faults>>

\* The commit did happen: its generation is loaded, and what called for it sees
\* that it has moved on.
Recover(s) ==
    /\ At(s, "failed") /\ payload # store[s].gen
    /\ Loadable(payload)
    /\ store' = [store EXCEPT ![s] = Load(@, payload)]
    /\ Goto(s, "ending")
    /\ UNCHANGED <<disk, locks, work, checkpoint, faults>>

\* The generation is loaded, but its mirror cannot be written.
RecoverUnmirrored(s) ==
    /\ At(s, "failed") /\ payload # store[s].gen
    /\ Loadable(payload)
    /\ Fault
    /\ store' = [store EXCEPT ![s] = Load(@, payload)]
    /\ Goto(s, "unmirrored")
    /\ UNCHANGED <<disk, locks, work, checkpoint>>

RecoveryFails(s) ==
    /\ At(s, "failed") /\ payload # store[s].gen
    /\ Fault
    /\ Goto(s, "unrecovered")
    /\ UNCHANGED <<disk, locks, store, work, checkpoint>>

-----------------------------------------------------------------------------
(* The end of a transaction.                                               *)

\* Mutant: collects for the generation it knows, whatever is committed.
AlwaysCollects(s) == TRUE

\* Only a store that knows the committed generation may tell what is obsolete.
Collects(s) == ~ pc[s] \in {"unmirrored", "unrecovered"}

End(s) ==
    /\ pc[s] \in {"ending", "undone", "unmirrored", "unrecovered"}
    /\ \/ Collects(s) /\ CollectObsolete(store[s].gen, store[s].vectors)
       \/ ~ Collects(s) /\ UNCHANGED <<generations, segments>>
    /\ \/ pc[s] \in {"ending", "unmirrored"} /\ KeepReload(s)
       \/ pc[s] \in {"undone", "unrecovered"} /\ GiveUpReload(s)
    /\ work' = [work EXCEPT ![s] = NoWork]
    /\ genLock' = Nobody
    /\ Goto(s, "idle")
    /\ UNCHANGED <<docs, payload, reserved, minted, published, pubLock, faults>>

-----------------------------------------------------------------------------
(* with_committed_generation: a settings reload first adopts what another  *)
(* writer has committed.                                                   *)

Refresh(s) ==
    /\ At(s, "idle") /\ genLock = Nobody
    /\ payload # store[s].gen /\ Loadable(payload)
    /\ checkpoint' = [checkpoint EXCEPT ![s] = store[s]]
    /\ LET loaded == Load(store[s], payload)
           next   == Larger(loaded.next, reserved)
       IN store' = [store EXCEPT ![s] = [loaded EXCEPT !.next = next, !.end = next]]
    /\ Goto(s, "refreshed")
    /\ UNCHANGED <<disk, locks, work, faults>>

\* The settings agree with the generation: nothing to change.
Settle(s) ==
    /\ At(s, "refreshed")
    /\ KeepReload(s)
    /\ Goto(s, "idle")
    /\ UNCHANGED <<disk, locks, work, faults>>

\* The settings are refused before anything is written.
RefuseSettings(s) ==
    /\ At(s, "refreshed")
    /\ GiveUpReload(s)
    /\ Goto(s, "idle")
    /\ UNCHANGED <<disk, locks, work, faults>>

-----------------------------------------------------------------------------
\* The process dies: its locks are released, its files stay.
Crash(s) ==
    /\ ~ At(s, "closed")
    /\ Fault
    /\ genLock' = IF genLock = s THEN Nobody ELSE genLock
    /\ pubLock' = IF pubLock = s THEN Nobody ELSE pubLock
    /\ Goto(s, "closed")
    /\ store' = [store EXCEPT ![s] = Closed]
    /\ work' = [work EXCEPT ![s] = NoWork]
    /\ checkpoint' = [checkpoint EXCEPT ![s] = Nobody]
    /\ UNCHANGED disk

Opening(s) ==
    RequestOpen(s) \/ LockToOpen(s) \/ OpenReader(s) \/ OpenGeneration(s) \/ CollectOnOpen(s)

Change(s) ==
    \E f \in Sources : RemoveFile(s, f) \/ \E c \in Contents : IndexFile(s, f, c)

Publishing(s) ==
    \/ LockToPublish(s) \/ PublishVectors(s) \/ PrepareGeneration(s)
    \/ CommitMetadata(s) \/ Adopt(s) \/ MirrorState(s)

Failing(s) ==
    \/ StepFails(s) \/ CommitReportsError(s) \/ IdsExhausted(s)
    \/ Rollback(s) \/ Recover(s) \/ RecoverUnmirrored(s) \/ RecoveryFails(s)

Step(s) ==
    \/ Opening(s)
    \/ RequestTransaction(s) \/ Begin(s) \/ RefuseStale(s)
    \/ Change(s) \/ Publishing(s) \/ Failing(s) \/ End(s)
    \/ Refresh(s) \/ Settle(s) \/ RefuseSettings(s)
    \/ Crash(s)

Next == \E s \in Stores : Step(s)

Spec == Init /\ [][Next]_vars

\* A started operation goes on, and a lock that is released again and again is
\* granted in the end.
GoOn(s) ==
    \/ OpenReader(s) \/ OpenGeneration(s) \/ CollectOnOpen(s)
    \/ PublishVectors(s) \/ PrepareGeneration(s) \/ CommitMetadata(s) \/ Adopt(s) \/ MirrorState(s)
    \/ Rollback(s) \/ Recover(s) \/ End(s)
Lock(s) == LockToOpen(s) \/ Begin(s) \/ RefuseStale(s) \/ LockToPublish(s)

Fairness == \A s \in Stores : WF_vars(GoOn(s)) /\ SF_vars(Lock(s))
FairSpec == Spec /\ Fairness

-----------------------------------------------------------------------------
(* Properties.                                                             *)

Places == {"closed", "opening", "reading", "reader", "opened", "idle", "refreshed", "waiting",
           "staging", "publishing", "vectors", "prepared", "committed", "adopted", "failed",
           "ending", "undone", "unmirrored", "unrecovered"}

\* Every variable has its type: a file has one chunk, a segment a set of
\* vectors, and the counters stay within MaxId and the bounds.
TypeOK ==
    /\ docs \subseteq Doc /\ published \subseteq Doc
    /\ payload \in Nat
    /\ DOMAIN generations \subseteq Nat /\ \A n \in DOMAIN generations : generations[n] \in Generation
    /\ DOMAIN segments \subseteq Nat /\ \A n \in DOMAIN segments : segments[n] \subseteq Chunk
    /\ reserved \in Ids
    /\ minted \in Nat
    /\ genLock \in Stores \cup {Nobody} /\ pubLock \in Stores \cup {Nobody}
    /\ pc \in [Stores -> Places]
    /\ store \in [Stores -> Memory] /\ checkpoint \in [Stores -> Memory \cup {Nobody}]
    /\ work \in [Stores -> Work]
    /\ faults \in 0..MaxFaults

\* A search for a live chunk meets that chunk's own vector first.
Answerable(files, vectors) ==
    \A f \in Indexed(files) : Found(vectors, files[f].id) = {files[f]}

\* Whatever crashed or failed, the generation that Tantivy's commit names is
\* there with its segments, and describes exactly the chunks committed with it
\* (generation.rs:131, collect_obsolete at generation.rs:371).
CommittedIsLoadable ==
    /\ Loadable(payload)
    /\ payload = 0 => docs = {}
    /\ payload # 0 => docs = DocsOf(generations[payload].files)

\* A search of the committed generation finds the vector of each chunk, and not
\* one of a chunk that was replaced (append and compact at generation.rs:290).
CommittedIsSearchable ==
    payload # 0 => Answerable(generations[payload].files, Open(generations[payload].vectors))

\* A store that takes queries has text, file states and vectors of one
\* generation, whatever failed before it (store.rs:2114, with_committed_generation).
AnswersAreOneGeneration ==
    \A s \in Stores : At(s, "idle") =>
        /\ store[s].view = DocsOf(store[s].files)
        /\ Answerable(store[s].files, store[s].vectors)

\* What a store answers from, and what a settings reload may put back.
Version(m) == [version |-> m.gen, docs |-> m.view]
Unopened == {"closed", "opening", "reading", "reader"}
Seen(s)     == IF pc[s] \in Unopened THEN Nobody ELSE Version(store[s])
Fallback(s) == IF Reloading(s) THEN Version(checkpoint[s]) ELSE Nobody
Abstract == INSTANCE CommittedDocuments WITH
    Absent    <- Nobody,
    committed <- [version |-> payload, docs |-> docs],
    seen      <- [s \in Stores |-> Seen(s)],
    kept      <- [s \in Stores |-> Fallback(s)]

\* Stores publish and adopt whole sets of chunks, one after the other: nothing
\* that another process committed is overwritten unseen, and no committed chunk
\* id ever names another chunk (store.rs:2114, allocate_chunk_id at store.rs:1709).
ImplementsCommittedDocuments == Abstract!Spec

\* Whatever a store has begun ends, with success or an error, although it may
\* wait for a lock the other kind holds (generation.rs:22): again and again only
\* the callers decide what a store does next.
Resting(s)    == pc[s] \in {"idle", "closed", "refreshed"}
OperationsEnd == \A s \in Stores : []<>Resting(s)
=============================================================================
