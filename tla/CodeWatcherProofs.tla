-------------------------- MODULE CodeWatcherProofs --------------------------
(***************************************************************************)
(* Proofs about CodeWatcher, for every tree, queue capacity, threshold and *)
(* bound: type correctness; that a retained wave always belongs to the     *)
(* rows in the index as long as no client forces a reindex; that no        *)
(* durable obligation is left without a scan or a retry to come; and, for  *)
(* editors that leave unwatched directories alone, that no change is lost  *)
(* (TreeInv) and that a directory is always on its way to a watch          *)
(* (DirectoryInv).                                                         *)
(***************************************************************************)
EXTENDS CodeWatcher, TLAPS

HistoryType == [edits : 0..MaxEdits, faults : 0..MaxFaults, requests : 0..MaxRequests,
                forgotten : SUBSET Paths]
LaneType ==
    [pc : {"idle", "created", "sync", "reload", "policy", "install", "dispatch", "files"},
     dirs : SUBSET Dirs, files : SUBSET Files, after : {"idle", "dispatch"}]
TreeTyped == disk \in Contents /\ present \in SUBSET Dirs
WatchesTyped == watched \in SUBSET present /\ registry \in SUBSET Dirs
QueueTyped ==
    /\ events \in Seq(EventType) /\ Len(events) <= QueueCap
    /\ overflow \in BOOLEAN
DebouncerTyped ==
    /\ modified \in SUBSET Files /\ removed \in SUBSET (Paths \ modified)
    /\ quiet \in SUBSET (modified \cup removed)
StoreTyped ==
    /\ index \in Contents /\ owed \in SUBSET Files
    /\ retained \in Contents \cup {NoWave}
TaskTyped == reload \in BOOLEAN /\ lane \in LaneType /\ history \in HistoryType

LEMMA TypeParts ==
    TypeOK <=> /\ TreeTyped /\ WatchesTyped /\ QueueTyped
               /\ DebouncerTyped /\ StoreTyped /\ TaskTyped
BY DEF TypeOK, TreeTyped, WatchesTyped, QueueTyped, DebouncerTyped, StoreTyped, TaskTyped,
       HistoryType, LaneType

LEMMA NextTypeParts ==
    TypeOK' <=> /\ TreeTyped' /\ WatchesTyped' /\ QueueTyped'
                /\ DebouncerTyped' /\ StoreTyped' /\ TaskTyped'
BY DEF TypeOK, TreeTyped, WatchesTyped, QueueTyped, DebouncerTyped, StoreTyped, TaskTyped,
       HistoryType, LaneType

LEMMA LaneOf ==
    ASSUME NEW pc \in {"idle", "created", "sync", "reload", "policy", "install", "dispatch",
                       "files"},
           NEW D \in SUBSET Dirs, NEW F \in SUBSET Files, NEW after \in {"idle", "dispatch"}
    PROVE  [pc |-> pc, dirs |-> D, files |-> F, after |-> after] \in LaneType
BY DEF LaneType

-----------------------------------------------------------------------------
(* What the shared pieces of the actions do to the types.                  *)

LEMMA IndexedType ==
    ASSUME NEW S \in SUBSET Files, TreeTyped, StoreTyped
    PROVE  Indexed(S) \in Contents
BY DEF Indexed, TreeTyped, StoreTyped, Contents

LEMMA FaultType ==
    ASSUME NEW kind, NEW lost \in SUBSET Paths, TaskTyped, Fault(kind, lost)
    PROVE  history' \in HistoryType
<1>1. history.faults + 1 \in 0..MaxFaults /\ history.forgotten \cup lost \in SUBSET Paths
  BY BoundsAssumption DEF Fault, TaskTyped, HistoryType
<1>2. history' = [edits |-> history.edits, faults |-> history.faults + 1,
                  requests |-> history.requests, forgotten |-> history.forgotten \cup lost]
  BY DEF Fault, TaskTyped, HistoryType
<1> QED
  BY <1>1, <1>2 DEF TaskTyped, HistoryType

LEMMA NotifyType ==
    ASSUME NEW p \in Paths, NEW kind \in {"change", "remove"}, QueueTyped, Notify(p, kind)
    PROVE  QueueTyped'
<1>1. [path |-> p, kind |-> kind] \in EventType
  BY DEF EventType
<1>2. CASE Len(events) < QueueCap
  BY <1>1, <1>2, BoundsAssumption DEF Notify, QueueTyped
<1>3. CASE Len(events) >= QueueCap
  <2>1. Len(events) \in Nat /\ ~(Len(events) < QueueCap)
    BY <1>3, BoundsAssumption DEF QueueTyped
  <2>2. overflow' = TRUE /\ events' = events
    BY <2>1 DEF Notify
  <2> QED
    BY <2>2 DEF QueueTyped
<1>4. Len(events) \in Nat
  BY DEF QueueTyped
<1> QED
  BY <1>2, <1>3, <1>4, BoundsAssumption

LEMMA RecordType ==
    ASSUME NEW S \in SUBSET Files, DebouncerTyped, Record(S)
    PROVE  DebouncerTyped'
BY DEF Record, DebouncerTyped

LEMMA RecordRemovalType ==
    ASSUME NEW S \in SUBSET Paths, DebouncerTyped, RecordRemoval(S)
    PROVE  DebouncerTyped'
BY DEF RecordRemoval, DebouncerTyped, Paths

LEMMA WatchType ==
    ASSUME NEW S, WatchesTyped, UNCHANGED present, Watch(S)
    PROVE  watched' \in SUBSET present'
BY DEF Watch, WatchesTyped

LEMMA ReceivedType ==
    ASSUME NEW e, QueueTyped, Received(e)
    PROVE  QueueTyped'
<1>1. events # <<>> /\ events' = Tail(events) /\ overflow' = overflow
  BY DEF Received
<1>2. Tail(events) \in Seq(EventType) /\ Len(Tail(events)) = Len(events) - 1
  BY <1>1 DEF QueueTyped
<1>3. Len(events) \in Nat
  BY DEF QueueTyped
<1> QED
  BY <1>1, <1>2, <1>3, BoundsAssumption DEF QueueTyped

LEMMA SynchronizeType ==
    ASSUME NEW scope \in SUBSET Files, TypeOK, UNCHANGED <<disk, events>>, Synchronize(scope)
    PROVE  StoreTyped' /\ QueueTyped' /\ history' \in HistoryType
<1> DEFINE changed == {f \in scope : index[f] # disk[f]}
<1>1. TreeTyped /\ QueueTyped /\ StoreTyped /\ TaskTyped
  BY TypeParts
<1>2. changed \in SUBSET Files
  OBVIOUS
<1>3. CASE /\ index' = Indexed(changed)
           /\ owed' = {} /\ retained' = NoWave
           /\ UNCHANGED <<overflow, history>>
  BY <1>1, <1>2, <1>3, IndexedType DEF StoreTyped, QueueTyped, TaskTyped
<1>4. ASSUME NEW kind, FlushFails(kind)
      PROVE  StoreTyped' /\ QueueTyped' /\ history' \in HistoryType
  <2>1. history' \in HistoryType
    BY <1>1, <1>4, FaultType DEF FlushFails
  <2> QED
    BY <1>1, <1>4, <2>1 DEF FlushFails, StoreTyped, QueueTyped
<1>5. ASSUME NEW kind, SynchronizeFails(changed, kind)
      PROVE  StoreTyped' /\ QueueTyped' /\ history' \in HistoryType
  <2>1. history' \in HistoryType
    BY <1>1, <1>5, FaultType DEF SynchronizeFails
  <2>2. Unresolved \in SUBSET Files
    BY <1>1 DEF Unresolved, StoreTyped
  <2>3. PICK done \in SUBSET changed :
          /\ index' = Indexed(done)
          /\ owed' = IF kind \in {"resolve", "writer"} THEN Unresolved \cup done ELSE {}
    BY <1>5 DEF SynchronizeFails
  <2>4. index' \in Contents /\ owed' \in SUBSET Files
    BY <1>1, <1>2, <2>2, <2>3, IndexedType
  <2>5. retained' \in Contents \cup {NoWave} /\ overflow' = TRUE
    BY <1>5, <2>4 DEF SynchronizeFails
  <2> QED
    BY <1>1, <2>1, <2>4, <2>5 DEF StoreTyped, QueueTyped, Contents
<1> HIDE DEF changed
<1> QED
  BY <1>3, <1>4, <1>5 DEF Synchronize, changed

-----------------------------------------------------------------------------
(* Type correctness.                                                       *)

LEMMA InitType == Init => TypeOK
<1> SUFFICES ASSUME Init PROVE TypeOK
  OBVIOUS
<1>1. TreeTyped /\ WatchesTyped
  BY DiskAssumption, PathsAssumption
  DEF Init, Parents, TreeTyped, WatchesTyped, Contents
<1>2. QueueTyped
  <2>1. events = <<>> /\ overflow = FALSE
    BY DEF Init
  <2>2. events \in Seq(EventType) /\ Len(events) = 0
    BY <2>1
  <2>3. Len(events) <= QueueCap
    BY <2>2, BoundsAssumption
  <2> QED
    BY <2>1, <2>2, <2>3 DEF QueueTyped
<1>3. DebouncerTyped /\ StoreTyped
  BY DiskAssumption DEF Init, DebouncerTyped, StoreTyped, Contents, Paths
<1>4. TaskTyped
  <2>1. lane \in LaneType
    BY LaneOf DEF Init, Idle
  <2>2. history \in HistoryType
    BY BoundsAssumption DEF Init, HistoryType
  <2> QED
    BY <2>1, <2>2 DEF Init, TaskTyped
<1> QED
  BY <1>1, <1>2, <1>3, <1>4, TypeParts

LEMMA EnvironmentType ==
    ASSUME TypeOK, Environment
    PROVE  TypeOK'
<1>1. /\ TreeTyped /\ WatchesTyped /\ QueueTyped
      /\ DebouncerTyped /\ StoreTyped /\ TaskTyped
  BY TypeParts
<1>2. ASSUME NEW edited, Edit(edited) PROVE DebouncerTyped' /\ StoreTyped' /\ TaskTyped'
  <2>1. history.edits + 1 \in 0..MaxEdits /\ history.forgotten \ edited \in SUBSET Paths
    BY <1>1, <1>2, BoundsAssumption DEF Edit, TaskTyped, HistoryType
  <2>2. history' = [edits |-> history.edits + 1, faults |-> history.faults,
                    requests |-> history.requests, forgotten |-> history.forgotten \ edited]
    BY <1>1, <1>2 DEF Edit, TaskTyped, HistoryType
  <2>3. history' \in HistoryType
    BY <1>1, <2>1, <2>2 DEF TaskTyped, HistoryType
  <2> QED
    BY <1>1, <1>2, <2>3 DEF Edit, debouncer, store, DebouncerTyped, StoreTyped, TaskTyped
<1>3. ASSUME NEW f \in Files, WriteFile(f) PROVE TypeOK'
  <2>1. TreeTyped' /\ WatchesTyped'
    BY <1>1, <1>3 DEF WriteFile, Edit, TreeTyped, WatchesTyped, Contents
  <2>2. QueueTyped'
    <3>1. PICK v \in (Versions \cup {Absent}) \ {disk[f]} :
             \/ Notify(f, IF v = Absent THEN "remove" ELSE "change")
             \/ UNCHANGED queue
      BY <1>3 DEF WriteFile
    <3>2. CASE UNCHANGED queue
      BY <1>1, <3>2 DEF queue, QueueTyped
    <3>3. CASE Notify(f, IF v = Absent THEN "remove" ELSE "change")
      BY <1>1, <3>3, NotifyType DEF Paths
    <3> QED
      BY <3>1, <3>2, <3>3
  <2> QED
    BY <1>2, <1>3, <2>1, <2>2, NextTypeParts DEF WriteFile
<1>4. ASSUME NEW d \in Dirs, MakeDirectory(d) PROVE TypeOK'
  <2>1. TreeTyped'
    <3>1. PICK moved \in [FilesIn(d) -> Versions \cup {Absent}] :
             disk' = [f \in Files |-> IF f \in FilesIn(d) THEN moved[f] ELSE disk[f]]
      BY <1>4 DEF MakeDirectory
    <3>2. disk' \in Contents
      BY <1>1, <3>1 DEF TreeTyped, Contents
    <3> QED
      BY <1>1, <1>4, <3>2 DEF MakeDirectory, TreeTyped, Contents
  <2>2. WatchesTyped'
    BY <1>1, <1>4 DEF MakeDirectory, Edit, WatchesTyped
  <2>3. QueueTyped'
    BY <1>1, <1>4, NotifyType DEF MakeDirectory, Paths
  <2> QED
    BY <1>2, <1>4, <2>1, <2>2, <2>3, NextTypeParts DEF MakeDirectory
<1>5. ASSUME NEW d \in Dirs, RemoveDirectory(d) PROVE TypeOK'
  <2>1. TreeTyped' /\ WatchesTyped'
    BY <1>1, <1>5 DEF RemoveDirectory, Edit, TreeTyped, WatchesTyped, Contents
  <2>2. QueueTyped'
    BY <1>1, <1>5, NotifyType DEF RemoveDirectory, Paths
  <2> QED
    BY <1>2, <1>5, <2>1, <2>2, NextTypeParts DEF RemoveDirectory
<1> QED
  BY <1>3, <1>4, <1>5 DEF Environment

LEMMA ReceiveType ==
    ASSUME TypeOK, Receive
    PROVE  TypeOK'
<1>1. /\ TreeTyped /\ WatchesTyped /\ QueueTyped
      /\ DebouncerTyped /\ StoreTyped /\ TaskTyped
  BY TypeParts
<1>2. PICK e \in EventType : ReceiveDirectory(e) \/ ReceiveVanished(e) \/ ReceiveFile(e)
  BY DEF Receive
<1>3. Received(e)
  BY <1>2 DEF ReceiveDirectory, ReceiveVanished, ReceiveFile
<1>4. TreeTyped' /\ WatchesTyped' /\ QueueTyped' /\ StoreTyped' /\ UNCHANGED reload
  BY <1>1, <1>3, ReceivedType
  DEF Received, tree, watches, store, TreeTyped, WatchesTyped, StoreTyped
<1>5. ASSUME ReceiveDirectory(e) PROVE DebouncerTyped' /\ TaskTyped'
  <2>0. {e.path} \cup FilesIn(e.path) \in SUBSET Paths
    BY <1>5 DEF EventType, Paths, FilesIn
  <2>1. history' \in HistoryType
    BY <1>1, <1>5, <2>0, FaultType DEF ReceiveDirectory, TaskTyped
  <2>2. lane' \in LaneType
    <3>1. {e.path} \in SUBSET Dirs /\ {f \in FilesIn(e.path) : disk[f] # Absent} \in SUBSET Files
      BY <1>1, <1>5 DEF ReceiveDirectory, TreeTyped, FilesIn
    <3>2. \/ lane' = [Idle EXCEPT !.pc = "created", !.dirs = {e.path},
                                  !.files = {f \in FilesIn(e.path) : disk[f] # Absent}]
          \/ lane' = lane
      BY <1>5 DEF ReceiveDirectory
    <3>3. CASE lane' = lane
      BY <1>1, <3>3 DEF TaskTyped
    <3>4. CASE lane' = [Idle EXCEPT !.pc = "created", !.dirs = {e.path},
                                    !.files = {f \in FilesIn(e.path) : disk[f] # Absent}]
      BY <3>1, <3>4 DEF Idle, LaneType
    <3> QED
      BY <3>2, <3>3, <3>4
  <2> QED
    BY <1>1, <1>4, <1>5, <2>1, <2>2
    DEF ReceiveDirectory, TaskTyped, debouncer, DebouncerTyped
<1>6. ASSUME ReceiveVanished(e) PROVE DebouncerTyped' /\ TaskTyped'
  <2>1. {e.path} \in SUBSET Paths
    BY <1>6 DEF ReceiveVanished, Paths
  <2>2. DebouncerTyped'
    BY <1>1, <1>6, <2>1, RecordRemovalType DEF ReceiveVanished, debouncer, DebouncerTyped
  <2> QED
    BY <1>1, <1>4, <1>6, <2>2 DEF ReceiveVanished, TaskTyped
<1>7. ASSUME ReceiveFile(e) PROVE DebouncerTyped' /\ TaskTyped'
  <2>1. {e.path} \in SUBSET Files /\ {e.path} \in SUBSET Paths
    BY <1>7 DEF ReceiveFile, Paths
  <2>2. DebouncerTyped'
    BY <1>1, <1>7, <2>1, RecordType, RecordRemovalType DEF ReceiveFile
  <2> QED
    BY <1>1, <1>4, <1>7, <2>2 DEF ReceiveFile, TaskTyped
<1> QED
  BY <1>2, <1>4, <1>5, <1>6, <1>7, NextTypeParts

LEMMA MutationType ==
    ASSUME TypeOK,
           RetryRetained \/ ReconcileRoots \/ DispatchBurst \/ DispatchLargeBurst
    PROVE  TypeOK'
<1>1. /\ TreeTyped /\ WatchesTyped /\ QueueTyped
      /\ DebouncerTyped /\ StoreTyped /\ TaskTyped
  BY TypeParts
<1>2. ASSUME NEW taken, Wave(taken) PROVE TypeOK'
  <2>1. Synchronize(Files) /\ UNCHANGED <<disk, events>>
    BY <1>2 DEF Wave, tree
  <2>2. StoreTyped' /\ QueueTyped' /\ history' \in HistoryType
    BY <2>1, SynchronizeType
  <2>3. lane' \in LaneType /\ reload' = TRUE
    BY <1>2, LaneOf DEF Wave, Idle
  <2>4. DebouncerTyped'
    BY <1>1, <1>2 DEF Wave, DebouncerTyped, Paths
  <2>5. TreeTyped' /\ WatchesTyped'
    BY <1>1, <1>2 DEF Wave, tree, watches, TreeTyped, WatchesTyped
  <2> QED
    BY <2>2, <2>3, <2>4, <2>5, NextTypeParts DEF TaskTyped
<1>3. ASSUME RetryRetained PROVE TypeOK'
  <2>1. Synchronize({}) /\ UNCHANGED <<disk, events>> /\ {} \in SUBSET Files
    BY <1>3 DEF RetryRetained, tree
  <2>2. StoreTyped' /\ QueueTyped' /\ history' \in HistoryType
    BY <2>1, SynchronizeType
  <2>3. TreeTyped' /\ WatchesTyped' /\ DebouncerTyped' /\ TaskTyped'
    BY <1>1, <1>3, <2>2
    DEF RetryRetained, tree, watches, debouncer, TreeTyped, WatchesTyped, DebouncerTyped, TaskTyped
  <2> QED
    BY <2>2, <2>3, NextTypeParts
<1>4. ASSUME ReconcileRoots PROVE TypeOK'
  <2>1. Synchronize(Files) /\ UNCHANGED <<disk, events>>
    BY <1>4 DEF ReconcileRoots, tree
  <2>2. StoreTyped' /\ QueueTyped' /\ history' \in HistoryType
    BY <2>1, SynchronizeType
  <2>3. lane' \in LaneType
    BY <1>4 DEF ReconcileRoots, Idle, LaneType
  <2>4. TreeTyped' /\ WatchesTyped' /\ DebouncerTyped' /\ TaskTyped'
    BY <1>1, <1>4, <2>2, <2>3
    DEF ReconcileRoots, tree, watches, debouncer, TreeTyped, WatchesTyped, DebouncerTyped, TaskTyped
  <2> QED
    BY <2>2, <2>4, NextTypeParts
<1> QED
  BY <1>2, <1>3, <1>4 DEF DispatchBurst, DispatchLargeBurst

LEMMA DrainType ==
    ASSUME TypeOK,
           TakeOverflow \/ DispatchRename \/ DispatchFiles \/ EndTick \/ ProcessFile
    PROVE  TypeOK'
<1>1. /\ TreeTyped /\ WatchesTyped /\ QueueTyped
      /\ DebouncerTyped /\ StoreTyped /\ TaskTyped
  BY TypeParts
<1>2. Ready \in SUBSET modified /\ Vanished \in SUBSET modified /\ (Ready # {} => removed = {})
  BY DEF Ready, Vanished
<1>3. CASE TakeOverflow
  <2>1. lane' \in LaneType
    BY <1>3 DEF TakeOverflow, Idle, LaneType
  <2> QED
    BY <1>1, <1>3, <2>1, NextTypeParts
    DEF TakeOverflow, tree, watches, debouncer, store, TreeTyped, WatchesTyped, QueueTyped,
        DebouncerTyped, StoreTyped, TaskTyped
<1>4. CASE DispatchRename
  <2>1. lane' \in LaneType
    BY <1>4, LaneOf DEF DispatchRename, Idle
  <2>2. removed = {}
    BY <1>2, <1>4 DEF DispatchRename, Vanished
  <2>3. DebouncerTyped'
    BY <1>1, <1>2, <1>4, <2>2 DEF DispatchRename, DebouncerTyped, Paths
  <2> QED
    BY <1>1, <1>4, <2>1, <2>3, NextTypeParts
    DEF DispatchRename, tree, watches, queue, store, TreeTyped, WatchesTyped, QueueTyped,
        StoreTyped, TaskTyped
<1>5. CASE DispatchFiles
  <2>1. lane' \in LaneType
    BY <1>1, <1>2, <1>5 DEF DispatchFiles, Idle, LaneType, DebouncerTyped
  <2>2. DebouncerTyped'
    BY <1>1, <1>2, <1>5 DEF DispatchFiles, DebouncerTyped
  <2> QED
    BY <1>1, <1>5, <2>1, <2>2, NextTypeParts
    DEF DispatchFiles, tree, watches, queue, store, TreeTyped, WatchesTyped, QueueTyped,
        StoreTyped, TaskTyped
<1>6. CASE EndTick
  <2>1. lane' \in LaneType
    BY <1>6, LaneOf DEF EndTick, Idle
  <2> QED
    BY <1>1, <1>6, <2>1, NextTypeParts
    DEF EndTick, tree, watches, queue, debouncer, store, TreeTyped, WatchesTyped, QueueTyped,
        DebouncerTyped, StoreTyped, TaskTyped
<1>7. CASE ProcessFile
  <2>1. PICK f \in Files : SkipVanished(f) \/ RefuseFile(f) \/ ReindexFile(f) \/ ReindexFails(f)
    BY <1>7 DEF ProcessFile
  <2>2. Processed(f)
    BY <2>1 DEF SkipVanished, RefuseFile, ReindexFile, ReindexFails
  <2>3. lane' \in LaneType
    <3>1. lane' = Idle \/ lane' = [lane EXCEPT !.files = @ \ {f}]
      BY <2>2 DEF Processed
    <3>2. Idle \in LaneType
      BY LaneOf DEF Idle
    <3>3. [lane EXCEPT !.files = @ \ {f}] \in LaneType
      BY <1>1 DEF TaskTyped, LaneType
    <3> QED
      BY <3>1, <3>2, <3>3
  <2>4. TreeTyped' /\ WatchesTyped' /\ DebouncerTyped' /\ UNCHANGED <<events, reload>>
    BY <1>1, <2>2
    DEF Processed, tree, watches, debouncer, TreeTyped, WatchesTyped, DebouncerTyped
  <2>5. Indexed({f}) \in Contents
    BY <1>1, IndexedType
  <2>6. history' \in HistoryType
    <3>1. {f} \in SUBSET Paths
      BY <1>1 DEF Paths
    <3> QED
      BY <1>1, <2>1, <3>1, FaultType
         DEF SkipVanished, RefuseFile, ReindexFile, ReindexFails, TaskTyped
  <2>7. StoreTyped' /\ overflow' \in BOOLEAN
    BY <1>1, <2>1, <2>5
    DEF SkipVanished, RefuseFile, ReindexFile, ReindexFails, store, StoreTyped, QueueTyped
  <2> QED
    BY <1>1, <2>3, <2>4, <2>6, <2>7, NextTypeParts DEF QueueTyped, TaskTyped
<1> QED
  BY <1>3, <1>4, <1>5, <1>6, <1>7

LEMMA ReloadType ==
    ASSUME TypeOK,
           FinishCreated \/ ReceiveReload \/ RebuildRegistry \/ WalkDirectories \/ InstallWatches
    PROVE  TypeOK'
<1>1. /\ TreeTyped /\ WatchesTyped /\ QueueTyped
      /\ DebouncerTyped /\ StoreTyped /\ TaskTyped
  BY TypeParts
<1>2. lane.dirs \in SUBSET Dirs /\ lane.files \in SUBSET Files /\ lane.after \in {"idle", "dispatch"}
  BY <1>1 DEF TaskTyped, LaneType
<1>3. CASE FinishCreated
  <2>1. WatchesTyped'
    BY <1>1, <1>2, <1>3, WatchType DEF FinishCreated, tree, WatchesTyped
  <2>2. DebouncerTyped' /\ lane' \in LaneType
    BY <1>1, <1>2, <1>3, RecordType, LaneOf DEF FinishCreated, Idle
  <2> QED
    BY <1>1, <1>3, <2>1, <2>2, NextTypeParts
    DEF FinishCreated, tree, queue, store, TreeTyped, QueueTyped, StoreTyped, TaskTyped
<1>4. CASE ReceiveReload
  <2>1. lane' \in LaneType /\ reload' = FALSE
    BY <1>4 DEF ReceiveReload, Idle, LaneType
  <2> QED
    BY <1>1, <1>4, <2>1, NextTypeParts
    DEF ReceiveReload, tree, watches, queue, debouncer, store, TreeTyped, WatchesTyped,
        QueueTyped, DebouncerTyped, StoreTyped, TaskTyped
<1>5. CASE RebuildRegistry
  <2>1. registry' \in SUBSET Dirs
    BY <1>5, PathsAssumption DEF RebuildRegistry, Parents
  <2>2. WatchesTyped'
    BY <1>1, <1>5, <2>1, WatchType DEF RebuildRegistry, tree, WatchesTyped
  <2>3. lane' \in LaneType
    BY <1>1, <1>5 DEF RebuildRegistry, TaskTyped, LaneType
  <2> QED
    BY <1>1, <1>5, <2>2, <2>3, NextTypeParts
    DEF RebuildRegistry, tree, queue, debouncer, store, TreeTyped, QueueTyped, DebouncerTyped,
        StoreTyped, TaskTyped
<1>6. CASE WalkDirectories
  <2>1. lane' \in LaneType
    BY <1>1, <1>6 DEF WalkDirectories, TaskTyped, LaneType, TreeTyped
  <2> QED
    BY <1>1, <1>6, <2>1, NextTypeParts
    DEF WalkDirectories, tree, watches, queue, debouncer, store, TreeTyped, WatchesTyped,
        QueueTyped, DebouncerTyped, StoreTyped, TaskTyped
<1>7. CASE InstallWatches
  <2>1. WatchesTyped'
    BY <1>1, <1>2, <1>7, WatchType DEF InstallWatches, tree, WatchesTyped
  <2>2. lane' \in LaneType /\ reload' \in BOOLEAN
    BY <1>1, <1>2, <1>7 DEF InstallWatches, TaskTyped, Idle, LaneType
  <2> QED
    BY <1>1, <1>7, <2>1, <2>2, NextTypeParts
    DEF InstallWatches, tree, queue, debouncer, store, TreeTyped, QueueTyped, DebouncerTyped,
        StoreTyped, TaskTyped
<1> QED
  BY <1>3, <1>4, <1>5, <1>6, <1>7

LEMMA RequestType ==
    ASSUME TypeOK, NEW S \in SUBSET Files, ForceReindex(S)
    PROVE  TypeOK'
<1>1. /\ TreeTyped /\ WatchesTyped /\ QueueTyped
      /\ DebouncerTyped /\ StoreTyped /\ TaskTyped
  BY TypeParts
<1>2. \A done \in SUBSET S : Indexed(done) \in Contents
  BY <1>1, IndexedType
<1>3. index' \in Contents /\ owed' \in SUBSET Files
  BY <1>1, <1>2 DEF ForceReindex, StoreTyped
<1>4. history' \in HistoryType
  <2>1. history.requests < MaxRequests /\ history \in HistoryType
    BY <1>1 DEF ForceReindex, TaskTyped
  <2>2. CASE history' = [history EXCEPT !.requests = @ + 1]
    BY <2>1, <2>2, BoundsAssumption DEF HistoryType
  <2>3. CASE /\ history.faults < MaxFaults
             /\ history' = [history EXCEPT !.requests = @ + 1, !.faults = @ + 1]
    <3>1. history.requests + 1 \in 0..MaxRequests /\ history.faults + 1 \in 0..MaxFaults
      BY <2>1, <2>3, BoundsAssumption DEF HistoryType
    <3>2. history' = [edits |-> history.edits, faults |-> history.faults + 1,
                      requests |-> history.requests + 1, forgotten |-> history.forgotten]
      BY <2>1, <2>3 DEF HistoryType
    <3> QED
      BY <2>1, <3>1, <3>2 DEF HistoryType
  <2> QED
    BY <2>2, <2>3 DEF ForceReindex
<1> QED
  BY <1>1, <1>3, <1>4, NextTypeParts
  DEF ForceReindex, tree, watches, queue, debouncer, TreeTyped, WatchesTyped, QueueTyped,
      DebouncerTyped, StoreTyped, TaskTyped

LEMMA TypeStep ==
    ASSUME TypeOK, [Next]_vars
    PROVE  TypeOK'
<1>1. ASSUME NEW p \in Paths, Settle(p) PROVE TypeOK'
  BY <1>1
  DEF TypeOK, Settle, tree, watches, queue, store
<1>2. CASE Watcher
  BY <1>2, ReceiveType, MutationType, DrainType, ReloadType DEF Watcher
<1>3. CASE UNCHANGED vars
  BY <1>3 DEF TypeOK, vars
<1> QED
  BY <1>1, <1>2, <1>3, EnvironmentType, RequestType DEF Next

\* Type correctness: every reachable state is of the declared types; in
\* particular a path is never pending as a change and as a removal at once, and
\* no directory that is gone has a watch (debouncer.rs, unified.rs).
THEOREM TypeCorrectness == Spec => []TypeOK
BY InitType, TypeStep, PTL DEF Spec

-----------------------------------------------------------------------------
(* Retained waves and durable obligations.                                 *)

LEMMA SynchronizeKeeps ==
    ASSUME NEW scope, Synchronize(scope), RetainedWaveMatchesRows
    PROVE  RetainedWaveMatchesRows'
<1> DEFINE changed == {f \in scope : index[f] # disk[f]}
<1>1. CASE retained' = NoWave
  BY <1>1 DEF RetainedWaveMatchesRows
<1>2. ASSUME NEW kind, FlushFails(kind) PROVE RetainedWaveMatchesRows'
  BY <1>2 DEF FlushFails, RetainedWaveMatchesRows
<1>3. ASSUME NEW kind, SynchronizeFails(changed, kind) PROVE RetainedWaveMatchesRows'
  BY <1>3 DEF SynchronizeFails, RetainedWaveMatchesRows
<1> HIDE DEF changed
<1> QED
  BY <1>1, <1>2, <1>3 DEF Synchronize, changed

LEMMA SynchronizeSettles ==
    ASSUME NEW scope, Synchronize(scope)
    PROVE  owed' = {} \/ overflow' = TRUE
BY DEF Synchronize, FlushFails, SynchronizeFails

LEMMA WaveStep ==
    ASSUME MaxRequests = 0, TypeOK, RetainedWaveMatchesRows, [Next]_vars
    PROVE  RetainedWaveMatchesRows'
<1>1. ASSUME UNCHANGED <<index, retained>> PROVE RetainedWaveMatchesRows'
  BY <1>1 DEF RetainedWaveMatchesRows
<1>2. CASE Environment
  BY <1>1, <1>2 DEF Environment, WriteFile, MakeDirectory, RemoveDirectory, Edit, store
<1>3. ASSUME NEW p \in Paths, Settle(p) PROVE RetainedWaveMatchesRows'
  BY <1>1, <1>3 DEF Settle, store
<1>4. CASE Receive \/ FinishCreated \/ TakeOverflow \/ DispatchRename \/ DispatchFiles \/ EndTick
  BY <1>1, <1>4
  DEF Receive, ReceiveDirectory, ReceiveVanished, ReceiveFile, Received, FinishCreated,
      TakeOverflow, DispatchRename, DispatchFiles, EndTick, store
<1>5. CASE ReceiveReload \/ RebuildRegistry \/ WalkDirectories \/ InstallWatches
  BY <1>1, <1>5 DEF ReceiveReload, RebuildRegistry, WalkDirectories, InstallWatches, store
<1>6. CASE RetryRetained \/ ReconcileRoots \/ DispatchBurst \/ DispatchLargeBurst
  BY <1>6, SynchronizeKeeps
  DEF RetryRetained, ReconcileRoots, DispatchBurst, DispatchLargeBurst, Wave
<1>7. CASE ProcessFile
  <2>1. PICK f \in Files : SkipVanished(f) \/ RefuseFile(f) \/ ReindexFile(f) \/ ReindexFails(f)
    BY <1>7 DEF ProcessFile
  <2> QED
    BY <1>1, <2>1
    DEF SkipVanished, RefuseFile, ReindexFile, ReindexFails, RetainedWaveMatchesRows, store
<1>8. ASSUME NEW S \in SUBSET Files, ForceReindex(S) PROVE FALSE
  BY <1>8 DEF ForceReindex, TypeOK
<1>9. CASE UNCHANGED vars
  BY <1>1, <1>9 DEF vars
<1> QED
  BY <1>2, <1>3, <1>4, <1>5, <1>6, <1>7, <1>8, <1>9 DEF Next, Watcher

\* The wave that DeferredCodeState retains always belongs to the rows that are
\* in the index, if no client forces a reindex: nothing the watcher does changes
\* a row before the wave has been resolved or dropped (deferred_code.rs 9-48,
\* unified.rs 1085-1117 and 1170-1186).
THEOREM WavesMatchRows == MaxRequests = 0 => (Spec => []RetainedWaveMatchesRows)
<1> SUFFICES ASSUME MaxRequests = 0 PROVE Spec => []RetainedWaveMatchesRows
  OBVIOUS
<1>1. Init => RetainedWaveMatchesRows
  BY DEF Init, RetainedWaveMatchesRows
<1>2. TypeOK /\ RetainedWaveMatchesRows /\ [Next]_vars => RetainedWaveMatchesRows'
  BY WaveStep
<1> QED
  BY <1>1, <1>2, TypeCorrectness, PTL DEF Spec

LEMMA ObligationFrame ==
    ASSUME EveryObligationIsPending,
           owed' \subseteq owed, retained' = retained,
           overflow => overflow', lane.pc = "sync" => lane'.pc = "sync"
    PROVE  EveryObligationIsPending'
BY DEF EveryObligationIsPending

LEMMA ObligationStep ==
    ASSUME FaultKinds \cap {"file", "request"} = {},
           TypeOK, EveryObligationIsPending, [Next]_vars
    PROVE  EveryObligationIsPending'
<1>1. ASSUME NEW p, NEW kind, Notify(p, kind) PROVE overflow => overflow'
  BY <1>1 DEF Notify
<1>2. CASE Environment
  <2>1. \E edited : Edit(edited)
    BY <1>2 DEF Environment, WriteFile, MakeDirectory, RemoveDirectory
  <2>2. overflow => overflow'
    BY <1>1, <1>2 DEF Environment, WriteFile, MakeDirectory, RemoveDirectory, queue
  <2> QED
    BY <2>1, <2>2, ObligationFrame DEF Edit, store
<1>3. ASSUME NEW p \in Paths, Settle(p) PROVE EveryObligationIsPending'
  BY <1>3, ObligationFrame DEF Settle, store, queue
<1>4. CASE Receive
  <2>1. PICK e \in EventType : Received(e)
    BY <1>4 DEF Receive, ReceiveDirectory, ReceiveVanished, ReceiveFile
  <2> QED
    BY <2>1, ObligationFrame DEF Received, store
<1>5. CASE FinishCreated \/ DispatchRename \/ DispatchFiles \/ EndTick
  BY <1>5, ObligationFrame
  DEF FinishCreated, DispatchRename, DispatchFiles, EndTick, Dispatching, store, queue
<1>6. CASE ReceiveReload \/ RebuildRegistry \/ WalkDirectories \/ InstallWatches
  BY <1>6, ObligationFrame
  DEF ReceiveReload, RebuildRegistry, WalkDirectories, InstallWatches, store, queue
<1>7. CASE TakeOverflow
  BY <1>7 DEF TakeOverflow, EveryObligationIsPending, Idle
<1>8. CASE RetryRetained \/ ReconcileRoots \/ DispatchBurst \/ DispatchLargeBurst
  BY <1>8, SynchronizeSettles
  DEF EveryObligationIsPending, RetryRetained, ReconcileRoots, DispatchBurst, DispatchLargeBurst, Wave
<1>9. CASE ProcessFile
  <2>1. PICK f \in Files : SkipVanished(f) \/ RefuseFile(f) \/ ReindexFile(f) \/ ReindexFails(f)
    BY <1>9 DEF ProcessFile
  <2>2. CASE SkipVanished(f)
    BY <2>2, ObligationFrame DEF SkipVanished, Processed, store
  <2>3. CASE RefuseFile(f)
    BY <2>3 DEF RefuseFile, EveryObligationIsPending
  <2>4. CASE ReindexFile(f)
    BY <2>4 DEF ReindexFile, EveryObligationIsPending
  <2>5. CASE ReindexFails(f)
    BY <2>5 DEF ReindexFails, Fault
  <2> QED
    BY <2>1, <2>2, <2>3, <2>4, <2>5
<1>10. ASSUME NEW S \in SUBSET Files, ForceReindex(S) PROVE EveryObligationIsPending'
  <2>1. owed' \subseteq owed
    BY <1>10 DEF ForceReindex
  <2> QED
    BY <1>10, <2>1, ObligationFrame DEF ForceReindex, queue
<1>11. CASE UNCHANGED vars
  BY <1>11, ObligationFrame DEF vars
<1> QED
  BY <1>2, <1>3, <1>4, <1>5, <1>6, <1>7, <1>8, <1>9, <1>10, <1>11 DEF Next, Watcher

\* A durable obligation is never left alone: while one is stored, a wave is
\* retained for a retry or a scan of every root is to come, if neither a
\* single-file mutation nor a client's request fails (unified.rs 1077-1137,
\* deferred_code.rs 24-46).
THEOREM ObligationsAreFollowedUp ==
    FaultKinds \cap {"file", "request"} = {} => (Spec => []EveryObligationIsPending)
<1> SUFFICES ASSUME FaultKinds \cap {"file", "request"} = {}
             PROVE  Spec => []EveryObligationIsPending
  OBVIOUS
<1>1. Init => EveryObligationIsPending
  BY DEF Init, EveryObligationIsPending
<1>2. TypeOK /\ EveryObligationIsPending /\ [Next]_vars => EveryObligationIsPending'
  BY ObligationStep
<1> QED
  BY <1>1, <1>2, TypeCorrectness, PTL DEF Spec

-----------------------------------------------------------------------------
(* Changes of the tree.  Requests of clients are left out where there are  *)
(* subdirectories, and so is what befalls a directory before it is watched.*)

Orderly == Unsettled = {} /\ (MaxRequests = 0 \/ Dirs = {})

\* A file lies in a directory there is.
FilesHaveDirectories == \A f \in Files : disk[f] # Absent => DirOf[f] \in present \cup {Top}

\* The watcher knows the directories it watches, but while it derives them again.
WatchedAreRegistered ==
    \A d \in watched :
        \/ d \in registry \/ lane.pc = "policy"
        \/ lane.pc = "install" /\ d \in lane.dirs

\* It knows the directories of the rows, or has yet to watch them.
RowsAreRegistered ==
    \A f \in Files : index[f] # Absent =>
        DirOf[f] \in registry \cup {Top} \cup (present \ watched)

\* Pending, without what an event of the directory stands for.  A drained file
\* that vanishes is passed over.
InHand(f) ==
    \/ overflow \/ lane.pc = "sync"
    \/ Announced(f)
    \/ f \in modified \cup removed \/ DirOf[f] \in removed
    \/ lane.pc = "created" /\ f \in lane.files
    \/ lane.pc = "files" /\ f \in lane.files /\ disk[f] # Absent

\* An event of a directory stands for its files when it has gone, or when
\* nothing of it was indexed before it came.
Followed(f) ==
    \/ index[f] = disk[f] \/ f \in history.forgotten
    \/ InHand(f)
    \/ Announced(DirOf[f]) /\ (DirOf[f] \notin present \/ index[f] = Absent)

TreeInv == /\ FilesHaveDirectories /\ WatchedAreRegistered /\ RowsAreRegistered
           /\ \A f \in Files : Followed(f)

LEMMA FilesAreNoDirectories ==
    ASSUME NEW f \in Files
    PROVE  f \notin Dirs /\ DirOf[f] \in Dirs \cup {Top} /\ DirOf[f] \notin Files /\ Top \notin Dirs
BY PathsAssumption

LEMMA NotifyAnnounces ==
    ASSUME QueueTyped, NEW p \in Paths, NEW kind, Notify(p, kind)
    PROVE  /\ \A q : Announced(q) => Announced(q)'
           /\ Announced(p)' \/ overflow'
           /\ overflow => overflow'
<1>1. CASE events' = Append(events, [path |-> p, kind |-> kind]) /\ overflow' = overflow
  <2>1. /\ Len(events') = Len(events) + 1 /\ Len(events) \in Nat
        /\ \A i \in 1..Len(events) : events'[i] = events[i]
        /\ events'[Len(events) + 1].path = p
    BY <1>1 DEF QueueTyped
  <2> QED
    BY <1>1, <2>1 DEF Announced
<1>2. CASE overflow' = TRUE /\ events' = events
  BY <1>2 DEF Announced
<1> QED
  BY <1>1, <1>2 DEF Notify

LEMMA ReceivedAnnounces ==
    ASSUME QueueTyped, NEW e, Received(e)
    PROVE  \A q : q # e.path /\ Announced(q) => Announced(q)'
<1>1. /\ events # <<>> /\ e = events[1] /\ events' = Tail(events) /\ events \in Seq(EventType)
  BY DEF Received, QueueTyped
<1>2. /\ Len(events') = Len(events) - 1 /\ Len(events) \in Nat
      /\ \A i \in 1..Len(events') : events'[i] = events[i + 1]
  BY <1>1
<1>3. ASSUME NEW q, q # e.path, NEW i \in 1..Len(events), events[i].path = q
      PROVE  Announced(q)'
  <2>1. i - 1 \in 1..Len(events') /\ events'[i - 1] = events[i]
    BY <1>1, <1>2, <1>3
  <2> QED
    BY <1>3, <2>1 DEF Announced
<1> QED
  BY <1>3 DEF Announced

\* What keeps a path in hand.
LEMMA InHandKept ==
    ASSUME NEW f \in Files, InHand(f), disk'[f] = disk[f],
           overflow => overflow', lane.pc = "sync" => lane'.pc = "sync",
           Announced(f) => Announced(f)',
           f \in modified \cup removed => f \in modified' \cup removed',
           DirOf[f] \in removed => DirOf[f] \in removed',
           lane.pc = "created" /\ f \in lane.files =>
               f \in modified' \/ (lane'.pc = "created" /\ f \in lane'.files),
           lane.pc = "files" /\ f \in lane.files => lane'.pc = "files" /\ f \in lane'.files
    PROVE  InHand(f)'
BY DEF InHand

LEMMA FollowedKept ==
    ASSUME NEW f \in Files, Followed(f), disk'[f] = disk[f], index'[f] \in {index[f], disk[f]},
           DirOf[f] \notin present => DirOf[f] \notin present',
           f \in history.forgotten => f \in history'.forgotten,
           InHand(f) => InHand(f)', Announced(DirOf[f]) => Announced(DirOf[f])'
    PROVE  Followed(f)'
BY DEF Followed

LEMMA RowsKept ==
    ASSUME TreeInv, UNCHANGED <<disk, present, watched, registry>>,
           lane.pc \notin {"policy", "install"},
           \A f \in Files : index'[f] \in {index[f], disk[f]}
    PROVE  FilesHaveDirectories' /\ RowsAreRegistered'
BY DEF TreeInv, FilesHaveDirectories, WatchedAreRegistered, RowsAreRegistered

LEMMA SynchronizeIndexes ==
    ASSUME TypeOK, NEW scope, Synchronize(scope)
    PROVE  /\ \A f \in Files : index'[f] \in {index[f], disk[f]}
           /\ overflow => overflow'
           /\ history.forgotten = history'.forgotten
           /\ scope = Files => overflow' \/ \A f \in Files : index'[f] = disk[f]
<1> DEFINE changed == {f \in scope : index[f] # disk[f]}
<1>1. /\ \A S : \A f \in Files : Indexed(S)[f] \in {index[f], disk[f]}
      /\ scope = Files => \A f \in Files : Indexed(changed)[f] = disk[f]
  BY DEF Indexed
<1>2. \A kind : Fault(kind, {}) => history.forgotten = history'.forgotten
  BY DEF Fault, TypeOK
<1>3. ASSUME NEW kind, FlushFails(kind)
      PROVE  /\ overflow' /\ index' = index /\ history.forgotten = history'.forgotten
  BY <1>2, <1>3 DEF FlushFails
<1>4. ASSUME NEW kind, SynchronizeFails(changed, kind)
      PROVE  /\ overflow' /\ \E done : index' = Indexed(done)
             /\ history.forgotten = history'.forgotten
  BY <1>2, <1>4 DEF SynchronizeFails
<1>5. CASE index' = Indexed(changed) /\ UNCHANGED <<overflow, history>>
  BY <1>1, <1>5
<1>6. \/ index' = Indexed(changed) /\ UNCHANGED <<overflow, history>>
      \/ \E kind : FlushFails(kind) \/ SynchronizeFails(changed, kind)
  BY DEF Synchronize
<1> HIDE DEF changed
<1> QED
  BY <1>1, <1>3, <1>4, <1>5, <1>6

LEMMA EditFollowed ==
    ASSUME Unsettled = {}, TypeOK, TreeInv, Environment
    PROVE  TreeInv'
<1>0. QueueTyped /\ present \in SUBSET Dirs /\ watched \in SUBSET present /\ disk \in Contents
  BY DEF TypeOK, QueueTyped
<1>1. ASSUME NEW edited, Edit(edited)
      PROVE  /\ UNCHANGED <<registry, modified, removed, index, lane>>
             /\ \A f \in Files \ edited :
                   f \in history.forgotten => f \in history'.forgotten
  BY <1>1 DEF Edit, debouncer, store, TypeOK
\* A path of which the watcher is told, and the others.
<1>2. ASSUME NEW edited, Edit(edited), NEW p \in Paths, NEW kind, Notify(p, kind),
             NEW f \in Files \ edited, disk'[f] = disk[f],
             DirOf[f] \notin present => DirOf[f] \notin present'
      PROVE  Followed(f)'
  <2>1. /\ \A q : Announced(q) => Announced(q)'
        /\ overflow => overflow'
    BY <1>0, <1>2, NotifyAnnounces
  <2>2. UNCHANGED <<modified, removed, index, lane>>
    BY <1>1, <1>2
  <2>3. InHand(f) => InHand(f)'
    BY <1>2, <2>1, <2>2, InHandKept
  <2> QED
    BY <1>1, <1>2, <2>1, <2>2, <2>3, FollowedKept DEF TreeInv
<1>3. ASSUME NEW g \in Files, WriteFile(g) PROVE TreeInv'
  <2>1. /\ \A f \in Files \ {g} : disk'[f] = disk[f]
        /\ DirOf[g] \in present \cup {Top} /\ UNCHANGED <<present, watched>>
    BY <1>0, <1>3 DEF WriteFile, Contents
  <2>2. PICK kind : Notify(g, kind)
    BY <1>3 DEF WriteFile
  <2>3. Edit({g}) /\ UNCHANGED <<registry, index, lane>>
    BY <1>1, <1>3 DEF WriteFile
  <2>4. Followed(g)'
    BY <1>0, <2>2, NotifyAnnounces DEF Paths, Followed, InHand
  <2>5. \A f \in Files \ {g} : Followed(f)'
    BY <1>2, <2>1, <2>2, <2>3 DEF Paths
  <2>6. FilesHaveDirectories' /\ WatchedAreRegistered' /\ RowsAreRegistered'
    BY <2>1, <2>3
    DEF TreeInv, FilesHaveDirectories, WatchedAreRegistered, RowsAreRegistered
  <2> QED
    BY <2>4, <2>5, <2>6 DEF TreeInv
<1>4. ASSUME NEW d \in Dirs, MakeDirectory(d) PROVE TreeInv'
  <2>1. /\ \A f \in Files \ FilesIn(d) : disk'[f] = disk[f] /\ DirOf[f] # d
        /\ \A f \in FilesIn(d) : f \in Files /\ DirOf[f] = d
        /\ d \notin present /\ d \notin registry /\ d # Top
        /\ present' = present \cup {d} /\ watched' = watched
    BY <1>0, <1>4, PathsAssumption DEF MakeDirectory, Contents, FilesIn
  <2>2. Notify(d, "change") /\ Edit({d} \cup FilesIn(d)) /\ UNCHANGED <<registry, index, lane>>
    BY <1>1, <1>4 DEF MakeDirectory
  <2>3. \A f \in FilesIn(d) : index[f] = Absent
    BY <2>1 DEF TreeInv, RowsAreRegistered
  <2>4. \A f \in FilesIn(d) : Followed(f)'
    BY <1>0, <2>1, <2>2, <2>3, NotifyAnnounces DEF Paths, Followed, InHand
  <2>5. \A f \in Files \ FilesIn(d) : Followed(f)'
    BY <1>2, <2>1, <2>2, FilesAreNoDirectories DEF Paths
  <2>6. FilesHaveDirectories' /\ WatchedAreRegistered' /\ RowsAreRegistered'
    BY <2>1, <2>2
    DEF TreeInv, FilesHaveDirectories, WatchedAreRegistered, RowsAreRegistered
  <2> QED
    BY <2>4, <2>5, <2>6 DEF TreeInv
<1>5. ASSUME NEW d \in Dirs, RemoveDirectory(d) PROVE TreeInv'
  <2>1. /\ \A f \in Files \ FilesIn(d) : disk'[f] = disk[f] /\ DirOf[f] # d
        /\ \A f \in FilesIn(d) : f \in Files /\ DirOf[f] = d /\ disk'[f] = Absent
        /\ d \in watched /\ present' = present \ {d} /\ watched' = watched \ {d}
    BY <1>0, <1>5 DEF RemoveDirectory, Contents, FilesIn
  <2>2. Notify(d, "remove") /\ Edit({d} \cup FilesIn(d)) /\ UNCHANGED <<registry, index, lane>>
    BY <1>1, <1>5 DEF RemoveDirectory
  <2>3. \A f \in FilesIn(d) : Followed(f)'
    BY <1>0, <2>1, <2>2, NotifyAnnounces DEF Paths, Followed, InHand
  <2>4. \A f \in Files \ FilesIn(d) : Followed(f)'
    BY <1>2, <2>1, <2>2, FilesAreNoDirectories DEF Paths
  <2>5. FilesHaveDirectories' /\ WatchedAreRegistered' /\ RowsAreRegistered'
    BY <2>1, <2>2
    DEF TreeInv, FilesHaveDirectories, WatchedAreRegistered, RowsAreRegistered
  <2> QED
    BY <2>3, <2>4, <2>5 DEF TreeInv
<1> QED
  BY <1>3, <1>4, <1>5 DEF Environment

LEMMA ReceiveFollowed ==
    ASSUME TypeOK, TreeInv, Receive
    PROVE  TreeInv'
<1>1. PICK e \in EventType : ReceiveDirectory(e) \/ ReceiveVanished(e) \/ ReceiveFile(e)
  BY DEF Receive
<1>2. /\ Received(e) /\ QueueTyped /\ lane.pc = "idle" /\ lane \in LaneType
      /\ UNCHANGED <<disk, present, watched, registry, overflow, index>>
  BY <1>1
  DEF ReceiveDirectory, ReceiveVanished, ReceiveFile, Received, tree, watches, store, TypeOK,
      QueueTyped, LaneType
<1>3. FilesHaveDirectories' /\ WatchedAreRegistered' /\ RowsAreRegistered'
  BY <1>2 DEF TreeInv, FilesHaveDirectories, WatchedAreRegistered, RowsAreRegistered
<1>4. history.forgotten \subseteq history'.forgotten
  BY <1>1, <1>2 DEF ReceiveDirectory, ReceiveVanished, ReceiveFile, Fault, TypeOK
\* Files the event is not about.
<1>5. ASSUME NEW f \in Files, f # e.path, DirOf[f] # e.path
      PROVE  Followed(f)'
  <2>1. /\ Announced(f) => Announced(f)'
        /\ Announced(DirOf[f]) => Announced(DirOf[f])'
    BY <1>2, <1>5, ReceivedAnnounces
  <2>2. /\ f \in modified \cup removed => f \in modified' \cup removed'
        /\ DirOf[f] \in removed => DirOf[f] \in removed'
    BY <1>1, <1>5
    DEF ReceiveDirectory, ReceiveVanished, ReceiveFile, Record, RecordRemoval, debouncer
  <2>3. InHand(f) => InHand(f)'
    BY <1>2, <1>5, <2>1, <2>2, ReceivedAnnounces, InHandKept
  <2> QED
    BY <1>2, <1>4, <1>5, <2>1, <2>3, ReceivedAnnounces, FollowedKept DEF TreeInv
<1>6. ASSUME ReceiveFile(e), NEW f \in Files, f = e.path
      PROVE  Followed(f)'
  BY <1>6 DEF ReceiveFile, Record, RecordRemoval, Followed, InHand, EventType
<1>7. ASSUME NEW f \in Files, f # e.path, DirOf[f] = e.path, InHand(f),
             ReceiveDirectory(e) \/ ReceiveVanished(e)
      PROVE  InHand(f)'
  <2>1. Announced(f) => Announced(f)'
    BY <1>2, <1>7, ReceivedAnnounces
  <2>2. /\ f \in modified \cup removed => f \in modified' \cup removed'
        /\ DirOf[f] \in removed => DirOf[f] \in removed'
    BY <1>7 DEF ReceiveDirectory, ReceiveVanished, RecordRemoval, debouncer
  <2> QED
    BY <1>2, <1>7, <2>1, <2>2, InHandKept
<1>8. ASSUME ReceiveDirectory(e), NEW f \in Files, DirOf[f] = e.path
      PROVE  Followed(f)'
  <2>1. e.path \in present /\ f # e.path /\ f \in FilesIn(e.path)
    BY <1>8, FilesAreNoDirectories DEF ReceiveDirectory, TypeOK, FilesIn
  <2>2. CASE lane' = [Idle EXCEPT !.pc = "created", !.dirs = {e.path},
                                  !.files = {g \in FilesIn(e.path) : disk[g] # Absent}]
    <3>1. disk[f] # Absent => InHand(f)'
      BY <2>1, <2>2 DEF InHand, Idle
    <3>2. disk[f] = Absent =>
             index[f] = disk[f] \/ f \in history.forgotten \/ InHand(f)
      BY <1>8, <2>1 DEF TreeInv, Followed
    <3> QED
      BY <1>2, <1>4, <1>7, <1>8, <2>1, <3>1, <3>2 DEF Followed
  <2>3. CASE Fault("walk", {e.path} \cup FilesIn(e.path))
    BY <2>1, <2>3 DEF Fault, Followed, TypeOK
  <2> QED
    BY <1>8, <2>2, <2>3 DEF ReceiveDirectory
<1>9. ASSUME ReceiveVanished(e), NEW f \in Files, DirOf[f] = e.path
      PROVE  Followed(f)'
  <2>1. e.path \in Dirs /\ e.path \notin present /\ f # e.path /\ e.path # Top
    BY <1>9, FilesAreNoDirectories DEF ReceiveVanished
  <2>2. disk[f] = Absent
    BY <1>9, <2>1 DEF TreeInv, FilesHaveDirectories
  <2>3. CASE e.path \in registry
    BY <1>9, <2>3 DEF ReceiveVanished, RecordRemoval, Followed, InHand
  <2>4. CASE e.path \notin registry
    <3>1. index[f] = Absent
      BY <1>9, <2>1, <2>4 DEF TreeInv, RowsAreRegistered
    <3> QED
      BY <1>2, <2>2, <3>1 DEF Followed
  <2> QED
    BY <2>3, <2>4
<1>10. ASSUME NEW f \in Files PROVE Followed(f)'
  <2>1. ReceiveFile(e) => e.path \in Files
    BY DEF ReceiveFile
  <2> QED
    BY <1>1, <1>5, <1>6, <1>8, <1>9, <2>1, FilesAreNoDirectories
    DEF ReceiveDirectory, ReceiveVanished, TypeOK
<1> QED
  BY <1>3, <1>10 DEF TreeInv

LEMMA MutationFollowed ==
    ASSUME TypeOK, TreeInv,
           RetryRetained \/ ReconcileRoots \/ DispatchBurst \/ DispatchLargeBurst
    PROVE  TreeInv'
<1>1. \/ Synchronize({}) /\ lane.pc = "idle" /\ UNCHANGED <<lane, modified, removed>>
      \/ Synchronize(Files)
  BY DEF RetryRetained, ReconcileRoots, DispatchBurst, DispatchLargeBurst, Wave, debouncer
<1>2. /\ lane.pc \in {"idle", "sync", "dispatch"}
      /\ lane'.pc \in {"idle", "reload"}
      /\ UNCHANGED <<disk, present, watched, registry, events>>
  <2>1. CASE RetryRetained
    BY <2>1 DEF RetryRetained, tree, watches
  <2>2. CASE ReconcileRoots
    BY <2>2 DEF ReconcileRoots, Idle, tree, watches
  <2>3. CASE DispatchBurst \/ DispatchLargeBurst
    <3>1. Dispatching /\ \E taken : Wave(taken)
      BY <2>3 DEF DispatchBurst, DispatchLargeBurst
    <3> QED
      BY <3>1 DEF Dispatching, Wave, Idle, tree, watches
  <2> QED
    BY <2>1, <2>2, <2>3
<1>3. /\ \A f \in Files : index'[f] \in {index[f], disk[f]}
      /\ overflow => overflow'
      /\ history.forgotten = history'.forgotten
  BY <1>1, SynchronizeIndexes
<1>4. FilesHaveDirectories' /\ WatchedAreRegistered' /\ RowsAreRegistered'
  BY <1>2, <1>3, RowsKept DEF TreeInv, WatchedAreRegistered
<1>5. ASSUME NEW f \in Files PROVE Followed(f)'
  <2>1. CASE Synchronize({}) /\ lane.pc = "idle" /\ UNCHANGED <<lane, modified, removed>>
    <3>1. InHand(f) => InHand(f)'
      BY <1>2, <1>3, <2>1, InHandKept DEF Announced
    <3> QED
      BY <1>2, <1>3, <3>1, FollowedKept DEF TreeInv, Announced
  <2>2. CASE Synchronize(Files)
    BY <1>2, <2>2, SynchronizeIndexes DEF Followed, InHand
  <2> QED
    BY <1>1, <2>1, <2>2
<1> QED
  BY <1>4, <1>5 DEF TreeInv

LEMMA DrainFollowed ==
    ASSUME TypeOK, TreeInv,
           FinishCreated \/ TakeOverflow \/ DispatchRename \/ DispatchFiles \/ EndTick
    PROVE  TreeInv'
<1>1. /\ lane.pc \in {"idle", "created", "dispatch"} /\ lane'.pc \in {"idle", "sync", "files"}
      /\ UNCHANGED <<disk, present, events, index, history>>
  <2>1. CASE FinishCreated \/ TakeOverflow
    BY <2>1 DEF FinishCreated, TakeOverflow, Idle, tree, queue, store
  <2>2. CASE DispatchRename \/ EndTick
    BY <2>2 DEF DispatchRename, EndTick, Dispatching, Idle, tree, queue, store
  <2>3. CASE DispatchFiles
    BY <2>3 DEF DispatchFiles, Dispatching, Idle, tree, queue, store
  <2> QED
    BY <2>1, <2>2, <2>3
<1>2. /\ watched \subseteq registry
      /\ registry \subseteq registry' /\ watched \subseteq watched' /\ watched' \subseteq registry'
  <2>1. watched \subseteq registry
    BY <1>1 DEF TreeInv, WatchedAreRegistered
  <2>2. CASE FinishCreated
    BY <2>1, <2>2 DEF FinishCreated, Watch
  <2>3. CASE TakeOverflow \/ DispatchRename \/ DispatchFiles \/ EndTick
    BY <2>1, <2>3 DEF TakeOverflow, DispatchRename, DispatchFiles, EndTick, watches
  <2> QED
    BY <2>1, <2>2, <2>3
<1>3. FilesHaveDirectories' /\ WatchedAreRegistered' /\ RowsAreRegistered'
  <2>1. FilesHaveDirectories' /\ WatchedAreRegistered'
    BY <1>1, <1>2 DEF TreeInv, FilesHaveDirectories, WatchedAreRegistered
  <2>2. RowsAreRegistered'
    BY <1>1, <1>2 DEF TreeInv, RowsAreRegistered
  <2> QED
    BY <2>1, <2>2
<1>4. ASSUME NEW f \in Files, InHand(f) PROVE InHand(f)'
  <2>1. CASE FinishCreated
    <3>1. /\ modified' = modified \cup lane.files /\ removed' = removed \ lane.files
          /\ overflow' = overflow /\ lane.pc = "created" /\ lane.files \in SUBSET Files
      BY <2>1 DEF FinishCreated, Record, queue, TypeOK
    <3>2. /\ f \in modified \cup removed => f \in modified' \cup removed'
          /\ DirOf[f] \in removed => DirOf[f] \in removed'
          /\ f \in lane.files => f \in modified'
      BY <3>1, FilesAreNoDirectories
    <3> QED
      BY <1>1, <1>4, <3>1, <3>2 DEF InHand, Announced
  <2>2. CASE TakeOverflow
    BY <1>1, <1>4, <2>2 DEF TakeOverflow, InHand, Announced, debouncer, Idle
  <2>3. CASE DispatchRename
    <3>1. /\ removed = {} /\ modified' = modified \ Vanished /\ removed' = Vanished
          /\ overflow' = overflow /\ lane.pc \in {"idle", "dispatch"}
      BY <2>3 DEF DispatchRename, Dispatching, Vanished, Ready, queue
    <3> QED
      BY <1>1, <1>4, <3>1 DEF InHand, Announced
  <2>4. CASE DispatchFiles
    <3>1. /\ removed' = removed /\ modified' = modified \ Ready
          /\ overflow' = overflow /\ lane.pc \in {"idle", "dispatch"}
          /\ lane'.pc = "files" /\ lane'.files = Ready /\ \A g \in Ready : disk[g] # Absent
      BY <2>4 DEF DispatchFiles, Dispatching, Vanished, Idle, queue
    <3> QED
      BY <1>1, <1>4, <3>1 DEF InHand, Announced
  <2>5. CASE EndTick
    BY <1>1, <1>4, <2>5 DEF EndTick, InHand, Announced, debouncer, queue
  <2> QED
    BY <2>1, <2>2, <2>3, <2>4, <2>5
<1>5. \A f \in Files : Followed(f)'
  BY <1>1, <1>4, FollowedKept DEF TreeInv, Announced
<1> QED
  BY <1>3, <1>5 DEF TreeInv

LEMMA ProcessFollowed ==
    ASSUME TypeOK, TreeInv, ProcessFile
    PROVE  TreeInv'
<1>1. PICK g \in Files : SkipVanished(g) \/ RefuseFile(g) \/ ReindexFile(g) \/ ReindexFails(g)
  BY DEF ProcessFile
<1>2. /\ lane.pc = "files" /\ g \in lane.files /\ lane \in LaneType
      /\ \A f \in Files \ {g} : f \in lane.files => lane'.pc = "files" /\ f \in lane'.files
      /\ lane'.pc \in {"idle", "files"}
      /\ UNCHANGED <<disk, present, watched, registry, events, modified, removed>>
  BY <1>1
  DEF SkipVanished, RefuseFile, ReindexFile, ReindexFails, Processed, tree, watches, debouncer,
      TypeOK, LaneType, Idle
<1>3. /\ \A f \in Files : index'[f] \in {index[f], disk[f]}
      /\ history.forgotten \subseteq history'.forgotten
      /\ overflow => overflow'
  <2>1. CASE SkipVanished(g) \/ RefuseFile(g)
    BY <2>1 DEF SkipVanished, RefuseFile, store
  <2>2. CASE ReindexFile(g)
    BY <2>2 DEF ReindexFile, Indexed
  <2>3. CASE ReindexFails(g)
    <3>1. index' = index \/ index' = Indexed({g})
      BY <2>3 DEF ReindexFails
    <3> QED
      BY <2>3, <3>1 DEF ReindexFails, Fault, Indexed, TypeOK
  <2> QED
    BY <1>1, <2>1, <2>2, <2>3
<1>4. FilesHaveDirectories' /\ WatchedAreRegistered' /\ RowsAreRegistered'
  BY <1>2, <1>3, RowsKept DEF TreeInv, WatchedAreRegistered
<1>5. ASSUME NEW f \in Files \ {g} PROVE Followed(f)'
  <2>1. InHand(f) => InHand(f)'
    BY <1>2, <1>3, InHandKept DEF Announced
  <2> QED
    BY <1>2, <1>3, <2>1, FollowedKept DEF TreeInv, Announced
<1>6. Followed(g)'
  <2>1. CASE SkipVanished(g)
    <3>1. InHand(g) => InHand(g)'
      BY <1>2, <1>3, <2>1 DEF SkipVanished, InHand, Announced
    <3> QED
      BY <1>2, <1>3, <3>1, FollowedKept DEF TreeInv, Announced
  <2>2. CASE RefuseFile(g)
    BY <2>2 DEF RefuseFile, Followed, InHand
  <2>3. CASE ReindexFile(g)
    BY <1>2, <2>3 DEF ReindexFile, Indexed, Followed
  <2>4. CASE ReindexFails(g)
    BY <2>4 DEF ReindexFails, Fault, Followed, TypeOK
  <2> QED
    BY <1>1, <2>1, <2>2, <2>3, <2>4
<1> QED
  BY <1>4, <1>5, <1>6 DEF TreeInv

LEMMA ReloadFollowed ==
    ASSUME TypeOK, TreeInv,
           ReceiveReload \/ RebuildRegistry \/ WalkDirectories \/ InstallWatches
    PROVE  TreeInv'
<1>1. /\ lane.pc \in {"idle", "reload", "policy", "install"}
      /\ UNCHANGED <<disk, present, events, overflow, modified, removed, index, history>>
  BY DEF ReceiveReload, RebuildRegistry, WalkDirectories, InstallWatches, tree, queue, debouncer,
         store
<1>2. \A f \in Files : Followed(f)'
  <2>1. \A f \in Files : InHand(f) => InHand(f)'
    BY <1>1, InHandKept DEF Announced
  <2> QED
    BY <1>1, <2>1, FollowedKept DEF TreeInv, Announced
<1>3. FilesHaveDirectories'
  BY <1>1 DEF TreeInv, FilesHaveDirectories
<1>4. WatchedAreRegistered'
  <2>1. CASE ReceiveReload
    BY <2>1 DEF ReceiveReload, TreeInv, WatchedAreRegistered, watches
  <2>2. CASE RebuildRegistry
    BY <2>2 DEF RebuildRegistry, WatchedAreRegistered, TypeOK
  <2>3. CASE WalkDirectories
    BY <2>3 DEF WalkDirectories, WatchedAreRegistered, TypeOK, watches
  <2>4. CASE InstallWatches
    <3>1. watched \subseteq registry \cup lane.dirs
      BY <2>4 DEF InstallWatches, TreeInv, WatchedAreRegistered
    <3>2. watched' \subseteq watched \cup lane.dirs /\ registry' = registry \cup lane.dirs
      BY <2>4 DEF InstallWatches, Watch
    <3> QED
      BY <3>1, <3>2 DEF WatchedAreRegistered
  <2> QED
    BY <2>1, <2>2, <2>3, <2>4
<1>5. RowsAreRegistered'
  <2>1. CASE ReceiveReload \/ WalkDirectories
    BY <1>1, <2>1 DEF ReceiveReload, WalkDirectories, TreeInv, RowsAreRegistered, watches
  <2>2. CASE RebuildRegistry
    BY <1>1, <2>2 DEF RebuildRegistry, RowsAreRegistered, Parents
  <2>3. CASE InstallWatches
    <3>1. watched' \subseteq watched \cup lane.dirs /\ registry' = registry \cup lane.dirs
      BY <2>3 DEF InstallWatches, Watch
    <3> QED
      BY <1>1, <3>1 DEF TreeInv, RowsAreRegistered
  <2> QED
    BY <2>1, <2>2, <2>3
<1> QED
  BY <1>2, <1>3, <1>4, <1>5 DEF TreeInv

LEMMA RequestFollowed ==
    ASSUME MaxRequests = 0 \/ Dirs = {}, TypeOK, TreeInv, NEW S \in SUBSET Files, ForceReindex(S)
    PROVE  TreeInv'
<1>1. Dirs = {}
  BY DEF ForceReindex, TypeOK
<1>2. /\ UNCHANGED <<disk, present, watched, registry, events, overflow, modified, removed, lane>>
      /\ \A f \in Files : index'[f] \in {index[f], disk[f]}
      /\ history.forgotten = history'.forgotten
  BY DEF ForceReindex, Indexed, tree, watches, queue, debouncer, TypeOK
<1>3. \A f \in Files : InHand(f) => InHand(f)'
  BY <1>2, InHandKept DEF Announced
<1>4. \A f \in Files : Followed(f)'
  BY <1>2, <1>3, FollowedKept DEF TreeInv, Announced
<1>5. FilesHaveDirectories' /\ WatchedAreRegistered'
  BY <1>2 DEF TreeInv, FilesHaveDirectories, WatchedAreRegistered
<1>6. RowsAreRegistered'
  BY <1>1, PathsAssumption DEF RowsAreRegistered
<1> QED
  BY <1>4, <1>5, <1>6 DEF TreeInv

LEMMA TreeStep ==
    ASSUME Orderly, TypeOK, TreeInv, [Next]_vars
    PROVE  TreeInv'
<1>1. ASSUME UNCHANGED <<disk, present, watched, registry, events, overflow, modified, removed,
                         index, lane, history>>
      PROVE  TreeInv'
  <2>1. FilesHaveDirectories' /\ WatchedAreRegistered' /\ RowsAreRegistered'
    BY <1>1 DEF TreeInv, FilesHaveDirectories, WatchedAreRegistered, RowsAreRegistered
  <2>2. \A f \in Files : Followed(f)'
    BY <1>1 DEF TreeInv, Followed, InHand, Announced
  <2> QED
    BY <2>1, <2>2 DEF TreeInv
<1>2. ASSUME NEW p \in Paths, Settle(p) PROVE TreeInv'
  BY <1>1, <1>2 DEF Settle, tree, watches, queue, store
<1>3. CASE UNCHANGED vars
  BY <1>1, <1>3 DEF vars
<1>4. CASE Watcher
  BY <1>4, ReceiveFollowed, MutationFollowed, DrainFollowed, ProcessFollowed, ReloadFollowed
  DEF Watcher
<1>5. ASSUME NEW S \in SUBSET Files, ForceReindex(S) PROVE TreeInv'
  BY <1>5, RequestFollowed DEF Orderly
<1>6. CASE Environment
  BY <1>6, EditFollowed DEF Orderly
<1> QED
  BY <1>2, <1>3, <1>4, <1>5, <1>6 DEF Next

LEMMA InitFollowed == Init => TreeInv
<1> SUFFICES ASSUME Init PROVE TreeInv
  OBVIOUS
<1>1. FilesHaveDirectories /\ WatchedAreRegistered /\ RowsAreRegistered
  BY PathsAssumption DEF Init, FilesHaveDirectories, WatchedAreRegistered, RowsAreRegistered, Parents
<1>2. \A f \in Files : Followed(f)
  BY DEF Init, Followed
<1> QED
  BY <1>1, <1>2 DEF TreeInv

\* No change of the tree is lost, for any number of files and directories: a
\* file whose row is not what is on disk has an event under way, waits in the
\* debouncer or is in the step under way, or a full scan is to come, unless its
\* last failure was only logged.  A directory that is not watched yet is left
\* alone, and where there are subdirectories no client forces a reindex
\* (unified.rs 388-470, 669-730, 830-1137).
THEOREM NoChangeIsLost == Orderly => (Spec => []EveryChangeIsPending)
<1> SUFFICES ASSUME Orderly PROVE Spec => []EveryChangeIsPending
  OBVIOUS
<1>1. TypeOK /\ TreeInv /\ [Next]_vars => TreeInv'
  BY TreeStep
<1>2. TreeInv => EveryChangeIsPending
  BY DEF TreeInv, Followed, InHand, EveryChangeIsPending, Pending
<1> QED
  BY <1>1, <1>2, InitFollowed, TypeCorrectness, PTL DEF Spec

-----------------------------------------------------------------------------
(* Watches on directories.  A watch that cannot be installed ends its      *)
(* batch, so that what is said here holds for one subdirectory.            *)

OneDirectory == Unsettled = {} /\ \A d, e \in Dirs : d = e

\* The watcher watches every directory it knows.
RegisteredAreWatched == present \cap registry \subseteq watched

DirectoryInv == RegisteredAreWatched /\ EveryDirectoryIsWatched

LEMMA WatchInstalls ==
    ASSUME OneDirectory, TypeOK, NEW S \in SUBSET Dirs, Watch(S)
    PROVE  watched \subseteq watched' /\ S \cap present \subseteq watched'
<1>1. S \cap present # {} => S \subseteq present
  BY DEF OneDirectory, TypeOK
<1> QED
  BY <1>1 DEF Watch

\* What keeps a directory on its way to a watch.
LEMMA DirectoryKept ==
    ASSUME TypeOK, EveryDirectoryIsWatched, NEW d \in (present' \ watched') \ history'.forgotten,
           d \in (present \ watched) \ history.forgotten,
           overflow => overflow' \/ lane'.pc = "sync", reload => reload' \/ lane'.pc = "reload",
           Announced(d) => Announced(d)' \/ (lane'.pc = "created" /\ d \in lane'.dirs),
           lane.pc = "sync" => lane'.pc \in {"sync", "reload"},
           lane.pc = "reload" => lane'.pc \in {"reload", "policy"},
           lane.pc = "policy" =>
               lane'.pc = "policy" \/ (lane'.pc = "install" /\ d \in lane'.dirs),
           lane.pc = "install" /\ d \in lane.dirs => lane'.pc = "install" /\ d \in lane'.dirs,
           lane.pc = "created" /\ d \in lane.dirs => lane'.pc = "created" /\ d \in lane'.dirs
    PROVE  \/ overflow' \/ reload' \/ Announced(d)'
           \/ lane'.pc \in {"sync", "reload", "policy"}
           \/ lane'.pc \in {"created", "install"} /\ d \in lane'.dirs
BY DEF EveryDirectoryIsWatched

LEMMA EditDirectories ==
    ASSUME OneDirectory, TypeOK, DirectoryInv, Environment
    PROVE  DirectoryInv'
<1>1. ASSUME NEW edited, Edit(edited), NEW p \in Paths, NEW kind, Notify(p, kind)
      PROVE  /\ UNCHANGED <<registry, reload, lane>>
             /\ \A d \in Dirs \ edited : d \in history.forgotten => d \in history'.forgotten
             /\ \A q : Announced(q) => Announced(q)'
             /\ Announced(p)' \/ overflow'
             /\ overflow => overflow'
  <2>1. QueueTyped
    BY DEF TypeOK, QueueTyped
  <2>2. /\ UNCHANGED <<registry, reload, lane>>
        /\ \A d \in Dirs \ edited : d \in history.forgotten => d \in history'.forgotten
    BY <1>1 DEF Edit, TypeOK
  <2> QED
    BY <1>1, <2>1, <2>2, NotifyAnnounces
<1>2. ASSUME NEW edited, Edit(edited), NEW p \in Paths, NEW kind, Notify(p, kind),
             NEW d \in (present' \ watched') \ history'.forgotten, d \in present \ watched,
             d \notin edited
      PROVE  \/ overflow' \/ reload' \/ Announced(d)'
             \/ lane'.pc \in {"sync", "reload", "policy"}
             \/ lane'.pc \in {"created", "install"} /\ d \in lane'.dirs
  <2>1. d \in Dirs /\ d \notin history.forgotten
    BY <1>1, <1>2 DEF TypeOK
  <2> QED
    BY <1>1, <1>2, <2>1, DirectoryKept DEF DirectoryInv
<1>3. ASSUME NEW g \in Files, WriteFile(g) PROVE DirectoryInv'
  <2>1. /\ UNCHANGED <<present, watched>> /\ Edit({g}) /\ \E kind : Notify(g, kind)
        /\ \A d \in Dirs : d # g
    BY <1>3, PathsAssumption DEF WriteFile, OneDirectory
  <2>2. registry' = registry
    BY <2>1 DEF Edit
  <2>3. \A d \in (present' \ watched') \ history'.forgotten : d \in Dirs /\ d \in present \ watched
    BY <2>1 DEF TypeOK
  <2>4. EveryDirectoryIsWatched'
    BY <1>2, <2>1, <2>3 DEF EveryDirectoryIsWatched, Paths
  <2> QED
    BY <2>1, <2>2, <2>4 DEF DirectoryInv, RegisteredAreWatched
<1>4. ASSUME NEW d \in Dirs, MakeDirectory(d) PROVE DirectoryInv'
  <2>1. /\ present' = present \cup {d} /\ watched' = watched /\ d \notin registry
        /\ Edit({d} \cup FilesIn(d)) /\ Notify(d, "change")
    BY <1>4 DEF MakeDirectory, OneDirectory
  <2>2. registry' = registry /\ (Announced(d)' \/ overflow')
    BY <1>1, <2>1 DEF Paths
  <2>3. \A e \in present' : e = d
    BY <2>1 DEF OneDirectory, TypeOK
  <2>4. EveryDirectoryIsWatched'
    BY <2>2, <2>3 DEF EveryDirectoryIsWatched
  <2> QED
    BY <2>1, <2>2, <2>4 DEF DirectoryInv, RegisteredAreWatched
<1>5. ASSUME NEW d \in Dirs, RemoveDirectory(d) PROVE DirectoryInv'
  <2>1. present' = {}
    BY <1>5 DEF RemoveDirectory, OneDirectory, TypeOK
  <2> QED
    BY <2>1 DEF DirectoryInv, RegisteredAreWatched, EveryDirectoryIsWatched
<1> QED
  BY <1>3, <1>4, <1>5 DEF Environment

LEMMA WatcherDirectories ==
    ASSUME OneDirectory, TypeOK, DirectoryInv, Watcher
    PROVE  DirectoryInv'
<1>0. present' = present /\ lane \in LaneType
  BY DEF Watcher, Receive, ReceiveDirectory, ReceiveVanished, ReceiveFile, Received, FinishCreated,
         RetryRetained, TakeOverflow, ReconcileRoots, DispatchBurst, DispatchLargeBurst, Wave,
         DispatchRename, DispatchFiles, EndTick, ProcessFile, SkipVanished, RefuseFile,
         ReindexFile, ReindexFails, Processed, ReceiveReload, RebuildRegistry, WalkDirectories,
         InstallWatches, tree, TypeOK, LaneType
<1> DEFINE Goes(d) == \/ overflow' \/ reload' \/ Announced(d)'
                      \/ lane'.pc \in {"sync", "reload", "policy"}
                      \/ lane'.pc \in {"created", "install"} /\ d \in lane'.dirs
\* Steps that install no watch.
<1>1. ASSUME UNCHANGED <<watched, registry>>,
             \A d \in (present \ watched) \ history'.forgotten : Goes(d)
      PROVE  DirectoryInv'
  BY <1>0, <1>1 DEF DirectoryInv, RegisteredAreWatched, EveryDirectoryIsWatched
<1>2. CASE Receive
  <2>1. PICK e \in EventType : ReceiveDirectory(e) \/ ReceiveVanished(e) \/ ReceiveFile(e)
    BY <1>2 DEF Receive
  <2>2. /\ Received(e) /\ QueueTyped /\ lane.pc = "idle"
        /\ UNCHANGED <<watched, registry, overflow, reload>>
    BY <2>1
    DEF ReceiveDirectory, ReceiveVanished, ReceiveFile, Received, watches, TypeOK, QueueTyped
  <2>3. ASSUME NEW d \in (present \ watched) \ history'.forgotten PROVE Goes(d)
    <3>1. d \in Dirs /\ d \notin history.forgotten
      BY <2>1, <2>3 DEF ReceiveDirectory, ReceiveVanished, ReceiveFile, Fault, TypeOK
    <3>2. d # e.path /\ Announced(d) => Announced(d)'
      BY <2>2, ReceivedAnnounces
    <3>3. CASE d # e.path
      BY <2>2, <2>3, <3>1, <3>2, <3>3 DEF DirectoryInv, EveryDirectoryIsWatched
    <3>4. CASE d = e.path
      <4>1. ReceiveDirectory(e)
        BY <2>1, <2>3, <3>1, <3>4, PathsAssumption DEF ReceiveVanished, ReceiveFile
      <4>2. \/ d \notin {e.path} \cup FilesIn(e.path)
            \/ lane'.pc = "created" /\ lane'.dirs = {e.path}
        <5>1. \/ lane' = [Idle EXCEPT !.pc = "created", !.dirs = {e.path},
                                      !.files = {f \in FilesIn(e.path) : disk[f] # Absent}]
              \/ Fault("walk", {e.path} \cup FilesIn(e.path))
          BY <4>1 DEF ReceiveDirectory
        <5>2. CASE Fault("walk", {e.path} \cup FilesIn(e.path))
          BY <2>3, <5>2 DEF Fault, TypeOK
        <5> QED
          BY <5>1, <5>2 DEF Idle
      <4> QED
        BY <3>4, <4>2
    <3> QED
      BY <3>3, <3>4
  <2> QED
    BY <1>1, <2>2, <2>3
<1>3. CASE \/ RetryRetained \/ ReconcileRoots \/ DispatchBurst \/ DispatchLargeBurst
  <2>1. /\ UNCHANGED <<watched, registry, events>> /\ (overflow => overflow')
        /\ history.forgotten = history'.forgotten
    BY <1>3, SynchronizeIndexes
    DEF RetryRetained, ReconcileRoots, DispatchBurst, DispatchLargeBurst, Wave, watches
  <2>2. \/ lane.pc = "idle" /\ UNCHANGED <<lane, reload>>
        \/ lane'.pc = "reload" \/ reload'
    BY <1>3
    DEF RetryRetained, ReconcileRoots, DispatchBurst, DispatchLargeBurst, Wave, Idle
  <2>3. \A d \in (present \ watched) \ history'.forgotten : Goes(d)
    BY <2>1, <2>2 DEF DirectoryInv, EveryDirectoryIsWatched, Announced
  <2> QED
    BY <1>1, <2>1, <2>3
<1>4. CASE TakeOverflow \/ DispatchRename \/ DispatchFiles \/ EndTick \/ ReceiveReload
  <2>1. UNCHANGED <<watched, registry, events, history>>
    BY <1>4
    DEF TakeOverflow, DispatchRename, DispatchFiles, EndTick, ReceiveReload, watches, queue
  <2>2. lane.pc \in {"idle", "dispatch"}
    BY <1>4
    DEF TakeOverflow, DispatchRename, DispatchFiles, EndTick, ReceiveReload, Dispatching
  <2>3. (overflow => overflow' \/ lane'.pc = "sync") /\ (reload => reload' \/ lane'.pc = "reload")
    BY <1>4
    DEF TakeOverflow, DispatchRename, DispatchFiles, EndTick, ReceiveReload, queue, Idle
  <2>4. \A d \in (present \ watched) \ history'.forgotten : Goes(d)
    BY <2>1, <2>2, <2>3 DEF DirectoryInv, EveryDirectoryIsWatched, Announced
  <2> QED
    BY <1>1, <2>1, <2>4
<1>5. CASE ProcessFile
  <2>1. PICK g \in Files : SkipVanished(g) \/ RefuseFile(g) \/ ReindexFile(g) \/ ReindexFails(g)
    BY <1>5 DEF ProcessFile
  <2>2. /\ UNCHANGED <<watched, registry, events, reload>> /\ lane.pc = "files"
        /\ history.forgotten \subseteq history'.forgotten /\ (overflow => overflow')
    BY <2>1
    DEF SkipVanished, RefuseFile, ReindexFile, ReindexFails, Fault, Processed, watches, TypeOK
  <2>3. \A d \in (present \ watched) \ history'.forgotten : Goes(d)
    BY <2>2 DEF DirectoryInv, EveryDirectoryIsWatched, Announced
  <2> QED
    BY <1>1, <2>2, <2>3
<1>6. CASE WalkDirectories
  <2>1. UNCHANGED <<watched, registry>> /\ \A d \in present : Goes(d)
    BY <1>6 DEF WalkDirectories, watches
  <2> QED
    BY <1>1, <2>1
<1>7. CASE RebuildRegistry
  <2>1. /\ registry' = Parents(index) \ {Top} /\ registry' \ registry \in SUBSET Dirs
        /\ Watch(registry' \ registry) /\ lane'.pc = "policy"
    BY <1>7, PathsAssumption DEF RebuildRegistry, Parents, TypeOK, LaneType
  <2>2. watched \subseteq watched' /\ (registry' \ registry) \cap present \subseteq watched'
    BY <2>1, WatchInstalls
  <2> QED
    BY <1>0, <2>1, <2>2 DEF DirectoryInv, RegisteredAreWatched, EveryDirectoryIsWatched
<1>8. CASE FinishCreated \/ InstallWatches
  <2>1. /\ registry' = registry \cup lane.dirs /\ lane.dirs \ registry \in SUBSET Dirs
        /\ Watch(lane.dirs \ registry) /\ UNCHANGED <<overflow, events, history>>
        /\ reload => reload'
    <3>1. lane.dirs \ registry \in SUBSET Dirs
      BY <1>0 DEF LaneType
    <3>2. CASE FinishCreated
      BY <3>1, <3>2 DEF FinishCreated, queue
    <3>3. CASE InstallWatches
      BY <3>1, <3>3 DEF InstallWatches, queue
    <3> QED
      BY <1>8, <3>2, <3>3
  <2>2. watched \subseteq watched' /\ (lane.dirs \ registry) \cap present \subseteq watched'
    BY <2>1, WatchInstalls
  <2>3. present \cap registry' \subseteq watched' /\ lane.pc \in {"created", "install"}
    BY <1>8, <2>1, <2>2 DEF DirectoryInv, RegisteredAreWatched, FinishCreated, InstallWatches
  <2>4. \A d \in (present \ watched') \ history'.forgotten : Goes(d)
    BY <2>1, <2>2, <2>3 DEF DirectoryInv, EveryDirectoryIsWatched, Announced
  <2> QED
    BY <1>0, <2>3, <2>4 DEF DirectoryInv, RegisteredAreWatched, EveryDirectoryIsWatched
<1> QED
  BY <1>2, <1>3, <1>4, <1>5, <1>6, <1>7, <1>8 DEF Watcher

\* A directory that exists is watched or on its way to a watch: announced, being
\* walked, or to be found by a scan or when the watches are derived again.  What
\* the theorem assumes is needed: nothing befalls a directory before it is
\* watched, and there is one subdirectory (unified.rs 331-386, 642-730, 1424-1474).
THEOREM NoDirectoryIsForgotten == OneDirectory => (Spec => []EveryDirectoryIsWatched)
<1> SUFFICES ASSUME OneDirectory PROVE Spec => []EveryDirectoryIsWatched
  OBVIOUS
<1>1. Init => DirectoryInv
  BY DEF Init, DirectoryInv, RegisteredAreWatched, EveryDirectoryIsWatched
<1>2. TypeOK /\ DirectoryInv /\ [Next]_vars => DirectoryInv'
  <2> SUFFICES ASSUME TypeOK, DirectoryInv, [Next]_vars PROVE DirectoryInv'
    OBVIOUS
  <2>1. ASSUME UNCHANGED <<present, watched, registry, events, overflow, reload, lane>>,
               history.forgotten = history'.forgotten
        PROVE  DirectoryInv'
    BY <2>1 DEF DirectoryInv, RegisteredAreWatched, EveryDirectoryIsWatched, Announced
  <2>2. ASSUME NEW p \in Paths, Settle(p) PROVE DirectoryInv'
    BY <2>1, <2>2 DEF Settle, tree, watches, queue
  <2>3. ASSUME NEW S \in SUBSET Files, ForceReindex(S) PROVE DirectoryInv'
    BY <2>1, <2>3 DEF ForceReindex, tree, watches, queue, TypeOK
  <2>4. CASE UNCHANGED vars
    BY <2>1, <2>4 DEF vars
  <2> QED
    BY <2>2, <2>3, <2>4, EditDirectories, WatcherDirectories DEF Next
<1>3. DirectoryInv => EveryDirectoryIsWatched
  BY DEF DirectoryInv
<1> QED
  BY <1>1, <1>2, <1>3, TypeCorrectness, PTL DEF Spec
=============================================================================
