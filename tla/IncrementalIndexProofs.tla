----------------------- MODULE IncrementalIndexProofs -----------------------
(* Theorems about IncrementalIndex, for every value of its constants.      *)
EXTENDS IncrementalIndex, FiniteSetTheorems, TLAPS

(***************************************************************************)
(* The inductive invariant.  Rebinding adds an edge for a captured source  *)
(* id that is still alive, so what the id's file refers to must be what it *)
(* referred to at the capture: ids are never used twice (IdsDistinct,      *)
(* IdsGivenOut), and a captured id names the file it was captured from     *)
(* (CapturesTrue).  Indexing a file may not take a row from under an edge: *)
(* the row was removed before (RowsMade).                                  *)
(***************************************************************************)
IdsDistinct == \A f, g \in Registered : row[f].id = row[g].id => f = g
IdsGivenOut == \A f \in Registered : row[f].id <= counter

TrueTo(captured) ==
    \A c \in captured :
        /\ c.from <= counter
        /\ \A f \in Registered : row[f].id = c.from => c.name \in row[f].content.uses

CapturesTrue == TrueTo(work.captured) /\ TrueTo(mem.captured)
RowsMade == work.index \cap Registered \subseteq work.modified

Graph == EdgesJoinLiveSymbols /\ IdsDistinct /\ IdsGivenOut

IInv == TypeOK /\ Graph /\ CapturesTrue /\ RowsMade

-----------------------------------------------------------------------------
(* Types of the run's memory.                                              *)

(* A run starts with well-typed, empty memory.                             *)
LEMMA EmptyMemory == NoWork \in WorkType /\ NoPending \in PendingType
  BY DEF NoWork, WorkType, NoPending, PendingType

(* What a registration holds.                                              *)
LEMMA RowTyped ==
  ASSUME row \in [Files -> [content : Contents, id : Nat] \cup {Absent}],
         NEW f \in Registered
  PROVE  /\ f \in Files /\ row[f].content \in Contents /\ row[f].id \in Nat
         /\ row[f].content.uses \subseteq Names /\ row[f].content.declares \subseteq Names
  <1>1. row[f] \in [content : Contents, id : Nat]
    BY DEF Registered
  <1>2. row[f].content \in [declares : SUBSET Names, uses : SUBSET Names, imports : SUBSET Files]
    BY <1>1, ContentsAssumption
  <1> QED
    BY <1>1, <1>2 DEF Registered

(* A derived edge joins the reference it is derived for with a symbol that *)
(* is declared.                                                            *)
LEMMA OutgoingJoins ==
  ASSUME row \in [Files -> [content : Contents, id : Nat] \cup {Absent}],
         NEW f \in Registered, NEW e \in Outgoing(row, f)
  PROVE  /\ e \in EdgeType /\ e.from = row[f].id /\ e.name \in row[f].content.uses
         /\ \E g \in Registered : row[g].id = e.to /\ e.name \in row[g].content.declares
  <1>1. PICK n \in row[f].content.uses :
           e \in {[from |-> row[f].id, name |-> n, to |-> row[g].id] : g \in Target(row, f, n)}
    BY DEF Outgoing
  <1>2. PICK g \in Target(row, f, n) : e = [from |-> row[f].id, name |-> n, to |-> row[g].id]
    BY <1>1
  <1>3. g \in Registered /\ n \in row[g].content.declares
    BY <1>2 DEF Target, Registered
  <1> QED
    BY <1>2, <1>3, RowTyped DEF EdgeType

(* The owner of a live id is the file registered with it.                  *)
LEMMA OwnerRegistered ==
  ASSUME NEW id \in LiveIds
  PROVE  Owner(id) \in Registered /\ row[Owner(id)].id = id
  <1>1. \E f \in Registered : row[f].id = id
    BY DEF LiveIds, Ids, Registered
  <1> QED
    BY <1>1 DEF Owner

(* The recovery paths of captured edges are files.                         *)
LEMMA FreshTyped ==
  ASSUME NEW captured \in SUBSET CapturedType
  PROVE  Fresh(captured) \subseteq Files
  BY DEF Fresh, CapturedType

(* The memory of a finished root joins the pending resolution well typed.  *)
LEMMA AccumulatedTyped ==
  ASSUME TypeOK
  PROVE  Accumulated \in PendingType /\ Accumulated.captured = mem.captured \cup work.captured
  <1>1. mem \in PendingType /\ work \in WorkType
    BY DEF TypeOK
  <1> QED
    BY <1>1 DEF Accumulated, PendingType, WorkType

(* An edge that is captured into `files` has a live source that refers to  *)
(* its name, and lands in `files`.                                         *)
LEMMA CaptureIsTrue ==
  ASSUME TypeOK, Graph, NEW files \in SUBSET Files, NEW inFlight \in SUBSET Files,
         NEW c \in CapturedInto(files, inFlight)
  PROVE  /\ c \in CapturedType
         /\ c.target \in files
         /\ Owner(c.from) \in Files
         /\ c.from <= counter
         /\ \A f \in Registered : row[f].id = c.from => c.name \in row[f].content.uses
  <1>1. PICK e \in edges :
           /\ e.to \in Ids(files)
           /\ c = [from |-> e.from, name |-> e.name, target |-> Owner(e.to),
                   fresh |-> IF Owner(e.from) \in queue THEN Absent ELSE Owner(e.from)]
    BY DEF CapturedInto
  <1>2. PICK f, g \in Registered :
           /\ row[f].id = e.from /\ e.name \in row[f].content.uses
           /\ row[g].id = e.to /\ e.name \in row[g].content.declares
    BY DEF Graph, EdgesJoinLiveSymbols
  <1>3. e.from \in LiveIds /\ e.to \in LiveIds
    BY <1>2 DEF LiveIds, Ids, Registered
  <1>4. Owner(e.from) = f /\ Owner(e.to) = g
    BY <1>2, <1>3, OwnerRegistered DEF Graph, IdsDistinct
  <1>5. g \in files
    BY <1>1, <1>2 DEF Ids, Graph, IdsDistinct
  <1>6. f \in Files /\ g \in Files
    BY <1>2 DEF Registered
  <1>7. e.from \in Nat /\ e.name \in Names
    BY <1>1 DEF TypeOK, EdgeType
  <1>8. c \in CapturedType
    BY <1>1, <1>4, <1>6, <1>7 DEF CapturedType
  <1>9. c.from <= counter
    BY <1>1, <1>2 DEF Graph, IdsGivenOut
  <1> QED
    BY <1>1, <1>2, <1>4, <1>5, <1>6, <1>8, <1>9 DEF Graph, IdsDistinct

(* So a capture is well typed and queues files.                            *)
LEMMA CaptureTyped ==
  ASSUME TypeOK, Graph, NEW files \in SUBSET Files, NEW inFlight \in SUBSET Files
  PROVE  /\ CapturedInto(files, inFlight) \subseteq CapturedType
         /\ Sources(CapturedInto(files, inFlight)) \subseteq Files
         /\ TrueTo(CapturedInto(files, inFlight))
  BY CaptureIsTrue DEF Sources, TrueTo

-----------------------------------------------------------------------------
(* Removing rows.                                                          *)

(* Cleanup removes rows together with the edges at their symbols, so what  *)
(* stays still joins live symbols.                                         *)
LEMMA RemovalKeepsGraph ==
  ASSUME TypeOK, Graph, NEW S \in SUBSET Files,
         row' = WithoutRows(S), edges' = WithoutEdges(S), counter' = counter
  PROVE  /\ row' \in [Files -> [content : Contents, id : Nat] \cup {Absent}]
         /\ edges' \subseteq EdgeType
         /\ Registered' = Registered \ S
         /\ \A f \in Registered' : row'[f] = row[f]
         /\ Graph'
  <1>1. row' \in [Files -> [content : Contents, id : Nat] \cup {Absent}]
    BY DEF TypeOK, WithoutRows
  <1>2. edges' \subseteq EdgeType /\ edges' \subseteq edges
    BY DEF TypeOK, WithoutEdges
  <1>3. Registered' = Registered \ S
    BY DEF Registered, WithoutRows
  <1>4. \A f \in Registered' : row'[f] = row[f]
    BY <1>3 DEF Registered, WithoutRows
  <1>5. EdgesJoinLiveSymbols'
    <2> SUFFICES ASSUME NEW e \in edges'
                 PROVE  \E f, g \in Registered' :
                           /\ row'[f].id = e.from /\ e.name \in row'[f].content.uses
                           /\ row'[g].id = e.to /\ e.name \in row'[g].content.declares
      BY DEF EdgesJoinLiveSymbols
    <2>1. PICK f, g \in Registered :
             /\ row[f].id = e.from /\ e.name \in row[f].content.uses
             /\ row[g].id = e.to /\ e.name \in row[g].content.declares
      BY <1>2 DEF Graph, EdgesJoinLiveSymbols
    <2>2. f \notin S /\ g \notin S
      BY <2>1 DEF WithoutEdges, Ids
    <2> QED
      BY <2>1, <2>2, <1>3, <1>4
  <1>6. IdsDistinct' /\ IdsGivenOut'
    BY <1>3, <1>4 DEF Graph, IdsDistinct, IdsGivenOut
  <1> QED
    BY <1>1, <1>2, <1>3, <1>4, <1>5, <1>6 DEF Graph

-----------------------------------------------------------------------------
(* One lemma per group of actions.                                         *)

(* Steps that leave the committed rows and counters alone keep Graph if    *)
(* they add no edge.                                                       *)
LEMMA FewerEdges ==
  ASSUME Graph, UNCHANGED <<row, counter>>, edges' \subseteq edges
  PROVE  Graph' /\ Registered' = Registered
  BY DEF Graph, EdgesJoinLiveSymbols, IdsDistinct, IdsGivenOut, Registered

(* The first index satisfies the invariant.                                *)
LEMMA InitIInv == Init => IInv
  <1> SUFFICES ASSUME Init PROVE IInv
    OBVIOUS
  <1>1. row \in [Files -> [content : Contents, id : Nat] \cup {Absent}]
    BY DiskAssumption DEF Init
  <1>2. \A f \in Registered : f \in Files /\ row[f].id = InitId[f]
    BY DEF Init, Registered
  <1>3. edges \subseteq EdgeType /\ EdgesJoinLiveSymbols
    <2> SUFFICES ASSUME NEW e \in edges
                 PROVE  /\ e \in EdgeType
                        /\ \E f, g \in Registered :
                              /\ row[f].id = e.from /\ e.name \in row[f].content.uses
                              /\ row[g].id = e.to /\ e.name \in row[g].content.declares
      BY DEF EdgesJoinLiveSymbols
    <2>1. PICK f \in Registered : e \in Outgoing(row, f)
      BY DEF Init
    <2> QED
      BY <1>1, <2>1, OutgoingJoins
  <1>4. IdsDistinct
    BY <1>2, DiskAssumption DEF IdsDistinct
  <1>7. IdsGivenOut
    <2>1. counter = InitCounter /\ \A f \in Files : InitId[f] \in 0..InitCounter
      BY DiskAssumption DEF Init
    <2> QED
      BY <1>2, <2>1, DiskAssumption DEF IdsGivenOut
  <1>5. CapturesTrue /\ RowsMade
    BY DEF Init, CapturesTrue, RowsMade, TrueTo, NoWork, NoPending
  <1>6. TypeOK
    BY <1>1, <1>3, EmptyMemory, DiskAssumption DEF TypeOK, Init
  <1> QED
    BY <1>3, <1>4, <1>5, <1>6, <1>7 DEF IInv, Graph

(* Edits, starts, selections and failures keep the committed index.        *)
LEMMA OutsideSteps ==
  ASSUME IInv, \/ \E f \in Files : Edit(f)
               \/ Start \/ NothingToResolve \/ RunFails \/ RootFails
  PROVE  IInv'
  <1> DEFINE Quiet == /\ UNCHANGED committed
                      /\ disk' \in [Files -> Contents \cup {Absent}]
                      /\ work' \in {work, NoWork}
                      /\ mem' \in PendingType
                      /\ mem'.captured \in {mem.captured, {}}
                      /\ pc' \in {pc, "idle", "visit", "select"}
                      /\ todo' \subseteq Files \cup Roots
                      /\ budget' \in [edits : Nat, faults : Nat, selects : Nat]
  <1>0. /\ disk \in [Files -> Contents \cup {Absent}] /\ mem \in PendingType
        /\ todo \subseteq Files \cup Roots
        /\ budget \in [edits : Nat, faults : Nat, selects : Nat]
        /\ NoPending \in PendingType /\ NoPending.captured = {}
    BY EmptyMemory DEF IInv, TypeOK, NoPending
  <1>1. ASSUME NEW f \in Files, Edit(f) PROVE Quiet
    <2>1. budget' \in [edits : Nat, faults : Nat, selects : Nat]
      BY <1>0, <1>1 DEF Edit
    <2>2. disk' \in [Files -> Contents \cup {Absent}]
      <3>1. PICK c \in Writable[f] \cup {Absent} : disk' = [disk EXCEPT ![f] = c]
        BY <1>1 DEF Edit
      <3>2. c \in Contents \cup {Absent}
        BY <3>1, DiskAssumption
      <3> QED
        BY <1>0, <3>1, <3>2
    <2> QED
      BY <1>0, <1>1, <2>1, <2>2 DEF Edit
  <1>2. ASSUME StartRoots PROVE Quiet
    BY <1>0, <1>2 DEF StartRoots
  <1>3. ASSUME NEW S \in SUBSET Files, NEW bounded \in BOOLEAN, StartSelected(S, bounded)
        PROVE  Quiet
    <2>1. mem' \in PendingType /\ mem'.captured = {}
      BY <1>3 DEF StartSelected, NoPending, PendingType
    <2> QED
      BY <1>0, <1>3, <2>1 DEF StartSelected
  <1>4. ASSUME NothingToResolve PROVE Quiet
    BY <1>0, <1>4 DEF NothingToResolve
  <1>5. ASSUME RunFails PROVE Quiet
    BY <1>0, <1>5 DEF RunFails, Charged
  <1>6. ASSUME RootFails PROVE Quiet
    BY <1>0, <1>6 DEF RootFails, Charged
  <1>7. Quiet
    BY <1>1, <1>2, <1>3, <1>4, <1>5, <1>6 DEF Start
  <1>8. TypeOK'
    BY <1>7, EmptyMemory DEF IInv, TypeOK, committed
  <1>9. Graph' /\ Registered' = Registered
    BY <1>7, FewerEdges DEF IInv, committed
  <1>10. CapturesTrue'
    BY <1>7, <1>9 DEF IInv, CapturesTrue, TrueTo, committed, NoWork
  <1>11. RowsMade'
    BY <1>7, <1>9 DEF IInv, RowsMade, NoWork
  <1> QED
    BY <1>8, <1>9, <1>10, <1>11 DEF IInv

(* Discovery and selection plan a cleanup for every row they will write.   *)
LEMMA PlanningSteps ==
  ASSUME IInv, \/ \E r \in Roots : Discover(r)
               \/ \E f \in Files : Select(f)
  PROVE  IInv'
  <1> DEFINE Planned == /\ UNCHANGED <<disk, committed, budget>>
                        /\ pc' \in {pc, "cleanup"}
                        /\ todo' \subseteq todo
                        /\ work' \in WorkType
                        /\ work'.captured \in {work.captured, {}}
                        /\ work'.index \cap Registered \subseteq work'.modified
                        /\ mem' \in PendingType
                        /\ mem'.captured = mem.captured
  <1>0. /\ work \in WorkType /\ mem \in PendingType /\ disk \in [Files -> Contents \cup {Absent}]
        /\ work.index \cap Registered \subseteq work.modified
    BY DEF IInv, TypeOK, RowsMade
  <1>1. ASSUME NEW r \in Roots, Discover(r) PROVE Planned
    <2> DEFINE found == Discovered(r)
    <2>1. found.work \in WorkType /\ found.work.captured = {} /\ found.changed \subseteq Files
      BY DEF Discovered, WorkType, NoWork, PairRelocations, InboundCallerFiles, Registered
    <2>2. found.work.index \cap Registered \subseteq found.work.modified
      BY DEF Discovered, NoWork, InboundCallerFiles, Registered
    <2> HIDE DEF found
    <2>3. CASE found.changed = {}
      BY <1>0, <1>1, <2>3 DEF Discover, found
    <2>4. CASE found.changed # {}
      <3>1. work' = found.work /\ mem' = [mem EXCEPT !.changed = mem.changed \cup found.changed]
        BY <1>1, <2>4 DEF Discover, found
      <3>2. mem' \in PendingType /\ mem'.captured = mem.captured
        BY <1>0, <2>1, <3>1 DEF PendingType
      <3> QED
        BY <1>1, <2>1, <2>2, <2>4, <3>1, <3>2 DEF Discover, found
    <2> QED
      BY <2>3, <2>4
  <1>2. ASSUME NEW f \in Files, Select(f) PROVE Planned
    <2> DEFINE plan == [NoWork EXCEPT !.modified = {f} \cap Registered, !.index = {f},
                                      !.planned = {f}, !.read = disk[f]]
    <2>1. /\ plan \in WorkType /\ plan.captured = {}
          /\ plan.index \cap Registered \subseteq plan.modified
      BY <1>0 DEF NoWork, WorkType, Registered
    <2>2. work' \in {work, plan} /\ pc' \in {pc, "cleanup"}
      BY <1>2 DEF Select
    <2> HIDE DEF plan
    <2> QED
      BY <1>0, <1>2, <2>1, <2>2 DEF Select
  <1>3. Planned
    BY <1>1, <1>2
  <1>4. TypeOK'
    BY <1>3 DEF IInv, TypeOK, committed
  <1>5. Graph' /\ Registered' = Registered
    BY <1>3, FewerEdges DEF IInv, committed
  <1>6. CapturesTrue' /\ RowsMade'
    BY <1>3, <1>5 DEF IInv, CapturesTrue, TrueTo, RowsMade, committed
  <1> QED
    BY <1>4, <1>5, <1>6 DEF IInv

(* A finished root, a counted read error and the end of preparation only   *)
(* move the run's memory on.                                               *)
LEMMA AccountingSteps ==
  ASSUME IInv, \/ FinishRoot \/ Prepared \/ ClearPending
               \/ \E f \in Files : ReadFails(f)
  PROVE  IInv'
  <1> DEFINE Accounted == /\ UNCHANGED <<disk, row, edges, counter, todo, budget>>
                          /\ queue' \subseteq queue
                          /\ pc' \in {pc, "idle", "visit", "select", "phase2", "clear"}
                          /\ work' \in WorkType
                          /\ work'.captured \subseteq work.captured
                          /\ work'.index \cap Registered \subseteq work'.modified
                          /\ mem' \in PendingType
                          /\ mem'.captured \subseteq mem.captured \cup work.captured
  <1>0. /\ work \in WorkType /\ mem \in PendingType /\ disk \in [Files -> Contents \cup {Absent}]
        /\ work.index \cap Registered \subseteq work.modified
        /\ NoWork \in WorkType /\ NoWork.captured = {} /\ NoWork.index = {} /\ NoWork.modified = {}
        /\ Accumulated \in PendingType /\ Accumulated.captured = mem.captured \cup work.captured
    BY EmptyMemory, AccumulatedTyped DEF IInv, TypeOK, RowsMade, NoWork
  <1>1. ASSUME FinishRoot PROVE Accounted
    <2>1. [Accumulated EXCEPT !.changed = Accumulated.changed \cup work.planned] \in PendingType
      BY <1>0 DEF PendingType, WorkType
    <2>2. mem' \in PendingType /\ mem'.captured = mem.captured \cup work.captured
      BY <1>0, <1>1, <2>1 DEF FinishRoot, PendingType
    <2> QED
      BY <1>0, <1>1, <2>2 DEF FinishRoot, committed
  <1>2. ASSUME Prepared PROVE Accounted
    <2> DEFINE after == IF work.planned = {} THEN mem ELSE Accumulated
    <2>1. after \in PendingType /\ after.captured \subseteq mem.captured \cup work.captured
      BY <1>0
    <2>2. /\ mem' = [after EXCEPT !.completed = after.completed \cup (after.processed \cap mem.queued)]
          /\ pc' \in {"phase2", "clear"}
      BY <1>2 DEF Prepared
    <2> HIDE DEF after
    <2>3. mem' \in PendingType /\ mem'.captured = after.captured
      BY <1>0, <2>1, <2>2 DEF PendingType
    <2> QED
      BY <1>0, <1>2, <2>1, <2>2, <2>3 DEF Prepared, committed
  <1>3. ASSUME ClearPending PROVE Accounted
    BY <1>0, <1>3, EmptyMemory DEF ClearPending, NoPending
  <1>4. ASSUME NEW f \in Files, ReadFails(f) PROVE Accounted
    <2>1. work' \in WorkType /\ work'.captured = work.captured /\ work'.index \subseteq work.index
          /\ work'.modified = work.modified
      BY <1>0, <1>4 DEF ReadFails, WorkType
    <2> QED
      BY <1>0, <1>4, <2>1 DEF ReadFails, committed
  <1>5. Accounted
    BY <1>1, <1>2, <1>3, <1>4
  <1>6. TypeOK'
    BY <1>5 DEF IInv, TypeOK
  <1>7. Graph' /\ Registered' = Registered
    BY <1>5, FewerEdges DEF IInv
  <1>8. CapturesTrue' /\ RowsMade'
    BY <1>5, <1>7 DEF IInv, CapturesTrue, TrueTo, RowsMade
  <1> QED
    BY <1>6, <1>7, <1>8 DEF IInv

(* Every step that removes rows removes their edges with them, and keeps   *)
(* only captures taken while the rows were there.                          *)
LEMMA RemovingSteps ==
  ASSUME IInv, CleanupDeleted \/ CleanupRenamed \/ CleanupModified \/ Reparse
  PROVE  IInv'
  <1> DEFINE Removed(S) == /\ UNCHANGED <<disk, counter, todo, budget>>
                           /\ row' = WithoutRows(S) /\ edges' = WithoutEdges(S)
                           /\ queue' \subseteq Files
                           /\ pc' \in {pc, "reparse"}
                           /\ work' \in WorkType
                           /\ TrueTo(work'.captured)
                           /\ (work'.index \cap Registered) \ S \subseteq work'.modified
                           /\ mem' \in PendingType
                           /\ mem'.captured = mem.captured
  <1>0. /\ work \in WorkType /\ mem \in PendingType
        /\ work.deleted \subseteq Files /\ work.modified \subseteq Files /\ queue \subseteq Files
        /\ work.renamed \subseteq Files \X Files
        /\ work.index \cap Registered \subseteq work.modified
        /\ TrueTo(work.captured)
    BY DEF IInv, TypeOK, RowsMade, CapturesTrue, WorkType
  <1>1. ASSUME CleanupDeleted PROVE Removed(work.deleted)
    <2>1. /\ work' \in WorkType /\ work'.captured = work.captured /\ work'.index = work.index
          /\ work'.modified = work.modified
      BY <1>0, <1>1 DEF CleanupDeleted, WorkType
    <2> QED
      BY <1>0, <1>1, <2>1 DEF CleanupDeleted, IInv, TypeOK
  <1>2. ASSUME CleanupRenamed PROVE \E S \in SUBSET Files : Removed(S)
    <2> DEFINE old == {p[1] : p \in work.renamed}
               into == CapturedInto(old, old \cup work.modified)
               new(c) == (CHOOSE p \in work.renamed : p[1] = c.target)[2]
               moved == {[c EXCEPT !.target = new(c)] : c \in into}
    <2>1. old \subseteq Files
      BY <1>0
    <2> HIDE DEF old
    <2>2. into \subseteq CapturedType /\ TrueTo(into) /\ \A c \in into : c.target \in old
      BY <1>0, <2>1, CaptureTyped, CaptureIsTrue DEF IInv
    <2> HIDE DEF into
    <2>3. \A c \in into : new(c) \in Files
      <3> SUFFICES ASSUME NEW c \in into PROVE new(c) \in Files
        OBVIOUS
      <3>1. \E p \in work.renamed : p[1] = c.target
        BY <2>2 DEF old
      <3>2. (CHOOSE p \in work.renamed : p[1] = c.target) \in work.renamed
        BY <3>1
      <3> QED
        BY <1>0, <3>2
    <2> HIDE DEF new
    <2>4. \A c \in into : /\ [c EXCEPT !.target = new(c)] \in CapturedType
                          /\ [c EXCEPT !.target = new(c)].from = c.from
                          /\ [c EXCEPT !.target = new(c)].name = c.name
      BY <2>2, <2>3 DEF CapturedType
    <2>5. moved \subseteq CapturedType /\ TrueTo(moved) /\ Sources(moved) \subseteq Sources(into)
      <3>1. \A m \in moved : \E c \in into : m \in CapturedType /\ m.from = c.from /\ m.name = c.name
        BY <2>4
      <3> HIDE DEF moved
      <3>2. moved \subseteq CapturedType /\ Sources(moved) \subseteq Sources(into)
        BY <3>1 DEF Sources
      <3>3. TrueTo(moved)
        BY <2>2, <3>1 DEF TrueTo
      <3> QED
        BY <3>2, <3>3
    <2>6. Sources(into) \subseteq Files
      BY <1>0, <2>1, CaptureTyped DEF IInv, into
    <2>7. /\ row' = WithoutRows(old) /\ edges' = WithoutEdges(old)
          /\ queue' = (queue \cup Sources(moved)) \ old
          /\ work' = [work EXCEPT !.renamed = {}, !.captured = work.captured \cup moved]
      BY <1>2 DEF CleanupRenamed, old, into, new
    <2> HIDE DEF moved
    <2>8. /\ work' \in WorkType /\ work'.captured = work.captured \cup moved
          /\ work'.index = work.index /\ work'.modified = work.modified
      BY <1>0, <2>5, <2>7 DEF WorkType
    <2>9. TrueTo(work'.captured)
      BY <1>0, <2>5, <2>8 DEF TrueTo
    <2>10. UNCHANGED <<disk, counter, pc, todo, mem, budget>>
      BY <1>2 DEF CleanupRenamed
    <2>11. queue' \subseteq Files
      BY <1>0, <2>5, <2>6, <2>7
    <2> QED
      BY <1>0, <2>1, <2>7, <2>8, <2>9, <2>10, <2>11
  <1>3. ASSUME CleanupModified PROVE Removed(work.modified)
    <2> DEFINE captured == CapturedInto(work.modified, work.modified)
    <2>1. captured \subseteq CapturedType /\ Sources(captured) \subseteq Files /\ TrueTo(captured)
      BY <1>0, CaptureTyped DEF IInv
    <2>2. /\ row' = WithoutRows(work.modified) /\ edges' = WithoutEdges(work.modified)
          /\ queue' = queue \cup Sources(captured)
          /\ work' = [work EXCEPT !.modified = {}, !.captured = work.captured \cup captured]
          /\ UNCHANGED <<disk, counter, pc, todo, mem, budget>>
      BY <1>3 DEF CleanupModified, CleanupForReindex
    <2> HIDE DEF captured
    <2>3. work' \in WorkType /\ work'.captured = work.captured \cup captured /\ work'.index = work.index
      BY <1>0, <2>1, <2>2 DEF WorkType
    <2>4. TrueTo(work'.captured)
      BY <1>0, <2>1, <2>3 DEF TrueTo
    <2> QED
      BY <1>0, <2>1, <2>2, <2>3, <2>4
  <1>4. ASSUME Reparse PROVE \E S \in SUBSET Files : Removed(S)
    <2> DEFINE paths == {f \in ToReparse : disk[f] # Absent}
               captured == CapturedInto(paths, paths)
    <2>1. ToReparse \subseteq Files
      BY <1>0 DEF ToReparse, PendingType
    <2>2. captured \subseteq CapturedType /\ Sources(captured) \subseteq Files /\ TrueTo(captured)
      BY <2>1, CaptureTyped DEF IInv
    <2>3. /\ row' = WithoutRows(paths) /\ edges' = WithoutEdges(paths)
          /\ queue' = queue \cup Sources(captured)
          /\ work' = [NoWork EXCEPT !.captured = captured, !.index = paths, !.planned = paths]
          /\ mem' = [mem EXCEPT !.completed = Fresh(mem.captured) \cup (ToReparse \ paths)]
          /\ pc' = "reparse"
          /\ UNCHANGED <<disk, counter, todo, budget>>
      BY <1>4 DEF Reparse
    <2>4. paths \subseteq Files
      BY <2>1
    <2> HIDE DEF captured, paths
    <2>5. Fresh(mem.captured) \subseteq Files
      BY <1>0, FreshTyped DEF PendingType
    <2>6. mem' \in PendingType /\ mem'.captured = mem.captured
      BY <1>0, <2>1, <2>3, <2>5 DEF PendingType
    <2>7. work' \in WorkType /\ work'.captured = captured /\ work'.index = paths
      BY <2>2, <2>3, <2>4 DEF NoWork, WorkType
    <2> QED
      BY <1>0, <2>2, <2>3, <2>4, <2>6, <2>7
  <1>5. PICK S \in SUBSET Files : Removed(S)
    BY <1>0, <1>1, <1>2, <1>3, <1>4
  <1>6. /\ row' \in [Files -> [content : Contents, id : Nat] \cup {Absent}]
        /\ edges' \subseteq EdgeType
        /\ Registered' = Registered \ S
        /\ \A f \in Registered' : row'[f] = row[f]
        /\ Graph'
    BY <1>5, RemovalKeepsGraph DEF IInv
  <1>7. TypeOK'
    BY <1>5, <1>6 DEF IInv, TypeOK
  <1>8. CapturesTrue'
    BY <1>5, <1>6 DEF IInv, CapturesTrue, TrueTo
  <1>9. RowsMade'
    BY <1>5, <1>6 DEF RowsMade
  <1> QED
    BY <1>6, <1>7, <1>8, <1>9 DEF IInv

(* A new row has a new id, and no edge or capture knows it yet.            *)
LEMMA IndexingStep ==
  ASSUME IInv, NEW f \in Files, IndexFile(f)
  PROVE  IInv'
  <1> DEFINE content == IF work.read = Absent THEN disk[f] ELSE work.read
             new == [content |-> content, id |-> counter + 1]
  <1>0. /\ work \in WorkType /\ counter \in Nat /\ work.modified = {}
        /\ row \in [Files -> [content : Contents, id : Nat] \cup {Absent}]
        /\ work.index \cap Registered \subseteq work.modified
    BY DEF IInv, TypeOK, RowsMade, IndexFile, Indexing, CleanupDone
  <1>1. row[f] = Absent
    BY <1>0 DEF IndexFile, Registered
  <1>2. content \in Contents
    BY <1>0 DEF IndexFile, IInv, TypeOK, WorkType
  <1>3. row' = [row EXCEPT ![f] = new] /\ counter' = counter + 1 /\ edges' = edges /\ mem' = mem
        /\ work' = [work EXCEPT !.index = work.index \ {f},
                                !.unresolved = work.unresolved \cup {counter + 1}]
    BY DEF IndexFile
  <1> HIDE DEF content
  <1>4. new \in [content : Contents, id : Nat] /\ new # Absent /\ new.id = counter + 1
    BY <1>0, <1>2, AbsentAssumption
  <1> HIDE DEF new
  <1>5. /\ row' \in [Files -> [content : Contents, id : Nat] \cup {Absent}]
        /\ Registered' = Registered \cup {f} /\ f \notin Registered
        /\ row'[f] = new /\ \A g \in Registered : row'[g] = row[g]
    BY <1>0, <1>1, <1>3, <1>4 DEF Registered
  <1>6. /\ work' \in WorkType /\ work'.captured = work.captured
        /\ work'.index = work.index \ {f} /\ work'.modified = {}
    <2>1. work.unresolved \cup {counter + 1} \in SUBSET Nat /\ work.index \ {f} \in SUBSET Files
      BY <1>0 DEF WorkType
    <2> QED
      BY <1>0, <1>3, <2>1 DEF WorkType
  <1>7. \A g \in Registered : row[g].id \in Nat /\ row[g].id < counter'
    BY <1>0, <1>3, RowTyped DEF IInv, Graph, IdsGivenOut
  <1>8. EdgesJoinLiveSymbols'
    BY <1>3, <1>5 DEF IInv, Graph, EdgesJoinLiveSymbols
  <1>9. IdsDistinct'
    BY <1>3, <1>4, <1>5, <1>7 DEF IInv, Graph, IdsDistinct
  <1>10. IdsGivenOut'
    BY <1>0, <1>3, <1>4, <1>5, <1>7 DEF IdsGivenOut
  <1>11. CapturesTrue'
    <2>1. /\ work'.captured = work.captured /\ mem'.captured = mem.captured
          /\ \A c \in work.captured \cup mem.captured :
                /\ c.from \in Nat /\ c.from <= counter
                /\ \A g \in Registered : row[g].id = c.from => c.name \in row[g].content.uses
      BY <1>3, <1>6 DEF IInv, TypeOK, CapturesTrue, TrueTo, WorkType, PendingType, CapturedType
    <2>2. \A c \in work.captured \cup mem.captured :
             /\ c.from <= counter'
             /\ \A g \in Registered' : row'[g].id = c.from => c.name \in row'[g].content.uses
      BY <1>0, <1>3, <1>4, <1>5, <2>1
    <2> QED
      BY <2>1, <2>2 DEF CapturesTrue, TrueTo
  <1>12. RowsMade'
    BY <1>0, <1>5, <1>6 DEF RowsMade
  <1>13. TypeOK'
    BY <1>0, <1>3, <1>5, <1>6 DEF IInv, TypeOK, IndexFile
  <1> QED
    BY <1>8, <1>9, <1>10, <1>11, <1>12, <1>13 DEF IInv, Graph

(* Invalidation removes edges and captures, and queues registered files.   *)
LEMMA InvalidatingStep ==
  ASSUME IInv, Invalidate
  PROVE  IInv'
  <1> DEFINE dependents == ImportDependents(mem.changed \cup (queue \ Fresh(mem.captured)),
                                            mem.processed)
             kept == {c \in mem.captured : c.from \notin Ids(dependents)}
  <1>1. dependents \subseteq Files
    BY DEF ImportDependents
  <1>2. /\ queue' = queue \cup dependents
        /\ edges' = {e \in edges : e.from \notin Ids(dependents)}
        /\ mem' = [mem EXCEPT !.queued = queue \cup dependents, !.captured = kept]
        /\ pc' = "prepare"
        /\ UNCHANGED <<disk, row, counter, todo, work, budget>>
    BY DEF Invalidate
  <1> HIDE DEF dependents
  <1>3. kept \subseteq mem.captured
    OBVIOUS
  <1> HIDE DEF kept
  <1>4. queue \subseteq Files /\ mem \in PendingType
    BY DEF IInv, TypeOK
  <1>5. mem' \in PendingType /\ mem'.captured = kept
    BY <1>1, <1>2, <1>3, <1>4 DEF PendingType
  <1>6. Graph' /\ Registered' = Registered
    BY <1>2, FewerEdges DEF IInv
  <1>7. CapturesTrue' /\ RowsMade'
    BY <1>2, <1>3, <1>5, <1>6 DEF IInv, CapturesTrue, TrueTo, RowsMade
  <1>8. TypeOK'
    BY <1>1, <1>2, <1>4, <1>5 DEF IInv, TypeOK
  <1> QED
    BY <1>6, <1>7, <1>8 DEF IInv

(* Resolution and rebinding add edges between live symbols only.           *)
LEMMA PublishingSteps ==
  ASSUME IInv, RebindInboundEdges \/ \E id \in mem.unresolved : ResolveFile(id)
  PROVE  IInv'
  <1> DEFINE Joins(e) == /\ e \in EdgeType
                         /\ \E f, g \in Registered :
                               /\ row[f].id = e.from /\ e.name \in row[f].content.uses
                               /\ row[g].id = e.to /\ e.name \in row[g].content.declares
  <1>0. /\ mem \in PendingType /\ row \in [Files -> [content : Contents, id : Nat] \cup {Absent}]
        /\ \A e \in edges : Joins(e)
    BY DEF IInv, TypeOK, Graph, EdgesJoinLiveSymbols
  <1>1. ASSUME NEW id \in mem.unresolved, ResolveFile(id)
        PROVE  /\ \A e \in edges' : Joins(e)
               /\ mem' \in PendingType /\ mem'.captured = mem.captured /\ pc' = pc
    <2>1. Owner(id) \in Registered
      BY <1>1, OwnerRegistered DEF ResolveFile, ContextMissing
    <2>2. \A e \in Outgoing(row, Owner(id)) : Joins(e)
      BY <1>0, <2>1, OutgoingJoins
    <2>3. mem' \in PendingType /\ mem'.captured = mem.captured /\ pc' = pc
      BY <1>0, <1>1 DEF ResolveFile, PendingType
    <2> QED
      BY <1>0, <1>1, <2>2, <2>3 DEF ResolveFile
  <1>2. ASSUME RebindInboundEdges
        PROVE  (\A e \in edges' : Joins(e)) /\ mem' = mem /\ pc' = "clear"
    <2> SUFFICES ASSUME NEW c \in mem.captured, c.from \in LiveIds, row[c.target] # Absent,
                        c.name \in row[c.target].content.declares
                 PROVE  Joins([from |-> c.from, name |-> c.name, to |-> row[c.target].id])
      BY <1>0, <1>2 DEF RebindInboundEdges
    <2>1. c \in CapturedType
      BY <1>0 DEF PendingType
    <2>2. c.from \in Nat /\ c.name \in Names /\ c.target \in Registered
      BY <2>1 DEF CapturedType, Registered
    <2>3. PICK f \in Registered : row[f].id = c.from
      BY OwnerRegistered
    <2>4. c.name \in row[f].content.uses
      BY <2>3 DEF IInv, CapturesTrue, TrueTo
    <2>5. row[c.target].id \in Nat
      BY <1>0, <2>2, RowTyped
    <2> QED
      BY <2>2, <2>3, <2>4, <2>5 DEF EdgeType
  <1>3. /\ \A e \in edges' : Joins(e)
        /\ mem' \in PendingType /\ mem'.captured = mem.captured /\ pc' \in {pc, "clear"}
    BY <1>0, <1>1, <1>2
  <1>4. UNCHANGED <<disk, row, queue, counter, todo, work, budget>>
    BY DEF ResolveFile, RebindInboundEdges
  <1>5. Registered' = Registered
    BY <1>4 DEF Registered
  <1>6. TypeOK'
    BY <1>3, <1>4 DEF IInv, TypeOK
  <1>7. EdgesJoinLiveSymbols'
    BY <1>3, <1>4, <1>5 DEF EdgesJoinLiveSymbols
  <1>8. IdsDistinct' /\ IdsGivenOut' /\ CapturesTrue' /\ RowsMade'
    BY <1>3, <1>4, <1>5 DEF IInv, Graph, IdsDistinct, IdsGivenOut, CapturesTrue, TrueTo, RowsMade
  <1> QED
    BY <1>6, <1>7, <1>8 DEF IInv, Graph

(* The invariant is inductive.                                             *)
LEMMA NextIInv == IInv /\ [Next]_vars => IInv'
  <1> SUFFICES ASSUME IInv, [Next]_vars PROVE IInv'
    OBVIOUS
  <1>1. CASE UNCHANGED vars
    <2>1. TypeOK'
      BY <1>1 DEF IInv, TypeOK, vars
    <2>2. Graph' /\ Registered' = Registered
      BY <1>1, FewerEdges DEF IInv, vars
    <2>3. CapturesTrue' /\ RowsMade'
      BY <1>1, <2>2 DEF IInv, CapturesTrue, TrueTo, RowsMade, vars
    <2> QED
      BY <2>1, <2>2, <2>3 DEF IInv
  <1>2. CASE Advance
    BY <1>2, OutsideSteps, PlanningSteps, AccountingSteps, RemovingSteps, IndexingStep,
       InvalidatingStep, PublishingSteps DEF Advance
  <1> QED
    BY <1>1, <1>2, OutsideSteps DEF Next

-----------------------------------------------------------------------------
(* The variables keep their types, whatever files, contents, roots and     *)
(* bounds there are: no recovery path, obligation or rebound edge of a run *)
(* is anything but a source path.                                          *)
THEOREM TypeCorrectness == Spec => []TypeOK
  <1>1. Init => IInv
    BY InitIInv
  <1>2. IInv /\ [Next]_vars => IInv'
    BY NextIInv
  <1>3. IInv => TypeOK
    BY DEF IInv
  <1> QED
    BY <1>1, <1>2, <1>3, PTL DEF Spec

(* No sequence of edits, deletions, renames, runs, errors and crashes      *)
(* leaves a relationship to or from a symbol that does not exist, or whose *)
(* file no longer refers to or declares the name: neither the cleanup of   *)
(* rows, nor Phase 2, nor the rebinding of edges captured earlier in the   *)
(* run revives a dead id.                                                  *)
THEOREM GraphNeverDangles == Spec => []EdgesJoinLiveSymbols
  <1>1. Init => IInv
    BY InitIInv
  <1>2. IInv /\ [Next]_vars => IInv'
    BY NextIInv
  <1>3. IInv => EdgesJoinLiveSymbols
    BY DEF IInv, Graph
  <1> QED
    BY <1>1, <1>2, <1>3, PTL DEF Spec

-----------------------------------------------------------------------------
(***************************************************************************)
(* Draining.  An obligation can be added while the queue is being worked   *)
(* off, by the reparse of another queued file.  Accounted follows every    *)
(* obligation to the place that will account for it: the completed set, or *)
(* the recovery path of a captured edge.                                   *)
(***************************************************************************)
Accounted ==
    /\ pc = "prepare" => queue \subseteq mem.queued
    /\ (pc = "reparse" /\ ~mem.bounded) =>
          /\ queue \subseteq mem.queued \cup Fresh(work.captured)
          /\ mem.queued \subseteq mem.completed \cup mem.processed \cup work.planned
          /\ work.index \subseteq work.planned
          /\ work.planned \subseteq mem.queued
          /\ work.planned = {} => work.captured = {}
    /\ (pc \in {"phase2", "clear"} /\ ~mem.bounded) =>
          queue \subseteq mem.completed \cup Fresh(mem.captured)

(* An obligation a capture adds is the recovery path of a captured edge.   *)
LEMMA NewObligationsAreFresh ==
  ASSUME TypeOK, Graph, NEW S \in SUBSET Files
  PROVE  /\ Sources(CapturedInto(S, S)) \subseteq queue \cup Fresh(CapturedInto(S, S))
         /\ S = {} => CapturedInto(S, S) = {}
  <1>1. ASSUME NEW c \in CapturedInto(S, S)
        PROVE  Owner(c.from) \in queue \cup Fresh(CapturedInto(S, S))
    <2>1. /\ c.fresh = IF Owner(c.from) \in queue THEN Absent ELSE Owner(c.from)
          /\ Owner(c.from) \in Files
      BY CaptureIsTrue DEF CapturedInto
    <2> QED
      BY <2>1, FilesAssumption DEF Fresh
  <1>2. S = {} => CapturedInto(S, S) = {}
    BY DEF CapturedInto, Ids
  <1> QED
    BY <1>1, <1>2 DEF Sources

(* The reparse leaves every obligation accounted for.                      *)
LEMMA ReparseAccounts ==
  ASSUME IInv, Accounted, Reparse
  PROVE  Accounted'
  <1> DEFINE paths == {f \in ToReparse : disk[f] # Absent}
             captured == CapturedInto(paths, paths)
  <1>1. mem \in PendingType /\ paths \subseteq Files
    BY DEF IInv, TypeOK, PendingType, ToReparse
  <1>2. Sources(captured) \subseteq queue \cup Fresh(captured) /\ (paths = {} => captured = {})
    BY <1>1, NewObligationsAreFresh DEF IInv
  <1>3. /\ queue' = queue \cup Sources(captured)
        /\ work' = [NoWork EXCEPT !.captured = captured, !.index = paths, !.planned = paths]
        /\ mem' = [mem EXCEPT !.completed = Fresh(mem.captured) \cup (ToReparse \ paths)]
        /\ pc = "prepare" /\ pc' = "reparse"
    BY DEF Reparse
  <1>4. paths \subseteq ToReparse
    OBVIOUS
  <1> HIDE DEF captured, paths
  <1>5. /\ work'.captured = captured /\ work'.index = paths /\ work'.planned = paths
        /\ mem'.completed = Fresh(mem.captured) \cup (ToReparse \ paths)
        /\ mem'.queued = mem.queued /\ mem'.processed = mem.processed /\ mem'.bounded = mem.bounded
    BY <1>1, <1>3 DEF NoWork, PendingType
  <1>6. queue \subseteq mem.queued
    BY <1>3 DEF Accounted
  <1>7. ~mem.bounded => ToReparse = mem.queued \ (mem.processed \cup Fresh(mem.captured))
    BY DEF ToReparse
  <1>8. Fresh(captured) = Fresh(work'.captured)
    BY <1>5
  <1> QED
    BY <1>2, <1>3, <1>4, <1>5, <1>6, <1>7, <1>8 DEF Accounted, Fresh

(* The end of preparation collects what the reparse processed.             *)
LEMMA PreparedAccounts ==
  ASSUME IInv, Accounted, Prepared
  PROVE  Accounted'
  <1> DEFINE after == IF work.planned = {} THEN mem ELSE Accumulated
  <1>1. mem \in PendingType /\ work \in WorkType
    BY DEF IInv, TypeOK
  <1>2. /\ mem' = [after EXCEPT !.completed = after.completed \cup (after.processed \cap mem.queued)]
        /\ pc = "reparse" /\ pc' \in {"phase2", "clear"} /\ queue' = queue
    BY DEF Prepared, committed
  <1>3. CASE work.planned = {}
    <2>1. /\ mem'.completed = mem.completed \cup (mem.processed \cap mem.queued)
          /\ mem'.captured = mem.captured /\ mem'.bounded = mem.bounded
      BY <1>1, <1>2, <1>3 DEF PendingType
    <2> QED
      BY <1>2, <1>3, <2>1 DEF Accounted, Fresh
  <1>4. CASE work.planned # {}
    <2>1. /\ Accumulated.completed = mem.completed
          /\ Accumulated.processed = mem.processed \cup work.planned
          /\ Accumulated.captured = mem.captured \cup work.captured
          /\ Accumulated.bounded = mem.bounded
          /\ Accumulated \in PendingType
      BY <1>1, AccumulatedTyped DEF Accumulated, PendingType, IInv
    <2>2. /\ mem'.completed = mem.completed \cup ((mem.processed \cup work.planned) \cap mem.queued)
          /\ mem'.captured = mem.captured \cup work.captured /\ mem'.bounded = mem.bounded
      BY <1>2, <1>4, <2>1 DEF PendingType
    <2> QED
      BY <1>2, <2>2 DEF Accounted, Fresh
  <1> QED
    BY <1>3, <1>4

(* Obligations stay accounted for.                                         *)
LEMMA NextAccounted == IInv /\ Accounted /\ [Next]_vars => Accounted'
  <1> SUFFICES ASSUME IInv, Accounted, [Next]_vars PROVE Accounted'
    OBVIOUS
  <1>0. mem \in PendingType /\ work \in WorkType
    BY DEF IInv, TypeOK
  <1>1. CASE UNCHANGED vars
    BY <1>1 DEF Accounted, vars, Fresh
  <1>2. CASE (\E f \in Files : Edit(f)) \/ Start \/ NothingToResolve \/ RunFails \/ RootFails
    BY <1>2 DEF Accounted, Fresh, Edit, Start, StartRoots, StartSelected, NothingToResolve,
                RunFails, RootFails, committed
  <1>3. CASE \E r \in Roots : Discover(r)
    BY <1>3 DEF Accounted, Discover
  <1>4. CASE \E f \in Files : Select(f)
    BY <1>4 DEF Accounted, Select
  <1>5. CASE CleanupDeleted \/ CleanupRenamed \/ CleanupModified \/ FinishRoot
    BY <1>5 DEF Accounted, CleanupDeleted, CleanupRenamed, CleanupModified, FinishRoot
  <1>6. CASE \E f \in Files : IndexFile(f)
    <2>1. PICK f \in Files : IndexFile(f)
      BY <1>6
    <2>2. /\ work' = [work EXCEPT !.index = work.index \ {f},
                                  !.unresolved = work.unresolved \cup {counter + 1}]
          /\ queue' = queue \cup {f} /\ f \in work.index /\ mem' = mem /\ pc' = pc
          /\ pc \in {"cleanup", "reparse"}
      BY <2>1 DEF IndexFile, Indexing
    <2>3. /\ work'.captured = work.captured /\ work'.planned = work.planned
          /\ work'.index \subseteq work.index
      BY <1>0, <2>2 DEF WorkType
    <2> QED
      BY <2>2, <2>3 DEF Accounted, Fresh
  <1>7. CASE \E f \in Files : ReadFails(f)
    <2>1. /\ work'.captured = work.captured /\ work'.planned = work.planned
          /\ work'.index \subseteq work.index
          /\ mem' = mem /\ queue' = queue /\ pc' = pc /\ pc \in {"cleanup", "reparse"}
      BY <1>0, <1>7 DEF ReadFails, WorkType, committed, Indexing
    <2> QED
      BY <2>1 DEF Accounted, Fresh
  <1>8. CASE Invalidate
    <2> DEFINE dependents == ImportDependents(mem.changed \cup (queue \ Fresh(mem.captured)),
                                              mem.processed)
               kept == {c \in mem.captured : c.from \notin Ids(dependents)}
    <2>1. /\ mem' = [mem EXCEPT !.queued = queue \cup dependents, !.captured = kept]
          /\ queue' = queue \cup dependents /\ pc' = "prepare"
      BY <1>8 DEF Invalidate
    <2> HIDE DEF dependents, kept
    <2>2. mem'.queued = queue \cup dependents
      BY <1>0, <2>1 DEF PendingType
    <2> QED
      BY <2>1, <2>2 DEF Accounted
  <1>9. CASE Reparse
    BY <1>9, ReparseAccounts
  <1>10. CASE Prepared
    BY <1>10, PreparedAccounts
  <1>11. CASE \E id \in mem.unresolved : ResolveFile(id)
    <2>1. /\ mem'.completed = mem.completed /\ mem'.captured = mem.captured
          /\ mem'.bounded = mem.bounded /\ queue' = queue /\ pc' = "phase2" /\ pc = "phase2"
      BY <1>0, <1>11 DEF ResolveFile, PendingType
    <2> QED
      BY <2>1 DEF Accounted, Fresh
  <1>12. CASE RebindInboundEdges \/ ClearPending
    BY <1>12 DEF Accounted, Fresh, RebindInboundEdges, ClearPending
  <1> QED
    BY <1>1, <1>2, <1>3, <1>4, <1>5, <1>6, <1>7, <1>8, <1>9, <1>10, <1>11, <1>12
       DEF Next, Advance

(* An unbounded run that succeeds leaves no obligation behind, not even    *)
(* one that the reparse of another queued file added on the way.           *)
THEOREM QueueDrains == Spec => UnboundedRunsDrain
  <1>1. Init => IInv /\ Accounted
    BY InitIInv DEF Init, Accounted
  <1>2. IInv /\ Accounted /\ [Next]_vars => (IInv /\ Accounted)'
    BY NextIInv, NextAccounted
  <1>3. IInv /\ Accounted /\ [Next]_vars => [(ClearPending /\ ~mem.bounded) => queue' = {}]_vars
    BY DEF Accounted, ClearPending
  <1> QED
    BY <1>1, <1>2, <1>3, PTL DEF Spec, UnboundedRunsDrain

-----------------------------------------------------------------------------
(***************************************************************************)
(* One target per reference.  Phase 2 and the rebinding both add edges for *)
(* a reference, so neither may find one there already: a symbol that is    *)
(* still to be resolved has no edge yet, and a captured edge is gone from  *)
(* the index, its source is not to be resolved, and no other capture has   *)
(* it with another target.  Rebinding ends the claim, and nothing follows  *)
(* it in the run but the clearing of obligations.                          *)
(***************************************************************************)
Unpublished == mem.unresolved \cup work.unresolved
Captures == mem.captured \cup work.captured
SameReference(x, y) == x.from = y.from /\ x.name = y.name

UnpublishedHaveNoEdges == \A e \in edges : e.from \notin Unpublished
CapturesAreSettled == \A c \in Captures : c.from \notin Unpublished
CapturesAgree == \A c, d \in Captures : SameReference(c, d) => c.target = d.target
CapturesAreUnbound == pc # "clear" => \A c \in Captures, e \in edges : ~SameReference(c, e)
PublishingIsLast == pc \in {"phase2", "clear"} => work = NoWork

SingleInv ==
    /\ OneTargetPerReference
    /\ UnpublishedHaveNoEdges /\ CapturesAreSettled
    /\ CapturesAgree /\ CapturesAreUnbound
    /\ PublishingIsLast

(* A name is bound to at most one file.                                    *)
LEMMA TargetIsUnique ==
  ASSUME NEW rows, NEW f, NEW n
  PROVE  \A g, h \in Target(rows, f, n) : g = h
  <1> DEFINE declarers == {g \in Files \ {f} : rows[g] # Absent /\ n \in rows[g].content.declares}
             imported == declarers \cap rows[f].content.imports
             matches == IF imported # {} THEN imported ELSE declarers
  <1>1. matches \in SUBSET Files
    OBVIOUS
  <1>2. Target(rows, f, n) = IF Cardinality(matches) = 1 THEN matches ELSE {}
    BY DEF Target
  <1> HIDE DEF matches
  <1>3. IsFiniteSet(matches)
    BY <1>1, FilesAssumption, FS_Subset
  <1>4. Cardinality(matches) = 1 => \E x : matches = {x}
    BY <1>3, FS_Singleton
  <1> QED
    BY <1>2, <1>4

(* So what is derived for a file has one target per reference.             *)
LEMMA OutgoingIsSingle ==
  ASSUME NEW f \in Files, NEW d \in Outgoing(row, f), NEW e \in Outgoing(row, f), d.name = e.name
  PROVE  d = e
  <1>1. PICK n, g : g \in Target(row, f, n) /\ d = [from |-> row[f].id, name |-> n, to |-> row[g].id]
    BY DEF Outgoing
  <1>2. PICK m, h : h \in Target(row, f, m) /\ e = [from |-> row[f].id, name |-> m, to |-> row[h].id]
    BY DEF Outgoing
  <1>3. n = m
    BY <1>1, <1>2
  <1>4. g = h
    BY <1>1, <1>2, <1>3, TargetIsUnique
  <1> QED
    BY <1>1, <1>2, <1>3, <1>4

(* A capture stands for an edge into the files.                            *)
LEMMA CaptureOfEdge ==
  ASSUME NEW files, NEW inFlight, NEW c \in CapturedInto(files, inFlight)
  PROVE  \E e \in edges : /\ e.to \in Ids(files) /\ SameReference(c, e)
                          /\ c.target = Owner(e.to)
  BY DEF CapturedInto, SameReference

(* The first index has what is derived, once.                              *)
LEMMA InitSingle == Init => SingleInv
  <1> SUFFICES ASSUME Init PROVE SingleInv
    OBVIOUS
  <1>1. IInv
    BY InitIInv
  <1>2. work.unresolved = {} /\ work.captured = {} /\ mem.unresolved = {} /\ mem.captured = {}
    BY DEF Init, NoWork, NoPending
  <1>3. OneTargetPerReference
    <2> SUFFICES ASSUME NEW d \in edges, NEW e \in edges, d.from = e.from, d.name = e.name
                 PROVE  d = e
      BY DEF OneTargetPerReference
    <2>1. PICK f \in Registered : d \in Outgoing(row, f)
      BY DEF Init
    <2>2. PICK g \in Registered : e \in Outgoing(row, g)
      BY DEF Init
    <2>3. d.from = row[f].id /\ e.from = row[g].id
      BY <1>1, <2>1, <2>2, OutgoingJoins DEF IInv, TypeOK
    <2>4. f = g /\ f \in Files
      BY <1>1, <2>3 DEF IInv, Graph, IdsDistinct, Registered
    <2> QED
      BY <2>1, <2>2, <2>4, OutgoingIsSingle
  <1> QED
    BY <1>2, <1>3 DEF Init, SingleInv, UnpublishedHaveNoEdges, CapturesAreSettled, CapturesAgree,
                      CapturesAreUnbound, PublishingIsLast, Unpublished, Captures

(* Steps that add neither edge, capture nor unpublished symbol.            *)
LEMMA NothingAddedKeepsSingle ==
  ASSUME SingleInv, edges' \subseteq edges,
         Unpublished' \subseteq Unpublished, Captures' \subseteq Captures,
         pc = "clear" /\ pc' # "clear" => Captures' = {},
         PublishingIsLast'
  PROVE  SingleInv'
  <1>1. OneTargetPerReference' /\ UnpublishedHaveNoEdges' /\ CapturesAreSettled'
    BY DEF SingleInv, OneTargetPerReference, UnpublishedHaveNoEdges, CapturesAreSettled
  <1>2. CapturesAgree' /\ CapturesAreUnbound'
    BY DEF SingleInv, CapturesAgree, CapturesAreUnbound, SameReference
  <1> QED
    BY <1>1, <1>2 DEF SingleInv

(* Editors, starts, plans, failures and the accounting of a run.           *)
LEMMA QuietStepsKeepSingle ==
  ASSUME IInv, SingleInv,
         \/ \E f \in Files : Edit(f) \/ Select(f) \/ ReadFails(f)
         \/ \E r \in Roots : Discover(r)
         \/ Start \/ NothingToResolve \/ RunFails \/ RootFails
         \/ FinishRoot \/ Prepared \/ Invalidate \/ ClearPending
  PROVE  SingleInv'
  <1>0. /\ work \in WorkType /\ mem \in PendingType
        /\ NoWork.unresolved = {} /\ NoWork.captured = {}
        /\ NoPending.unresolved = {} /\ NoPending.captured = {}
    BY DEF IInv, TypeOK, NoWork, NoPending
  <1> DEFINE Less == /\ edges' \subseteq edges
                     /\ Unpublished' \subseteq Unpublished
                     /\ Captures' \subseteq Captures
                     /\ pc = "clear" /\ pc' # "clear" => Captures' = {}
                     /\ PublishingIsLast'
  <1>1. ASSUME NEW f \in Files, Edit(f) PROVE Less
    BY <1>1 DEF Edit, committed, Unpublished, Captures, SingleInv, PublishingIsLast
  <1>2. ASSUME NEW f \in Files, Select(f) PROVE Less
    <2>1. work' = work \/ (work'.unresolved = {} /\ work'.captured = {})
      BY <1>2 DEF Select, NoWork
    <2>2. pc' \in {"select", "cleanup"} /\ pc = "select" /\ edges' = edges /\ mem' = mem
      BY <1>2 DEF Select, committed
    <2> QED
      BY <2>1, <2>2 DEF Unpublished, Captures, PublishingIsLast
  <1>3. ASSUME NEW f \in Files, ReadFails(f) PROVE Less
    <2>1. work'.unresolved = work.unresolved /\ work'.captured = work.captured
      BY <1>0, <1>3 DEF ReadFails, WorkType
    <2>2. pc' = pc /\ pc \in {"cleanup", "reparse"} /\ edges' = edges /\ mem' = mem
      BY <1>3 DEF ReadFails, Indexing, committed
    <2> QED
      BY <2>1, <2>2 DEF Unpublished, Captures, PublishingIsLast
  <1>4. ASSUME NEW r \in Roots, Discover(r) PROVE Less
    <2>1. work' = work \/ (work'.unresolved = {} /\ work'.captured = {})
      BY <1>4 DEF Discover, Discovered, NoWork
    <2>2. mem'.unresolved = mem.unresolved /\ mem'.captured = mem.captured
      BY <1>0, <1>4 DEF Discover, PendingType
    <2>3. pc' \in {"visit", "cleanup"} /\ pc = "visit" /\ edges' = edges
      BY <1>4 DEF Discover, committed
    <2> QED
      BY <2>1, <2>2, <2>3 DEF Unpublished, Captures, PublishingIsLast
  <1>5. ASSUME Start PROVE Less
    <2>1. work' = work /\ edges' = edges /\ pc' \in {"visit", "select"} /\ pc = "idle"
      BY <1>5 DEF Start, StartRoots, StartSelected, committed
    <2>2. mem' = mem \/ (mem'.unresolved = {} /\ mem'.captured = {})
      BY <1>5 DEF Start, StartRoots, StartSelected, NoPending
    <2> QED
      BY <2>1, <2>2 DEF Unpublished, Captures, PublishingIsLast
  <1>6. ASSUME NothingToResolve PROVE Less
    BY <1>0, <1>6 DEF NothingToResolve, committed, Unpublished, Captures, PublishingIsLast
  <1>7. ASSUME RunFails PROVE Less
    BY <1>0, <1>7 DEF RunFails, committed, Unpublished, Captures, PublishingIsLast
  <1>8. ASSUME RootFails PROVE Less
    BY <1>0, <1>8 DEF RootFails, committed, Unpublished, Captures, PublishingIsLast
  <1>9. ASSUME FinishRoot PROVE Less
    <2>1. /\ mem'.unresolved = mem.unresolved \cup work.unresolved
          /\ mem'.captured = mem.captured \cup work.captured
      BY <1>0, <1>9 DEF FinishRoot, Accumulated, PendingType
    <2>2. work' = NoWork /\ edges' = edges /\ pc = "cleanup" /\ pc' \in {"visit", "select"}
      BY <1>9 DEF FinishRoot, committed
    <2> QED
      BY <1>0, <2>1, <2>2 DEF Unpublished, Captures, PublishingIsLast
  <1>10. ASSUME Prepared PROVE Less
    <2>1. Accumulated.unresolved = mem.unresolved \cup work.unresolved
      BY <1>0 DEF Accumulated, PendingType
    <2>2. Accumulated \in PendingType /\ Accumulated.captured = mem.captured \cup work.captured
      BY AccumulatedTyped DEF IInv
    <2>3. /\ mem'.unresolved \subseteq mem.unresolved \cup work.unresolved
          /\ mem'.captured \subseteq mem.captured \cup work.captured
      <3> DEFINE after == IF work.planned = {} THEN mem ELSE Accumulated
      <3>1. /\ after \in PendingType
            /\ after.unresolved \subseteq mem.unresolved \cup work.unresolved
            /\ after.captured \subseteq mem.captured \cup work.captured
        BY <1>0, <2>1, <2>2
      <3>2. mem' = [after EXCEPT !.completed = after.completed \cup (after.processed \cap mem.queued)]
        BY <1>10 DEF Prepared
      <3> HIDE DEF after
      <3> QED
        BY <3>1, <3>2 DEF PendingType
    <2>4. work' = NoWork /\ edges' = edges /\ pc = "reparse"
      BY <1>10 DEF Prepared, committed
    <2> QED
      BY <1>0, <2>3, <2>4 DEF Unpublished, Captures, PublishingIsLast
  <1>11. ASSUME Invalidate PROVE Less
    <2>1. mem'.unresolved = mem.unresolved /\ mem'.captured \subseteq mem.captured
      BY <1>0, <1>11 DEF Invalidate, PendingType
    <2>2. /\ work' = work /\ edges' \subseteq edges
          /\ pc \in {"visit", "select"} /\ pc' = "prepare"
      BY <1>11 DEF Invalidate
    <2> QED
      BY <2>1, <2>2 DEF Unpublished, Captures, PublishingIsLast
  <1>12. ASSUME ClearPending PROVE Less
    <2>1. work = NoWork
      BY <1>12 DEF ClearPending, SingleInv, PublishingIsLast
    <2> QED
      BY <1>0, <1>12, <2>1 DEF ClearPending, Unpublished, Captures, PublishingIsLast
  <1>13. Less
    BY <1>1, <1>2, <1>3, <1>4, <1>5, <1>6, <1>7, <1>8, <1>9, <1>10, <1>11, <1>12
  <1> QED
    BY <1>13, NothingAddedKeepsSingle

(* A new registration has an id that no edge and no capture knows.         *)
LEMMA IndexingKeepsSingle ==
  ASSUME IInv, SingleInv, NEW f \in Files, IndexFile(f)
  PROVE  SingleInv'
  <1>1. /\ work'.unresolved = work.unresolved \cup {counter + 1}
        /\ work'.captured = work.captured
    BY DEF IInv, TypeOK, IndexFile, WorkType
  <1>2. edges' = edges /\ mem' = mem /\ pc' = pc /\ pc \in {"cleanup", "reparse"}
    BY DEF IndexFile, Indexing
  <1>3. Unpublished' = Unpublished \cup {counter + 1} /\ Captures' = Captures
    BY <1>1, <1>2 DEF Unpublished, Captures
  <1>4. counter \in Nat
    BY DEF IInv, TypeOK
  <1>5. \A e \in edges : e.from # counter + 1
    <2> SUFFICES ASSUME NEW e \in edges PROVE e.from # counter + 1
      OBVIOUS
    <2>1. PICK g \in Registered : row[g].id = e.from
      BY DEF IInv, Graph, EdgesJoinLiveSymbols
    <2>2. e.from \in Nat /\ e.from <= counter
      BY <2>1 DEF IInv, Graph, IdsGivenOut, TypeOK, EdgeType
    <2> QED
      BY <1>4, <2>2
  <1>6. \A c \in Captures : c.from # counter + 1
    <2>1. \A c \in Captures : c.from \in Nat /\ c.from <= counter
      BY DEF IInv, TypeOK, WorkType, PendingType, CapturedType, CapturesTrue, TrueTo, Captures
    <2> QED
      BY <1>4, <2>1
  <1> QED
    BY <1>2, <1>3, <1>5, <1>6 DEF SingleInv, OneTargetPerReference, UnpublishedHaveNoEdges,
       CapturesAreSettled, CapturesAgree, CapturesAreUnbound, PublishingIsLast

(* What is captured was an edge, is one no more, and was the only one for  *)
(* its reference.                                                          *)
LEMMA CapturingKeepsSingle ==
  ASSUME SingleInv, NEW S, NEW T, NEW New,
         edges' = WithoutEdges(S),
         \A m \in New : \E c \in CapturedInto(S, T) : SameReference(m, c),
         \A m, n \in New : SameReference(m, n) => m.target = n.target,
         Captures' \subseteq Captures \cup New,
         Unpublished' \subseteq Unpublished,
         pc # "clear", pc' \notin {"phase2", "clear"}
  PROVE  SingleInv'
  <1>1. edges' \subseteq edges /\ \A e \in edges' : e.to \notin Ids(S)
    BY DEF WithoutEdges
  <1>2. \A m \in New : \E e \in edges : SameReference(m, e) /\ e.to \in Ids(S)
    BY CaptureOfEdge DEF SameReference
  <1>3. OneTargetPerReference' /\ UnpublishedHaveNoEdges'
    BY <1>1 DEF SingleInv, OneTargetPerReference, UnpublishedHaveNoEdges
  <1>4. CapturesAreSettled'
    BY <1>2 DEF SingleInv, UnpublishedHaveNoEdges, CapturesAreSettled, SameReference
  <1>5. CapturesAgree'
    BY <1>2 DEF SingleInv, CapturesAgree, CapturesAreUnbound, SameReference
  <1>6. CapturesAreUnbound'
    <2>1. \A m \in New, e \in edges' : ~SameReference(m, e)
      BY <1>1, <1>2 DEF SingleInv, OneTargetPerReference, SameReference
    <2> QED
      BY <1>1, <2>1 DEF SingleInv, CapturesAreUnbound
  <1> QED
    BY <1>3, <1>4, <1>5, <1>6 DEF SingleInv, PublishingIsLast

(* Captures into one set of files agree.                                   *)
LEMMA CapturesIntoAgree ==
  ASSUME OneTargetPerReference, NEW S, NEW T,
         NEW c \in CapturedInto(S, T), NEW d \in CapturedInto(S, T), SameReference(c, d)
  PROVE  c.target = d.target
  <1>1. PICK x \in edges : SameReference(c, x) /\ c.target = Owner(x.to)
    BY CaptureOfEdge
  <1>2. PICK y \in edges : SameReference(d, y) /\ d.target = Owner(y.to)
    BY CaptureOfEdge
  <1>3. x = y
    BY <1>1, <1>2 DEF OneTargetPerReference, SameReference
  <1> QED
    BY <1>1, <1>2, <1>3

(* Cleanup and reparse.                                                    *)
LEMMA RemovingKeepsSingle ==
  ASSUME IInv, SingleInv, CleanupDeleted \/ CleanupRenamed \/ CleanupModified \/ Reparse
  PROVE  SingleInv'
  <1>0. work \in WorkType /\ mem \in PendingType /\ OneTargetPerReference
    BY DEF IInv, TypeOK, SingleInv
  <1>1. CASE CleanupDeleted
    <2>1. work'.captured = work.captured /\ work'.unresolved = work.unresolved
      BY <1>0, <1>1 DEF CleanupDeleted, WorkType
    <2>2. mem' = mem /\ pc' = pc /\ pc = "cleanup" /\ edges' \subseteq edges
      BY <1>1 DEF CleanupDeleted, WithoutEdges
    <2> QED
      BY <2>1, <2>2, NothingAddedKeepsSingle DEF Unpublished, Captures, PublishingIsLast
  <1>2. CASE CleanupRenamed
    <2> DEFINE old == {p[1] : p \in work.renamed}
               into == CapturedInto(old, old \cup work.modified)
               new(c) == (CHOOSE p \in work.renamed : p[1] = c.target)[2]
               moved == {[c EXCEPT !.target = new(c)] : c \in into}
    <2>1. /\ edges' = WithoutEdges(old)
          /\ work' = [work EXCEPT !.renamed = {}, !.captured = work.captured \cup moved]
          /\ mem' = mem /\ pc' = pc /\ pc = "cleanup"
      BY <1>2 DEF CleanupRenamed
    <2>2. \A c, d \in into : c.target = d.target => new(c) = new(d)
      OBVIOUS
    <2>3. old \in SUBSET Files /\ work.modified \in SUBSET Files
      BY <1>0 DEF WorkType
    <2> HIDE DEF new, old
    <2>4. \A c \in into : c \in CapturedType
      BY <2>3, CaptureIsTrue DEF IInv
    <2>5. \A c, d \in into : SameReference(c, d) => c.target = d.target
      BY <1>0, CapturesIntoAgree
    <2> HIDE DEF into
    <2>6. \A c \in into : /\ [c EXCEPT !.target = new(c)].from = c.from
                          /\ [c EXCEPT !.target = new(c)].name = c.name
                          /\ [c EXCEPT !.target = new(c)].target = new(c)
      BY <2>4 DEF CapturedType
    <2>7. \A m \in moved : \E c \in into : m.from = c.from /\ m.name = c.name /\ m.target = new(c)
      BY <2>6
    <2> HIDE DEF moved
    <2>8. \A m \in moved : \E c \in into : SameReference(m, c)
      BY <2>7 DEF SameReference
    <2>9. \A m, n \in moved : SameReference(m, n) => m.target = n.target
      BY <2>2, <2>5, <2>7 DEF SameReference
    <2>10. work'.captured = work.captured \cup moved /\ work'.unresolved = work.unresolved
      BY <1>0, <2>1 DEF WorkType
    <2>11. Captures' \subseteq Captures \cup moved /\ Unpublished' \subseteq Unpublished
      BY <2>1, <2>10 DEF Captures, Unpublished
    <2> QED
      BY <2>1, <2>8, <2>9, <2>11, CapturingKeepsSingle DEF into
  <1>3. CASE CleanupModified
    <2> DEFINE captured == CapturedInto(work.modified, work.modified)
    <2>1. /\ edges' = WithoutEdges(work.modified)
          /\ work' = [work EXCEPT !.modified = {}, !.captured = work.captured \cup captured]
          /\ mem' = mem /\ pc' = pc /\ pc = "cleanup"
      BY <1>3 DEF CleanupModified, CleanupForReindex
    <2>2. \A c, d \in captured : SameReference(c, d) => c.target = d.target
      BY <1>0, CapturesIntoAgree
    <2> HIDE DEF captured
    <2>3. work'.captured = work.captured \cup captured /\ work'.unresolved = work.unresolved
      BY <1>0, <2>1 DEF WorkType
    <2>4. Captures' \subseteq Captures \cup captured /\ Unpublished' \subseteq Unpublished
      BY <2>1, <2>3 DEF Captures, Unpublished
    <2>5. \A m \in captured :
             \E c \in CapturedInto(work.modified, work.modified) : SameReference(m, c)
      BY DEF SameReference, captured
    <2>6. pc # "clear" /\ pc' \notin {"phase2", "clear"}
      BY <2>1
    <2> QED
      BY <2>1, <2>2, <2>4, <2>5, <2>6, CapturingKeepsSingle
  <1>4. CASE Reparse
    <2> DEFINE paths == {f \in ToReparse : disk[f] # Absent}
               captured == CapturedInto(paths, paths)
    <2>1. /\ edges' = WithoutEdges(paths)
          /\ work' = [NoWork EXCEPT !.captured = captured, !.index = paths, !.planned = paths]
          /\ mem' = [mem EXCEPT !.completed = Fresh(mem.captured) \cup (ToReparse \ paths)]
          /\ pc = "prepare" /\ pc' = "reparse"
      BY <1>4 DEF Reparse
    <2>2. \A c, d \in captured : SameReference(c, d) => c.target = d.target
      BY <1>0, CapturesIntoAgree
    <2> HIDE DEF captured, paths
    <2>3. /\ work'.captured = captured /\ work'.unresolved = {}
          /\ mem'.captured = mem.captured /\ mem'.unresolved = mem.unresolved
      BY <1>0, <2>1 DEF NoWork, PendingType
    <2>4. Captures' \subseteq Captures \cup captured /\ Unpublished' \subseteq Unpublished
      BY <2>3 DEF Captures, Unpublished
    <2>5. \A m \in captured : \E c \in CapturedInto(paths, paths) : SameReference(m, c)
      BY DEF SameReference, captured
    <2>6. pc # "clear" /\ pc' \notin {"phase2", "clear"}
      BY <2>1
    <2> QED
      BY <2>1, <2>2, <2>4, <2>5, <2>6, CapturingKeepsSingle
  <1> QED
    BY <1>1, <1>2, <1>3, <1>4

(* Resolution binds the references of a symbol that had no edge.           *)
LEMMA ResolvingKeepsSingle ==
  ASSUME IInv, SingleInv, NEW id \in mem.unresolved, ResolveFile(id)
  PROVE  SingleInv'
  <1> DEFINE f == Owner(id)
  <1>1. f \in Registered /\ f \in Files /\ row[f].id = id
    BY OwnerRegistered DEF ResolveFile, ContextMissing, Registered
  <1> HIDE DEF f
  <1>2. \A e \in Outgoing(row, f) : e.from = id
    BY <1>1, OutgoingJoins DEF IInv, TypeOK
  <1>3. edges' = edges \cup Outgoing(row, f)
    BY DEF ResolveFile, f
  <1>4. /\ mem'.unresolved = mem.unresolved \ {id} /\ mem'.captured = mem.captured
        /\ work' = work /\ pc' = pc /\ pc = "phase2"
    BY DEF IInv, TypeOK, PendingType, ResolveFile
  <1>5. work.unresolved = {}
    BY <1>4 DEF SingleInv, PublishingIsLast, NoWork
  <1>6. Unpublished' = Unpublished \ {id} /\ Captures' = Captures /\ id \in Unpublished
    BY <1>4, <1>5 DEF Unpublished, Captures
  <1>7. OneTargetPerReference'
    <2> SUFFICES ASSUME NEW d \in edges', NEW e \in edges', d.from = e.from, d.name = e.name
                 PROVE  d = e
      BY DEF OneTargetPerReference
    <2>1. CASE d \in edges /\ e \in edges
      BY <2>1 DEF SingleInv, OneTargetPerReference
    <2>2. CASE d \in Outgoing(row, f) /\ e \in Outgoing(row, f)
      BY <1>1, <2>2, OutgoingIsSingle
    <2>3. \A x \in edges : x.from # id
      BY <1>6 DEF SingleInv, UnpublishedHaveNoEdges
    <2> QED
      BY <1>2, <1>3, <2>1, <2>2, <2>3
  <1>8. UnpublishedHaveNoEdges'
    BY <1>2, <1>3, <1>6 DEF SingleInv, UnpublishedHaveNoEdges
  <1>9. CapturesAreUnbound'
    BY <1>2, <1>3, <1>4, <1>6 DEF SingleInv, CapturesAreUnbound, CapturesAreSettled, SameReference
  <1> QED
    BY <1>4, <1>6, <1>7, <1>8, <1>9 DEF SingleInv, CapturesAreSettled, CapturesAgree,
                                        PublishingIsLast

(* Rebinding restores one edge for a reference that has none.              *)
LEMMA RebindingKeepsSingle ==
  ASSUME IInv, SingleInv, RebindInboundEdges
  PROVE  SingleInv'
  <1> DEFINE Rebound(c) == [from |-> c.from, name |-> c.name, to |-> row[c.target].id]
  <1>1. \A e \in edges' : e \in edges \/ \E c \in Captures : e = Rebound(c)
    BY DEF RebindInboundEdges, Captures
  <1>2. /\ work' = work /\ mem' = mem /\ pc = "phase2" /\ pc' = "clear"
        /\ mem.unresolved = {}
    BY DEF RebindInboundEdges
  <1>3. Unpublished = {} /\ Unpublished' = {} /\ Captures' = Captures
    BY <1>2 DEF Unpublished, Captures, SingleInv, PublishingIsLast, NoWork
  <1>4. \A c \in Captures, e \in edges : ~SameReference(c, e)
    BY <1>2 DEF SingleInv, CapturesAreUnbound
  <1>5. OneTargetPerReference'
    <2> SUFFICES ASSUME NEW d \in edges', NEW e \in edges', d.from = e.from, d.name = e.name
                 PROVE  d = e
      BY DEF OneTargetPerReference
    <2>1. CASE d \in edges /\ e \in edges
      BY <2>1 DEF SingleInv, OneTargetPerReference
    <2>2. CASE \E x, y \in Captures : d = Rebound(x) /\ e = Rebound(y)
      BY <2>2 DEF SingleInv, CapturesAgree, SameReference
    <2> QED
      BY <1>1, <1>4, <2>1, <2>2 DEF SameReference
  <1> QED
    BY <1>2, <1>3, <1>5 DEF SingleInv, UnpublishedHaveNoEdges, CapturesAreSettled, CapturesAgree,
                            CapturesAreUnbound, PublishingIsLast

(* The invariant is inductive, on top of IInv.                             *)
LEMMA NextSingle == IInv /\ SingleInv /\ [Next]_vars => SingleInv'
  <1> SUFFICES ASSUME IInv, SingleInv, [Next]_vars PROVE SingleInv'
    OBVIOUS
  <1>1. CASE UNCHANGED vars
    BY <1>1 DEF vars, SingleInv, OneTargetPerReference, UnpublishedHaveNoEdges,
       CapturesAreSettled, CapturesAgree, CapturesAreUnbound, PublishingIsLast, Unpublished, Captures
  <1>2. CASE Advance
    BY <1>2, QuietStepsKeepSingle, IndexingKeepsSingle, RemovingKeepsSingle, ResolvingKeepsSingle,
       RebindingKeepsSingle DEF Advance
  <1> QED
    BY <1>1, <1>2, QuietStepsKeepSingle DEF Next

(* No replay, reparse or rebinding, whatever edits, failures and crashes   *)
(* lie between them, leaves one reference bound to two symbols.            *)
THEOREM ReferencesHaveOneTarget == Spec => []OneTargetPerReference
  <1>1. Init => IInv /\ SingleInv
    BY InitIInv, InitSingle
  <1>2. IInv /\ SingleInv /\ [Next]_vars => (IInv /\ SingleInv)'
    BY NextIInv, NextSingle
  <1>3. SingleInv => OneTargetPerReference
    BY DEF SingleInv
  <1> QED
    BY <1>1, <1>2, <1>3, PTL DEF Spec
=============================================================================
