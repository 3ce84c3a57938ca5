---------------------- MODULE IncrementalDamageProofs ----------------------
(***************************************************************************)
(* Why no damage is forgotten: IncrementalIndex without deletions, and with *)
(* callers that give up a run of which one root fails.                     *)
(*                                                                         *)
(* That damage is owed durably (DamageIsQueued) is kept by every step but  *)
(* the last one of a run, which clears obligations.  What this one needs   *)
(* is TroubleIsHandled: when the queue has been read, a file with damage   *)
(* is being resolved, or its own obligation is not among the cleared ones. *)
(* It follows from TroubleIsFound, which says that reading the queue and   *)
(* the changes finds the file as an importer, and from Closed, which says  *)
(* that reparsing damages nobody else.                                     *)
(***************************************************************************)
EXTENDS IncrementalIndexProofs

\* Files are not deleted, and a run that one root fails is given up.
Steady == ~Deletes /\ ~KeepGoing

\* A file on disk without a row: every run over its root begins with it.
Unseen(x) == row[x] = Absent /\ disk[x] # Absent
Around(f) == {f} \cup row[f].content.imports

\* Nothing that is registered, owed or planned is missing from the disk.
TreeKept ==
    \A f \in Files : (row[f] # Absent \/ f \in queue \/ f \in work.planned) => disk[f] # Absent

\* What a run has planned, and that it has a plan only at two places.
PlansSimple ==
    /\ work.deleted = {} /\ work.renamed = {} /\ ~work.failed
    /\ work.modified \subseteq work.index /\ work.index \subseteq work.planned
    /\ work.planned = {} => work.unresolved = {}
    /\ pc \notin {"cleanup", "reparse"} => work = NoWork
    /\ pc = "idle" => mem = NoPending
    /\ pc = "reparse" => work.modified = {}
    /\ pc = "reparse" /\ mem.bounded => work.planned = {} /\ work.captured = {}

Early == pc \in {"idle", "visit", "select", "cleanup"}

\* A file the run has replaced keeps its new row and waits to be resolved.
ProcessedKept ==
    /\ pc \notin {"phase2", "clear"} =>
          \A f \in mem.processed : row[f] # Absent /\ row[f].id \in mem.unresolved
    /\ \A f \in work.planned \ work.index : row[f] # Absent /\ row[f].id \in work.unresolved
    /\ work.planned \cap mem.processed = {}
    /\ Early => mem.changed \subseteq mem.processed \cup work.planned
    /\ pc = "cleanup" /\ work.read = Absent => work.planned \subseteq mem.changed
    /\ ~mem.ran \/ pc = "clear" => mem.unresolved = {}

\* It is not visited twice.
VisitedOnce ==
    /\ pc = "visit" \/ (pc = "cleanup" /\ work.read = Absent) =>
          \A f \in mem.processed \cup work.planned : RootOf[f] \notin todo
    /\ pc = "select" \/ (pc = "cleanup" /\ work.read # Absent) =>
          todo \cap (mem.processed \cup work.planned) = {}

\* An obligation that a capture made belongs to its source, which is the one the
\* edge was captured from unless the run replaces that file too.
FreshTrue ==
    Early => \A c \in Captures : c.fresh # Absent =>
        \/ c.fresh \in mem.processed \cup work.planned
        \/ row[c.fresh] # Absent /\ row[c.fresh].id = c.from

SourcesQueued ==
    \A c \in Captures, f \in Registered : row[f].id = c.from => f \in queue

\* The queue as the run has read it, and what of it is still in nobody's hands.
Left == mem.queued \ (mem.processed \cup Fresh(mem.captured))
QueueRead ==
    /\ mem.queued \subseteq queue
    /\ pc \in {"phase2", "clear"} => mem.completed \subseteq mem.processed \cup Fresh(mem.captured)
    /\ pc = "reparse" => mem.completed \subseteq Fresh(mem.captured)

\* Who imports a file that is about to be reparsed is replaced as well.
Closed ==
    /\ pc = "prepare" /\ ~mem.bounded =>
          \A f \in Registered, g \in Left :
              g \in row[f].content.imports => f \in mem.processed \cup Left
    /\ pc = "reparse" =>
          \A f \in Registered, g \in work.planned :
              g \in row[f].content.imports => f \in mem.processed \cup work.planned

\* Damage is durable: it needs neither a change on disk, which an editor may
\* take back, nor the memory of the run.
DamageIsQueued ==
    \A f \in Registered : Damaged(f) => \E x \in Around(f) : x \in queue \/ Unseen(x)

\* Damaged, or to be so by the rebinding of what is captured.
Troubled(f) ==
    \/ Damaged(f)
    \/ \E c \in Captures : c.from = row[f].id /\ c.name \in Evidenced(f)

\* Until the queue is read, trouble is found by reading it.  What a capture
\* queued does not count, as rebinding ends its obligation.
TroubleIsFound ==
    Early => \A f \in Registered : Troubled(f) => \E x \in Around(f) :
        \/ x \in queue \ Fresh(Captures) \/ x \in mem.changed \cup work.planned \/ Unseen(x)

\* From then on it is in the hands of the run, or stays queued.
TroubleIsHandled ==
    ~Early => \A f \in Registered : Troubled(f) =>
        \/ \E x \in row[f].content.imports \ work.planned : Unseen(x)
        \/ row[f].id \in Unpublished
        \/ f \in Left /\ (pc = "prepare" \/ mem.bounded)

RunInv == TreeKept /\ PlansSimple /\ ProcessedKept /\ VisitedOnce /\ FreshTrue
          /\ SourcesQueued /\ QueueRead /\ Closed
DamageInv == RunInv /\ DamageIsQueued /\ TroubleIsFound /\ TroubleIsHandled

-----------------------------------------------------------------------------
(* What a file's references depend on.                                     *)

(* The targets of a name that imports decide.                              *)
LEMMA ImportsDecide ==
  ASSUME NEW rows, NEW f, NEW n, rows[f].content.imports \subseteq Files,
         NEW h \in rows[f].content.imports \ {f},
         rows[h] # Absent, n \in rows[h].content.declares
  PROVE  LET imported == {g \in rows[f].content.imports \ {f} :
                             rows[g] # Absent /\ n \in rows[g].content.declares}
         IN Target(rows, f, n) = IF Cardinality(imported) = 1 THEN imported ELSE {}
  <1> DEFINE imported == {g \in rows[f].content.imports \ {f} :
                             rows[g] # Absent /\ n \in rows[g].content.declares}
             declarers == {g \in Files \ {f} : rows[g] # Absent /\ n \in rows[g].content.declares}
  <1>1. declarers \cap rows[f].content.imports = imported
    OBVIOUS
  <1>2. imported # {}
    OBVIOUS
  <1> QED
    BY <1>1, <1>2 DEF Target

(* The derived edges of a name are the ones to its targets.                *)
LEMMA EdgesOfName ==
  ASSUME NEW rows, NEW f, NEW n \in rows[f].content.uses
  PROVE  {e \in Outgoing(rows, f) : e.name = n}
            = {[from |-> rows[f].id, name |-> n, to |-> rows[g].id] : g \in Target(rows, f, n)}
  <1> DEFINE To(m) == {[from |-> rows[f].id, name |-> m, to |-> rows[g].id] : g \in Target(rows, f, m)}
  <1>1. Outgoing(rows, f) = UNION {To(m) : m \in rows[f].content.uses}
    BY DEF Outgoing
  <1>2. \A m : \A e \in To(m) : e.name = m
    OBVIOUS
  <1> HIDE DEF To
  <1>3. {e \in Outgoing(rows, f) : e.name = n} = To(n)
    BY <1>1, <1>2
  <1> QED
    BY <1>3 DEF To

(* An evidenced reference is derived to a file that is imported.           *)
LEMMA DerivedImported ==
  ASSUME row \in [Files -> [content : Contents, id : Nat] \cup {Absent}],
         NEW f \in Registered, NEW n \in Evidenced(f), NEW e \in Derived(f, n)
  PROVE  \E g \in row[f].content.imports \cap Registered : e.to = row[g].id
  <1>1. row[f].content.imports \subseteq Files /\ n \in row[f].content.uses
    BY RowTyped, ContentsAssumption DEF Evidenced
  <1>2. PICK h \in row[f].content.imports \ {f} : row[h] # Absent /\ n \in row[h].content.declares
    BY DEF Evidenced
  <1>3. \A g \in Target(row, f, n) : g \in row[f].content.imports /\ row[g] # Absent
    <2> DEFINE imported == {g \in row[f].content.imports \ {f} :
                               row[g] # Absent /\ n \in row[g].content.declares}
    <2>1. Target(row, f, n) = IF Cardinality(imported) = 1 THEN imported ELSE {}
      BY <1>1, <1>2, ImportsDecide
    <2> QED
      BY <2>1
  <1>4. \E g \in Target(row, f, n) : e = [from |-> row[f].id, name |-> n, to |-> row[g].id]
    BY <1>1, EdgesOfName DEF Derived
  <1> QED
    BY <1>1, <1>3, <1>4 DEF Registered

(* What a file's imports decide depends on no other row.                   *)
LEMMA DerivedLocal ==
  ASSUME row \in [Files -> [content : Contents, id : Nat] \cup {Absent}],
         NEW f \in Registered, \A x \in Around(f) : row'[x] = row[x]
  PROVE  Evidenced(f)' = Evidenced(f) /\ \A n \in Evidenced(f) : Derived(f, n)' = Derived(f, n)
  <1>1. row'[f] = row[f] /\ \A x \in row[f].content.imports : row'[x] = row[x]
    BY DEF Around
  <1>2. Evidenced(f)' = Evidenced(f)
    BY <1>1 DEF Evidenced
  <1>3. ASSUME NEW n \in Evidenced(f) PROVE Derived(f, n)' = Derived(f, n)
    <2>1. row[f].content.imports \subseteq Files /\ n \in row[f].content.uses
      BY RowTyped, ContentsAssumption DEF Evidenced
    <2>2. PICK h \in row[f].content.imports \ {f} : row[h] # Absent /\ n \in row[h].content.declares
      BY DEF Evidenced
    <2>3. Target(row', f, n) = Target(row, f, n) /\ Target(row, f, n) \subseteq row[f].content.imports
      <3> DEFINE imported(rows) == {g \in rows[f].content.imports \ {f} :
                                       rows[g] # Absent /\ n \in rows[g].content.declares}
      <3>1. imported(row') = imported(row)
        BY <1>1
      <3>2. Target(row, f, n) = IF Cardinality(imported(row)) = 1 THEN imported(row) ELSE {}
        BY <2>1, <2>2, ImportsDecide
      <3>3. Target(row', f, n) = IF Cardinality(imported(row')) = 1 THEN imported(row') ELSE {}
        BY <1>1, <2>1, <2>2, ImportsDecide
      <3> QED
        BY <3>1, <3>2, <3>3
    <2>4. Derived(f, n) = {[from |-> row[f].id, name |-> n, to |-> row[g].id] : g \in Target(row, f, n)}
      BY <2>1, EdgesOfName DEF Derived
    <2>5. Derived(f, n)' = {[from |-> row'[f].id, name |-> n, to |-> row'[g].id] : g \in Target(row', f, n)}
      BY <1>1, <2>1, EdgesOfName DEF Derived
    <2> QED
      BY <1>1, <2>3, <2>4, <2>5
  <1> QED
    BY <1>2, <1>3

(* Damage and trouble move only when rows or edges do.                     *)
LEMMA SameIndexSameDamage ==
  ASSUME UNCHANGED <<row, edges>>
  PROVE  /\ Registered' = Registered
         /\ \A f : Evidenced(f)' = Evidenced(f) /\ Damaged(f)' = Damaged(f) /\ Around(f)' = Around(f)
  BY DEF Registered, Evidenced, Damaged, Bound, Derived, Around

-----------------------------------------------------------------------------
(* Removing rows.                                                          *)

(* An edge of an evidenced reference to a file that is not imported is      *)
(* damage already.                                                         *)
LEMMA StrayEdgeIsDamage ==
  ASSUME IInv, NEW S \in SUBSET Files, NEW f \in Registered, row[f].content.imports \cap S = {},
         NEW e \in edges, e.from = row[f].id, e.name \in Evidenced(f), e.to \in Ids(S)
  PROVE  Damaged(f)
  <1>1. PICK g \in S \cap Registered : e.to = row[g].id
    BY DEF Ids
  <1>2. e \notin Derived(f, e.name)
    <2> SUFFICES ASSUME e \in Derived(f, e.name) PROVE FALSE
      OBVIOUS
    <2>1. PICK h \in row[f].content.imports \cap Registered : e.to = row[h].id
      BY DerivedImported DEF IInv, TypeOK
    <2> QED
      BY <1>1, <2>1 DEF IInv, Graph, IdsDistinct
  <1>3. e \in Bound(f, e.name)
    BY DEF Bound
  <1> QED
    BY <1>2, <1>3 DEF Damaged

(* So a removal troubles nobody but the importers of what is removed.      *)
LEMMA RemovalTroubles ==
  ASSUME IInv, NEW S \in SUBSET Files,
         row' = WithoutRows(S), edges' = WithoutEdges(S), counter' = counter,
         Captures' \subseteq Captures \cup CapturedInto(S, S),
         NEW f \in Registered', row[f].content.imports \cap S = {}
  PROVE  /\ f \in Registered \ S /\ row'[f] = row[f] /\ Around(f)' = Around(f)
         /\ Damaged(f)' => Damaged(f)
         /\ Troubled(f)' => Troubled(f)
  <1>1. f \in Registered \ S /\ row'[f] = row[f]
    BY RemovalKeepsGraph DEF IInv
  <1>2. row \in [Files -> [content : Contents, id : Nat] \cup {Absent}]
        /\ row[f].content.imports \subseteq Files
    BY <1>1, RowTyped, ContentsAssumption DEF IInv, TypeOK
  <1>3. \A x \in Around(f) : row'[x] = row[x]
    BY <1>1, <1>2 DEF Around, WithoutRows
  <1>4. Evidenced(f)' = Evidenced(f) /\ \A n \in Evidenced(f) : Derived(f, n)' = Derived(f, n)
    BY <1>1, <1>2, <1>3, DerivedLocal
  <1>5. ASSUME NEW e \in edges, e.from = row[f].id, e.name \in Evidenced(f), e \notin edges'
        PROVE  Damaged(f)
    <2>1. e.from \notin Ids(S)
      BY <1>1, <1>5 DEF Ids, IInv, Graph, IdsDistinct
    <2>2. e.to \in Ids(S)
      BY <1>5, <2>1 DEF WithoutEdges
    <2> QED
      BY <1>1, <1>5, <2>2, StrayEdgeIsDamage
  <1>6. edges' \subseteq edges
    BY DEF WithoutEdges
  <1>7. ASSUME Damaged(f)' PROVE Damaged(f)
    <2>1. PICK n \in Evidenced(f) : Bound(f, n)' # Derived(f, n)
      BY <1>4, <1>7 DEF Damaged
    <2>2. CASE Bound(f, n)' = Bound(f, n)
      BY <2>1, <2>2 DEF Damaged
    <2>3. CASE Bound(f, n)' # Bound(f, n)
      <3>1. \E e \in edges : e.from = row[f].id /\ e.name = n /\ e \notin edges'
        BY <1>1, <1>6, <2>3 DEF Bound
      <3> QED
        BY <1>5, <2>1, <3>1
    <2> QED
      BY <2>2, <2>3
  <1>8. ASSUME NEW c \in Captures', c.from = row[f].id, c.name \in Evidenced(f)
        PROVE  Troubled(f)
    <2>1. CASE c \in Captures
      BY <1>8, <2>1 DEF Troubled
    <2>2. CASE c \in CapturedInto(S, S)
      <3>1. \E e \in edges : e.to \in Ids(S) /\ e.from = c.from /\ e.name = c.name
        BY <2>2, CaptureOfEdge DEF SameReference
      <3> QED
        BY <1>1, <1>8, <3>1, StrayEdgeIsDamage DEF Troubled
    <2> QED
      BY <2>1, <2>2
  <1>9. Troubled(f)' => Troubled(f)
    BY <1>1, <1>4, <1>7, <1>8 DEF Troubled
  <1> QED
    BY <1>1, <1>7, <1>9 DEF Around

(* Whose edge is captured is registered, and its id is the captured one.   *)
LEMMA CapturedSource ==
  ASSUME TypeOK, Graph, NEW S \in SUBSET Files, NEW c \in CapturedInto(S, S)
  PROVE  /\ Owner(c.from) \in Registered \ S /\ row[Owner(c.from)].id = c.from
         /\ c.fresh = IF Owner(c.from) \in queue THEN Absent ELSE Owner(c.from)
  <1>1. PICK e \in edges :
           /\ e.to \in Ids(S) /\ e.from \notin Ids(S) /\ c.from = e.from
           /\ c.fresh = IF Owner(e.from) \in queue THEN Absent ELSE Owner(e.from)
    BY DEF CapturedInto
  <1>2. e.from \in LiveIds
    BY <1>1 DEF Graph, EdgesJoinLiveSymbols, LiveIds, Ids, Registered
  <1> QED
    BY <1>1, <1>2, OwnerRegistered DEF Ids

(* The obligations of a removal: of the sources of what is captured, and   *)
(* of the files that are now unseen.                                       *)
LEMMA RemovalIsQueued ==
  ASSUME IInv, DamageInv, NEW S \in SUBSET Files, \A x \in S : disk[x] # Absent,
         row' = WithoutRows(S), edges' = WithoutEdges(S), UNCHANGED <<disk, counter>>,
         queue' = queue \cup Sources(CapturedInto(S, S)),
         Captures' \subseteq Captures \cup CapturedInto(S, S)
  PROVE  /\ Registered' = Registered \ S /\ \A f \in Registered' : row'[f] = row[f]
         /\ \A x \in S : Unseen(x)'
         /\ \A x \in Files : Unseen(x) => Unseen(x)'
         /\ Sources(CapturedInto(S, S)) \subseteq Registered
         /\ DamageIsQueued' /\ SourcesQueued'
  <1>1. Registered' = Registered \ S /\ \A f \in Registered' : row'[f] = row[f]
    BY RemovalKeepsGraph DEF IInv
  <1>2. \A x \in S : Unseen(x)'
    BY DEF Unseen, WithoutRows
  <1>3. \A x \in Files : Unseen(x) => Unseen(x)'
    BY DEF Unseen, WithoutRows
  <1>4. \A c \in CapturedInto(S, S) : Owner(c.from) \in Registered \ S /\ row[Owner(c.from)].id = c.from
    BY CapturedSource DEF IInv
  <1>5. Sources(CapturedInto(S, S)) \subseteq Registered
    BY <1>4 DEF Sources
  <1>6. SourcesQueued'
    <2> SUFFICES ASSUME NEW c \in Captures', NEW f \in Registered', row'[f].id = c.from
                 PROVE  f \in queue'
      BY DEF SourcesQueued
    <2>1. f \in Registered /\ row[f].id = c.from
      BY <1>1
    <2>2. CASE c \in Captures
      BY <2>1, <2>2 DEF DamageInv, RunInv, SourcesQueued
    <2>3. CASE c \in CapturedInto(S, S)
      <3>1. Owner(c.from) = f
        BY <1>4, <2>1, <2>3 DEF IInv, Graph, IdsDistinct
      <3> QED
        BY <2>3, <3>1 DEF Sources
    <2> QED
      BY <2>2, <2>3
  <1>7. DamageIsQueued'
    <2> SUFFICES ASSUME NEW f \in Registered', Damaged(f)'
                 PROVE  \E x \in Around(f)' : x \in queue' \/ Unseen(x)'
      BY DEF DamageIsQueued
    <2>1. f \in Registered /\ row'[f] = row[f] /\ Around(f)' = Around(f) /\ Around(f) \subseteq Files
      BY <1>1, RowTyped, ContentsAssumption DEF Around, IInv, TypeOK
    <2>2. CASE row[f].content.imports \cap S = {}
      <3>1. Damaged(f)
        BY <2>2, RemovalTroubles
      <3>2. PICK x \in Around(f) : x \in queue \/ Unseen(x)
        BY <2>1, <3>1 DEF DamageInv, DamageIsQueued
      <3> QED
        BY <1>3, <2>1, <3>2
    <2>3. CASE row[f].content.imports \cap S # {}
      BY <1>2, <2>1, <2>3 DEF Around
    <2> QED
      BY <2>2, <2>3
  <1> QED
    BY <1>1, <1>2, <1>3, <1>5, <1>6, <1>7

-----------------------------------------------------------------------------
(* The invariant holds at first.                                           *)

(* An idle run plans nothing and holds nothing.                            *)
LEMMA NothingHeld ==
  ASSUME work = NoWork, mem = NoPending
  PROVE  /\ Captures = {} /\ Unpublished = {} /\ Left = {} /\ Fresh(Captures) = {}
         /\ work.deleted = {} /\ work.renamed = {} /\ work.modified = {} /\ work.index = {}
         /\ work.planned = {} /\ work.read = Absent /\ ~work.failed
         /\ mem.processed = {} /\ mem.changed = {} /\ mem.queued = {} /\ ~mem.ran
  BY DEF NoWork, NoPending, Captures, Unpublished, Left, Fresh

(* A run that has captured nothing finds what is owed.                     *)
LEMMA OwedIsFound ==
  ASSUME DamageIsQueued, Captures = {}
  PROVE  TroubleIsFound
  BY DEF DamageIsQueued, TroubleIsFound, Troubled, Fresh

(* The first index has what is derived, and no run.                        *)
LEMMA InitDamage == Init => DamageInv
  <1> SUFFICES ASSUME Init PROVE DamageInv
    OBVIOUS
  <1>1. IInv /\ work = NoWork /\ mem = NoPending /\ pc = "idle" /\ queue = {}
    BY InitIInv DEF Init
  <1>2. TreeKept
    BY <1>1, NothingHeld DEF TreeKept, Init
  <1>3. RunInv
    BY <1>1, <1>2, NothingHeld DEF RunInv, PlansSimple, ProcessedKept, VisitedOnce, FreshTrue,
       SourcesQueued, QueueRead, Closed, Unpublished, Early
  <1>4. ASSUME NEW f \in Registered PROVE ~Damaged(f)
    <2> SUFFICES ASSUME NEW n PROVE Bound(f, n) = Derived(f, n)
      BY DEF Damaged
    <2>1. \A g \in Registered : \A e \in Outgoing(row, g) : e.from = row[g].id
      BY <1>1, OutgoingJoins DEF IInv, TypeOK
    <2>2. \A e \in edges : e.from = row[f].id => e \in Outgoing(row, f)
      BY <1>1, <2>1 DEF Init, IInv, Graph, IdsDistinct
    <2>3. \A e \in Outgoing(row, f) : e \in edges /\ e.from = row[f].id
      BY <2>1 DEF Init
    <2> QED
      BY <2>2, <2>3 DEF Bound, Derived
  <1>5. DamageIsQueued /\ TroubleIsFound
    BY <1>1, <1>4, NothingHeld, OwedIsFound DEF DamageIsQueued
  <1> QED
    BY <1>1, <1>3, <1>5 DEF DamageInv, TroubleIsHandled, Early

-----------------------------------------------------------------------------
(* One lemma per action.                                                   *)

(* Editors only add what a run will see.                                   *)
LEMMA EditKeepsDamage ==
  ASSUME IInv, DamageInv, ~Deletes, NEW f \in Files, Edit(f)
  PROVE  DamageInv'
  <1>1. UNCHANGED <<row, edges, queue, counter, pc, todo, work, mem>>
    BY DEF Edit, committed
  <1>2. \A x \in Files : disk[x] # Absent => disk'[x] # Absent
    <2>1. PICK c \in Writable[f] : disk' = [disk EXCEPT ![f] = c]
      BY DEF Edit
    <2>2. c # Absent
      BY <2>1, DiskAssumption, AbsentAssumption
    <2> QED
      BY <2>1, <2>2 DEF IInv, TypeOK
  <1>3. /\ Registered' = Registered
        /\ \A x : Damaged(x)' = Damaged(x) /\ Evidenced(x)' = Evidenced(x) /\ Around(x)' = Around(x)
    BY <1>1, SameIndexSameDamage
  <1>4. \A x \in Registered : Around(x) \subseteq Files
    BY RowTyped, ContentsAssumption DEF Around, IInv, TypeOK
  <1>5. \A x \in Files : Unseen(x) => Unseen(x)'
    BY <1>1, <1>2 DEF Unseen
  <1>6. /\ Captures' = Captures /\ Unpublished' = Unpublished /\ Left' = Left /\ Early' = Early
        /\ Fresh(Captures)' = Fresh(Captures)
    BY <1>1 DEF Captures, Unpublished, Left, Early, Fresh
  <1>7. TreeKept'
    BY <1>1, <1>2 DEF DamageInv, RunInv, TreeKept
  <1>8. RunInv'
    BY <1>1, <1>3, <1>6, <1>7 DEF DamageInv, RunInv, PlansSimple, ProcessedKept, VisitedOnce, FreshTrue,
       SourcesQueued, QueueRead, Closed, Fresh
  <1>9. \A x : Troubled(x)' = Troubled(x)
    BY <1>1, <1>3, <1>6 DEF Troubled
  <1>10. DamageIsQueued'
    BY <1>1, <1>3, <1>4, <1>5 DEF DamageInv, DamageIsQueued
  <1>11. TroubleIsFound'
    BY <1>1, <1>3, <1>4, <1>5, <1>6, <1>9 DEF DamageInv, TroubleIsFound
  <1>12. TroubleIsHandled'
    BY <1>1, <1>3, <1>4, <1>5, <1>6, <1>9 DEF DamageInv, TroubleIsHandled, Around
  <1> QED
    BY <1>8, <1>10, <1>11, <1>12 DEF DamageInv

(* A run starts from nothing, and one that fails or has nothing to resolve *)
(* leaves nothing but what is durable.                                     *)
LEMMA EmptyRunKeepsDamage ==
  ASSUME IInv, DamageInv, StartRoots \/ (\E S \in SUBSET Files, bounded \in BOOLEAN : StartSelected(S, bounded))
                          \/ NothingToResolve \/ RunFails
  PROVE  DamageInv'
  <1> DEFINE Empty(m) == /\ m.captured = {} /\ m.unresolved = {} /\ m.changed = {} /\ m.processed = {}
                         /\ m.queued = {} /\ m.completed = {} /\ ~m.ran
  <1>1. \A b \in BOOLEAN : Empty([NoPending EXCEPT !.bounded = b])
    BY DEF NoPending
  <1>2. Empty(NoPending)
    BY DEF NoPending
  <1>3. UNCHANGED <<disk, row, edges, queue, counter>>
    BY DEF StartRoots, StartSelected, NothingToResolve, RunFails, committed
  <1>4. /\ pc' \in {"idle", "visit", "select"} /\ Empty(mem')
        /\ pc' = "idle" => mem' = NoPending
    BY <1>1, <1>2 DEF StartRoots, StartSelected, NothingToResolve, RunFails, DamageInv, RunInv, PlansSimple
  <1>5. work' = NoWork
    BY DEF StartRoots, StartSelected, NothingToResolve, RunFails, DamageInv, RunInv, PlansSimple
  <1> HIDE DEF Empty
  <1>6. /\ Registered' = Registered
        /\ \A x : Damaged(x)' = Damaged(x) /\ Evidenced(x)' = Evidenced(x) /\ Around(x)' = Around(x)
    BY <1>3, SameIndexSameDamage
  <1>7. /\ work'.deleted = {} /\ work'.renamed = {} /\ work'.modified = {} /\ work'.index = {}
        /\ work'.planned = {} /\ ~work'.failed /\ work'.unresolved = {} /\ work'.captured = {}
        /\ work'.read = Absent
    BY <1>5 DEF NoWork
  <1>8. Captures' = {}
    BY <1>4, <1>7 DEF Captures, Empty
  <1>9. TreeKept'
    BY <1>3, <1>7 DEF DamageInv, RunInv, TreeKept
  <1>10. PlansSimple' /\ ProcessedKept' /\ VisitedOnce'
    BY <1>4, <1>5, <1>7 DEF PlansSimple, ProcessedKept, VisitedOnce, Empty, Early
  <1>11. FreshTrue' /\ SourcesQueued' /\ QueueRead' /\ Closed'
    BY <1>4, <1>8 DEF FreshTrue, SourcesQueued, QueueRead, Closed, Empty
  <1>12. DamageIsQueued'
    BY <1>3, <1>6 DEF DamageInv, DamageIsQueued, Unseen
  <1>13. TroubleIsFound'
    <2>1. \A f \in Registered' : Troubled(f)' => Damaged(f)'
      BY <1>8 DEF Troubled
    <2>2. Fresh(Captures)' = {}
      BY <1>8 DEF Fresh
    <2> QED
      BY <1>12, <2>1, <2>2 DEF DamageIsQueued, TroubleIsFound
  <1>14. TroubleIsHandled'
    BY <1>4 DEF TroubleIsHandled, Early
  <1> QED
    BY <1>9, <1>10, <1>11, <1>12, <1>13, <1>14 DEF DamageInv, RunInv

(* A plan is for files on disk that the run has not been at.               *)
LEMMA PlanKeepsDamage ==
  ASSUME IInv, DamageInv, pc \in {"visit", "select"}, pc' = "cleanup",
         UNCHANGED <<disk, row, edges, queue, counter>>,
         NEW P \in SUBSET Files, \A x \in P : disk[x] # Absent, P \cap mem.processed = {},
         work'.deleted = {}, work'.renamed = {}, work'.modified = P \cap Registered,
         work'.index = P, work'.planned = P, work'.unresolved = {}, work'.captured = {}, ~work'.failed,
         mem'.unresolved = mem.unresolved, mem'.captured = mem.captured,
         mem'.processed = mem.processed, mem'.queued = mem.queued, mem'.ran = mem.ran,
         mem.changed \subseteq mem'.changed, mem'.changed \subseteq mem.changed \cup P,
         work'.read = Absent => P \subseteq mem'.changed,
         VisitedOnce'
  PROVE  DamageInv'
  <1>0. work.planned = {} /\ work.unresolved = {} /\ work.captured = {}
    BY DEF DamageInv, RunInv, PlansSimple, NoWork
  <1>1. /\ Registered' = Registered
        /\ \A x : Damaged(x)' = Damaged(x) /\ Evidenced(x)' = Evidenced(x) /\ Around(x)' = Around(x)
    BY SameIndexSameDamage
  <1>2. /\ Captures' = Captures /\ Unpublished' = Unpublished /\ Early /\ Early'
        /\ Fresh(Captures)' = Fresh(Captures)
    BY <1>0 DEF Captures, Unpublished, Early, Fresh
  <1>3. TreeKept'
    BY <1>0 DEF DamageInv, RunInv, TreeKept
  <1>4. PlansSimple'
    BY DEF PlansSimple
  <1>5. ProcessedKept'
    BY <1>0, <1>2 DEF DamageInv, RunInv, ProcessedKept
  <1>6. FreshTrue'
    BY <1>0, <1>2 DEF DamageInv, RunInv, FreshTrue
  <1>7. SourcesQueued' /\ QueueRead' /\ Closed'
    BY <1>1, <1>2 DEF DamageInv, RunInv, SourcesQueued, QueueRead, Closed
  <1>8. DamageIsQueued'
    BY <1>1 DEF DamageInv, DamageIsQueued, Unseen
  <1>9. TroubleIsFound'
    <2> SUFFICES ASSUME NEW f \in Registered, Troubled(f)'
                 PROVE  \E x \in Around(f) : \/ x \in queue \ Fresh(Captures)
                                             \/ x \in mem'.changed \cup work'.planned \/ Unseen(x)'
      BY <1>1, <1>2 DEF TroubleIsFound
    <2>1. Troubled(f)
      BY <1>1, <1>2 DEF Troubled
    <2>2. \E x \in Around(f) : \/ x \in queue \ Fresh(Captures)
                               \/ x \in mem.changed \cup work.planned \/ Unseen(x)
      BY <1>2, <2>1 DEF DamageInv, TroubleIsFound
    <2> QED
      BY <1>0, <2>2 DEF Unseen
  <1>10. TroubleIsHandled'
    BY <1>2 DEF TroubleIsHandled
  <1> QED
    BY <1>3, <1>4, <1>5, <1>6, <1>7, <1>8, <1>9, <1>10 DEF DamageInv, RunInv

(* Discovery plans files that are on disk and that the run has not been at. *)
LEMMA DiscoverKeepsDamage ==
  ASSUME IInv, DamageInv, NEW r \in Roots, Discover(r)
  PROVE  DamageInv'
  <1> DEFINE seen == {f \in Files : RootOf[f] = r /\ disk[f] # Absent}
             P == {f \in seen : row[f] = Absent \/ row[f].content # disk[f]}
  <1>0. mem \in PendingType /\ work = NoWork /\ pc = "visit"
    BY DEF IInv, TypeOK, DamageInv, RunInv, PlansSimple, Discover
  <1>1. UNCHANGED <<disk, row, edges, queue, counter>> /\ r \in todo /\ todo' = todo \ {r}
    BY DEF Discover, committed
  <1>2. \A f \in Registered : disk[f] # Absent
    BY DEF DamageInv, RunInv, TreeKept, Registered
  <1>3. /\ Discovered(r).changed = P
        /\ LET plan == Discovered(r).work
           IN /\ plan.deleted = {} /\ plan.renamed = {} /\ plan.modified = P \cap Registered
              /\ plan.index = P /\ plan.planned = P /\ plan.read = Absent
              /\ plan.unresolved = {} /\ plan.captured = {} /\ ~plan.failed
    <2> DEFINE mine == {f \in Files : RootOf[f] = r}
               present == {f \in mine : disk[f] # Absent}
               indexed == mine \cap Registered
               deleted == indexed \ present
               new == present \ indexed
               modified == {f \in present \cap indexed : row[f].content # disk[f]}
               renamed == PairRelocations(deleted, new)
               old == {p[1] : p \in renamed}
               inRun == new \cup modified \cup deleted
               callers == InboundCallerFiles(deleted, inRun)
    <2>1. deleted = {}
      BY <1>2
    <2>2. new \cup modified = P /\ modified = P \cap Registered
      BY DEF Registered
    <2>3. renamed = {}
      BY <2>1 DEF PairRelocations
    <2>4. callers = {}
      BY <2>1 DEF InboundCallerFiles, Ids
    <2>5. old = {}
      BY <2>3
    <2>6. Discovered(r) =
             [changed |-> inRun,
              work |-> [NoWork EXCEPT !.deleted = deleted \ old, !.renamed = renamed,
                                      !.modified = modified \cup callers,
                                      !.index = new \cup modified \cup callers,
                                      !.planned = new \cup modified \cup callers]]
      BY DEF Discovered
    <2> HIDE DEF deleted, new, modified, renamed, old, callers
    <2>7. inRun = P /\ deleted \ old = {} /\ modified \cup callers = P \cap Registered
          /\ new \cup modified \cup callers = P
      BY <2>1, <2>2, <2>4, <2>5
    <2>8. Discovered(r).changed = P
      BY <2>6, <2>7
    <2> HIDE DEF P
    <2>9. Discovered(r).work = [NoWork EXCEPT !.deleted = deleted \ old, !.renamed = renamed,
                                              !.modified = modified \cup callers,
                                              !.index = new \cup modified \cup callers,
                                              !.planned = new \cup modified \cup callers]
      BY <2>6
    <2>10. Discovered(r).work = [NoWork EXCEPT !.deleted = {}, !.renamed = {},
                                               !.modified = P \cap Registered,
                                               !.index = P, !.planned = P]
      BY <2>3, <2>7, <2>9
    <2> QED
      BY <2>8, <2>10 DEF NoWork
  <1> HIDE DEF P
  <1>4. CASE P = {}
    <2>1. UNCHANGED <<pc, work, mem>>
      BY <1>3, <1>4 DEF Discover
    <2>2. /\ Registered' = Registered
          /\ \A x : Damaged(x)' = Damaged(x) /\ Evidenced(x)' = Evidenced(x) /\ Around(x)' = Around(x)
      BY <1>1, SameIndexSameDamage
    <2>3. VisitedOnce'
      BY <1>0, <1>1, <2>1 DEF DamageInv, RunInv, VisitedOnce
    <2>4. RunInv'
      BY <1>1, <2>1, <2>2, <2>3 DEF DamageInv, RunInv, TreeKept, PlansSimple, ProcessedKept, FreshTrue,
         SourcesQueued, QueueRead, Closed, Captures, Unpublished, Left, Early
    <2>5. (DamageIsQueued /\ TroubleIsFound /\ TroubleIsHandled)'
      BY <1>1, <2>1, <2>2 DEF DamageInv, DamageIsQueued, TroubleIsFound, TroubleIsHandled, Troubled,
         Captures, Unpublished, Left, Early, Unseen
    <2> QED
      BY <2>4, <2>5 DEF DamageInv
  <1>5. CASE P # {}
    <2>1. /\ pc' = "cleanup" /\ work' = Discovered(r).work
          /\ mem' = [mem EXCEPT !.changed = mem.changed \cup P]
      BY <1>3, <1>5 DEF Discover
    <2>2. P \subseteq seen
      BY DEF P
    <2>3. P \cap mem.processed = {}
      BY <1>0, <1>1, <2>2 DEF DamageInv, RunInv, VisitedOnce
    <2>4. /\ mem'.unresolved = mem.unresolved /\ mem'.captured = mem.captured
          /\ mem'.processed = mem.processed /\ mem'.queued = mem.queued /\ mem'.ran = mem.ran
          /\ mem'.changed = mem.changed \cup P
      BY <1>0, <2>1 DEF PendingType
    <2>5. VisitedOnce'
      BY <1>0, <1>1, <1>3, <2>1, <2>2, <2>4 DEF DamageInv, RunInv, VisitedOnce, NoWork
    <2> QED
      BY <1>0, <1>1, <1>3, <2>1, <2>2, <2>3, <2>4, <2>5, PlanKeepsDamage
  <1> QED
    BY <1>4, <1>5

(* A selected file is planned once.                                        *)
LEMMA SelectKeepsDamage ==
  ASSUME IInv, DamageInv, NEW f \in Files, Select(f)
  PROVE  DamageInv'
  <1>0. /\ pc = "select" /\ work = NoWork /\ f \in todo /\ todo' = todo \ {f} /\ disk[f] # Absent
        /\ UNCHANGED <<disk, row, edges, queue, counter, mem>>
    BY DEF DamageInv, RunInv, PlansSimple, Select, committed
  <1>1. /\ Registered' = Registered
        /\ \A x : Damaged(x)' = Damaged(x) /\ Evidenced(x)' = Evidenced(x) /\ Around(x)' = Around(x)
    BY <1>0, SameIndexSameDamage
  <1>2. CASE UNCHANGED <<pc, work>>
    <2>1. VisitedOnce'
      BY <1>0, <1>2 DEF DamageInv, RunInv, VisitedOnce
    <2>2. RunInv'
      BY <1>0, <1>1, <1>2, <2>1 DEF DamageInv, RunInv, TreeKept, PlansSimple, ProcessedKept, FreshTrue,
         SourcesQueued, QueueRead, Closed, Captures, Unpublished, Left, Early
    <2>3. (DamageIsQueued /\ TroubleIsFound /\ TroubleIsHandled)'
      BY <1>0, <1>1, <1>2 DEF DamageInv, DamageIsQueued, TroubleIsFound, TroubleIsHandled, Troubled,
         Captures, Unpublished, Left, Early, Unseen
    <2> QED
      BY <2>2, <2>3 DEF DamageInv
  <1>3. CASE /\ pc' = "cleanup"
             /\ work' = [NoWork EXCEPT !.modified = {f} \cap Registered, !.index = {f},
                                       !.planned = {f}, !.read = disk[f]]
    <2>1. /\ work'.deleted = {} /\ work'.renamed = {} /\ work'.modified = {f} \cap Registered
          /\ work'.index = {f} /\ work'.planned = {f} /\ work'.unresolved = {}
          /\ work'.captured = {} /\ ~work'.failed /\ work'.read # Absent
      BY <1>0, <1>3 DEF NoWork
    <2>2. {f} \cap mem.processed = {}
      BY <1>0 DEF DamageInv, RunInv, VisitedOnce
    <2>3. VisitedOnce'
      BY <1>0, <1>3, <2>1 DEF DamageInv, RunInv, VisitedOnce, NoWork
    <2> QED
      BY <1>0, <1>3, <2>1, <2>2, <2>3, PlanKeepsDamage
  <1> QED
    BY <1>2, <1>3 DEF Select

(* Cleanup: who imports what is removed imports something planned.         *)
LEMMA CleanupKeepsDamage ==
  ASSUME IInv, DamageInv, CleanupModified
  PROVE  DamageInv'
  <1> DEFINE S == work.modified
             cap == CapturedInto(S, S)
  <1>0. /\ work \in WorkType /\ mem \in PendingType /\ S \subseteq work.index
        /\ work.index \subseteq work.planned /\ work.planned \subseteq Files
    BY DEF IInv, TypeOK, WorkType, DamageInv, RunInv, PlansSimple
  <1>1. /\ row' = WithoutRows(S) /\ edges' = WithoutEdges(S) /\ queue' = queue \cup Sources(cap)
        /\ work' = [work EXCEPT !.modified = {}, !.captured = work.captured \cup cap]
        /\ pc = "cleanup" /\ UNCHANGED <<counter, disk, pc, todo, mem, budget>>
    BY DEF CleanupModified, CleanupForReindex
  <1> HIDE DEF cap
  <1>2. /\ work'.deleted = work.deleted /\ work'.renamed = work.renamed /\ work'.modified = {}
        /\ work'.index = work.index /\ work'.planned = work.planned /\ work'.read = work.read
        /\ work'.unresolved = work.unresolved /\ work'.failed = work.failed
        /\ work'.captured = work.captured \cup cap
    BY <1>0, <1>1 DEF WorkType
  <1> HIDE DEF S
  <1>3. Captures' = Captures \cup cap /\ Early /\ Early'
    BY <1>1, <1>2 DEF Captures, Early
  <1>4. S \in SUBSET Files /\ \A x \in S : disk[x] # Absent
    BY <1>0 DEF DamageInv, RunInv, TreeKept
  <1>5. /\ Registered' = Registered \ S /\ \A f \in Registered' : row'[f] = row[f]
        /\ \A x \in S : Unseen(x)'
        /\ \A x \in Files : Unseen(x) => Unseen(x)'
        /\ Sources(cap) \subseteq Registered
        /\ DamageIsQueued' /\ SourcesQueued'
    BY <1>1, <1>3, <1>4, RemovalIsQueued DEF cap
  <1>6. \A f \in Files \ S : row'[f] = row[f]
    BY <1>1 DEF WithoutRows
  <1>7. TreeKept'
    BY <1>1, <1>2, <1>5 DEF DamageInv, RunInv, TreeKept, Registered
  <1>8. PlansSimple'
    BY <1>0, <1>1, <1>2 DEF DamageInv, RunInv, PlansSimple
  <1>9. ProcessedKept'
    <2>1. work.planned \cap mem.processed = {} /\ mem.processed \subseteq Files
      BY <1>0 DEF DamageInv, RunInv, ProcessedKept, PendingType
    <2>2. \A f \in mem.processed \cup (work.planned \ work.index) : row'[f] = row[f]
      BY <1>0, <1>6, <2>1 DEF S
    <2> QED
      BY <1>1, <1>2, <1>3, <2>1, <2>2 DEF DamageInv, RunInv, ProcessedKept
  <1>10. VisitedOnce'
    BY <1>1, <1>2 DEF DamageInv, RunInv, VisitedOnce
  <1>11. FreshTrue'
    <2> SUFFICES ASSUME NEW c \in Captures', c.fresh # Absent
                 PROVE  \/ c.fresh \in mem.processed \cup work.planned
                        \/ row'[c.fresh] # Absent /\ row'[c.fresh].id = c.from
      BY <1>1, <1>2 DEF FreshTrue
    <2>1. CASE c \in Captures
      <3>1. \/ c.fresh \in mem.processed \cup work.planned
            \/ row[c.fresh] # Absent /\ row[c.fresh].id = c.from
        BY <1>3, <2>1 DEF DamageInv, RunInv, FreshTrue
      <3>2. c.fresh \in Files
        BY <1>0, <2>1 DEF Captures, WorkType, PendingType, CapturedType
      <3> QED
        BY <1>0, <1>6, <3>1, <3>2 DEF S
    <2>2. CASE c \in cap
      <3>1. /\ Owner(c.from) \in Registered \ S /\ row[Owner(c.from)].id = c.from
            /\ c.fresh = Owner(c.from)
        BY <1>4, <2>2, CapturedSource DEF cap, IInv
      <3> QED
        BY <1>6, <3>1 DEF Registered
    <2> QED
      BY <1>3, <2>1, <2>2
  <1>12. QueueRead' /\ Closed'
    BY <1>1 DEF DamageInv, RunInv, QueueRead, Closed
  <1>13. TroubleIsFound'
    <2> SUFFICES ASSUME NEW f \in Registered', Troubled(f)'
                 PROVE  \E x \in Around(f)' : \/ x \in queue' \ Fresh(Captures)'
                                              \/ x \in mem'.changed \cup work'.planned \/ Unseen(x)'
      BY DEF TroubleIsFound
    <2>1. f \in Registered /\ row'[f] = row[f] /\ Around(f)' = Around(f) /\ Around(f) \subseteq Files
      BY <1>5, RowTyped, ContentsAssumption DEF Around, IInv, TypeOK
    <2>2. CASE row[f].content.imports \cap S = {}
      <3>1. Troubled(f)
        BY <1>1, <1>3, <1>4, <2>2, RemovalTroubles DEF cap
      <3>2. PICK x \in Around(f) : \/ x \in queue \ Fresh(Captures)
                                   \/ x \in mem.changed \cup work.planned \/ Unseen(x)
        BY <1>3, <2>1, <3>1 DEF DamageInv, TroubleIsFound
      <3>3. \A c \in cap : c.fresh \notin queue
        BY <1>4, CapturedSource, FilesAssumption DEF cap, IInv, TypeOK
      <3>4. x \in queue \ Fresh(Captures) => x \in queue' \ Fresh(Captures)'
        BY <1>1, <1>3, <3>3 DEF Fresh
      <3> QED
        BY <1>1, <1>2, <1>5, <2>1, <3>2, <3>4
    <2>3. CASE row[f].content.imports \cap S # {}
      BY <1>5, <2>1, <2>3 DEF Around
    <2> QED
      BY <2>2, <2>3
  <1>14. TroubleIsHandled'
    BY <1>3 DEF TroubleIsHandled
  <1> QED
    BY <1>5, <1>7, <1>8, <1>9, <1>10, <1>11, <1>12, <1>13, <1>14 DEF DamageInv, RunInv

(* A new row is for a file that is planned, and its obligation covers its  *)
(* importers.                                                              *)
LEMMA IndexingKeepsDamage ==
  ASSUME IInv, DamageInv, NEW g \in Files, IndexFile(g)
  PROVE  DamageInv'
  <1>0. /\ work \in WorkType /\ mem \in PendingType /\ work.modified = {}
        /\ g \in work.index /\ g \in work.planned /\ disk[g] # Absent
        /\ work.index \cap Registered \subseteq work.modified
        /\ row \in [Files -> [content : Contents, id : Nat] \cup {Absent}]
        /\ work.planned \cap mem.processed = {} /\ work.planned \subseteq Files
    BY DEF IInv, TypeOK, RowsMade, WorkType, DamageInv, RunInv, PlansSimple, ProcessedKept, TreeKept,
           IndexFile, Indexing, CleanupDone
  <1>1. /\ \E content \in Contents : row' = [row EXCEPT ![g] = [content |-> content, id |-> counter + 1]]
        /\ queue' = queue \cup {g} /\ UNCHANGED <<disk, edges, pc, todo, mem, budget>>
        /\ work' = [work EXCEPT !.index = work.index \ {g},
                                !.unresolved = work.unresolved \cup {counter + 1}]
        /\ pc \in {"cleanup", "reparse"}
    BY DEF IndexFile, Indexing, IInv, TypeOK, WorkType
  <1>2. /\ work'.deleted = work.deleted /\ work'.renamed = work.renamed
        /\ work'.modified = work.modified /\ work'.index = work.index \ {g}
        /\ work'.planned = work.planned /\ work'.read = work.read
        /\ work'.unresolved = work.unresolved \cup {counter + 1}
        /\ work'.failed = work.failed /\ work'.captured = work.captured
    BY <1>0, <1>1 DEF WorkType
  <1>3. /\ g \notin Registered /\ Registered' = Registered \cup {g} /\ row'[g].id = counter + 1
        /\ row'[g] # Absent /\ \A f \in Files \ {g} : row'[f] = row[f]
    <2>1. PICK content \in Contents : row' = [row EXCEPT ![g] = [content |-> content, id |-> counter + 1]]
      BY <1>1
    <2>2. counter + 1 \in Nat
      BY DEF IInv, TypeOK
    <2>3. [content |-> content, id |-> counter + 1] # Absent
      BY <2>2, AbsentAssumption
    <2> QED
      BY <1>0, <2>1, <2>3 DEF Registered
  <1>4. /\ Captures' = Captures /\ Unpublished' = Unpublished \cup {counter + 1} /\ Early' = Early
        /\ Fresh(Captures)' = Fresh(Captures) /\ Left' = Left
    BY <1>1, <1>2 DEF Captures, Unpublished, Early, Fresh, Left
  <1>5. TreeKept'
    BY <1>0, <1>1, <1>2, <1>3 DEF DamageInv, RunInv, TreeKept
  <1>6. PlansSimple'
    BY <1>0, <1>1, <1>2 DEF DamageInv, RunInv, PlansSimple
  <1>7. ProcessedKept'
    <2>1. mem.processed \subseteq Files \ {g}
      BY <1>0 DEF PendingType
    <2>2. \A f \in mem.processed : row'[f] = row[f]
      BY <1>3, <2>1
    <2>3. \A f \in work'.planned \ work'.index : row'[f] # Absent /\ row'[f].id \in work'.unresolved
      BY <1>0, <1>2, <1>3 DEF DamageInv, RunInv, ProcessedKept
    <2> QED
      BY <1>1, <1>2, <1>4, <2>2, <2>3 DEF DamageInv, RunInv, ProcessedKept
  <1>8. VisitedOnce'
    BY <1>1, <1>2 DEF DamageInv, RunInv, VisitedOnce
  <1>9. FreshTrue'
    <2> SUFFICES ASSUME Early, NEW c \in Captures, c.fresh # Absent
                 PROVE  \/ c.fresh \in mem.processed \cup work.planned
                        \/ row'[c.fresh] # Absent /\ row'[c.fresh].id = c.from
      BY <1>1, <1>2, <1>4 DEF FreshTrue
    <2>1. c.fresh \in Files
      BY <1>0 DEF Captures, WorkType, PendingType, CapturedType
    <2> QED
      BY <1>0, <1>3, <2>1 DEF DamageInv, RunInv, FreshTrue
  <1>10. SourcesQueued'
    BY <1>1, <1>3, <1>4 DEF DamageInv, RunInv, SourcesQueued, Registered
  <1>11. QueueRead'
    BY <1>1, <1>4 DEF DamageInv, RunInv, QueueRead
  <1>12. Closed'
    BY <1>0, <1>1, <1>2, <1>3 DEF DamageInv, RunInv, Closed, Registered
  <1>13. ASSUME NEW f \in Registered, g \notin row[f].content.imports
         PROVE  /\ row'[f] = row[f] /\ Around(f)' = Around(f) /\ g \notin Around(f)
                /\ \A x \in Around(f) : Unseen(x) => Unseen(x)'
                /\ Damaged(f)' => Damaged(f)
                /\ Troubled(f)' => Troubled(f)
    <2>1. row'[f] = row[f] /\ g # f /\ row[f].content.imports \subseteq Files
      BY <1>0, <1>3, RowTyped, ContentsAssumption DEF Registered
    <2>2. \A x \in Around(f) : row'[x] = row[x]
      BY <1>3, <1>13, <2>1 DEF Around, Registered
    <2>3. Evidenced(f)' = Evidenced(f) /\ \A n \in Evidenced(f) : Derived(f, n)' = Derived(f, n)
      BY <1>0, <2>2, DerivedLocal
    <2>4. \A n : Bound(f, n)' = Bound(f, n)
      BY <1>1, <2>1 DEF Bound
    <2>5. Damaged(f)' => Damaged(f)
      BY <2>3, <2>4 DEF Damaged
    <2> QED
      BY <1>1, <1>4, <1>13, <2>1, <2>2, <2>3, <2>5 DEF Around, Unseen, Troubled
  <1>14. DamageIsQueued'
    <2> SUFFICES ASSUME NEW f \in Registered', Damaged(f)'
                 PROVE  \E x \in Around(f)' : x \in queue' \/ Unseen(x)'
      BY DEF DamageIsQueued
    <2>1. CASE f = g
      BY <1>1, <2>1 DEF Around
    <2>2. CASE f # g /\ g \in row[f].content.imports
      BY <1>1, <1>3, <2>2 DEF Around, Registered
    <2>3. CASE f # g /\ g \notin row[f].content.imports
      BY <1>1, <1>3, <1>13, <2>3 DEF DamageInv, DamageIsQueued
    <2> QED
      BY <2>1, <2>2, <2>3
  <1>15. TroubleIsFound'
    <2> SUFFICES ASSUME Early, NEW f \in Registered', Troubled(f)'
                 PROVE  \E x \in Around(f)' : \/ x \in queue' \ Fresh(Captures)
                                              \/ x \in mem.changed \cup work.planned \/ Unseen(x)'
      BY <1>1, <1>2, <1>4 DEF TroubleIsFound
    <2>1. CASE f = g
      BY <1>0, <2>1 DEF Around
    <2>2. CASE f # g /\ g \in row[f].content.imports
      BY <1>0, <1>3, <2>2 DEF Around, Registered
    <2>3. CASE f # g /\ g \notin row[f].content.imports
      BY <1>1, <1>3, <1>13, <2>3 DEF DamageInv, TroubleIsFound
    <2> QED
      BY <2>1, <2>2, <2>3
  <1>16. TroubleIsHandled'
    <2> SUFFICES ASSUME ~Early, NEW f \in Registered', Troubled(f)'
                 PROVE  \/ \E x \in row'[f].content.imports \ work.planned : Unseen(x)'
                        \/ row'[f].id \in Unpublished'
                        \/ f \in Left /\ (pc = "prepare" \/ mem.bounded)
      BY <1>1, <1>2, <1>4 DEF TroubleIsHandled
    <2>0. pc = "reparse"
      BY <1>1 DEF Early
    <2>1. CASE f = g
      BY <1>3, <1>4, <2>1
    <2>2. CASE f # g /\ g \in row[f].content.imports
      <3>1. f \in Registered /\ row'[f] = row[f]
        BY <1>3, <2>2 DEF Registered
      <3>2. f \in mem.processed \cup work.planned
        BY <1>0, <2>0, <2>2, <3>1 DEF DamageInv, RunInv, Closed
      <3>3. f \notin work.index
        BY <1>0, <3>1
      <3>4. row[f].id \in Unpublished
        BY <2>0, <3>2, <3>3 DEF DamageInv, RunInv, ProcessedKept, Unpublished
      <3> QED
        BY <1>4, <3>1, <3>4
    <2>3. CASE f # g /\ g \notin row[f].content.imports
      <3>1. f \in Registered /\ Troubled(f) /\ row'[f] = row[f]
            /\ \A x \in Around(f) : Unseen(x) => Unseen(x)'
        BY <1>3, <1>13, <2>3
      <3>2. \/ \E x \in row[f].content.imports \ work.planned : Unseen(x)
            \/ row[f].id \in Unpublished
            \/ f \in Left /\ (pc = "prepare" \/ mem.bounded)
        BY <3>1 DEF DamageInv, TroubleIsHandled
      <3> QED
        BY <1>4, <3>1, <3>2 DEF Around
    <2> QED
      BY <2>1, <2>2, <2>3
  <1> QED
    BY <1>5, <1>6, <1>7, <1>8, <1>9, <1>10, <1>11, <1>12, <1>14, <1>15, <1>16 DEF DamageInv, RunInv

(* A finished root hands over what it planned.                             *)
LEMMA FinishKeepsDamage ==
  ASSUME IInv, DamageInv, FinishRoot
  PROVE  DamageInv'
  <1>0. /\ work \in WorkType /\ mem \in PendingType /\ work.index = {} /\ pc = "cleanup"
        /\ UNCHANGED <<disk, row, edges, queue, counter, todo>>
        /\ pc' = IF work.read = Absent THEN "visit" ELSE "select"
    BY DEF IInv, TypeOK, FinishRoot, committed
  <1>1. /\ work'.deleted = {} /\ work'.renamed = {} /\ work'.modified = {} /\ work'.index = {}
        /\ work'.planned = {} /\ work'.unresolved = {} /\ work'.captured = {} /\ ~work'.failed
        /\ work' = NoWork
    BY DEF FinishRoot, NoWork
  <1>2. /\ mem'.unresolved = mem.unresolved \cup work.unresolved
        /\ mem'.captured = mem.captured \cup work.captured
        /\ mem'.processed = mem.processed \cup work.planned
        /\ mem'.queued = mem.queued /\ mem'.ran
        /\ mem'.changed = IF work.read = Absent THEN mem.changed ELSE mem.changed \cup work.planned
    <2>1. /\ Accumulated.unresolved = mem.unresolved \cup work.unresolved
          /\ Accumulated.captured = mem.captured \cup work.captured
          /\ Accumulated.processed = mem.processed \cup work.planned
          /\ Accumulated.queued = mem.queued /\ Accumulated.ran /\ Accumulated.changed = mem.changed
      BY <1>0 DEF Accumulated, PendingType
    <2>2. Accumulated \in PendingType
      BY AccumulatedTyped DEF IInv
    <2>3. mem' = IF work.read = Absent THEN Accumulated
                 ELSE [Accumulated EXCEPT !.changed = Accumulated.changed \cup work.planned]
      BY DEF FinishRoot
    <2> QED
      BY <2>1, <2>2, <2>3 DEF PendingType
  <1>3. /\ Registered' = Registered
        /\ \A x : Damaged(x)' = Damaged(x) /\ Evidenced(x)' = Evidenced(x) /\ Around(x)' = Around(x)
    BY <1>0, SameIndexSameDamage
  <1>4. /\ Captures' = Captures /\ Unpublished' = Unpublished /\ Early /\ Early'
        /\ Fresh(Captures)' = Fresh(Captures)
    BY <1>0, <1>1, <1>2 DEF Captures, Unpublished, Early, Fresh
  <1>5. mem'.processed \cup work'.planned = mem.processed \cup work.planned
    BY <1>1, <1>2
  <1>6. TreeKept' /\ PlansSimple'
    BY <1>0, <1>1 DEF DamageInv, RunInv, TreeKept, PlansSimple
  <1>7. ProcessedKept'
    BY <1>0, <1>1, <1>2, <1>4, <1>5 DEF DamageInv, RunInv, ProcessedKept
  <1>8. VisitedOnce'
    BY <1>0, <1>5 DEF DamageInv, RunInv, VisitedOnce
  <1>9. FreshTrue'
    BY <1>0, <1>4, <1>5 DEF DamageInv, RunInv, FreshTrue
  <1>10. SourcesQueued' /\ QueueRead' /\ Closed'
    BY <1>0, <1>2, <1>3, <1>4 DEF DamageInv, RunInv, SourcesQueued, QueueRead, Closed
  <1>11. DamageIsQueued'
    BY <1>0, <1>3 DEF DamageInv, DamageIsQueued, Unseen
  <1>12. TroubleIsFound'
    <2>1. mem'.changed \cup work'.planned = mem.changed \cup work.planned
      BY <1>0, <1>1, <1>2 DEF DamageInv, RunInv, ProcessedKept
    <2>2. \A f \in Registered : Troubled(f)' = Troubled(f)
      BY <1>0, <1>3, <1>4 DEF Troubled
    <2> QED
      BY <1>0, <1>3, <1>4, <2>1, <2>2 DEF DamageInv, TroubleIsFound, Unseen
  <1>13. TroubleIsHandled'
    BY <1>4 DEF TroubleIsHandled
  <1> QED
    BY <1>6, <1>7, <1>8, <1>9, <1>10, <1>11, <1>12, <1>13 DEF DamageInv, RunInv

(* What is reached holds what it is reached from, and its importers.       *)
LEMMA ReachedIsClosed ==
  ASSUME NEW S \in SUBSET Files
  PROVE  /\ S \subseteq Reached(S)
         /\ \A f \in Registered, g \in Reached(S) : g \in row[f].content.imports => f \in Reached(S)
  <1>1. ASSUME NEW f \in Registered, NEW g \in Reached(S), g \in row[f].content.imports
        PROVE  f \in Reached(S)
    <2> SUFFICES ASSUME NEW T \in SUBSET Files, S \cup Importers(T) \subseteq T
                 PROVE  f \in T
      BY DEF Reached, Registered
    <2>1. g \in T
      BY DEF Reached
    <2>2. f \in Importers(T)
      BY <1>1, <2>1 DEF Importers
    <2> QED
      BY <2>2
  <1> QED
    BY <1>1 DEF Reached

(* Reading the queue and the changes reaches every file with trouble.      *)
LEMMA InvalidateKeepsDamage ==
  ASSUME IInv, DamageInv, Invalidate
  PROVE  DamageInv'
  <1> DEFINE CH == mem.changed \cup (queue \ Fresh(mem.captured))
             D == ImportDependents(CH, mem.processed)
             kept == {c \in mem.captured : c.from \notin Ids(D)}
  <1>0. /\ work = NoWork /\ work.planned = {} /\ work.unresolved = {} /\ work.captured = {}
        /\ mem \in PendingType /\ Early /\ queue \subseteq Files
    BY DEF IInv, TypeOK, DamageInv, RunInv, PlansSimple, Invalidate, Early, NoWork
  <1>1. /\ queue' = queue \cup D /\ edges' = {e \in edges : e.from \notin Ids(D)}
        /\ mem' = [mem EXCEPT !.queued = queue \cup D, !.captured = kept]
        /\ pc' = "prepare" /\ UNCHANGED <<disk, row, counter, todo, work>>
    BY DEF Invalidate
  <1>2. D \subseteq Files /\ \A f \in D : f \notin CH \cup mem.processed /\ f \in Reached(CH) /\ disk[f] # Absent
    BY DEF ImportDependents
  <1>3. CH \in SUBSET Files
    BY <1>0 DEF PendingType
  <1>4. /\ CH \subseteq Reached(CH)
        /\ \A f \in Registered, g \in Reached(CH) : g \in row[f].content.imports => f \in Reached(CH)
    BY <1>3, ReachedIsClosed
  <1>5. \A f \in Registered : f \in Reached(CH) => f \in CH \cup mem.processed \cup D
    BY DEF ImportDependents, Registered, DamageInv, RunInv, TreeKept
  <1> HIDE DEF D, kept
  <1>6. /\ mem'.unresolved = mem.unresolved /\ mem'.captured = kept /\ mem'.processed = mem.processed
        /\ mem'.changed = mem.changed /\ mem'.queued = queue \cup D /\ mem'.ran = mem.ran
        /\ mem'.bounded = mem.bounded /\ mem'.completed = mem.completed
    BY <1>0, <1>1 DEF PendingType
  <1>7. /\ Captures = mem.captured /\ Captures' = kept /\ kept \subseteq Captures
        /\ Unpublished = mem.unresolved /\ Unpublished' = Unpublished /\ ~Early'
    BY <1>0, <1>1, <1>6 DEF Captures, Unpublished, Early, kept
  <1>8. Fresh(kept) \subseteq Fresh(mem.captured) /\ Left' = (queue \cup D) \ (mem.processed \cup Fresh(kept))
    BY <1>6, <1>7 DEF Fresh, Left
  <1>9. mem.changed \subseteq mem.processed
    BY <1>0 DEF DamageInv, RunInv, ProcessedKept
  <1>10. ASSUME NEW f \in D PROVE f \in Left'
    <2> SUFFICES ASSUME f \in Fresh(kept) PROVE FALSE
      BY <1>2, <1>8
    <2>1. PICK c \in mem.captured : c.fresh = f /\ c.from \notin Ids(D)
      BY DEF Fresh, kept
    <2>2. f # Absent
      BY <1>2, FilesAssumption
    <2>3. row[f] # Absent /\ row[f].id = c.from
      BY <1>0, <1>2, <1>7, <2>1, <2>2 DEF DamageInv, RunInv, FreshTrue
    <2> QED
      BY <1>2, <2>1, <2>3 DEF Ids, Registered
  <1>11. ASSUME NEW f \in CH, f \notin mem.processed PROVE f \in Left'
    BY <1>8, <1>9, <1>11
  <1>12. ASSUME NEW f \in Registered, f \in Reached(CH) PROVE f \in mem.processed \cup Left'
    BY <1>5, <1>10, <1>11, <1>12
  <1>13. ASSUME NEW g \in Left' PROVE g \in Reached(CH)
    <2>1. CASE g \in D
      BY <1>2, <2>1
    <2>2. CASE g \in queue \ Fresh(mem.captured)
      BY <1>4, <2>2
    <2>3. CASE g \in Fresh(mem.captured)
      <3>1. PICK c \in mem.captured : c.fresh = g /\ g # Absent
        BY <2>3 DEF Fresh
      <3>2. c.from \in Ids(D)
        BY <1>8, <3>1 DEF Fresh, kept
      <3>3. row[g] # Absent /\ row[g].id = c.from
        BY <1>0, <1>7, <1>8, <3>1 DEF DamageInv, RunInv, FreshTrue
      <3>4. g \in Files
        BY <1>0, <2>3, FreshTyped DEF PendingType
      <3>5. g \in D
        BY <3>2, <3>3, <3>4 DEF Ids, Registered, IInv, Graph, IdsDistinct
      <3> QED
        BY <1>2, <3>5
    <2> QED
      BY <1>8, <2>1, <2>2, <2>3
  <1>14. Registered' = Registered /\ \A x : Evidenced(x)' = Evidenced(x) /\ Around(x)' = Around(x)
                                           /\ \A n : Derived(x, n)' = Derived(x, n)
    BY <1>1 DEF Registered, Evidenced, Around, Derived
  <1>15. ASSUME NEW f \in Registered, f \notin D
         PROVE  (Damaged(f)' => Damaged(f)) /\ (Troubled(f)' => Troubled(f))
    <2>1. row[f].id \notin Ids(D)
      BY <1>15 DEF Ids, IInv, Graph, IdsDistinct
    <2>2. \A n : Bound(f, n)' = Bound(f, n)
      BY <1>1, <2>1 DEF Bound
    <2> QED
      BY <1>1, <1>7, <1>14, <2>2 DEF Damaged, Troubled
  <1>16. TreeKept'
    BY <1>0, <1>1, <1>2 DEF DamageInv, RunInv, TreeKept
  <1>17. PlansSimple' /\ VisitedOnce' /\ FreshTrue'
    BY <1>0, <1>1, <1>7 DEF DamageInv, RunInv, PlansSimple, VisitedOnce, FreshTrue
  <1>18. ProcessedKept'
    BY <1>0, <1>1, <1>6, <1>7 DEF DamageInv, RunInv, ProcessedKept, Invalidate
  <1>19. SourcesQueued'
    BY <1>1, <1>7, <1>14 DEF DamageInv, RunInv, SourcesQueued
  <1>20. QueueRead'
    BY <1>1, <1>6 DEF QueueRead
  <1>21. Closed'
    <2> SUFFICES ASSUME NEW f \in Registered, NEW g \in Left', g \in row[f].content.imports
                 PROVE  f \in mem.processed \cup Left'
      BY <1>1, <1>6, <1>14 DEF Closed
    <2> QED
      BY <1>4, <1>12, <1>13
  <1>22. DamageIsQueued'
    <2> SUFFICES ASSUME NEW f \in Registered, Damaged(f)'
                 PROVE  \E x \in Around(f) : x \in queue' \/ Unseen(x)'
      BY <1>14 DEF DamageIsQueued
    <2>1. CASE f \in D
      BY <1>1, <2>1 DEF Around
    <2>2. CASE f \notin D
      BY <1>1, <1>15, <2>2 DEF DamageInv, DamageIsQueued, Unseen
    <2> QED
      BY <2>1, <2>2
  <1>23. TroubleIsFound'
    BY <1>7 DEF TroubleIsFound
  <1>24. TroubleIsHandled'
    <2> SUFFICES ASSUME NEW f \in Registered, Troubled(f)'
                 PROVE  \/ \E x \in row[f].content.imports \ {} : Unseen(x)
                        \/ row[f].id \in Unpublished
                        \/ f \in Left'
      BY <1>0, <1>1, <1>7, <1>14 DEF TroubleIsHandled, Unseen
    <2>1. CASE f \in D
      BY <1>10, <2>1
    <2>2. CASE f \notin D
      <3>1. PICK x \in Around(f) : \/ x \in queue \ Fresh(Captures)
                                   \/ x \in mem.changed \cup work.planned \/ Unseen(x)
        BY <1>0, <1>15, <2>2 DEF DamageInv, TroubleIsFound
      <3>2. CASE Unseen(x)
        BY <3>1, <3>2 DEF Unseen, Around, Registered
      <3>3. CASE x \in CH
        <4>1. f \in Reached(CH)
          BY <1>4, <3>1, <3>3 DEF Around
        <4>2. f \in mem.processed \cup Left'
          BY <1>12, <4>1
        <4>3. f \in mem.processed => row[f].id \in Unpublished
          BY <1>0, <1>7 DEF DamageInv, RunInv, ProcessedKept, Early
        <4> QED
          BY <4>2, <4>3
      <3> QED
        BY <1>0, <1>7, <3>1, <3>2, <3>3
    <2> QED
      BY <2>1, <2>2
  <1> QED
    BY <1>16, <1>17, <1>18, <1>19, <1>20, <1>21, <1>22, <1>23, <1>24 DEF DamageInv, RunInv

(* Reparsing removes what the importers of which are replaced too.         *)
LEMMA ReparseKeepsDamage ==
  ASSUME IInv, DamageInv, Reparse
  PROVE  DamageInv'
  <1> DEFINE paths == {f \in ToReparse : disk[f] # Absent}
             cap == CapturedInto(paths, paths)
  <1>0. /\ mem \in PendingType /\ work = NoWork /\ work.planned = {} /\ work.unresolved = {}
        /\ work.captured = {} /\ pc = "prepare" /\ queue \subseteq Files
    BY DEF IInv, TypeOK, DamageInv, RunInv, PlansSimple, Reparse, NoWork
  <1>1. /\ row' = WithoutRows(paths) /\ edges' = WithoutEdges(paths)
        /\ queue' = queue \cup Sources(cap)
        /\ work' = [NoWork EXCEPT !.captured = cap, !.index = paths, !.planned = paths]
        /\ mem' = [mem EXCEPT !.completed = Fresh(mem.captured) \cup (ToReparse \ paths)]
        /\ pc' = "reparse" /\ UNCHANGED <<disk, counter, todo>>
    BY DEF Reparse
  <1>2. paths = IF mem.bounded THEN {} ELSE Left
    <2>1. mem.queued \subseteq queue /\ \A f \in queue : f \in Files => disk[f] # Absent
      BY DEF DamageInv, RunInv, QueueRead, TreeKept
    <2>2. Captures = mem.captured
      BY <1>0 DEF Captures
    <2> QED
      BY <1>0, <2>1, <2>2 DEF ToReparse, Left
  <1>3. /\ paths \in SUBSET Files /\ \A x \in paths : disk[x] # Absent
        /\ paths \cap mem.processed = {} /\ ToReparse \ paths = {}
    <2>1. ToReparse = IF mem.bounded THEN {} ELSE Left
      BY DEF ToReparse, Left
    <2>2. mem.queued \subseteq Files
      BY <1>0 DEF PendingType
    <2> QED
      BY <1>2, <2>1, <2>2 DEF Left
  <1> HIDE DEF paths, cap
  <1>4. /\ work'.deleted = {} /\ work'.renamed = {} /\ work'.modified = {} /\ ~work'.failed
        /\ work'.index = paths /\ work'.planned = paths /\ work'.unresolved = {}
        /\ work'.captured = cap /\ work'.read = Absent
    BY <1>1 DEF NoWork
  <1>5. /\ mem'.unresolved = mem.unresolved /\ mem'.captured = mem.captured
        /\ mem'.processed = mem.processed /\ mem'.changed = mem.changed /\ mem'.queued = mem.queued
        /\ mem'.ran = mem.ran /\ mem'.bounded = mem.bounded /\ mem'.completed = Fresh(mem.captured)
    BY <1>0, <1>1, <1>3 DEF PendingType
  <1>6. /\ Captures' \subseteq Captures \cup cap /\ Unpublished' = Unpublished
        /\ Unpublished = mem.unresolved /\ ~Early /\ ~Early' /\ Left' = Left
    BY <1>0, <1>1, <1>4, <1>5 DEF Captures, Unpublished, Early, Left
  <1>7. /\ Registered' = Registered \ paths /\ \A f \in Registered' : row'[f] = row[f]
        /\ \A x \in Files : Unseen(x) => Unseen(x)'
        /\ Sources(cap) \subseteq Registered
        /\ DamageIsQueued' /\ SourcesQueued'
    BY <1>1, <1>3, <1>6, RemovalIsQueued DEF cap
  <1>8. TreeKept'
    BY <1>1, <1>3, <1>4, <1>7 DEF DamageInv, RunInv, TreeKept, Registered
  <1>9. PlansSimple'
    <2>1. paths = {} => cap = {}
      BY DEF cap, CapturedInto, Ids
    <2> QED
      BY <1>1, <1>2, <1>4, <1>5, <2>1 DEF PlansSimple
  <1>10. ProcessedKept'
    <2>1. \A f \in mem.processed : row'[f] = row[f]
      BY <1>0, <1>1, <1>3 DEF WithoutRows, PendingType
    <2> QED
      BY <1>0, <1>1, <1>3, <1>4, <1>5, <1>6, <2>1 DEF DamageInv, RunInv, ProcessedKept
  <1>11. VisitedOnce' /\ FreshTrue' /\ TroubleIsFound'
    BY <1>1, <1>6 DEF VisitedOnce, FreshTrue, TroubleIsFound
  <1>12. QueueRead'
    BY <1>1, <1>5 DEF DamageInv, RunInv, QueueRead
  <1>13. ASSUME NEW f \in Registered, row[f].content.imports \cap paths # {}
         PROVE  f \in mem.processed \cup paths
    BY <1>0, <1>2, <1>13 DEF DamageInv, RunInv, Closed
  <1>14. Closed'
    BY <1>1, <1>4, <1>5, <1>7, <1>13 DEF Closed
  <1>15. TroubleIsHandled'
    <2> SUFFICES ASSUME NEW f \in Registered', Troubled(f)'
                 PROVE  \/ \E x \in row'[f].content.imports \ paths : Unseen(x)'
                        \/ row'[f].id \in Unpublished
                        \/ f \in Left /\ mem.bounded
      BY <1>1, <1>4, <1>5, <1>6 DEF TroubleIsHandled
    <2>1. f \in Registered /\ f \notin paths /\ row'[f] = row[f] /\ row[f].content.imports \subseteq Files
      BY <1>7, RowTyped, ContentsAssumption DEF IInv, TypeOK
    <2>2. CASE row[f].content.imports \cap paths = {}
      <3>1. Troubled(f)
        BY <1>1, <1>3, <1>6, <2>2, RemovalTroubles DEF cap
      <3>2. \/ \E x \in row[f].content.imports \ work.planned : Unseen(x)
            \/ row[f].id \in Unpublished
            \/ f \in Left
        BY <1>6, <2>1, <3>1 DEF DamageInv, TroubleIsHandled
      <3> QED
        BY <1>2, <1>7, <2>1, <2>2, <3>2
    <2>3. CASE row[f].content.imports \cap paths # {}
      <3>1. f \in mem.processed
        BY <1>13, <2>1, <2>3
      <3> QED
        BY <1>0, <1>6, <2>1, <3>1 DEF DamageInv, RunInv, ProcessedKept
    <2> QED
      BY <2>2, <2>3
  <1> QED
    BY <1>7, <1>8, <1>9, <1>10, <1>11, <1>12, <1>14, <1>15 DEF DamageInv, RunInv

(* The reparsed files join what the run has to resolve.                    *)
LEMMA PreparedKeepsDamage ==
  ASSUME IInv, DamageInv, Prepared
  PROVE  DamageInv'
  <1> DEFINE after == IF work.planned = {} THEN mem ELSE Accumulated
  <1>0. /\ work \in WorkType /\ mem \in PendingType /\ work.index = {} /\ pc = "reparse"
        /\ UNCHANGED <<disk, row, edges, queue, counter, todo>> /\ work' = NoWork
        /\ pc' = IF after.ran THEN "phase2" ELSE "clear"
        /\ mem' = [after EXCEPT !.completed = after.completed \cup (after.processed \cap mem.queued)]
    BY DEF IInv, TypeOK, Prepared, committed
  <1>1. /\ work'.deleted = {} /\ work'.renamed = {} /\ work'.modified = {} /\ work'.index = {}
        /\ work'.planned = {} /\ work'.unresolved = {} /\ work'.captured = {} /\ ~work'.failed
    BY <1>0 DEF NoWork
  <1>2. work.planned = {} => work.unresolved = {}
    BY DEF DamageInv, RunInv, PlansSimple
  <1>3. /\ after \in PendingType
        /\ after.unresolved = mem.unresolved \cup work.unresolved
        /\ mem.captured \subseteq after.captured /\ after.captured \subseteq mem.captured \cup work.captured
        /\ after.processed = mem.processed \cup work.planned
        /\ after.queued = mem.queued /\ after.completed = mem.completed
        /\ after.bounded = mem.bounded
        /\ (after.ran /\ work.planned # {}) \/ (after.ran = mem.ran /\ after = mem)
    <2>1. /\ Accumulated.unresolved = mem.unresolved \cup work.unresolved
          /\ Accumulated.captured = mem.captured \cup work.captured
          /\ Accumulated.processed = mem.processed \cup work.planned
          /\ Accumulated.queued = mem.queued /\ Accumulated.ran
          /\ Accumulated.completed = mem.completed /\ Accumulated.bounded = mem.bounded
      BY <1>0 DEF Accumulated, PendingType
    <2>2. Accumulated \in PendingType
      BY AccumulatedTyped DEF IInv
    <2> QED
      BY <1>0, <1>2, <2>1, <2>2
  <1> HIDE DEF after
  <1>4. /\ mem'.unresolved = after.unresolved /\ mem'.captured = after.captured
        /\ mem'.processed = after.processed /\ mem'.queued = mem.queued /\ mem'.ran = after.ran
        /\ mem'.bounded = mem.bounded
        /\ mem'.completed = mem.completed \cup (after.processed \cap mem.queued)
    BY <1>0, <1>3 DEF PendingType
  <1>5. /\ Registered' = Registered
        /\ \A x : Damaged(x)' = Damaged(x) /\ Evidenced(x)' = Evidenced(x) /\ Around(x)' = Around(x)
    BY <1>0, SameIndexSameDamage
  <1>6. /\ Captures' \subseteq Captures /\ Unpublished' = Unpublished /\ ~Early /\ ~Early'
    BY <1>0, <1>1, <1>3, <1>4 DEF Captures, Unpublished, Early
  <1>7. TreeKept' /\ PlansSimple'
    BY <1>0, <1>1 DEF DamageInv, RunInv, TreeKept, PlansSimple
  <1>8. ProcessedKept'
    BY <1>0, <1>1, <1>2, <1>3, <1>4, <1>6 DEF DamageInv, RunInv, ProcessedKept
  <1>9. VisitedOnce' /\ FreshTrue' /\ Closed' /\ TroubleIsFound'
    BY <1>0, <1>6 DEF VisitedOnce, FreshTrue, Closed, TroubleIsFound
  <1>10. SourcesQueued'
    BY <1>0, <1>5, <1>6 DEF DamageInv, RunInv, SourcesQueued
  <1>11. QueueRead'
    <2>1. mem.completed \subseteq Fresh(after.captured)
      BY <1>0, <1>3 DEF DamageInv, RunInv, QueueRead, Fresh
    <2> QED
      BY <1>0, <1>4, <2>1 DEF DamageInv, RunInv, QueueRead
  <1>12. DamageIsQueued'
    BY <1>0, <1>5 DEF DamageInv, DamageIsQueued, Unseen
  <1>13. TroubleIsHandled'
    <2> SUFFICES ASSUME NEW f \in Registered, Troubled(f)'
                 PROVE  \/ \E x \in row[f].content.imports : Unseen(x)
                        \/ row[f].id \in Unpublished
                        \/ f \in Left' /\ mem.bounded
      BY <1>0, <1>1, <1>4, <1>5, <1>6 DEF TroubleIsHandled, Unseen
    <2>1. Troubled(f)
      BY <1>0, <1>5, <1>6 DEF Troubled
    <2>2. \/ \E x \in row[f].content.imports \ work.planned : Unseen(x)
          \/ row[f].id \in Unpublished
          \/ f \in Left /\ mem.bounded
      BY <1>0, <1>6, <2>1 DEF DamageInv, TroubleIsHandled
    <2>3. mem.bounded => Left' = Left
      <3>1. mem.bounded => work.planned = {} /\ work.captured = {}
        BY <1>0 DEF DamageInv, RunInv, PlansSimple
      <3> QED
        BY <1>3, <1>4, <3>1 DEF Left
    <2> QED
      BY <2>2, <2>3
  <1> QED
    BY <1>7, <1>8, <1>9, <1>10, <1>11, <1>12, <1>13 DEF DamageInv, RunInv

(* Steps of Phase 2 keep all but the edges.                                *)
LEMMA PublishingKeepsRun ==
  ASSUME IInv, SingleInv, DamageInv, pc = "phase2", pc' \in {"phase2", "clear"},
         UNCHANGED <<disk, row, queue, counter, todo, work>>,
         mem'.unresolved \subseteq mem.unresolved, pc' = "clear" => mem'.unresolved = {},
         mem'.captured = mem.captured, mem'.processed = mem.processed, mem'.changed = mem.changed,
         mem'.queued = mem.queued, mem'.completed = mem.completed, mem'.ran = mem.ran,
         mem'.bounded = mem.bounded
  PROVE  /\ Registered' = Registered /\ Captures' = Captures /\ Left' = Left
         /\ Unpublished = mem.unresolved /\ Unpublished' = mem'.unresolved
         /\ \A x : /\ Evidenced(x)' = Evidenced(x) /\ Around(x)' = Around(x) /\ Unseen(x)' = Unseen(x)
                   /\ \A n : Derived(x, n)' = Derived(x, n)
         /\ RunInv' /\ TroubleIsFound' /\ ~Early /\ ~Early' /\ work.planned = {}
  <1>0. work = NoWork /\ work.planned = {} /\ work.unresolved = {} /\ work.captured = {}
        /\ work.modified = {}
    BY DEF SingleInv, PublishingIsLast, NoWork
  <1>1. /\ Registered' = Registered
        /\ \A x : /\ Evidenced(x)' = Evidenced(x) /\ Around(x)' = Around(x) /\ Unseen(x)' = Unseen(x)
                  /\ \A n : Derived(x, n)' = Derived(x, n)
    BY DEF Registered, Evidenced, Around, Unseen, Derived
  <1>2. /\ Captures' = Captures /\ Left' = Left /\ Unpublished = mem.unresolved
        /\ Unpublished' = mem'.unresolved /\ ~Early /\ ~Early'
    BY <1>0 DEF Captures, Left, Unpublished, Early
  <1>3. TreeKept' /\ PlansSimple'
    BY <1>0 DEF DamageInv, RunInv, TreeKept, PlansSimple
  <1>4. ProcessedKept'
    BY <1>0, <1>2 DEF DamageInv, RunInv, ProcessedKept
  <1>5. VisitedOnce' /\ FreshTrue' /\ Closed' /\ TroubleIsFound'
    BY <1>2 DEF VisitedOnce, FreshTrue, Closed, TroubleIsFound
  <1>6. SourcesQueued' /\ QueueRead'
    BY <1>1, <1>2 DEF DamageInv, RunInv, SourcesQueued, QueueRead
  <1> QED
    BY <1>0, <1>1, <1>2, <1>3, <1>4, <1>5, <1>6 DEF RunInv

(* A file that is resolved has the edges that are derived for it, and no   *)
(* other ones.                                                             *)
LEMMA ResolvingKeepsDamage ==
  ASSUME IInv, SingleInv, DamageInv, NEW id \in mem.unresolved, ResolveFile(id)
  PROVE  DamageInv'
  <1>0. /\ mem'.unresolved = mem.unresolved \ {id} /\ mem'.captured = mem.captured
        /\ mem'.processed = mem.processed /\ mem'.changed = mem.changed /\ mem'.queued = mem.queued
        /\ mem'.completed = mem.completed /\ mem'.ran = mem.ran /\ mem'.bounded = mem.bounded
    BY DEF IInv, TypeOK, PendingType, ResolveFile
  <1>1. /\ pc = "phase2" /\ pc' = pc /\ UNCHANGED <<disk, row, queue, counter, todo, work>>
        /\ edges' = edges \cup Outgoing(row, Owner(id))
    BY DEF ResolveFile
  <1>2. /\ Registered' = Registered /\ Captures' = Captures /\ Left' = Left
        /\ Unpublished = mem.unresolved /\ Unpublished' = mem'.unresolved
        /\ \A x : /\ Evidenced(x)' = Evidenced(x) /\ Around(x)' = Around(x) /\ Unseen(x)' = Unseen(x)
                  /\ \A n : Derived(x, n)' = Derived(x, n)
        /\ RunInv' /\ TroubleIsFound' /\ ~Early /\ ~Early' /\ work.planned = {}
    BY <1>0, <1>1, PublishingKeepsRun
  <1>3. PICK o \in Registered : row[o].id = id /\ edges' = edges \cup Outgoing(row, o)
    BY <1>1, OwnerRegistered DEF ResolveFile, ContextMissing
  <1>4. \A e \in Outgoing(row, o) : e.from = id
    BY <1>3, OutgoingJoins DEF IInv, TypeOK
  <1>5. ~Damaged(o)' /\ ~Troubled(o)'
    <2>1. \A e \in edges : e.from # id
      BY <1>2 DEF SingleInv, UnpublishedHaveNoEdges
    <2>2. \A n : Bound(o, n)' = Derived(o, n)
      BY <1>1, <1>2, <1>3, <1>4, <2>1 DEF Bound, Derived
    <2>3. \A c \in Captures : c.from # id
      BY <1>2 DEF SingleInv, CapturesAreSettled
    <2> QED
      BY <1>1, <1>2, <1>3, <2>2, <2>3 DEF Damaged, Troubled
  <1>6. ASSUME NEW f \in Registered, f # o
        PROVE  Damaged(f)' = Damaged(f) /\ Troubled(f)' = Troubled(f) /\ row[f].id # id
    <2>1. row[f].id # id
      BY <1>3, <1>6 DEF IInv, Graph, IdsDistinct
    <2>2. \A n : Bound(f, n)' = Bound(f, n)
      BY <1>1, <1>3, <1>4, <2>1 DEF Bound
    <2> QED
      BY <1>1, <1>2, <2>1, <2>2 DEF Damaged, Troubled
  <1>7. DamageIsQueued'
    BY <1>1, <1>2, <1>5, <1>6 DEF DamageInv, DamageIsQueued
  <1>8. TroubleIsHandled'
    BY <1>0, <1>1, <1>2, <1>5, <1>6 DEF DamageInv, TroubleIsHandled
  <1> QED
    BY <1>2, <1>7, <1>8 DEF DamageInv

(* Rebinding disturbs only files whose edges were captured, which were in  *)
(* trouble, and queued, before.                                            *)
LEMMA RebindingKeepsDamage ==
  ASSUME IInv, SingleInv, DamageInv, RebindInboundEdges
  PROVE  DamageInv'
  <1>1. /\ pc = "phase2" /\ pc' = "clear" /\ mem' = mem /\ mem.unresolved = {}
        /\ UNCHANGED <<disk, row, queue, counter, todo, work>>
        /\ edges \subseteq edges'
        /\ \A e \in edges' \ edges : \E c \in mem.captured : SameReference(c, e)
    BY DEF RebindInboundEdges, SameReference
  <1>2. /\ Registered' = Registered /\ Captures' = Captures /\ Left' = Left
        /\ Unpublished = mem.unresolved /\ Unpublished' = mem'.unresolved
        /\ \A x : /\ Evidenced(x)' = Evidenced(x) /\ Around(x)' = Around(x) /\ Unseen(x)' = Unseen(x)
                  /\ \A n : Derived(x, n)' = Derived(x, n)
        /\ RunInv' /\ TroubleIsFound' /\ ~Early /\ ~Early' /\ work.planned = {}
    BY <1>1, PublishingKeepsRun
  <1>3. ASSUME NEW f \in Registered, Damaged(f)', ~Damaged(f)
        PROVE  \E c \in Captures : c.from = row[f].id /\ c.name \in Evidenced(f)
    <2>1. PICK n \in Evidenced(f) : Bound(f, n)' # Bound(f, n)
      BY <1>2, <1>3 DEF Damaged
    <2>2. PICK e \in edges' \ edges : e.from = row[f].id /\ e.name = n
      BY <1>1, <2>1 DEF Bound
    <2> QED
      BY <1>1, <2>2 DEF SameReference, Captures
  <1>4. \A f \in Registered : Troubled(f)' => Troubled(f)
    BY <1>1, <1>2, <1>3 DEF Troubled
  <1>5. DamageIsQueued'
    <2> SUFFICES ASSUME NEW f \in Registered, Damaged(f)'
                 PROVE  \E x \in Around(f) : x \in queue \/ Unseen(x)
      BY <1>1, <1>2 DEF DamageIsQueued
    <2>1. CASE Damaged(f)
      BY <2>1 DEF DamageInv, DamageIsQueued
    <2>2. CASE ~Damaged(f)
      BY <1>3, <2>2 DEF DamageInv, RunInv, SourcesQueued, Around
    <2> QED
      BY <2>1, <2>2
  <1>6. TroubleIsHandled'
    BY <1>1, <1>2, <1>4 DEF DamageInv, TroubleIsHandled
  <1> QED
    BY <1>2, <1>5, <1>6 DEF DamageInv

(* What is cleared is not needed any more.                                 *)
LEMMA ClearingKeepsDamage ==
  ASSUME IInv, SingleInv, DamageInv, ClearPending
  PROVE  DamageInv'
  <1>0. /\ pc = "clear" /\ pc' = "idle" /\ mem' = NoPending /\ work = NoWork /\ work' = NoWork
        /\ UNCHANGED <<disk, row, edges, counter, todo>>
        /\ queue' = queue \ (mem.completed \cup Fresh(mem.captured))
    BY DEF ClearPending, SingleInv, PublishingIsLast
  <1>1. /\ Captures' = {} /\ work'.planned = {} /\ mem'.processed = {} /\ mem'.changed = {}
        /\ mem'.unresolved = {} /\ mem'.queued = {} /\ mem'.completed = {} /\ work'.index = {}
        /\ work'.modified = {} /\ work'.deleted = {} /\ work'.renamed = {} /\ ~work'.failed
        /\ work'.unresolved = {}
    BY <1>0 DEF NoWork, NoPending, Captures
  <1>2. /\ Registered' = Registered
        /\ \A x : Damaged(x)' = Damaged(x) /\ Evidenced(x)' = Evidenced(x) /\ Around(x)' = Around(x)
    BY <1>0, SameIndexSameDamage
  <1>3. Unpublished = {} /\ ~Early /\ Early'
    BY <1>0 DEF DamageInv, RunInv, ProcessedKept, Unpublished, NoWork, Early
  <1>4. Left \subseteq queue'
    BY <1>0 DEF DamageInv, RunInv, QueueRead, Left
  <1>5. DamageIsQueued'
    <2> SUFFICES ASSUME NEW f \in Registered, Damaged(f)
                 PROVE  \E x \in Around(f) : x \in queue' \/ Unseen(x)
      BY <1>0, <1>2 DEF DamageIsQueued, Unseen
    <2>1. \/ \E x \in row[f].content.imports \ work.planned : Unseen(x)
          \/ f \in Left
      BY <1>3 DEF DamageInv, TroubleIsHandled, Troubled
    <2> QED
      BY <1>4, <2>1 DEF Around
  <1>6. TroubleIsFound'
    BY <1>1, <1>5 DEF DamageIsQueued, TroubleIsFound, Troubled, Fresh
  <1>7. TreeKept'
    BY <1>0, <1>1 DEF DamageInv, RunInv, TreeKept
  <1>8. PlansSimple' /\ ProcessedKept' /\ VisitedOnce'
    BY <1>0, <1>1, <1>3 DEF PlansSimple, ProcessedKept, VisitedOnce
  <1>9. FreshTrue' /\ SourcesQueued' /\ QueueRead' /\ Closed' /\ TroubleIsHandled'
    BY <1>0, <1>1, <1>3 DEF FreshTrue, SourcesQueued, QueueRead, Closed, TroubleIsHandled
  <1> QED
    BY <1>5, <1>6, <1>7, <1>8, <1>9 DEF DamageInv, RunInv

-----------------------------------------------------------------------------
(* The invariant is inductive, on top of IInv and SingleInv.               *)
LEMMA NextDamage ==
  ASSUME Steady, IInv, SingleInv, DamageInv, [Next]_vars
  PROVE  DamageInv'
  <1>0. ~Deletes /\ ~KeepGoing
    BY DEF Steady
  <1>1. CASE UNCHANGED vars
    <2>1. /\ Registered' = Registered
          /\ \A x : Damaged(x)' = Damaged(x) /\ Evidenced(x)' = Evidenced(x) /\ Around(x)' = Around(x)
      BY <1>1, SameIndexSameDamage DEF vars
    <2>2. RunInv'
      BY <1>1, <2>1 DEF vars, DamageInv, RunInv, TreeKept, PlansSimple, ProcessedKept, VisitedOnce,
         FreshTrue, SourcesQueued, QueueRead, Closed, Captures, Unpublished, Left, Early
    <2>3. (DamageIsQueued /\ TroubleIsFound /\ TroubleIsHandled)'
      BY <1>1, <2>1 DEF vars, DamageInv, DamageIsQueued, TroubleIsFound, TroubleIsHandled, Troubled,
         Captures, Unpublished, Left, Early, Unseen
    <2> QED
      BY <2>2, <2>3 DEF DamageInv
  <1>2. CASE \E f \in Files : Edit(f)
    BY <1>0, <1>2, EditKeepsDamage
  <1>3. CASE Start \/ NothingToResolve \/ RunFails
    BY <1>3, EmptyRunKeepsDamage DEF Start
  <1>4. CASE RootFails
    BY <1>0, <1>4 DEF RootFails
  <1>5. CASE CleanupDeleted \/ CleanupRenamed
    BY <1>5 DEF CleanupDeleted, CleanupRenamed, DamageInv, RunInv, PlansSimple
  <1>6. CASE \E f \in Files : ReadFails(f)
    BY <1>6 DEF ReadFails, DamageInv, RunInv, PlansSimple, TreeKept
  <1>7. CASE Advance
    BY <1>3, <1>5, <1>6, <1>7, DiscoverKeepsDamage, SelectKeepsDamage, IndexingKeepsDamage,
       CleanupKeepsDamage, FinishKeepsDamage, InvalidateKeepsDamage, ReparseKeepsDamage,
       PreparedKeepsDamage, ResolvingKeepsDamage, RebindingKeepsDamage, ClearingKeepsDamage DEF Advance
  <1> QED
    BY <1>1, <1>2, <1>3, <1>4, <1>7 DEF Next

(* Durable damage is owed: an unseen file differs from the disk.           *)
LEMMA QueuedIsOwed == DamageIsQueued => DamageIsOwed
  BY DEF DamageIsQueued, DamageIsOwed, Owed, Around, Unseen, Stale

(* Where files are not deleted and a run of which one root fails is given  *)
(* up, no file whose imports decide what its references mean is ever       *)
(* forgotten with the wrong relationships: not by a crash or an error      *)
(* between any two commits, not by the clearing of obligations.            *)
THEOREM DamageIsAlwaysOwed == Steady => (Spec => []DamageIsOwed)
  <1> SUFFICES ASSUME Steady PROVE Spec => []DamageIsOwed
    OBVIOUS
  <1>1. Init => IInv /\ SingleInv /\ DamageInv
    BY InitIInv, InitSingle, InitDamage
  <1>2. IInv /\ SingleInv /\ DamageInv /\ [Next]_vars => (IInv /\ SingleInv /\ DamageInv)'
    BY NextIInv, NextSingle, NextDamage
  <1>3. DamageInv => DamageIsOwed
    BY QueuedIsOwed DEF DamageInv
  <1> QED
    BY <1>1, <1>2, <1>3, PTL DEF Spec
=============================================================================
