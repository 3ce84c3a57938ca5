---------------------- MODULE WorkspaceReadersProofs ----------------------
(***************************************************************************)
(* Proofs about WorkspaceReaders, for any number of readers and routers    *)
(* and every bound.  What a router does to the readers is a step of        *)
(* LiveWorkspace, so that its theorems hold of the composition; what the   *)
(* routers promise themselves, the capacity, the pins, the end of a        *)
(* shutdown and that a reader in use is of the present settings, follows   *)
(* from an invariant over the slots, the loads and the tasks.              *)
(***************************************************************************)
EXTENDS WorkspaceReaders, LiveWorkspaceProofs, FiniteSetTheorems

LoadStates == {"idle", "plan", "acquire", "build", "publish", "snapshot", "permit", "start"}
LoadRecords == [at : LoadStates, prev : Children \cup {Nobody}, snap : Rules, child : Children \cup {Nobody}]
ReaderRecords == [owner : Routers \cup {Nobody}, snap : Rules]

\* The types, but for the number of permits, which is an argument of its own.
RoutersTyped ==
    /\ slot \in [Routers -> Children \cup {Nobody}]
    /\ load \in [Routers -> LoadRecords]
    /\ query \in [Routers -> Children \cup {Nobody}]
    /\ reader \in [Children -> ReaderRecords]
    /\ phase \in [Routers -> {"running", "stopping", "stopped"}]
    /\ tasks \in [Routers -> SUBSET (Children \cup Routers)]
    /\ taken \in [Routers -> SUBSET (Children \cup Routers)]

JobsTyped == job \in [Routers -> [at : {"none", "building", "publishing"}, text : 0..MaxEdits, rules : Rules]]

\* A router's permits and its processes add up to its capacity.
Capacity ==
    /\ permits \in [Routers -> Nat]
    /\ \A r \in Routers : /\ IsFiniteSet(Owned(r))
                          /\ permits[r] + Cardinality(Owned(r)) = MaxWorkers

\* A load that waits for its child to start owns it.
Starts == \A r \in Routers : load[r].at = "start" => load[r].child \in Owned(r)

\* Every process has a task in a list, or a load that will put one there; a
\* shutdown has not yet waited for any of them.
Tasks ==
    \A r \in Routers :
        /\ Running(r) => taken[r] = {}
        /\ phase[r] = "stopped" => tasks[r] = {} /\ taken[r] = {}
        /\ load[r].at # "idle" => r \in tasks[r] \cup taken[r]
        /\ \A c \in Owned(r) :
              \/ load[r].at = "start" /\ load[r].child = c
              \/ c \in tasks[r] \cup taken[r]

Refs(r) == {slot[r], load[r].prev, load[r].child, query[r]}

\* Who holds on to a reader is its own router, and keeps it open.
Pins ==
    /\ \A r \in Routers, c \in Children :
          c \in Refs(r) => /\ reader[c].owner \in {r, Nobody}
                           /\ Running(r) => ~proc[c].stop
    /\ \A c \in Children : reader[c].owner = Nobody => ~proc[c].stop

\* A snapshot is never newer than what its reader has read.
Snaps ==
    /\ \A r \in Routers : load[r].snap <= settings
    /\ \A c \in Children :
          /\ reader[c].snap <= settings
          /\ Booted(c) => reader[c].snap <= proc[c].conf /\ proc[c].conf <= settings

ReadersInv == RoutersTyped /\ JobsTyped /\ Capacity /\ Starts /\ Tasks /\ Pins /\ Snaps

-----------------------------------------------------------------------------
(* What the readers do to themselves.                                      *)

\* No step of a reader, an editor or an explicit run opens or closes a
\* standard input, or configures a process with other than the present settings.
Itself ==
    /\ settings' \in Rules /\ settings <= settings'
    /\ \A d \in Children :
          /\ proc'[d].stop => proc[d].stop
          /\ proc'[d].at = "none" <=> proc[d].at = "none"
          /\ Booted(d)' => \/ Booted(d) /\ proc'[d].conf = proc[d].conf
                           \/ proc[d].at # "none" /\ proc'[d].conf = settings /\ settings' = settings

LEMMA EditTreeItself ==
    ASSUME TypeOKLive, EditTree
    PROVE  Itself
BY LiveAssumption, SMT
DEF EditTree, Watched,
    Itself, TypeOKLive, Locals, At, Booted, Writing, Passes, world, Rules

LEMMA EditSettingsItself ==
    ASSUME TypeOKLive, EditSettings
    PROVE  Itself
BY LiveAssumption, SMT
DEF EditSettings,
    Itself, TypeOKLive, Locals, At, Booted, Writing, Passes, world, Rules

LEMMA BootItself ==
    ASSUME TypeOKLive, NEW c \in Children, Boot(c)
    PROVE  Itself
BY LiveAssumption, SMT
DEF Boot, Gone, Released, Fresh,
    Itself, TypeOKLive, Locals, At, Booted, Writing, Passes, world, Rules

LEMMA BeginLiveItself ==
    ASSUME TypeOKLive, NEW c \in Children, BeginLive(c)
    PROVE  Itself
BY LiveAssumption, SMT
DEF BeginLive,
    Itself, TypeOKLive, Locals, At, Booted, Writing, Passes, world, Rules

LEMMA ContextFailsItself ==
    ASSUME TypeOKLive, NEW c \in Children, ContextFails(c)
    PROVE  Itself
BY LiveAssumption, SMT
DEF ContextFails, LiveFails, Released, Fresh, ContextChanged,
    Itself, TypeOKLive, Locals, At, Booted, Writing, Passes, world, Rules

LEMMA ElectItself ==
    ASSUME TypeOKLive, NEW c \in Children, Elect(c)
    PROVE  Itself
BY LiveAssumption, SMT
DEF Elect, Goes, ContextChanged,
    Itself, TypeOKLive, Locals, At, Booted, Writing, Passes, world, Rules

LEMMA ScanBeginsItself ==
    ASSUME TypeOKLive, NEW c \in Children, ScanBegins(c)
    PROVE  Itself
BY LiveAssumption, SMT
DEF ScanBegins, Goes, ContextChanged,
    Itself, TypeOKLive, Locals, At, Booted, Writing, Passes, world, Rules

LEMMA ScanCommitsItself ==
    ASSUME TypeOKLive, NEW c \in Children, ScanCommits(c)
    PROVE  Itself
BY LiveAssumption, SMT
DEF ScanCommits, Done, Commit, Part,
    Itself, TypeOKLive, Locals, At, Booted, Writing, Passes, world, Rules

LEMMA HandleBeginsItself ==
    ASSUME TypeOKLive, NEW c \in Children, HandleBegins(c)
    PROVE  Itself
BY LiveAssumption, SMT
DEF HandleBegins,
    Itself, TypeOKLive, Locals, At, Booted, Writing, Passes, world, Rules

LEMMA HandleCommitsItself ==
    ASSUME TypeOKLive, NEW c \in Children, HandleCommits(c)
    PROVE  Itself
BY LiveAssumption, SMT
DEF HandleCommits, Done, Commit,
    Itself, TypeOKLive, Locals, At, Booted, Writing, Passes, world, Rules

LEMMA LeaveItself ==
    ASSUME TypeOKLive, NEW c \in Children, Leave(c)
    PROVE  Itself
<1>1. proc \in Procs /\ settings \in Rules /\ settings' = settings
  BY TypeParts DEF RestTyped, Leave, LiveFails, world
<1>2. /\ proc'[c].at \in {"gone", "failed"} /\ (proc'[c].stop => proc[c].stop)
      /\ proc'[c].at = "failed" => proc'[c].conf = proc[c].conf
      /\ \A d \in Children \ {c} : proc'[d] = proc[d]
  <2>1. CASE Gone(c)
    BY <1>1, <2>1 DEF Gone, Fresh, Procs
  <2>2. CASE LiveFails(c)
    BY <1>1, <2>2 DEF LiveFails, Fresh, Procs
  <2> QED
    BY <2>1, <2>2 DEF Leave
<1>3. proc[c].at = "watching"
  BY DEF Leave, At
<1> QED
  BY <1>1, <1>2, <1>3, LiveAssumption DEF Itself, Booted, At, Rules

LEMMA EndsItself ==
    ASSUME TypeOKLive, NEW c \in Children, Ends(c)
    PROVE  Itself
BY LiveAssumption, SMT
DEF Ends, Gone, Released, Fresh,
    Itself, TypeOKLive, Locals, At, Booted, Writing, Passes, world, Rules

LEMMA WriterFailsItself ==
    ASSUME TypeOKLive, NEW c \in Children, WriterFails(c)
    PROVE  Itself
BY LiveAssumption, SMT
DEF WriterFails, Fault, Interrupted, Part, LiveFails, Released, Fresh,
    Itself, TypeOKLive, Locals, At, Booted, Writing, Passes, world, Rules

LEMMA CliStartsItself ==
    ASSUME TypeOKLive, CliStarts
    PROVE  Itself
BY LiveAssumption, SMT
DEF CliStarts, Fault,
    Itself, TypeOKLive, Locals, At, Booted, Writing, Passes, world, Rules

LEMMA CliCommitsItself ==
    ASSUME TypeOKLive, CliCommits
    PROVE  Itself
BY LiveAssumption, SMT
DEF CliCommits, Released, CliIdle,
    Itself, TypeOKLive, Locals, At, Booted, Writing, Passes, world, Rules

LEMMA CliDiesItself ==
    ASSUME TypeOKLive, CliDies
    PROVE  Itself
BY LiveAssumption, SMT
DEF CliDies, Released, CliIdle, Part,
    Itself, TypeOKLive, Locals, At, Booted, Writing, Passes, world, Rules

LEMMA LiveItself ==
    ASSUME TypeOKLive, Live
    PROVE  Itself
BY EditTreeItself, EditSettingsItself, BootItself, BeginLiveItself, ContextFailsItself, ElectItself,
   ScanBeginsItself, ScanCommitsItself, HandleBeginsItself, HandleCommitsItself, LeaveItself, EndsItself,
   WriterFailsItself, CliStartsItself, CliCommitsItself, CliDiesItself DEF Live, Runs

-----------------------------------------------------------------------------
(* Types of the records, one field at a time.                              *)

LoadMap == [Routers -> LoadRecords]

LEMMA PutLoadAt ==
    ASSUME NEW l \in LoadMap, NEW r \in Routers, NEW at \in LoadStates
    PROVE  [l EXCEPT ![r].at = at] \in LoadMap
BY SMT DEF LoadMap, LoadRecords

LEMMA PutLoadSnap ==
    ASSUME NEW l \in LoadMap, NEW r \in Routers, NEW rules \in Rules
    PROVE  [l EXCEPT ![r].snap = rules] \in LoadMap
BY SMT DEF LoadMap, LoadRecords

LEMMA PutLoadPrev ==
    ASSUME NEW l \in LoadMap, NEW r \in Routers, NEW c \in Children \cup {Nobody}
    PROVE  [l EXCEPT ![r].prev = c] \in LoadMap
BY SMT DEF LoadMap, LoadRecords

LEMMA PutLoadChild ==
    ASSUME NEW l \in LoadMap, NEW r \in Routers, NEW c \in Children \cup {Nobody}
    PROVE  [l EXCEPT ![r].child = c] \in LoadMap
BY SMT DEF LoadMap, LoadRecords

LEMMA PutIdleLoad ==
    ASSUME NEW l \in LoadMap, NEW r \in Routers
    PROVE  [l EXCEPT ![r] = IdleLoad] \in LoadMap
<1>1. 0 \in Rules
  BY LiveAssumption DEF Rules
<1>2. IdleLoad \in LoadRecords
  BY <1>1, SMT DEF IdleLoad, LoadRecords, LoadStates
<1> QED
  BY <1>2 DEF LoadMap

JobRecords == [at : {"none", "building", "publishing"}, text : 0..MaxEdits, rules : Rules]

LEMMA PutJobText ==
    ASSUME NEW j \in [Routers -> JobRecords], NEW r \in Routers, NEW text \in 0..MaxEdits
    PROVE  [j EXCEPT ![r].at = "publishing", ![r].text = text] \in [Routers -> JobRecords]
<1>1. \A k \in JobRecords : [k EXCEPT !.at = "publishing"] \in JobRecords
  BY SMT DEF JobRecords
<1>2. \A k \in JobRecords : [k EXCEPT !.text = text] \in JobRecords
  BY SMT DEF JobRecords
<1>3. [j EXCEPT ![r].at = "publishing"] \in [Routers -> JobRecords]
  BY <1>1
<1>4. [[j EXCEPT ![r].at = "publishing"] EXCEPT ![r].text = text] \in [Routers -> JobRecords]
  BY <1>2, <1>3
<1> QED
  BY <1>4, Zenon

LEMMA PutIdleJob ==
    ASSUME NEW j \in [Routers -> JobRecords], NEW r \in Routers
    PROVE  [j EXCEPT ![r] = IdleJob] \in [Routers -> JobRecords]
<1>1. 0 \in Rules /\ 0 \in 0..MaxEdits
  BY LiveAssumption DEF Rules
<1>2. IdleJob \in JobRecords
  BY <1>1, SMT DEF IdleJob, JobRecords
<1> QED
  BY <1>2

-----------------------------------------------------------------------------
(* What most steps of a router come down to.                               *)

LEMMA CapacityStays ==
    ASSUME Capacity, UNCHANGED <<permits, reader>>
    PROVE  Capacity'
<1>1. \A r \in Routers : Owned(r)' = Owned(r)
  BY DEF Owned
<1> QED
  BY <1>1 DEF Capacity

\* Nothing but jobs, queries and what is no part of the invariant changes.
LEMMA StillReaders ==
    ASSUME ReadersInv, JobsTyped',
           UNCHANGED <<settings, proc, slot, load, query, permits, reader, phase, tasks, taken>>
    PROVE  ReadersInv'
<1>1. Capacity'
  BY CapacityStays DEF ReadersInv
<1> QED
  BY <1>1
  DEF ReadersInv, RoutersTyped, Starts, Tasks, Pins, Snaps, Owned, Running, Refs, Booted, At

\* A load goes on.
LEMMA MovesReaders ==
    ASSUME ReadersInv, JobsTyped', NEW r \in Routers, load[r].at \notin {"idle", "start"},
           NEW at \in LoadStates \ {"idle", "start"}, Moves(r, at), UNCHANGED <<settings, proc>>
    PROVE  ReadersInv'
<1>1. Capacity'
  BY CapacityStays DEF ReadersInv, Moves, pool
<1>2. load' \in LoadMap
  BY PutLoadAt DEF Moves, ReadersInv, RoutersTyped, LoadMap
<1>3. RoutersTyped'
  BY <1>2 DEF Moves, pool, ending, ReadersInv, RoutersTyped, LoadMap
<1>4. Starts' /\ Tasks'
  BY SMT DEF Moves, pool, ending, ReadersInv, RoutersTyped, LoadRecords, Starts, Tasks, Running, Owned
<1>5. Pins' /\ Snaps'
  BY SMT DEF Moves, pool, ending, ReadersInv, RoutersTyped, LoadRecords, Pins, Refs, Running, Snaps, Booted, At
<1> QED
  BY <1>1, <1>3, <1>4, <1>5 DEF ReadersInv

\* A load takes a snapshot and goes on, with the reader it may use again or without.
LEMMA SnapReaders ==
    ASSUME LiveInv, ReadersInv, JobsTyped', NEW r \in Routers, load[r].at \notin {"idle", "start"},
           load' \in LoadMap, load'[r].at \notin {"idle", "start"}, load'[r].prev \in {load[r].prev, Nobody},
           load'[r].snap = settings, load'[r].child = load[r].child,
           \A s \in Routers \ {r} : load'[s] = load[s],
           UNCHANGED <<settings, proc, slot, query, permits, reader, phase, tasks, taken>>
    PROVE  ReadersInv'
<1>1. Capacity'
  BY CapacityStays DEF ReadersInv
<1>2. RoutersTyped'
  BY DEF ReadersInv, RoutersTyped, LoadMap
<1>3. \A s \in Routers : Owned(s)' = Owned(s) /\ (Running(s)' <=> Running(s))
  BY DEF Owned, Running
<1>4. Starts' /\ Tasks'
  BY <1>3 DEF ReadersInv, Starts, Tasks
<1>5. Nobody \notin Children
  BY LiveAssumption
<1>6. \A s \in Routers, c \in Children : c \in Refs(s)' => c \in Refs(s)
  BY <1>5 DEF Refs
<1>7. Pins'
  BY <1>6 DEF ReadersInv, Pins, Running
<1>8. settings <= settings
  BY LiveAssumption, TypeParts DEF RestTyped, LiveInv, Rules
<1>9. Snaps'
  BY <1>8 DEF ReadersInv, Snaps, Booted, At
<1> QED
  BY <1>1, <1>2, <1>4, <1>7, <1>9 DEF ReadersInv

\* A load ends with no reader, or with the one it had.
LEMMA FinishReaders ==
    ASSUME LiveInv, ReadersInv, JobsTyped', NEW r \in Routers, load[r].at \notin {"idle", "start"},
           NEW c \in {load[r].prev, Nobody}, Finish(r, c, {}),
           UNCHANGED <<settings, proc, query, permits, reader, phase>>
    PROVE  ReadersInv'
<1>1. Capacity'
  BY CapacityStays DEF ReadersInv
<1>2. load' \in LoadMap /\ c \in Children \cup {Nobody}
  BY PutIdleLoad DEF Finish, ReadersInv, RoutersTyped, LoadMap, LoadRecords
<1>3. RoutersTyped'
  BY <1>2, SMT DEF Finish, ReadersInv, RoutersTyped, LoadMap
<1>4. /\ load'[r] = IdleLoad
      /\ \A s \in Routers \ {r} : load'[s] = load[s] /\ slot'[s] = slot[s] /\ tasks'[s] = tasks[s] /\ taken'[s] = taken[s]
      /\ slot'[r] \in {c, Nobody}
      /\ tasks'[r] = tasks[r] \ {r} /\ taken'[r] = taken[r] \ {r}
  BY SMT DEF Finish, ReadersInv, RoutersTyped
<1>5. Nobody \notin Children /\ r \notin Children
  BY LiveAssumption
<1>6. Starts' /\ Tasks'
  BY <1>4, <1>5, SMT DEF IdleLoad, ReadersInv, Starts, Tasks, Running, Owned
<1>7. \A s \in Routers, d \in Children : d \in Refs(s)' => d \in Refs(s)
  BY <1>4, <1>5 DEF Refs, IdleLoad
<1>8. Pins'
  BY <1>7 DEF ReadersInv, Pins, Running
<1>9. 0 <= settings
  BY LiveAssumption, TypeParts DEF RestTyped, LiveInv, Rules
<1>10. Snaps'
  BY <1>4, <1>9 DEF ReadersInv, Snaps, Booted, At, IdleLoad
<1> QED
  BY <1>1, <1>3, <1>6, <1>8, <1>10 DEF ReadersInv

LEMMA ToldReaders ==
    ASSUME LiveInv, ReadersInv, JobsTyped', NEW r \in Routers, load[r].at \notin {"idle", "start"},
           Told(r), UNCHANGED <<settings, proc>>
    PROVE  ReadersInv'
BY FinishReaders DEF Told

-----------------------------------------------------------------------------
(* One step of each operation keeps the invariant.                        *)

LEMMA SameJobs ==
    ASSUME ReadersInv, UNCHANGED job
    PROVE  JobsTyped'
BY DEF ReadersInv, JobsTyped

LEMMA PlanReaders ==
    ASSUME LiveInv, ReadersInv, NEW r \in Routers, Plan(r)
    PROVE  ReadersInv'
<1>1. JobsTyped' /\ UNCHANGED <<settings, proc>> /\ load[r].at = "plan"
  BY SameJobs DEF Plan, liveVars
<1>2. CASE Moves(r, "snapshot")
  BY <1>1, <1>2, MovesReaders DEF LoadStates
<1>3. CASE Told(r)
  BY <1>1, <1>3, ToldReaders
<1>4. CASE /\ load' = [load EXCEPT ![r].at = "acquire", ![r].snap = settings]
           /\ UNCHANGED <<slot, query, pool, ending>>
  <2>1. load \in LoadMap /\ settings \in Rules /\ "acquire" \in LoadStates
    BY TypeParts DEF ReadersInv, RoutersTyped, LoadMap, RestTyped, LiveInv, LoadStates
  <2>2. [load EXCEPT ![r].at = "acquire"] \in LoadMap
    BY <2>1, PutLoadAt
  <2>3. [[load EXCEPT ![r].at = "acquire"] EXCEPT ![r].snap = settings] \in LoadMap
    BY <2>1, <2>2, PutLoadSnap
  <2>4. load' \in LoadMap
    BY <1>4, <2>3, Zenon
  <2>5. /\ load'[r].at = "acquire" /\ load'[r].prev = load[r].prev /\ load'[r].snap = settings
        /\ load'[r].child = load[r].child /\ \A s \in Routers \ {r} : load'[s] = load[s]
    BY <1>4, <2>1, SMT DEF LoadMap, LoadRecords
  <2> QED
    BY <1>1, <1>4, <2>4, <2>5, SnapReaders DEF pool, ending
<1> QED
  BY <1>2, <1>3, <1>4 DEF Plan

LEMMA AcquireReaders ==
    ASSUME LiveInv, ReadersInv, NEW r \in Routers, Acquire(r)
    PROVE  ReadersInv'
<1>1. UNCHANGED <<settings, proc>> /\ load[r].at = "acquire"
  BY DEF Acquire, liveVars, TakeLease, world
<1>2. JobsTyped'
  <2>1. CASE UNCHANGED job
    BY <2>1, SameJobs
  <2>2. CASE job' = [job EXCEPT ![r] = [at |-> "building", text |-> 0, rules |-> load[r].snap]]
    <3>1. load[r].snap \in Rules /\ 0 \in 0..MaxEdits
      BY LiveAssumption DEF ReadersInv, RoutersTyped, LoadRecords
    <3>2. [at |-> "building", text |-> 0, rules |-> load[r].snap] \in JobRecords
      BY <3>1, SMT DEF JobRecords
    <3> QED
      BY <2>2, <3>2 DEF ReadersInv, JobsTyped, JobRecords
  <2> QED
    BY <2>1, <2>2 DEF Acquire
<1>3. CASE Told(r)
  BY <1>1, <1>2, <1>3, ToldReaders
<1>4. CASE Moves(r, "snapshot") \/ Moves(r, "build")
  BY <1>1, <1>2, <1>4, MovesReaders DEF LoadStates
<1> QED
  BY <1>3, <1>4 DEF Acquire

LEMMA BuildReaders ==
    ASSUME LiveInv, ReadersInv, NEW r \in Routers, Build(r)
    PROVE  ReadersInv'
<1>1. UNCHANGED <<settings, proc>> /\ load[r].at = "build" /\ Moves(r, "publish")
  BY DEF Build, liveVars
<1>2. tree \in 0..MaxEdits /\ job \in [Routers -> JobRecords]
  BY TypeParts DEF RestTyped, LiveInv, ReadersInv, JobsTyped, JobRecords
<1>3. JobsTyped'
  BY <1>2, PutJobText DEF Build, JobsTyped, JobRecords
<1> QED
  BY <1>1, <1>3, MovesReaders DEF LoadStates

LEMMA PublishReaders ==
    ASSUME LiveInv, ReadersInv, NEW r \in Routers, Publish(r)
    PROVE  ReadersInv'
<1>1. UNCHANGED <<settings, proc, slot, query, permits, reader, phase, tasks, taken>>
  BY DEF Publish, PublishFirst, world, pool, ending
<1>2. JobsTyped'
  BY PutIdleJob DEF Publish, ReadersInv, JobsTyped, JobRecords
<1>3. CASE load[r].at = "publish"
  <2>1. Moves(r, "snapshot")
    BY <1>3 DEF Publish, Moves
  <2> QED
    BY <1>1, <1>2, <1>3, <2>1, MovesReaders DEF LoadStates
<1>4. CASE load[r].at # "publish"
  BY <1>1, <1>2, <1>4, StillReaders DEF Publish
<1> QED
  BY <1>3, <1>4

LEMMA PublishFailsReaders ==
    ASSUME LiveInv, ReadersInv, NEW r \in Routers, PublishFails(r)
    PROVE  ReadersInv'
<1>1. UNCHANGED <<settings, proc>>
  BY DEF PublishFails, DropLease, world
<1>2. JobsTyped'
  BY PutIdleJob DEF PublishFails, ReadersInv, JobsTyped, JobRecords
<1>3. CASE load[r].at = "publish"
  BY <1>1, <1>2, <1>3, ToldReaders DEF PublishFails
<1>4. CASE load[r].at # "publish"
  BY <1>1, <1>2, <1>4, StillReaders DEF PublishFails, pool, ending
<1> QED
  BY <1>3, <1>4

LEMMA LoadSnapshotReaders ==
    ASSUME LiveInv, ReadersInv, NEW r \in Routers, LoadSnapshot(r)
    PROVE  ReadersInv'
<1>1. JobsTyped' /\ UNCHANGED <<settings, proc>> /\ load[r].at = "snapshot"
  BY SameJobs DEF LoadSnapshot, liveVars
<1>2. CASE Finish(r, load[r].prev, {}) /\ UNCHANGED <<query, permits, reader, phase>>
  BY <1>1, <1>2, FinishReaders
<1>3. CASE /\ load' = [load EXCEPT ![r].at = "permit", ![r].prev = Nobody, ![r].snap = settings]
           /\ UNCHANGED <<slot, query, pool, ending>>
  <2>1. load \in LoadMap /\ settings \in Rules /\ "permit" \in LoadStates
    BY TypeParts DEF ReadersInv, RoutersTyped, LoadMap, RestTyped, LiveInv, LoadStates
  <2>2. [load EXCEPT ![r].at = "permit"] \in LoadMap
    BY <2>1, PutLoadAt
  <2>3. [[load EXCEPT ![r].at = "permit"] EXCEPT ![r].prev = Nobody] \in LoadMap
    BY <2>1, <2>2, PutLoadPrev
  <2>4. [[[load EXCEPT ![r].at = "permit"] EXCEPT ![r].prev = Nobody] EXCEPT ![r].snap = settings] \in LoadMap
    BY <2>1, <2>3, PutLoadSnap
  <2>5. load' \in LoadMap
    BY <1>3, <2>4, Zenon
  <2>6. /\ load'[r].at = "permit" /\ load'[r].prev = Nobody /\ load'[r].snap = settings
        /\ load'[r].child = load[r].child /\ \A s \in Routers \ {r} : load'[s] = load[s]
    BY <1>3, <2>1, SMT DEF LoadMap, LoadRecords
  <2> QED
    BY <1>1, <1>3, <2>5, <2>6, SnapReaders DEF pool, ending
<1> QED
  BY <1>2, <1>3 DEF LoadSnapshot

LEMMA LoadFailsReaders ==
    ASSUME LiveInv, ReadersInv, NEW r \in Routers, LoadFails(r)
    PROVE  ReadersInv'
<1>1. Told(r) /\ UNCHANGED <<settings, proc>> /\ load[r].at \notin {"idle", "start"}
  BY DEF LoadFails, DropLease, world
<1>2. JobsTyped'
  <2>1. CASE job' = [job EXCEPT ![r] = IdleJob]
    BY <2>1, PutIdleJob DEF ReadersInv, JobsTyped, JobRecords
  <2>2. CASE UNCHANGED job
    BY <2>2, SameJobs
  <2> QED
    BY <2>1, <2>2 DEF LoadFails
<1> QED
  BY <1>1, <1>2, ToldReaders

LEMMA AbandonReaders ==
    ASSUME LiveInv, ReadersInv, NEW r \in Routers, Abandon(r)
    PROVE  ReadersInv'
<1>1. Told(r) /\ UNCHANGED <<settings, proc>> /\ load[r].at = "publish" /\ JobsTyped'
  BY SameJobs DEF Abandon, world
<1> QED
  BY <1>1, ToldReaders

LEMMA JoinReaders ==
    ASSUME LiveInv, ReadersInv, NEW r \in Routers, Join(r)
    PROVE  ReadersInv'
<1>1. RoutersTyped'
  BY LiveAssumption, SMT
  DEF Join, liveVars, pool, ending, readersVars, world, ReadersInv, RoutersTyped, LoadRecords, LoadStates, ReaderRecords, LiveInv, TypeOKLive, Rules
<1>2. JobsTyped'
  BY SameJobs DEF Join, liveVars, pool, ending, readersVars, world
<1>3. Capacity'
  BY CapacityStays DEF Join, liveVars, pool, ending, readersVars, world, ReadersInv
<1>4. Starts'
  BY LiveAssumption, SMT
  DEF Join, liveVars, pool, ending, readersVars, world, ReadersInv, RoutersTyped, LoadRecords, ReaderRecords, Starts, Owned, Pins, Refs
<1>5. Tasks'
  BY LiveAssumption, SMT
  DEF Join, liveVars, pool, ending, readersVars, world, ReadersInv, RoutersTyped, LoadRecords, ReaderRecords, Starts, Tasks, Running, Owned
<1>6. Pins'
  BY LiveAssumption, SMT
  DEF Join, liveVars, pool, ending, readersVars, world, ReadersInv, RoutersTyped, LoadRecords, ReaderRecords, Starts, Pins, Refs, Running, Owned, Referenced,
      LiveInv, TypeOKLive, Locals, At, Alive
<1>7. Snaps'
  BY LiveAssumption, SMT
  DEF Join, liveVars, pool, ending, readersVars, world, ReadersInv, RoutersTyped, LoadRecords, ReaderRecords, Snaps, Booted, At, LiveInv, TypeOKLive, Locals, Rules
<1> QED
  BY <1>1, <1>2, <1>3, <1>4, <1>5, <1>6, <1>7 DEF ReadersInv

LEMMA AskReaders ==
    ASSUME LiveInv, ReadersInv, NEW r \in Routers, Ask(r)
    PROVE  ReadersInv'
<1>1. RoutersTyped'
  BY LiveAssumption, SMT
  DEF Ask, liveVars, pool, ending, readersVars, world, ReadersInv, RoutersTyped, LoadRecords, LoadStates, ReaderRecords, LiveInv, TypeOKLive, Rules
<1>2. JobsTyped'
  BY SameJobs DEF Ask, liveVars, pool, ending, readersVars, world
<1>3. Capacity'
  BY CapacityStays DEF Ask, liveVars, pool, ending, readersVars, world, ReadersInv
<1>4. Starts'
  BY LiveAssumption, SMT
  DEF Ask, liveVars, pool, ending, readersVars, world, ReadersInv, RoutersTyped, LoadRecords, ReaderRecords, Starts, Owned, Pins, Refs
<1>5. Tasks'
  BY LiveAssumption, SMT
  DEF Ask, liveVars, pool, ending, readersVars, world, ReadersInv, RoutersTyped, LoadRecords, ReaderRecords, Starts, Tasks, Running, Owned
<1>6. Pins'
  BY LiveAssumption, SMT
  DEF Ask, liveVars, pool, ending, readersVars, world, ReadersInv, RoutersTyped, LoadRecords, ReaderRecords, Starts, Pins, Refs, Running, Owned, Referenced,
      LiveInv, TypeOKLive, Locals, At, Alive
<1>7. Snaps'
  BY LiveAssumption, SMT
  DEF Ask, liveVars, pool, ending, readersVars, world, ReadersInv, RoutersTyped, LoadRecords, ReaderRecords, Snaps, Booted, At, LiveInv, TypeOKLive, Locals, Rules
<1> QED
  BY <1>1, <1>2, <1>3, <1>4, <1>5, <1>6, <1>7 DEF ReadersInv

LEMMA AnswerReaders ==
    ASSUME LiveInv, ReadersInv, NEW r \in Routers, Answer(r)
    PROVE  ReadersInv'
<1>1. RoutersTyped'
  BY LiveAssumption, SMT
  DEF Answer, liveVars, pool, ending, readersVars, world, ReadersInv, RoutersTyped, LoadRecords, LoadStates, ReaderRecords, LiveInv, TypeOKLive, Rules
<1>2. JobsTyped'
  BY SameJobs DEF Answer, liveVars, pool, ending, readersVars, world
<1>3. Capacity'
  BY CapacityStays DEF Answer, liveVars, pool, ending, readersVars, world, ReadersInv
<1>4. Starts'
  BY LiveAssumption, SMT
  DEF Answer, liveVars, pool, ending, readersVars, world, ReadersInv, RoutersTyped, LoadRecords, ReaderRecords, Starts, Owned, Pins, Refs
<1>5. Tasks'
  BY LiveAssumption, SMT
  DEF Answer, liveVars, pool, ending, readersVars, world, ReadersInv, RoutersTyped, LoadRecords, ReaderRecords, Starts, Tasks, Running, Owned
<1>6. Pins'
  BY LiveAssumption, SMT
  DEF Answer, liveVars, pool, ending, readersVars, world, ReadersInv, RoutersTyped, LoadRecords, ReaderRecords, Starts, Pins, Refs, Running, Owned, Referenced,
      LiveInv, TypeOKLive, Locals, At, Alive
<1>7. Snaps'
  BY LiveAssumption, SMT
  DEF Answer, liveVars, pool, ending, readersVars, world, ReadersInv, RoutersTyped, LoadRecords, ReaderRecords, Snaps, Booted, At, LiveInv, TypeOKLive, Locals, Rules
<1> QED
  BY <1>1, <1>2, <1>3, <1>4, <1>5, <1>6, <1>7 DEF ReadersInv

LEMMA PermitReaders ==
    ASSUME LiveInv, ReadersInv, NEW r \in Routers, Permit(r)
    PROVE  ReadersInv'
<1>1. RoutersTyped'
  <2>1. PICK c \in Free : /\ reader' = [reader EXCEPT ![c] = [owner |-> r, snap |-> load[r].snap]]
                          /\ load' = [load EXCEPT ![r].at = "start", ![r].child = c]
    BY DEF Permit
  <2>2. c \in Children /\ load \in LoadMap /\ "start" \in LoadStates
    BY <2>1 DEF Free, ReadersInv, RoutersTyped, LoadMap, LoadStates
  <2>3. [load EXCEPT ![r].at = "start"] \in LoadMap
    BY <2>2, PutLoadAt
  <2>4. [[load EXCEPT ![r].at = "start"] EXCEPT ![r].child = c] \in LoadMap
    BY <2>2, <2>3, PutLoadChild
  <2>5. load' \in LoadMap
    BY <2>1, <2>4, Zenon
  <2>6. [owner |-> r, snap |-> load[r].snap] \in ReaderRecords
    BY <2>2, SMT DEF LoadMap, LoadRecords, ReaderRecords
  <2>7. reader' \in [Children -> ReaderRecords]
    BY <2>1, <2>6 DEF ReadersInv, RoutersTyped
  <2> QED
    BY <2>5, <2>7 DEF Permit, ending, ReadersInv, RoutersTyped, LoadMap
<1>2. JobsTyped'
  BY SameJobs DEF Permit, liveVars, pool, ending, readersVars, world
<1>3. Capacity'
  <2>1. PICK c \in Free : reader' = [reader EXCEPT ![c] = [owner |-> r, snap |-> load[r].snap]]
    BY DEF Permit
  <2>2. c \in Children /\ c \notin Owned(r) /\ reader[c].owner = Nobody
    BY <2>1, LiveAssumption, SMT DEF Free, NoReader, Owned
  <2>3. /\ Owned(r)' = Owned(r) \cup {c}
        /\ \A s \in Routers \ {r} : Owned(s)' = Owned(s)
    BY <2>1, <2>2, LiveAssumption, SMT DEF Owned, ReadersInv, RoutersTyped, ReaderRecords
  <2>4. IsFiniteSet(Owned(r)) /\ permits[r] + Cardinality(Owned(r)) = MaxWorkers
    BY DEF ReadersInv, Capacity
  <2>5. /\ IsFiniteSet(Owned(r) \cup {c})
        /\ Cardinality(Owned(r) \cup {c}) = Cardinality(Owned(r)) + 1
        /\ Cardinality(Owned(r)) \in Nat
    BY <2>2, <2>4, FS_AddElement, FS_CardinalityType
  <2>6. permits' = [permits EXCEPT ![r] = @ - 1] /\ permits[r] > 0 /\ permits \in [Routers -> Nat]
    BY DEF Permit, ReadersInv, Capacity
  <2>7. permits' \in [Routers -> Nat] /\ permits'[r] = permits[r] - 1 /\ \A s \in Routers \ {r} : permits'[s] = permits[s]
    BY <2>6, SMT
  <2>8. IsFiniteSet(Owned(r)') /\ Cardinality(Owned(r)') = Cardinality(Owned(r)) + 1
    BY <2>3, <2>5
  <2>9. permits'[r] + Cardinality(Owned(r)') = MaxWorkers
    BY <2>4, <2>5, <2>6, <2>7, <2>8
  <2> QED
    BY <2>3, <2>7, <2>8, <2>9 DEF ReadersInv, Capacity
<1>4. Starts'
  BY LiveAssumption, SMT
  DEF Permit, Spawn, Fresh, Free, NoReader, liveVars, pool, ending, readersVars, world, ReadersInv, RoutersTyped, LoadRecords, ReaderRecords, Starts, Owned, Pins, Refs
<1>5. Tasks'
  BY LiveAssumption, SMT
  DEF Permit, Spawn, Fresh, Free, NoReader, liveVars, pool, ending, readersVars, world, ReadersInv, RoutersTyped, LoadRecords, ReaderRecords, Starts, Tasks, Running, Owned
<1>6. Pins'
  BY LiveAssumption, SMT
  DEF Permit, Spawn, Fresh, Free, NoReader, liveVars, pool, ending, readersVars, world, ReadersInv, RoutersTyped, LoadRecords, ReaderRecords, Starts, Pins, Refs, Running, Owned, Referenced,
      LiveInv, TypeOKLive, Locals, At, Alive
<1>7. Snaps'
  BY LiveAssumption, SMT
  DEF Permit, Spawn, Fresh, Free, NoReader, liveVars, pool, ending, readersVars, world, ReadersInv, RoutersTyped, LoadRecords, ReaderRecords, Snaps, Booted, At, LiveInv, TypeOKLive, Locals, Rules
<1> QED
  BY <1>1, <1>2, <1>3, <1>4, <1>5, <1>6, <1>7 DEF ReadersInv

LEMMA StartedReaders ==
    ASSUME LiveInv, ReadersInv, NEW r \in Routers, Started(r)
    PROVE  ReadersInv'
<1>1. RoutersTyped'
  <2>1. load' \in LoadMap
    BY PutIdleLoad DEF Started, Finish, ReadersInv, RoutersTyped, LoadMap
  <2>2. load[r].child \in Children \cup {Nobody}
    BY DEF ReadersInv, RoutersTyped, LoadRecords
  <2>3. load[r].child \in Children
    BY DEF Started, ReadersInv, Starts, Owned
  <2> QED
    BY <2>1, <2>2, <2>3, SMT DEF Started, Finish, liveVars, ReadersInv, RoutersTyped, LoadMap
<1>2. JobsTyped'
  BY SameJobs DEF Started, liveVars, pool, ending, readersVars, world
<1>3. Capacity'
  BY CapacityStays DEF Started, liveVars, pool, ending, readersVars, world, ReadersInv
<1>4. Starts'
  BY LiveAssumption, SMT
  DEF Started, Finish, IdleLoad, liveVars, pool, ending, readersVars, world, ReadersInv, RoutersTyped, LoadRecords, ReaderRecords, Starts, Owned, Pins, Refs
<1>5. Tasks'
  BY LiveAssumption, SMT
  DEF Started, Finish, IdleLoad, liveVars, pool, ending, readersVars, world, ReadersInv, RoutersTyped, LoadRecords, ReaderRecords, Starts, Tasks, Running, Owned
<1>6. Pins'
  BY LiveAssumption, SMT
  DEF Started, Finish, IdleLoad, liveVars, pool, ending, readersVars, world, ReadersInv, RoutersTyped, LoadRecords, ReaderRecords, Starts, Pins, Refs, Running, Owned, Referenced,
      LiveInv, TypeOKLive, Locals, At, Alive
<1>7. Snaps'
  BY LiveAssumption, SMT
  DEF Started, Finish, IdleLoad, liveVars, pool, ending, readersVars, world, ReadersInv, RoutersTyped, LoadRecords, ReaderRecords, Snaps, Booted, At, LiveInv, TypeOKLive, Locals, Rules
<1> QED
  BY <1>1, <1>2, <1>3, <1>4, <1>5, <1>6, <1>7 DEF ReadersInv

LEMMA StartFailsReaders ==
    ASSUME LiveInv, ReadersInv, NEW r \in Routers, StartFails(r)
    PROVE  ReadersInv'
<1>1. RoutersTyped'
  <2>1. load' \in LoadMap
    BY PutIdleLoad DEF StartFails, Finish, ReadersInv, RoutersTyped, LoadMap
  <2>2. NoReader \in ReaderRecords
    BY LiveAssumption, SMT DEF NoReader, ReaderRecords, Rules
  <2>3. reader' \in [Children -> ReaderRecords]
    BY <2>2 DEF StartFails, ReadersInv, RoutersTyped
  <2> QED
    BY <2>1, <2>3, SMT DEF StartFails, Finish, ReadersInv, RoutersTyped, LoadMap
<1>2. JobsTyped'
  BY SameJobs DEF StartFails, liveVars, pool, ending, readersVars, world
<1>3. Capacity'
  <2> DEFINE c == load[r].child
  <2>1. reader' = [reader EXCEPT ![c] = NoReader]
    BY DEF StartFails
  <2>2. c \in Owned(r)
    BY DEF StartFails, ReadersInv, Starts
  <2>3. /\ Owned(r)' = Owned(r) \ {c}
        /\ \A s \in Routers \ {r} : Owned(s)' = Owned(s)
    BY <2>1, <2>2, LiveAssumption, SMT DEF NoReader, Owned, ReadersInv, RoutersTyped, ReaderRecords
  <2>4. IsFiniteSet(Owned(r)) /\ permits[r] + Cardinality(Owned(r)) = MaxWorkers
    BY DEF ReadersInv, Capacity
  <2>5. /\ IsFiniteSet(Owned(r) \ {c})
        /\ Cardinality(Owned(r) \ {c}) = Cardinality(Owned(r)) - 1
        /\ Cardinality(Owned(r)) \in Nat
    BY <2>2, <2>4, FS_RemoveElement, FS_CardinalityType
  <2>6. permits' = [permits EXCEPT ![r] = @ + 1] /\ permits \in [Routers -> Nat]
    BY <2>1 DEF StartFails, ReadersInv, Capacity
  <2>7. Cardinality(Owned(r)) - 1 = Cardinality(Owned(r)') /\ IsFiniteSet(Owned(r)')
    BY <2>3, <2>5
  <2>8. permits' \in [Routers -> Nat] /\ permits'[r] = permits[r] + 1 /\ \A s \in Routers \ {r} : permits'[s] = permits[s]
    BY <2>6, SMT
  <2> HIDE DEF c
  <2> QED
    BY <2>3, <2>4, <2>5, <2>7, <2>8, SMT DEF ReadersInv, Capacity
<1>4. Starts'
  BY LiveAssumption, SMT
  DEF StartFails, Finish, IdleLoad, NoReader, Buried, Dies, Fresh, Fault, liveVars, pool, ending, readersVars, world, ReadersInv, RoutersTyped, LoadRecords, ReaderRecords, Starts, Owned, Pins, Refs
<1>5. Tasks'
  BY LiveAssumption, SMT
  DEF StartFails, Finish, IdleLoad, NoReader, Buried, Dies, Fresh, Fault, liveVars, pool, ending, readersVars, world, ReadersInv, RoutersTyped, LoadRecords, ReaderRecords, Starts, Tasks, Running, Owned
<1>6. Pins'
  <2> DEFINE c == load[r].child
  <2>1. c \in Children /\ reader[c].owner = r /\ proc \in Procs
    BY TypeParts DEF StartFails, ReadersInv, Starts, Owned, LiveInv
  <2>2. proc' \in {[proc EXCEPT ![c] = Fresh], [proc EXCEPT ![c] = [Fresh EXCEPT !.at = "none"]]}
    BY DEF StartFails, Buried, Dies
  <2>3. ~proc'[c].stop /\ \A d \in Children \ {c} : proc'[d] = proc[d]
    BY <2>1, <2>2 DEF Fresh, Procs
  <2>4. reader'[c].owner = Nobody /\ \A d \in Children \ {c} : reader'[d] = reader[d]
    BY <2>1, SMT DEF StartFails, NoReader, ReadersInv, RoutersTyped
  <2>5. Nobody \notin Children
    BY LiveAssumption
  <2>6. \A s \in Routers, d \in Children : d \in Refs(s)' => d \in Refs(s)
    BY <2>5, SMT DEF StartFails, Finish, IdleLoad, Refs, ReadersInv, RoutersTyped, LoadRecords
  <2>7. UNCHANGED phase
    BY DEF StartFails
  <2> HIDE DEF c
  <2> QED
    BY <2>1, <2>3, <2>4, <2>6, <2>7 DEF ReadersInv, Pins, Running
<1>7. Snaps'
  BY LiveAssumption, SMT
  DEF StartFails, Finish, IdleLoad, NoReader, Buried, Dies, Fresh, Fault, liveVars, pool, ending, readersVars, world, ReadersInv, RoutersTyped, LoadRecords, ReaderRecords, Snaps, Booted, At, LiveInv, TypeOKLive, Locals, Rules
<1> QED
  BY <1>1, <1>2, <1>3, <1>4, <1>5, <1>6, <1>7 DEF ReadersInv

LEMMA EvictReaders ==
    ASSUME LiveInv, ReadersInv, NEW r \in Routers, Evict(r)
    PROVE  ReadersInv'
<1>1. RoutersTyped'
  BY LiveAssumption, SMT
  DEF Evict, liveVars, pool, ending, readersVars, world, ReadersInv, RoutersTyped, LoadRecords, LoadStates, ReaderRecords, LiveInv, TypeOKLive, Rules
<1>2. JobsTyped'
  BY SameJobs DEF Evict, liveVars, pool, ending, readersVars, world
<1>3. Capacity'
  BY CapacityStays DEF Evict, liveVars, pool, ending, readersVars, world, ReadersInv
<1>4. Starts'
  BY LiveAssumption, SMT
  DEF Evict, liveVars, pool, ending, readersVars, world, ReadersInv, RoutersTyped, LoadRecords, ReaderRecords, Starts, Owned, Pins, Refs
<1>5. Tasks'
  BY LiveAssumption, SMT
  DEF Evict, liveVars, pool, ending, readersVars, world, ReadersInv, RoutersTyped, LoadRecords, ReaderRecords, Starts, Tasks, Running, Owned
<1>6. Pins'
  BY LiveAssumption, SMT
  DEF Evict, liveVars, pool, ending, readersVars, world, ReadersInv, RoutersTyped, LoadRecords, ReaderRecords, Starts, Pins, Refs, Running, Owned, Referenced,
      LiveInv, TypeOKLive, Locals, At, Alive
<1>7. Snaps'
  BY LiveAssumption, SMT
  DEF Evict, liveVars, pool, ending, readersVars, world, ReadersInv, RoutersTyped, LoadRecords, ReaderRecords, Snaps, Booted, At, LiveInv, TypeOKLive, Locals, Rules
<1> QED
  BY <1>1, <1>2, <1>3, <1>4, <1>5, <1>6, <1>7 DEF ReadersInv

LEMMA ShutdownReaders ==
    ASSUME LiveInv, ReadersInv, NEW r \in Routers, Shutdown(r)
    PROVE  ReadersInv'
<1>1. RoutersTyped'
  BY LiveAssumption, SMT
  DEF Shutdown, liveVars, pool, ending, readersVars, world, ReadersInv, RoutersTyped, LoadRecords, LoadStates, ReaderRecords, LiveInv, TypeOKLive, Rules
<1>2. JobsTyped'
  BY SameJobs DEF Shutdown, liveVars, pool, ending, readersVars, world
<1>3. Capacity'
  BY CapacityStays DEF Shutdown, liveVars, pool, ending, readersVars, world, ReadersInv
<1>4. Starts'
  BY LiveAssumption, SMT
  DEF Shutdown, liveVars, pool, ending, readersVars, world, ReadersInv, RoutersTyped, LoadRecords, ReaderRecords, Starts, Owned, Pins, Refs
<1>5. Tasks'
  BY LiveAssumption, SMT
  DEF Shutdown, liveVars, pool, ending, readersVars, world, ReadersInv, RoutersTyped, LoadRecords, ReaderRecords, Starts, Tasks, Running, Owned
<1>6. Pins'
  BY LiveAssumption, SMT
  DEF Shutdown, liveVars, pool, ending, readersVars, world, ReadersInv, RoutersTyped, LoadRecords, ReaderRecords, Starts, Pins, Refs, Running, Owned, Referenced,
      LiveInv, TypeOKLive, Locals, At, Alive
<1>7. Snaps'
  BY LiveAssumption, SMT
  DEF Shutdown, liveVars, pool, ending, readersVars, world, ReadersInv, RoutersTyped, LoadRecords, ReaderRecords, Snaps, Booted, At, LiveInv, TypeOKLive, Locals, Rules
<1> QED
  BY <1>1, <1>2, <1>3, <1>4, <1>5, <1>6, <1>7 DEF ReadersInv

LEMMA TakeAgainReaders ==
    ASSUME LiveInv, ReadersInv, NEW r \in Routers, TakeAgain(r)
    PROVE  ReadersInv'
<1>1. RoutersTyped'
  BY LiveAssumption, SMT
  DEF TakeAgain, liveVars, pool, ending, readersVars, world, ReadersInv, RoutersTyped, LoadRecords, LoadStates, ReaderRecords, LiveInv, TypeOKLive, Rules
<1>2. JobsTyped'
  BY SameJobs DEF TakeAgain, liveVars, pool, ending, readersVars, world
<1>3. Capacity'
  BY CapacityStays DEF TakeAgain, liveVars, pool, ending, readersVars, world, ReadersInv
<1>4. Starts'
  BY LiveAssumption, SMT
  DEF TakeAgain, liveVars, pool, ending, readersVars, world, ReadersInv, RoutersTyped, LoadRecords, ReaderRecords, Starts, Owned, Pins, Refs
<1>5. Tasks'
  BY LiveAssumption, SMT
  DEF TakeAgain, liveVars, pool, ending, readersVars, world, ReadersInv, RoutersTyped, LoadRecords, ReaderRecords, Starts, Tasks, Running, Owned
<1>6. Pins'
  BY LiveAssumption, SMT
  DEF TakeAgain, liveVars, pool, ending, readersVars, world, ReadersInv, RoutersTyped, LoadRecords, ReaderRecords, Starts, Pins, Refs, Running, Owned, Referenced,
      LiveInv, TypeOKLive, Locals, At, Alive
<1>7. Snaps'
  BY LiveAssumption, SMT
  DEF TakeAgain, liveVars, pool, ending, readersVars, world, ReadersInv, RoutersTyped, LoadRecords, ReaderRecords, Snaps, Booted, At, LiveInv, TypeOKLive, Locals, Rules
<1> QED
  BY <1>1, <1>2, <1>3, <1>4, <1>5, <1>6, <1>7 DEF ReadersInv

LEMMA StoppedReaders ==
    ASSUME LiveInv, ReadersInv, NEW r \in Routers, Stopped(r)
    PROVE  ReadersInv'
<1>1. RoutersTyped'
  BY LiveAssumption, SMT
  DEF Stopped, liveVars, pool, ending, readersVars, world, ReadersInv, RoutersTyped, LoadRecords, LoadStates, ReaderRecords, LiveInv, TypeOKLive, Rules
<1>2. JobsTyped'
  BY SameJobs DEF Stopped, liveVars, pool, ending, readersVars, world
<1>3. Capacity'
  BY CapacityStays DEF Stopped, liveVars, pool, ending, readersVars, world, ReadersInv
<1>4. Starts'
  BY LiveAssumption, SMT
  DEF Stopped, liveVars, pool, ending, readersVars, world, ReadersInv, RoutersTyped, LoadRecords, ReaderRecords, Starts, Owned, Pins, Refs
<1>5. Tasks'
  BY LiveAssumption, SMT
  DEF Stopped, liveVars, pool, ending, readersVars, world, ReadersInv, RoutersTyped, LoadRecords, ReaderRecords, Starts, Tasks, Running, Owned
<1>6. Pins'
  BY LiveAssumption, SMT
  DEF Stopped, liveVars, pool, ending, readersVars, world, ReadersInv, RoutersTyped, LoadRecords, ReaderRecords, Starts, Pins, Refs, Running, Owned, Referenced,
      LiveInv, TypeOKLive, Locals, At, Alive
<1>7. Snaps'
  BY LiveAssumption, SMT
  DEF Stopped, liveVars, pool, ending, readersVars, world, ReadersInv, RoutersTyped, LoadRecords, ReaderRecords, Snaps, Booted, At, LiveInv, TypeOKLive, Locals, Rules
<1> QED
  BY <1>1, <1>2, <1>3, <1>4, <1>5, <1>6, <1>7 DEF ReadersInv

LEMMA CloseReaders ==
    ASSUME LiveInv, ReadersInv, NEW c \in Children, Close(c)
    PROVE  ReadersInv'
<1>1. RoutersTyped'
  BY LiveAssumption, SMT
  DEF Close, Hangup, liveVars, pool, ending, readersVars, world, ReadersInv, RoutersTyped, LoadRecords, LoadStates, ReaderRecords, LiveInv, TypeOKLive, Rules
<1>2. JobsTyped'
  BY SameJobs DEF Close, liveVars, pool, ending, readersVars, world
<1>3. Capacity'
  BY CapacityStays DEF Close, liveVars, pool, ending, readersVars, world, ReadersInv
<1>4. Starts'
  BY LiveAssumption, SMT
  DEF Close, Hangup, liveVars, pool, ending, readersVars, world, ReadersInv, RoutersTyped, LoadRecords, ReaderRecords, Starts, Owned, Pins, Refs
<1>5. Tasks'
  BY LiveAssumption, SMT
  DEF Close, Hangup, liveVars, pool, ending, readersVars, world, ReadersInv, RoutersTyped, LoadRecords, ReaderRecords, Starts, Tasks, Running, Owned
<1>6. Pins'
  BY LiveAssumption, SMT
  DEF Close, Hangup, liveVars, pool, ending, readersVars, world, ReadersInv, RoutersTyped, LoadRecords, ReaderRecords, Starts, Pins, Refs, Running, Owned, Referenced,
      LiveInv, TypeOKLive, Locals, At, Alive
<1>7. Snaps'
  BY LiveAssumption, SMT
  DEF Close, Hangup, liveVars, pool, ending, readersVars, world, ReadersInv, RoutersTyped, LoadRecords, ReaderRecords, Snaps, Booted, At, LiveInv, TypeOKLive, Locals, Rules
<1> QED
  BY <1>1, <1>2, <1>3, <1>4, <1>5, <1>6, <1>7 DEF ReadersInv

LEMMA KilledReaders ==
    ASSUME LiveInv, ReadersInv, NEW c \in Children, Killed(c)
    PROVE  ReadersInv'
<1>1. RoutersTyped'
  BY LiveAssumption, SMT
  DEF Killed, Dies, Fresh, Fault, liveVars, pool, ending, readersVars, world, ReadersInv, RoutersTyped, LoadRecords, LoadStates, ReaderRecords, LiveInv, TypeOKLive, Rules
<1>2. JobsTyped'
  BY SameJobs DEF Killed, liveVars, pool, ending, readersVars, world
<1>3. Capacity'
  BY CapacityStays DEF Killed, liveVars, pool, ending, readersVars, world, ReadersInv
<1>4. Starts'
  BY LiveAssumption, SMT
  DEF Killed, Dies, Fresh, Fault, liveVars, pool, ending, readersVars, world, ReadersInv, RoutersTyped, LoadRecords, ReaderRecords, Starts, Owned, Pins, Refs
<1>5. Tasks'
  BY LiveAssumption, SMT
  DEF Killed, Dies, Fresh, Fault, liveVars, pool, ending, readersVars, world, ReadersInv, RoutersTyped, LoadRecords, ReaderRecords, Starts, Tasks, Running, Owned
<1>6. Pins'
  BY LiveAssumption, SMT
  DEF Killed, Dies, Fresh, Fault, liveVars, pool, ending, readersVars, world, ReadersInv, RoutersTyped, LoadRecords, ReaderRecords, Starts, Pins, Refs, Running, Owned, Referenced,
      LiveInv, TypeOKLive, Locals, At, Alive
<1>7. Snaps'
  BY LiveAssumption, SMT
  DEF Killed, Dies, Fresh, Fault, liveVars, pool, ending, readersVars, world, ReadersInv, RoutersTyped, LoadRecords, ReaderRecords, Snaps, Booted, At, LiveInv, TypeOKLive, Locals, Rules
<1> QED
  BY <1>1, <1>2, <1>3, <1>4, <1>5, <1>6, <1>7 DEF ReadersInv

LEMMA ReapReaders ==
    ASSUME LiveInv, ReadersInv, NEW c \in Children, Reap(c)
    PROVE  ReadersInv'
<1>1. RoutersTyped'
  BY LiveAssumption, SMT
  DEF Reap, Buried, Fresh, NoReader, liveVars, pool, ending, readersVars, world, ReadersInv, RoutersTyped, LoadRecords, LoadStates, ReaderRecords, LiveInv, TypeOKLive, Rules
<1>2. JobsTyped'
  BY SameJobs DEF Reap, liveVars, pool, ending, readersVars, world
<1>3. Capacity'
  <2>1. PICK r \in Routers : reader[c].owner = r /\ permits' = [permits EXCEPT ![r] = @ + 1]
    BY DEF Reap
  <2>2. c \in Owned(r) /\ reader' = [reader EXCEPT ![c] = NoReader]
    BY <2>1 DEF Reap, Owned
  <2>3. /\ Owned(r)' = Owned(r) \ {c}
        /\ \A s \in Routers \ {r} : Owned(s)' = Owned(s)
    BY <2>1, <2>2, LiveAssumption, SMT DEF NoReader, Owned, ReadersInv, RoutersTyped, ReaderRecords
  <2>4. IsFiniteSet(Owned(r)) /\ permits[r] + Cardinality(Owned(r)) = MaxWorkers
    BY DEF ReadersInv, Capacity
  <2>5. /\ IsFiniteSet(Owned(r) \ {c})
        /\ Cardinality(Owned(r) \ {c}) = Cardinality(Owned(r)) - 1
        /\ Cardinality(Owned(r)) \in Nat
    BY <2>2, <2>4, FS_RemoveElement, FS_CardinalityType
  <2>6. permits' = [permits EXCEPT ![r] = @ + 1] /\ permits \in [Routers -> Nat]
    BY <2>1 DEF Reap, ReadersInv, Capacity
  <2>7. Cardinality(Owned(r)) - 1 = Cardinality(Owned(r)') /\ IsFiniteSet(Owned(r)')
    BY <2>3, <2>5
  <2>8. permits' \in [Routers -> Nat] /\ permits'[r] = permits[r] + 1 /\ \A s \in Routers \ {r} : permits'[s] = permits[s]
    BY <2>6, SMT
  <2> QED
    BY <2>3, <2>4, <2>5, <2>7, <2>8, SMT DEF ReadersInv, Capacity
<1>4. Starts'
  BY LiveAssumption, SMT
  DEF Reap, Buried, Fresh, NoReader, liveVars, pool, ending, readersVars, world, ReadersInv, RoutersTyped, LoadRecords, ReaderRecords, Starts, Owned, Pins, Refs
<1>5. Tasks'
  BY LiveAssumption, SMT
  DEF Reap, Buried, Fresh, NoReader, liveVars, pool, ending, readersVars, world, ReadersInv, RoutersTyped, LoadRecords, ReaderRecords, Starts, Tasks, Running, Owned
<1>6. Pins'
  BY LiveAssumption, SMT
  DEF Reap, Buried, Fresh, NoReader, liveVars, pool, ending, readersVars, world, ReadersInv, RoutersTyped, LoadRecords, ReaderRecords, Starts, Pins, Refs, Running, Owned, Referenced,
      LiveInv, TypeOKLive, Locals, At, Alive
<1>7. Snaps'
  BY LiveAssumption, SMT
  DEF Reap, Buried, Fresh, NoReader, liveVars, pool, ending, readersVars, world, ReadersInv, RoutersTyped, LoadRecords, ReaderRecords, Snaps, Booted, At, LiveInv, TypeOKLive, Locals, Rules
<1> QED
  BY <1>1, <1>2, <1>3, <1>4, <1>5, <1>6, <1>7 DEF ReadersInv

LEMMA LiveReaders ==
    ASSUME LiveInv, ReadersInv, Live
    PROVE  ReadersInv'
<1>1. Itself
  BY LiveItself DEF LiveInv
<1>2. UNCHANGED <<slot, load, job, query, permits, reader, phase, tasks, taken>>
  BY DEF Live, readersVars
<1>3. RoutersTyped' /\ JobsTyped' /\ Starts' /\ Tasks'
  BY <1>2 DEF ReadersInv, RoutersTyped, JobsTyped, Starts, Tasks, Owned, Running
<1>4. Capacity'
  BY <1>2, CapacityStays DEF ReadersInv
<1>5. Pins'
  BY <1>1, <1>2 DEF ReadersInv, Pins, Refs, Running, Itself
<1>6. \A d \in Children :
          Booted(d)' => \/ Booted(d) /\ proc'[d].conf = proc[d].conf
                        \/ proc'[d].conf = settings /\ settings' = settings
  BY <1>1 DEF Itself
<1>7. settings \in Nat /\ settings' \in Nat /\ settings <= settings'
  BY <1>1, TypeParts DEF RestTyped, LiveInv, Itself, Rules
<1>8. \A r \in Routers : load[r].snap \in Nat
  BY DEF ReadersInv, RoutersTyped, LoadRecords, Rules
<1>9. \A d \in Children : reader[d].snap \in Nat /\ proc[d].conf \in Nat
  BY TypeParts DEF ReadersInv, RoutersTyped, ReaderRecords, Rules, LiveInv, Procs, Locals
<1>10. Snaps'
  BY <1>2, <1>6, <1>7, <1>8, <1>9, SMT DEF ReadersInv, Snaps
<1> QED
  BY <1>3, <1>4, <1>5, <1>10 DEF ReadersInv

LEMMA ReadersNextStep ==
    ASSUME LiveInv, ReadersInv, Next
    PROVE  ReadersInv'
<1>1. CASE Live
  BY <1>1, LiveReaders
<1>2. ASSUME NEW r \in Routers, Join(r) \/ Ask(r) \/ Answer(r) \/ Loads(r) \/ Publish(r) \/ PublishFails(r)
      PROVE  ReadersInv'
  BY <1>2, JoinReaders, AskReaders, AnswerReaders, PlanReaders, AcquireReaders, BuildReaders,
     LoadSnapshotReaders, PermitReaders, StartedReaders, StartFailsReaders, LoadFailsReaders,
     AbandonReaders, PublishReaders, PublishFailsReaders DEF Loads
<1>3. ASSUME NEW r \in Routers, Evict(r) \/ Shutdown(r) \/ TakeAgain(r) \/ Stopped(r)
      PROVE  ReadersInv'
  BY <1>3, EvictReaders, ShutdownReaders, TakeAgainReaders, StoppedReaders
<1>4. ASSUME NEW c \in Children, Close(c) \/ Killed(c) \/ Reap(c)
      PROVE  ReadersInv'
  BY <1>4, CloseReaders, KilledReaders, ReapReaders
<1> QED
  BY <1>1, <1>2, <1>3, <1>4 DEF Next

-----------------------------------------------------------------------------
(* A router's step is a step of LiveWorkspace.                             *)

LEMMA LoadsAreRouted ==
    ASSUME TypeOKLive, ReadersInv, NEW r \in Routers, Loads(r)
    PROVE  Routed \/ UNCHANGED liveVars
<1>1. faults \in 0..MaxFaults /\ MaxFaults \in Nat
  BY LiveAssumption DEF TypeOKLive
<1>2. \A kind : Fault(kind) => faults' \in 0..MaxFaults
  BY <1>1, SMT DEF Fault
<1>3. CASE Plan(r) \/ Build(r) \/ LoadSnapshot(r) \/ Started(r)
  BY <1>3 DEF Plan, Build, LoadSnapshot, Started
<1>4. CASE Acquire(r)
  BY <1>1, <1>4 DEF Acquire, Routed
<1>5. CASE Permit(r)
  <2>1. Free \subseteq Children
    BY DEF Free
  <2> QED
    BY <1>1, <1>5, <2>1 DEF Permit, Routed
<1>6. CASE StartFails(r)
  <2>1. load[r].child \in Children
    BY <1>6 DEF StartFails, ReadersInv, Starts, Owned
  <2>2. /\ faults' \in 0..MaxFaults
        /\ Buried(load[r].child) \/ Dies(load[r].child, "none")
    BY <1>1, <1>2, <1>6 DEF StartFails
  <2> QED
    BY <2>1, <2>2 DEF Routed
<1>7. CASE LoadFails(r)
  <2>1. faults' \in 0..MaxFaults
    BY <1>1, <1>2, <1>7 DEF LoadFails
  <2> QED
    BY <1>7, <2>1 DEF LoadFails, Routed
<1>8. CASE Abandon(r)
  <2>1. faults' \in 0..MaxFaults
    BY <1>1, <1>2, <1>8 DEF Abandon
  <2> QED
    BY <1>8, <2>1 DEF Abandon, Routed
<1> QED
  BY <1>3, <1>4, <1>5, <1>6, <1>7, <1>8 DEF Loads

LEMMA StepIsLive ==
    ASSUME TypeOKLive, ReadersInv, [Next]_vars
    PROVE  [LiveNext]_liveVars
<1>1. faults \in 0..MaxFaults /\ MaxFaults \in Nat
  BY LiveAssumption DEF TypeOKLive
<1>2. \A kind : Fault(kind) => faults' \in 0..MaxFaults
  BY <1>1, SMT DEF Fault
<1>3. CASE Live
  BY <1>3 DEF Live, LiveNext
<1>4. ASSUME NEW r \in Routers, Join(r) \/ Ask(r) \/ Answer(r) \/ Evict(r) \/ Shutdown(r) \/ TakeAgain(r) \/ Stopped(r)
      PROVE  UNCHANGED liveVars
  BY <1>4 DEF Join, Ask, Answer, Evict, Shutdown, TakeAgain, Stopped
<1>5. ASSUME NEW r \in Routers, Loads(r)
      PROVE  Routed \/ UNCHANGED liveVars
  BY <1>5, LoadsAreRouted
<1>6. ASSUME NEW r \in Routers, Publish(r)
      PROVE  Routed
  <2>1. job[r].text \in 0..MaxEdits /\ job[r].rules \in Rules
    BY DEF ReadersInv, JobsTyped
  <2> QED
    BY <1>1, <1>6, <2>1 DEF Publish, Routed
<1>7. ASSUME NEW r \in Routers, PublishFails(r)
      PROVE  Routed
  BY <1>1, <1>7 DEF PublishFails, Routed
<1>8. ASSUME NEW c \in Children, Close(c) \/ Reap(c)
      PROVE  Routed
  BY <1>1, <1>8 DEF Close, Reap, Routed
<1>9. ASSUME NEW c \in Children, Killed(c)
      PROVE  Routed
  BY <1>2, <1>9 DEF Killed, Routed
<1>10. CASE UNCHANGED vars
  BY <1>10 DEF vars, liveVars
<1> QED
  BY <1>3, <1>4, <1>5, <1>6, <1>7, <1>8, <1>9, <1>10 DEF Next, LiveNext

-----------------------------------------------------------------------------
(* The theorems.                                                           *)

LEMMA InitReaders == Init => LiveInv /\ ReadersInv
<1> SUFFICES ASSUME Init PROVE LiveInv /\ ReadersInv
  OBVIOUS
<1>1. LiveInv
  BY InitLive DEF Init
<1>2. settings = 0 /\ 0 \in Rules /\ 0 \in 0..MaxEdits /\ MaxWorkers \in Nat
  BY LiveAssumption, ReadersAssumption DEF Init, LiveInit, Rules
<1>3. IdleLoad \in LoadRecords /\ NoReader \in ReaderRecords /\ IdleJob \in JobRecords
  BY <1>2, SMT DEF IdleLoad, LoadRecords, LoadStates, NoReader, ReaderRecords, IdleJob, JobRecords
<1>4. RoutersTyped /\ JobsTyped
  BY <1>3 DEF Init, RoutersTyped, JobsTyped, JobRecords
<1>5. \A r \in Routers : Owned(r) = {}
  BY LiveAssumption DEF Init, Owned, NoReader
<1>6. IsFiniteSet({}) /\ Cardinality({}) = 0
  BY FS_EmptySet
<1>7. Capacity
  BY <1>2, <1>5, <1>6 DEF Init, Capacity
<1>8. Starts /\ Tasks
  BY <1>5 DEF Init, Starts, Tasks, IdleLoad
<1>9. Pins /\ Snaps
  BY <1>2, LiveAssumption DEF Init, LiveInit, Pins, Refs, Snaps, IdleLoad, NoReader, Fresh, Booted, At
<1> QED
  BY <1>1, <1>4, <1>7, <1>8, <1>9 DEF ReadersInv

LEMMA ReadersStep ==
    ASSUME LiveInv, ReadersInv, [Next]_vars
    PROVE  LiveInv' /\ ReadersInv'
<1>1. LiveInv'
  BY StepIsLive, LiveNextStep DEF LiveInv
<1>2. CASE Next
  BY <1>1, <1>2, ReadersNextStep
<1>3. CASE UNCHANGED vars
  BY <1>1, <1>3, StillReaders, SameJobs DEF vars
<1> QED
  BY <1>1, <1>2, <1>3

\* The inductive invariant of the routers and their readers.
THEOREM ReadersInvariant == Spec => [](LiveInv /\ ReadersInv)
<1>1. LiveInv /\ ReadersInv /\ [Next]_vars => (LiveInv /\ ReadersInv)'
  BY ReadersStep
<1> QED
  BY <1>1, InitReaders, PTL DEF Spec

\* The routers implement the freedom LiveWorkspace leaves them: what workers.rs
\* and bootstrap.rs do to the processes, the lease and the index is no more.
THEOREM ReadersImplementLive == Spec => LiveSpec
<1>1. Init => LiveInit
  BY DEF Init
<1>2. LiveInv /\ ReadersInv /\ [Next]_vars => [LiveNext]_liveVars
  BY StepIsLive DEF LiveInv
<1> QED
  BY <1>1, <1>2, ReadersInvariant, PTL DEF Spec, LiveSpec

\* Every variable keeps its type; the permits, too, never more than MAX_WORKERS.
THEOREM TypeCorrectness == Spec => []TypeOK
<1>1. LiveInv /\ ReadersInv => TypeOK
  <2> SUFFICES ASSUME LiveInv, ReadersInv PROVE TypeOK
    OBVIOUS
  <2>1. permits \in [Routers -> 0..MaxWorkers]
    <3>1. \A r \in Routers : Cardinality(Owned(r)) \in Nat
      BY FS_CardinalityType DEF ReadersInv, Capacity
    <3>2. \A r \in Routers : permits[r] \in 0..MaxWorkers
      BY <3>1, ReadersAssumption, SMT DEF ReadersInv, Capacity
    <3> QED
      BY <3>2 DEF ReadersInv, Capacity
  <2> QED
    BY <2>1 DEF TypeOK, LiveInv, ReadersInv, RoutersTyped, JobsTyped, LoadRecords, LoadStates, ReaderRecords
<1> QED
  BY <1>1, ReadersInvariant, PTL

\* Whoever may change the index has it open at its last commit, whatever the
\* routers start, publish, evict and kill.
THEOREM WritersAreCurrent == Spec => []WriterIsCurrent
BY ReadersImplementLive, LiveWriterIsCurrent, PTL

\* A reader that reports to be watching, with nothing to handle, is current.
THEOREM WatchersAreCurrent == Spec => []WatchingIsCurrent
BY ReadersImplementLive, LiveWatchingIsCurrent, PTL

\* A reader in a slot whose snapshot is of the present settings answers from the
\* present tree under the present settings: the snapshot is never newer than
\* what the child has read, nor that newer than the settings.
THEOREM FreshIsCurrent == Spec => []FreshReadersAreCurrent
<1>1. LiveInv /\ ReadersInv => FreshReadersAreCurrent
  <2> SUFFICES ASSUME LiveInv, ReadersInv, NEW r \in Routers, NEW c \in Children,
                      reader[c].snap = settings,
                      At(c, {"watching"}), ~proc[c].stop, ~proc[c].dirty
               PROVE  index = [text |-> tree, rules |-> settings]
    BY DEF FreshReadersAreCurrent
  <2>1. index = [text |-> tree, rules |-> proc[c].conf]
    BY DEF LiveInv, WatchingIsCurrent
  <2>2. Booted(c)
    BY DEF Booted, At
  <2>3. settings <= proc[c].conf /\ proc[c].conf <= settings
    BY <2>2 DEF ReadersInv, Snaps
  <2>4. settings \in Nat /\ proc[c].conf \in Nat
    BY TypeParts DEF LiveInv, RestTyped, Procs, Locals, Rules
  <2>5. proc[c].conf = settings
    BY <2>3, <2>4
  <2> QED
    BY <2>1, <2>5
<1> QED
  BY <1>1, ReadersInvariant, PTL

\* The capacity bounds processes, not entries: what a router may still start
\* and what it has running are never more than MAX_WORKERS.
THEOREM CapacityBoundsProcesses == Spec => []CapacityIsPhysical
<1>1. ReadersInv => CapacityIsPhysical
  <2> SUFFICES ASSUME ReadersInv, NEW r \in Routers
               PROVE  permits[r] + Cardinality({c \in Owned(r) : Alive(c)}) <= MaxWorkers
    BY DEF CapacityIsPhysical
  <2>1. /\ IsFiniteSet(Owned(r)) /\ permits[r] \in Nat
        /\ permits[r] + Cardinality(Owned(r)) = MaxWorkers
    BY DEF ReadersInv, Capacity
  <2>2. {c \in Owned(r) : Alive(c)} \subseteq Owned(r)
    OBVIOUS
  <2>3. /\ Cardinality({c \in Owned(r) : Alive(c)}) <= Cardinality(Owned(r))
        /\ IsFiniteSet({c \in Owned(r) : Alive(c)})
    BY <2>1, <2>2, FS_Subset
  <2>4. Cardinality({c \in Owned(r) : Alive(c)}) \in Nat /\ Cardinality(Owned(r)) \in Nat
    BY <2>1, <2>3, FS_CardinalityType
  <2> QED
    BY <2>1, <2>3, <2>4
<1> QED
  BY <1>1, ReadersInvariant, PTL

\* Neither a refresh nor an eviction closes a reader under a query.
THEOREM PinsHold == Spec => []PinnedReadersStay
<1>1. ReadersInv => \A r \in Routers, c \in Children : c \in Refs(r) /\ Running(r) => ~proc[c].stop
  BY DEF ReadersInv, Pins
<1>2. \A r \in Routers, c \in Children : query[r] = c => c \in Refs(r)
  BY DEF Refs
<1>3. ReadersInv => PinnedReadersStay
  BY <1>1, <1>2 DEF PinnedReadersStay
<1> QED
  BY <1>3, ReadersInvariant, PTL

\* A router that has shut down has left no process behind.
THEOREM NothingIsLeft == Spec => []NoProcessIsLeft
<1>1. ReadersInv => NoProcessIsLeft
  <2> SUFFICES ASSUME ReadersInv, NEW r \in Routers, phase[r] = "stopped"
               PROVE  Owned(r) = {}
    BY DEF NoProcessIsLeft
  <2>1. tasks[r] = {} /\ taken[r] = {}
    BY DEF ReadersInv, Tasks
  <2>2. load[r].at = "idle"
    BY <2>1 DEF ReadersInv, Tasks
  <2>3. \A c \in Owned(r) : FALSE
    BY <2>1, <2>2 DEF ReadersInv, Tasks
  <2> QED
    BY <2>3
<1> QED
  BY <1>1, ReadersInvariant, PTL
=============================================================================
