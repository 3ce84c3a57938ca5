-------------------------- MODULE WorkspaceReaders --------------------------
(***************************************************************************)
(* The routers of a workspace (src/src/cli/workspace/mcp/workers.rs,       *)
(* bootstrap.rs, budget.rs), one per connection, over the reader processes *)
(* of LiveWorkspace.  A router keeps a slot for the workspace, answers its *)
(* queries through the reader in it, looks at most once a second whether   *)
(* the reader still is of the present settings, replaces it, publishes a   *)
(* first index where there is none, bounds its processes by permits,       *)
(* evicts what is idle and ends every task and process with itself.        *)
(*                                                                         *)
(* Abstractions.  One workspace, and of the queries of a connection the    *)
(* one that pins a reader longest; those that wait for a load take what is *)
(* in the slot when it is over.  The second between two looks and the five *)
(* idle minutes are the event that they are over.  A plan of a first index *)
(* whose caller has given up holds the lease for a moment and is left out; *)
(* a publication whose caller has given up goes on.  Workspaces without    *)
(* any source file, and the document revisions in the snapshot, are left   *)
(* out.                                                                    *)
(***************************************************************************)
EXTENDS LiveWorkspace, FiniteSets

CONSTANTS
    MaxWorkers,    \* MAX_WORKERS, the reader processes a router may own
    Ending         \* the routers whose connection may close

ASSUME ReadersAssumption == MaxWorkers \in Nat /\ Ending \subseteq Routers

VARIABLES
    slot,      \* per router: the reader that is ready in the workspace's slot
    load,      \* the load task behind the slot
    job,       \* the first index a router is making
    query,     \* the reader that its query pins
    permits,   \* free processes
    reader,    \* per process: its router, and the settings of its snapshot
    phase,     \* per router: "running", "stopping" or "stopped"
    tasks,     \* its tasks in the list of tasks: a load is its router, or readers
    taken      \* those that shutdown is waiting for

pool   == <<permits, reader, tasks>>
ending == <<phase, taken>>
readersVars == <<slot, load, job, query, permits, reader, phase, tasks, taken>>
vars == <<tree, settings, index, lease, known, proc, cli, faults,
          slot, load, job, query, permits, reader, phase, tasks, taken>>

IdleLoad == [at |-> "idle", prev |-> Nobody, snap |-> 0, child |-> Nobody]
IdleJob  == [at |-> "none", text |-> 0, rules |-> 0]
NoReader == [owner |-> Nobody, snap |-> 0]

TypeOK ==
    /\ TypeOKLive
    /\ slot \in [Routers -> Children \cup {Nobody}]
    /\ load \in [Routers -> [at : {"idle", "plan", "acquire", "build", "publish",
                                   "snapshot", "permit", "start"},
                             prev : Children \cup {Nobody}, snap : Rules,
                             child : Children \cup {Nobody}]]
    /\ job \in [Routers -> [at : {"none", "building", "publishing"}, text : 0..MaxEdits, rules : Rules]]
    /\ query \in [Routers -> Children \cup {Nobody}]
    /\ permits \in [Routers -> 0..MaxWorkers]
    /\ reader \in [Children -> [owner : Routers \cup {Nobody}, snap : Rules]]
    /\ phase \in [Routers -> {"running", "stopping", "stopped"}]
    /\ tasks \in [Routers -> SUBSET (Children \cup Routers)]
    /\ taken \in [Routers -> SUBSET (Children \cup Routers)]

Init ==
    /\ LiveInit
    /\ slot = [r \in Routers |-> Nobody]
    /\ load = [r \in Routers |-> IdleLoad]
    /\ job = [r \in Routers |-> IdleJob]
    /\ query = [r \in Routers |-> Nobody]
    /\ permits = [r \in Routers |-> MaxWorkers]
    /\ reader = [c \in Children |-> NoReader]
    /\ phase = [r \in Routers |-> "running"]
    /\ tasks = [r \in Routers |-> {}] /\ taken = tasks

Running(r) == phase[r] = "running"
Owned(r)   == {c \in Children : reader[c].owner = r}

\* Mutant: a query does not hold on to its reader.
ReferencedUnpinned(c) == \E r \in Routers : c \in {slot[r], load[r].prev, load[r].child}

\* Who holds an Arc of a reader: the slot, a load that may use it again, a query.
Referenced(c) == \E r \in Routers : c \in {slot[r], load[r].prev, load[r].child, query[r]}

-----------------------------------------------------------------------------
(* Queries.                                                                *)

\* A query takes the reader that is there.
Join(r) ==
    /\ Running(r) /\ query[r] = Nobody
    /\ \E c \in Children : slot[r] = c /\ Alive(c) /\ query' = [query EXCEPT ![r] = c]
    /\ UNCHANGED <<liveVars, slot, load, job, pool, ending>>

\* Nothing is loaded, the time to look again has come, or the reader's
\* transport is closed: the query starts a load, and the slot forgets its reader.
Ask(r) ==
    /\ Running(r) /\ load[r].at = "idle"
    /\ slot' = [slot EXCEPT ![r] = Nobody]
    /\ load' = [load EXCEPT ![r].prev = slot[r],
                            ![r].at = IF slot[r] = Nobody THEN "plan" ELSE "snapshot"]
    /\ tasks' = [tasks EXCEPT ![r] = @ \cup {r}]
    /\ UNCHANGED <<liveVars, job, query, permits, reader, ending>>

\* Answered, cancelled or timed out.
Answer(r) ==
    /\ query[r] # Nobody
    /\ query' = [query EXCEPT ![r] = Nobody]
    /\ UNCHANGED <<liveVars, slot, load, job, pool, ending>>

-----------------------------------------------------------------------------
(* A load.                                                                 *)

\* The load is over.  After shutdown began, the slot is in no map.
Finish(r, c, listed) ==
    /\ slot' = [slot EXCEPT ![r] = IF Running(r) THEN c ELSE Nobody]
    /\ load' = [load EXCEPT ![r] = IdleLoad]
    /\ tasks' = [tasks EXCEPT ![r] = (@ \ {r}) \cup listed]
    /\ taken' = [taken EXCEPT ![r] = @ \ {r}]

\* It ends with no reader: the queries are told why.
Told(r) == Finish(r, Nobody, {}) /\ UNCHANGED <<query, permits, reader, phase>>

Moves(r, at) ==
    /\ load' = [load EXCEPT ![r].at = at]
    /\ UNCHANGED <<slot, query, pool, ending>>

\* First use: is there an index?  An incomplete one is never replaced.
Plan(r) ==
    /\ load[r].at = "plan" /\ Running(r)
    /\ \/ index \in Rows /\ Moves(r, "snapshot")
       \/ index = Partial /\ Told(r)
       \/ /\ index = None
          /\ load' = [load EXCEPT ![r].at = "acquire", ![r].snap = settings]
          /\ UNCHANGED <<slot, query, pool, ending>>
    /\ UNCHANGED <<liveVars, job>>

\* The lease, and the bootstrap lock against this router's own publication.
Acquire(r) ==
    /\ load[r].at = "acquire" /\ Running(r)
    /\ \/ lease # Nobody /\ Told(r) /\ UNCHANGED <<liveVars, job>>
       \/ lease = Nobody /\ index \in Rows /\ Moves(r, "snapshot") /\ UNCHANGED <<liveVars, job>>
       \/ /\ index \notin Rows
          /\ TakeLease(r) /\ UNCHANGED faults
          /\ job' = [job EXCEPT ![r] = [at |-> "building", text |-> 0, rules |-> load[r].snap]]
          /\ Moves(r, "build")

\* The first index is built in private.
Build(r) ==
    /\ load[r].at = "build" /\ job[r].at = "building"
    /\ job' = [job EXCEPT ![r].at = "publishing", ![r].text = tree]
    /\ Moves(r, "publish")
    /\ UNCHANGED liveVars

\* It is published if the settings are still those it was planned with.
Publish(r) ==
    /\ job[r].at = "publishing"
    /\ settings = job[r].rules /\ index = None
    /\ PublishFirst(r, job[r].text, job[r].rules)
    /\ job' = [job EXCEPT ![r] = IdleJob]
    /\ IF load[r].at = "publish" THEN load' = [load EXCEPT ![r].at = "snapshot"] ELSE UNCHANGED load
    /\ UNCHANGED <<faults, slot, query, pool, ending>>

PublishFails(r) ==
    /\ job[r].at = "publishing"
    /\ \/ settings # job[r].rules
       \/ index # None
       \/ load[r].at # "publish" \* cancelled with its caller
    /\ DropLease(r) /\ UNCHANGED faults
    /\ job' = [job EXCEPT ![r] = IdleJob]
    /\ IF load[r].at = "publish" THEN Told(r) ELSE UNCHANGED <<slot, load, query, pool, ending>>

\* Mutant: a reader that is followed live is used again under other settings.
ReusableAlive == {c \in Children : Alive(c)}

\* The readers whose snapshot is of the present settings.
Reusable == {c \in Children : Alive(c) /\ reader[c].snap = settings}

\* The snapshot is taken before the reader it is kept with is started.  A
\* reader of the same settings is used again.
LoadSnapshot(r) ==
    /\ load[r].at = "snapshot" /\ Running(r) /\ index \in Rows
    /\ \/ /\ load[r].prev \in Reusable
          /\ Finish(r, load[r].prev, {}) /\ UNCHANGED <<query, permits, reader, phase>>
       \/ /\ load[r].prev \notin Reusable
          /\ load' = [load EXCEPT ![r].at = "permit", ![r].prev = Nobody, ![r].snap = settings]
          /\ UNCHANGED <<slot, query, pool, ending>>
    /\ UNCHANGED <<liveVars, job>>

\* Which process a new one is makes no difference.
Free == {c \in Children : reader[c] = NoReader /\ At(c, {"none"}) /\ ~Referenced(c)}

\* A new process, once there is a permit.
Permit(r) ==
    /\ load[r].at = "permit" /\ permits[r] > 0
    /\ permits' = [permits EXCEPT ![r] = @ - 1]
    /\ Free # {}
    /\ LET c == CHOOSE free \in Free : TRUE IN
          /\ Spawn(c) /\ UNCHANGED faults
          /\ reader' = [reader EXCEPT ![c] = [owner |-> r, snap |-> load[r].snap]]
          /\ load' = [load EXCEPT ![r].at = "start", ![r].child = c]
    /\ UNCHANGED <<slot, job, query, tasks, ending>>

\* Mutant: the snapshot is taken of the settings there are when the reader has
\* started.
StartedSnapshot(r) ==
    /\ load[r].at = "start" /\ Booted(load[r].child)
    /\ Finish(r, load[r].child, {load[r].child})
    /\ reader' = [reader EXCEPT ![load[r].child].snap = settings]
    /\ UNCHANGED <<liveVars, job, query, permits, phase>>

\* The task that keeps the permit is in the list before the load is over.
Started(r) ==
    /\ load[r].at = "start" /\ Booted(load[r].child)
    /\ Finish(r, load[r].child, {load[r].child})
    /\ UNCHANGED <<liveVars, job, query, permits, reader, phase>>

\* A reader that does not start is killed, and waited for.
StartFails(r) ==
    /\ load[r].at = "start"
    /\ LET c == load[r].child IN
       /\ \/ Buried(c) /\ UNCHANGED faults
          \/ Dies(c, "none") /\ ~Running(r) /\ UNCHANGED faults
          \/ Dies(c, "none") /\ Fault("load")
       /\ reader' = [reader EXCEPT ![c] = NoReader]
    /\ permits' = [permits EXCEPT ![r] = @ + 1]
    /\ Finish(r, Nobody, {})
    /\ UNCHANGED <<job, query, phase>>

\* Cancelled, out of time, or without the index it had planned to read.
LoadFails(r) ==
    /\ load[r].at \in {"plan", "acquire", "build", "snapshot", "permit"}
    /\ \/ ~Running(r) /\ UNCHANGED faults
       \/ Fault("load")
       \/ load[r].at = "snapshot" /\ index \notin Rows /\ UNCHANGED faults
       \/ load[r].at = "permit" /\ permits[r] = 0 /\ UNCHANGED faults
    /\ IF load[r].at = "build"
       THEN DropLease(r) /\ job' = [job EXCEPT ![r] = IdleJob]
       ELSE UNCHANGED <<world, index, lease, known, proc, cli, job>>
    /\ Told(r)

\* The caller of a publication gives up on it; the closure goes on.
Abandon(r) ==
    /\ load[r].at = "publish"
    /\ \/ ~Running(r) /\ UNCHANGED faults
       \/ Fault("load")
    /\ Told(r)
    /\ UNCHANGED <<world, index, lease, known, proc, cli, job>>

Loads(r) ==
    \/ Plan(r) \/ Acquire(r) \/ Build(r) \/ LoadSnapshot(r) \/ Permit(r)
    \/ Started(r) \/ StartFails(r) \/ LoadFails(r) \/ Abandon(r)

-----------------------------------------------------------------------------
(* The end of a reader.                                                    *)

\* Its last Arc is dropped, or its router ends: its standard input is closed.
Close(c) ==
    /\ \E r \in Routers :
          /\ reader[c].owner = r /\ load[r].child # c
          /\ ~Referenced(c) \/ ~Running(r)
    /\ Hangup(c) /\ UNCHANGED <<faults, readersVars>>

\* It crashes, or is killed as it has not ended in ten seconds.
Killed(c) ==
    /\ Fault("crash")
    /\ Dies(c, "gone")
    /\ UNCHANGED readersVars

\* Mutant: the permit goes with the transport.
ReapEarly(c) ==
    /\ \E r \in Routers :
          /\ reader[c].owner = r /\ load[r].child # c
          /\ permits' = [permits EXCEPT ![r] = @ + 1]
    /\ proc[c].stop
    /\ UNCHANGED <<liveVars, slot, load, job, query, reader, phase, tasks, taken>>

\* The permit is kept until the process has been seen to exit.
Reap(c) ==
    /\ \E r \in Routers :
          /\ reader[c].owner = r /\ load[r].child # c
          /\ permits' = [permits EXCEPT ![r] = @ + 1]
          /\ tasks' = [tasks EXCEPT ![r] = @ \ {c}]
          /\ taken' = [taken EXCEPT ![r] = @ \ {c}]
    /\ Buried(c) /\ UNCHANGED faults
    /\ reader' = [reader EXCEPT ![c] = NoReader]
    /\ UNCHANGED <<slot, load, job, query, phase>>

\* Where a process is within five minutes, unless something is slow: then the
\* eviction is as a load that fails.
Settled(c) ==
    \/ At(c, {"none"})
    \/ Referenced(c) /\ At(c, {"watching", "failed"})
    \/ Referenced(c) /\ At(c, {"waiting"}) /\ lease # Nobody

\* The slot has been idle for five minutes, and nothing pins it.
Evict(r) ==
    /\ Running(r) /\ load[r].at = "idle" /\ query[r] = Nobody
    /\ slot[r] # Nobody /\ \A c \in Children : Settled(c)
    /\ slot' = [slot EXCEPT ![r] = Nobody]
    /\ UNCHANGED <<liveVars, load, job, query, pool, ending>>

-----------------------------------------------------------------------------
(* Shutdown.                                                               *)

\* The connection has closed, and its queries with it.
Shutdown(r) ==
    /\ r \in Ending /\ Running(r)
    /\ phase' = [phase EXCEPT ![r] = "stopping"]
    /\ slot' = [slot EXCEPT ![r] = Nobody] /\ query' = [query EXCEPT ![r] = Nobody]
    /\ taken' = [taken EXCEPT ![r] = tasks[r]] /\ tasks' = [tasks EXCEPT ![r] = {}]
    /\ UNCHANGED <<liveVars, load, job, permits, reader>>

\* What the tasks it waited for have added to the list meanwhile.
TakeAgain(r) ==
    /\ phase[r] = "stopping" /\ taken[r] = {} /\ tasks[r] # {}
    /\ taken' = [taken EXCEPT ![r] = tasks[r]] /\ tasks' = [tasks EXCEPT ![r] = {}]
    /\ UNCHANGED <<liveVars, slot, load, query, job, permits, reader, phase>>

\* Mutant: shutdown takes the list once.
StoppedAtOnce(r) ==
    /\ phase[r] = "stopping" /\ taken[r] = {}
    /\ phase' = [phase EXCEPT ![r] = "stopped"]
    /\ UNCHANGED <<liveVars, slot, load, query, job, pool, taken>>

Stopped(r) ==
    /\ phase[r] = "stopping" /\ taken[r] = {} /\ tasks[r] = {}
    /\ phase' = [phase EXCEPT ![r] = "stopped"]
    /\ UNCHANGED <<liveVars, slot, load, query, job, pool, taken>>

-----------------------------------------------------------------------------

\* Bound: editors and explicit runs begin nothing when every connection has closed.
Live == /\ \/ (\E r \in Routers : Running(r)) /\ (EditTree \/ EditSettings \/ CliStarts)
           \/ \E c \in Children : Runs(c) \/ WriterFails(c)
           \/ CliCommits \/ CliDies
        /\ UNCHANGED readersVars

Next ==
    \/ Live
    \/ \E r \in Routers :
          \/ Join(r) \/ Ask(r) \/ Answer(r)
          \/ Loads(r) \/ Publish(r) \/ PublishFails(r)
          \/ Evict(r) \/ Shutdown(r) \/ TakeAgain(r) \/ Stopped(r)
    \/ \E c \in Children : Close(c) \/ Killed(c) \/ Reap(c)

Spec == Init /\ [][Next]_vars

\* Clients keep asking, and every process and task is scheduled: no step of
\* theirs waits for anything but the lease, a permit or its own time limit.
Fairness ==
    /\ \A c \in Children : /\ WF_vars(Runs(c) /\ UNCHANGED readersVars)
                           /\ WF_vars(Close(c) \/ Reap(c))
    /\ WF_vars(CliCommits /\ UNCHANGED readersVars)
    /\ \A r \in Routers : /\ WF_vars(Ask(r) \/ Loads(r) \/ TakeAgain(r) \/ Stopped(r))
                          /\ WF_vars(Publish(r) \/ PublishFails(r))
                          /\ WF_vars(Answer(r))
FairSpec == Spec /\ Fairness

-----------------------------------------------------------------------------
(* Properties.                                                             *)

\* Freshness is honest across processes: a reader that its router would use
\* again, because the snapshot it was loaded with is of the present settings,
\* and that reports to be watching with nothing left to handle, answers from
\* the present tree under the present settings.  Settings may change between
\* the router's snapshot, the child's reading of them and its own stamp.
FreshReadersAreCurrent ==
    \A r \in Routers, c \in Children :
        /\ slot[r] = c /\ reader[c].snap = settings
        /\ At(c, {"watching"}) /\ ~proc[c].stop /\ ~proc[c].dirty
        => index = [text |-> tree, rules |-> settings]

\* The processes a router may still start and those it has, of which those that
\* were evicted or replaced and have not ended yet, are never more than
\* MAX_WORKERS.
CapacityIsPhysical ==
    \A r \in Routers : permits[r] + Cardinality({c \in Owned(r) : Alive(c)}) <= MaxWorkers

\* A reader is not closed under a query: not by a refresh that replaces it,
\* and not by an eviction.
PinnedReadersStay ==
    \A r \in Routers, c \in Children :
        query[r] = c /\ proc[c].stop => ~Running(r)

\* A router that has shut down has left no process behind, those that a load
\* started while it was shutting down included.
NoProcessIsLeft ==
    \A r \in Routers : phase[r] = "stopped" => Owned(r) = {}

\* When edits and failures end, every shutdown comes to its end, and while some
\* connection is open, and asked, the index comes to agree with the tree and the
\* settings: unless an explicit run died with an index it had just started, or
\* a reader has failed, which its router keeps as long as the settings stay.
Converges ==
    <>[](/\ \A r \in Routers : phase[r] # "stopping"
         /\ \/ \A r \in Routers : phase[r] = "stopped"
            \/ index = Partial
            \/ \E c \in Children : At(c, {"failed"}) /\ reader[c].snap = settings
            \/ index = [text |-> tree, rules |-> settings])
=============================================================================
