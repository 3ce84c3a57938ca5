---------------------- MODULE DocumentReconciliations ----------------------
(***************************************************************************)
(* The document and settings lane of the watcher's task                    *)
(* (src/src/watcher/unified.rs, config_reload.rs): events become one       *)
(* pending truth scan per collection, a settings file becomes a proposal   *)
(* that is published with the document index or put back, and both are     *)
(* retried with backoff.                                                   *)
(*                                                                         *)
(* Abstractions.  A collection is one directory below a directory that is  *)
(* always watched, its documents are one text, and what settings say of it *)
(* one value.  Deadlines, doubling and their caps are the event that the   *)
(* time has come.  The document index is one step here; its inside is      *)
(* DocumentGenerations, of which is kept that a generation may be          *)
(* committed that the store in memory has not adopted (ahead).  The code   *)
(* lane of the same task is CodeWatcher.                                   *)
(***************************************************************************)
EXTENDS Naturals, Sequences

CONSTANTS
    Collections, Texts, Configs,
    Gone,           \* the text of a collection whose directory is not there
    Off,            \* what a policy says of a collection that is not indexed
    None,
    Policies,       \* settings the file may hold
    InitPolicy,     \* the settings the server started with
    InitText,       \* the documents it started with
    Unusable,       \* settings that cannot be read
    Inadmissible,   \* settings that are read but refused
    Unsettled,      \* whether directories come and go while settings change
    FaultKinds,     \* which errors there are
    QueueSize,      \* bound: native events waiting
    MaxEdits,       \* bound: edits of documents and settings
    MaxFaults       \* bound: errors

ASSUME ReconciliationsAssumption ==
    /\ Policies \subseteq [Collections -> Configs \cup {Off}] /\ InitPolicy \in Policies
    /\ InitText \in [Collections -> Texts \cup {Gone}]
    /\ Gone \notin Texts /\ Off \notin Configs
    /\ Unusable \notin Policies /\ Inadmissible \notin Policies /\ Unusable # Inadmissible
    /\ None \notin [config : Configs, refresh : BOOLEAN, due : BOOLEAN]
    /\ None \notin [text : Texts, config : Configs]
    /\ None \notin [Collections -> [text : Texts, config : Configs] \cup {None}]
    /\ None \notin [settings : Policies \cup {Inadmissible}, due : BOOLEAN]
    /\ Unsettled \in BOOLEAN
    /\ FaultKinds \subseteq {"watch", "apply", "adopt", "scan", "strand", "code"}
    /\ QueueSize \in Nat /\ MaxEdits \in Nat /\ MaxFaults \in Nat

VARIABLES
    text,         \* per collection: what its documents say
    settings,     \* what the settings file says
    watched,      \* the directories with a living native watch
    events,       \* native events received by nobody yet
    overflow,     \* event_overflowed
    registered,   \* the directories in the path registry
    roots,        \* handler_roots
    debounced,    \* the settings file in the debouncer: "none", "fresh" or "quiet"
    policy,       \* the running settings: handlers, active, facade
    proposal,     \* pending_config
    proposed,     \* the watches installed for the proposal being applied
    pending,      \* document_reconciliations
    batch,        \* the scans taken from it
    index,        \* per collection: what the document store answers
    ahead,        \* what is committed and was not adopted, or None
    reload,       \* an IndexReloaded broadcast is under way
    lane,         \* where the watcher's task is
    edits, faults

world   == <<text, settings, edits>>
native  == <<events, overflow>>
watches == <<watched, registered, roots>>
config  == <<debounced, policy, proposal, proposed>>
queue   == <<pending, batch>>
store   == <<index, ahead>>
vars == <<text, settings, watched, events, overflow, registered, roots, debounced, policy,
          proposal, proposed, pending, batch, index, ahead, reload, lane, edits, faults>>

Exists(c)  == text[c] # Gone
Active(p)  == {c \in Collections : p[c] # Off}
\* The roots a handler of policy p watches.
WatchRoots(p) == {c \in Active(p) : Exists(c)}

Rows(c, k) == IF Exists(c) THEN [text |-> text[c], config |-> k] ELSE None
Scanned(p) == [c \in Collections |-> IF p[c] = Off THEN None ELSE Rows(c, p[c])]

Fault(kind) ==
    /\ kind \in FaultKinds /\ faults < MaxFaults
    /\ faults' = faults + 1

Init ==
    /\ text = InitText
    /\ settings = InitPolicy /\ policy = InitPolicy
    /\ watched = WatchRoots(policy) /\ registered = watched /\ roots = watched
    /\ events = <<>> /\ overflow = FALSE
    /\ debounced = "none" /\ proposal = None /\ proposed = {}
    /\ pending = [c \in Collections |-> None] /\ batch = pending
    /\ index = Scanned(policy) /\ ahead = None
    /\ reload = FALSE /\ lane = "idle"
    /\ edits = 0 /\ faults = 0

-----------------------------------------------------------------------------
(* Editors, and the native callback.                                       *)

FileEvent(c)  == [kind |-> "file", of |-> c]
RootEvent(c)  == [kind |-> "root", of |-> c]
SettingsEvent == [kind |-> "settings", of |-> None]

Queued(event) == \E k \in DOMAIN events : events[k] = event

\* A full queue latches the request to reconcile.
Notify(event) ==
    \/ /\ Len(events) < QueueSize
       /\ events' = Append(events, event)
       /\ UNCHANGED overflow
    \/ /\ Len(events) >= QueueSize
       /\ overflow' = TRUE
       /\ UNCHANGED events

Edit ==
    /\ edits < MaxEdits
    /\ edits' = edits + 1
    /\ UNCHANGED <<registered, roots, config, queue, store, reload, lane, faults>>

WriteDocument(c, t) ==
    /\ Edit
    /\ Exists(c) /\ t # text[c]
    /\ text' = [text EXCEPT ![c] = t]
    /\ \/ c \in watched /\ Notify(FileEvent(c))
       \/ c \notin watched /\ UNCHANGED native
    /\ UNCHANGED <<settings, watched>>

\* Every root that should have a watch has one, and settings are at rest.
RootsSettled    == WatchRoots(policy) \subseteq watched
SettingsSettled ==
    /\ settings = policy /\ proposal = None /\ debounced = "none" /\ ahead = None
    /\ ~ Queued(SettingsEvent) /\ ~ overflow

\* A directory goes with its watch; the one above reports it.
RemoveRoot(c) ==
    /\ Edit
    /\ Unsettled \/ SettingsSettled
    /\ Exists(c)
    /\ text' = [text EXCEPT ![c] = Gone]
    /\ watched' = watched \ {c}
    /\ Notify(RootEvent(c))
    /\ UNCHANGED settings

CreateRoot(c, t) ==
    /\ Edit
    /\ Unsettled \/ SettingsSettled
    /\ ~ Exists(c)
    /\ text' = [text EXCEPT ![c] = t]
    /\ Notify(RootEvent(c))
    /\ UNCHANGED <<settings, watched>>

WriteSettings(p) ==
    /\ Edit
    /\ Unsettled \/ RootsSettled
    /\ p # settings
    /\ settings' = p
    /\ Notify(SettingsEvent)
    /\ UNCHANGED <<text, watched>>

Editors ==
    \/ \E c \in Collections : RemoveRoot(c)
    \/ \E c \in Collections, t \in Texts : WriteDocument(c, t) \/ CreateRoot(c, t)
    \/ \E p \in Policies \cup {Unusable, Inadmissible} : WriteSettings(p)

-----------------------------------------------------------------------------
(* Receipt: handle_event_at.                                               *)

\* New work waits for its burst to end.  Work that is there keeps its backoff,
\* and is put off by new events for a bounded time only.
Record(cs, refresh) ==
    \E putOff \in BOOLEAN :
        pending' = [c \in Collections |->
            IF c \notin cs THEN pending[c]
            ELSE IF pending[c] = None
                 THEN [config |-> policy[c], refresh |-> refresh, due |-> FALSE]
                 ELSE [config |-> policy[c], refresh |-> refresh \/ pending[c].refresh,
                       due |-> pending[c].due /\ ~ putOff]]

Received ==
    /\ lane = "idle" /\ events # <<>>
    /\ events' = Tail(events)
    /\ UNCHANGED <<world, overflow, watches, policy, proposed, batch, store, reload, lane, faults>>

\* Mutant: the proposal is replaced when the newer file is loaded, not before.
ReceiveSettingsQuietly ==
    /\ Received
    /\ Head(events) = SettingsEvent
    /\ debounced' = "fresh"
    /\ UNCHANGED <<proposal, pending>>

\* A newer edit supersedes the proposal at once.
ReceiveSettings ==
    /\ Received
    /\ Head(events) = SettingsEvent
    /\ proposal' = None
    /\ debounced' = "fresh"
    /\ UNCHANGED pending

\* A directory, or a path that is not there, asks for new watches.
ReceiveDocument ==
    /\ Received
    /\ Head(events) # SettingsEvent
    /\ LET c == Head(events).of
       IN Record({c} \cap Active(policy), Head(events).kind = "root" \/ ~ Exists(c))
    /\ UNCHANGED <<debounced, proposal>>

Receive == ReceiveSettings \/ ReceiveDocument

-----------------------------------------------------------------------------
(* Watches: handle_index_reloaded and register_handler_roots.              *)

\* The registry is rebuilt from the indexed documents and the policy's roots; what
\* was not in it, or not a root of the handlers, is watched.
ReloadHandlers(p, rows, outdated) ==
    LET documents == {c \in Collections : rows[c] # None}
        missing   == (documents \ registered)
                        \cup {c \in WatchRoots(p) : c \notin documents \/ c \notin roots}
    IN /\ registered' = documents \cup WatchRoots(p)
       /\ roots' = WatchRoots(p)
       /\ watched' = (watched \cup {c \in missing : Exists(c)})
                        \ (outdated \cap (registered \ registered'))

HearReload ==
    /\ lane = "idle" /\ reload
    /\ reload' = FALSE
    /\ ReloadHandlers(policy, index, {})
    /\ UNCHANGED <<world, native, config, queue, store, lane, faults>>

-----------------------------------------------------------------------------
(* Time.  A tick compares with the time it began at, so deadlines pass     *)
(* between ticks.                                                          *)

SettingsQuiet ==
    /\ lane = "idle" /\ debounced = "fresh"
    /\ debounced' = "quiet"
    /\ UNCHANGED <<world, native, watches, policy, proposal, proposed, queue, store, reload, lane,
                   faults>>

ProposalDue ==
    /\ lane = "idle" /\ proposal # None
    /\ ~ proposal.due
    /\ proposal' = [proposal EXCEPT !.due = TRUE]
    /\ UNCHANGED <<world, native, watches, debounced, policy, proposed, queue, store, reload, lane,
                   faults>>

CollectionDue(c) ==
    /\ lane = "idle" /\ pending[c] # None
    /\ ~ pending[c].due
    /\ pending' = [pending EXCEPT ![c].due = TRUE]
    /\ UNCHANGED <<world, native, watches, config, batch, store, reload, lane, faults>>

-----------------------------------------------------------------------------
(* A tick: dispatch_ready_changes.                                         *)

Due(work) == work # None /\ work.due

Goto(place) == lane' = place

\* Every collection is scanned again, and the settings are read.
TakeOverflow ==
    /\ lane = "idle" /\ overflow
    /\ overflow' = FALSE
    /\ Record(Active(policy), TRUE)
    /\ Goto("overflow")
    /\ UNCHANGED <<world, events, watches, config, batch, store, reload, faults>>

\* Settings that cannot be read end the proposal.
Loaded == IF settings = Unusable THEN None ELSE [settings |-> settings, due |-> TRUE]

ReconcileSettings ==
    /\ lane = "overflow"
    /\ proposal' = Loaded
    /\ ReloadHandlers(policy, index, {})
    /\ reload' = TRUE
    /\ Goto("changes")
    /\ UNCHANGED <<world, native, debounced, policy, proposed, queue, store, faults>>

BeginTick ==
    /\ Goto("changes")
    /\ UNCHANGED <<world, native, watches, config, queue, store, reload, faults>>

\* Mutant: what is pending waits for another change.
StartTickOnChange ==
    /\ lane = "idle" /\ ~ overflow
    /\ debounced = "quiet" \/ Due(proposal)
    /\ BeginTick

StartTick ==
    /\ lane = "idle" /\ ~ overflow
    /\ debounced = "quiet" \/ Due(proposal) \/ \E c \in Collections : Due(pending[c])
    /\ BeginTick

ProcessChanges ==
    /\ lane = "changes"
    /\ \/ debounced = "quiet" /\ debounced' = "none" /\ proposal' = Loaded
       \/ debounced # "quiet" /\ UNCHANGED <<debounced, proposal>>
    /\ Goto("config")
    /\ UNCHANGED <<world, native, watches, policy, proposed, queue, store, reload, faults>>

-----------------------------------------------------------------------------
(* The proposal: flush_config_reload and apply_config_reload.              *)

\* Document scans wait for a proposal that waits.
NoProposalDue ==
    /\ lane = "config" /\ ~ Due(proposal)
    /\ IF proposal = None THEN Goto("documents") ELSE Goto("idle")
    /\ UNCHANGED <<world, native, watches, config, queue, store, reload, faults>>

RejectProposal ==
    /\ lane = "config" /\ Due(proposal)
    /\ proposal.settings = Inadmissible
    /\ proposal' = None
    /\ Goto("documents")
    /\ UNCHANGED <<world, native, watches, debounced, policy, proposed, queue, store, reload, faults>>

\* Mutant: a proposal that could not be applied is dropped.
PutBackNothing == proposal' = None

PutBack == proposal' = [proposal EXCEPT !.due = FALSE]

\* The roots of the proposal that nothing watches are watched first.
NewRoots == IF proposal.settings = policy THEN {} ELSE WatchRoots(proposal.settings) \ registered

InstallProposed ==
    /\ lane = "config" /\ Due(proposal)
    /\ proposal.settings # Inadmissible
    /\ \/ /\ watched' = watched \cup NewRoots
          /\ proposed' = NewRoots
          /\ Goto("apply")
          /\ UNCHANGED <<proposal, faults>>
       \/ /\ Fault("watch") /\ NewRoots # {}
          /\ watched' = watched \ NewRoots
          /\ PutBack
          /\ Goto("idle")
          /\ UNCHANGED proposed
    /\ UNCHANGED <<world, native, registered, roots, debounced, policy, queue, store, reload>>

\* Mutant: what is pending stays, with the settings it was recorded under.
KeptWorkUnchanged(p) == pending

\* What the new policy retires, or has just scanned, is no longer pending.
KeptWork(p) ==
    [c \in Collections |->
        IF pending[c] = None \/ ahead # None \/ p[c] = Off \/ p[c] # policy[c] THEN None
        ELSE [pending[c] EXCEPT !.config = p[c]]]

Adopted == IF ahead = None THEN index ELSE ahead

\* Mutant: a generation that was recovered is taken as it is.
ReconfiguredIfChanged(p) ==
    [c \in Collections |-> IF p[c] # policy[c] THEN Scanned(p)[c] ELSE Adopted[c]]

\* One transaction for all collections that change; for all there are, if a
\* committed generation had to be adopted first.
Reconfigured(p) ==
    [c \in Collections |->
        IF ahead # None \/ p[c] # policy[c] THEN Scanned(p)[c] ELSE Adopted[c]]

\* Events that arrive during the transaction wait in the queue.
Apply ==
    /\ lane = "apply"
    /\ LET p == proposal.settings IN
       /\ index' = Reconfigured(p)
       /\ pending' = KeptWork(p)
       /\ policy' = p
       /\ ReloadHandlers(p, index', Collections)
    /\ ahead' = None
    /\ proposal' = None /\ proposed' = {}
    /\ \/ UNCHANGED <<overflow, faults>>
       \/ Fault("code") /\ overflow' = TRUE
    /\ reload' = TRUE
    /\ Goto("documents")
    /\ UNCHANGED <<world, events, debounced, batch>>

\* Either nothing was committed, or the commit was not adopted.
ApplyFails ==
    /\ lane = "apply"
    /\ \/ Fault("apply") /\ UNCHANGED ahead
       \/ /\ Fault("adopt")
          /\ ahead # None \/ proposal.settings # policy
          /\ ahead' = Reconfigured(proposal.settings)
    /\ watched' = watched \ proposed
    /\ proposed' = {}
    /\ PutBack
    /\ Goto("idle")
    /\ UNCHANGED <<world, native, registered, roots, debounced, policy, queue, index, reload>>

-----------------------------------------------------------------------------
(* The scans: flush_document_reconciliations.                              *)

NothingReady ==
    /\ lane = "documents"
    /\ \A c \in Collections : ~ Due(pending[c])
    /\ Goto("idle")
    /\ UNCHANGED <<world, native, watches, config, queue, store, reload, faults>>

Ready == [c \in Collections |-> IF Due(pending[c]) THEN pending[c] ELSE None]

\* Mutant: the map is cleared when its work is taken.
WaitingNone == [c \in Collections |-> None]

Waiting == [c \in Collections |-> IF Due(pending[c]) THEN None ELSE pending[c]]
Refreshing == {c \in Collections : Due(pending[c]) /\ pending[c].refresh}

\* Mutant: a watch in the registry is taken to be alive.
MissingByRegistry == {c \in WatchRoots(policy) : c \notin registered \/ c \notin roots}

Missing ==
    {c \in WatchRoots(policy) : c \notin registered \/ c \notin roots \/ c \in Refreshing}

\* Watches are repaired before the scans, which then find what came before them.
TakeReady ==
    /\ lane = "documents"
    /\ \E c \in Collections : Due(pending[c])
    /\ batch' = Ready /\ pending' = Waiting
    /\ \/ Refreshing = {} /\ UNCHANGED watches
       \/ /\ Refreshing # {}
          /\ watched' = watched \cup Missing
          /\ registered' = registered \cup WatchRoots(policy)
          /\ roots' = WatchRoots(policy)
    /\ Goto("scan")
    /\ UNCHANGED <<world, native, config, store, reload, faults>>

Retried(work) == [work EXCEPT !.due = FALSE]

\* The registry has all roots now, although not all are watched.
WatchFails ==
    /\ lane = "documents"
    /\ Refreshing # {}
    /\ Fault("watch")
    /\ \E failing \in Missing : \E added \in SUBSET (Missing \ {failing}) :
           watched' = watched \cup added
    /\ pending' = [c \in Collections |-> IF Due(pending[c]) THEN Retried(pending[c]) ELSE pending[c]]
    /\ registered' = registered \cup WatchRoots(policy)
    /\ Goto("idle")
    /\ UNCHANGED <<world, native, roots, config, batch, store, reload>>

Scan(c) ==
    /\ lane = "scan" /\ batch[c] # None
    /\ ahead = None
    /\ index' = [index EXCEPT ![c] = Rows(c, batch[c].config)]
    /\ reload' = (reload \/ index' # index)
    /\ batch' = [batch EXCEPT ![c] = None]
    /\ UNCHANGED <<world, native, watches, config, pending, ahead, lane, faults>>

\* A store that has not adopted what is committed refuses to write.  Nothing can
\* record during a scan, so a retry meets no newer work.
ScanFails(c) ==
    /\ lane = "scan" /\ batch[c] # None
    /\ \/ ahead # None /\ UNCHANGED <<ahead, faults>>
       \/ ahead = None /\ Fault("scan") /\ UNCHANGED ahead
       \/ /\ ahead = None /\ Fault("strand")
          /\ ahead' = [index EXCEPT ![c] = Rows(c, batch[c].config)]
    /\ pending' = [pending EXCEPT ![c] = Retried(batch[c])]
    /\ batch' = [batch EXCEPT ![c] = None]
    /\ UNCHANGED <<world, native, watches, config, index, reload, lane>>

EndScans ==
    /\ lane = "scan"
    /\ \A c \in Collections : batch[c] = None
    /\ Goto("idle")
    /\ UNCHANGED <<world, native, watches, config, queue, store, reload, faults>>

-----------------------------------------------------------------------------
Tick == TakeOverflow \/ StartTick

Stage ==
    \/ ReconcileSettings \/ ProcessChanges
    \/ NoProposalDue \/ RejectProposal \/ InstallProposed \/ Apply \/ ApplyFails
    \/ NothingReady \/ TakeReady \/ WatchFails \/ EndScans
    \/ \E c \in Collections : Scan(c) \/ ScanFails(c)

WorkDue == ProposalDue \/ \E c \in Collections : CollectionDue(c)

Next == Editors \/ Receive \/ HearReload \/ SettingsQuiet \/ WorkDue \/ Tick \/ Stage

Spec == Init /\ [][Next]_vars

\* select! chooses fairly among its branches, a tick that began ends, and time
\* passes.
Fairness ==
    /\ SF_vars(Receive \/ HearReload) /\ WF_vars(Tick \/ Stage)
    /\ SF_vars(SettingsQuiet) /\ SF_vars(WorkDue)
FairSpec == Spec /\ Fairness

-----------------------------------------------------------------------------
(* Properties.                                                             *)

Work == [config : Configs, refresh : BOOLEAN, due : BOOLEAN]
Index == [Collections -> [text : Texts, config : Configs] \cup {None}]
Event == [kind : {"file", "root"}, of : Collections] \cup {SettingsEvent}

\* Every variable has its type, and no queue or counter passes its bound.
TypeOK ==
    /\ text \in [Collections -> Texts \cup {Gone}]
    /\ settings \in Policies \cup {Unusable, Inadmissible}
    /\ watched \subseteq Collections /\ registered \subseteq Collections
    /\ roots \subseteq Collections /\ proposed \subseteq Collections
    /\ events \in Seq(Event) /\ Len(events) <= QueueSize
    /\ overflow \in BOOLEAN /\ reload \in BOOLEAN
    /\ debounced \in {"none", "fresh", "quiet"}
    /\ policy \in Policies
    /\ proposal \in [settings : Policies \cup {Inadmissible}, due : BOOLEAN] \cup {None}
    /\ pending \in [Collections -> Work \cup {None}]
    /\ batch \in [Collections -> Work \cup {None}]
    /\ index \in Index /\ ahead \in Index \cup {None}
    /\ lane \in {"idle", "overflow", "changes", "config", "apply", "documents", "scan"}
    /\ edits \in 0..MaxEdits /\ faults \in 0..MaxFaults

\* A collection whose documents are not what the index has of them is on its way
\* to a scan, through failures, retries and new settings (unified.rs:114, 144).
EveryDocumentIsPending ==
    \A c \in Active(policy) : index[c] # Rows(c, policy[c]) =>
        \/ overflow \/ Queued(FileEvent(c)) \/ Queued(RootEvent(c))
        \/ pending[c] # None \/ batch[c] # None

\* The root of an indexed collection is watched, or will be before its next scan
\* (register_handler_roots_with_reinstall, unified.rs:602).
EveryRootIsWatched ==
    \A c \in WatchRoots(policy) \ watched :
        \/ overflow \/ Queued(RootEvent(c))
        \/ pending[c] # None /\ pending[c].refresh

\* What is indexed, due or being scanned follows the running settings, also after
\* a publication that failed half way (config_reload.rs:240).
NothingRetiredIsIndexed ==
    \A c \in Collections :
        /\ index[c] # None => index[c].config = policy[c]
        /\ pending[c] # None => pending[c].config = policy[c]
        /\ batch[c] # None => batch[c].config = policy[c]

\* Settings that differ from the running ones are on their way to be published.
NewSettingsArePending ==
    settings \in Policies /\ settings # policy =>
        \/ overflow \/ lane = "overflow" \/ Queued(SettingsEvent) \/ debounced # "none"
        \/ proposal # None /\ proposal.settings = settings

\* "Its debounce must not let the old retry win" (unified.rs:436): a proposal is
\* older than the file only while the newer edit has not been heard of.
NewerSettingsWin ==
    proposal # None /\ proposal.settings # settings =>
        overflow \/ lane = "overflow" \/ Queued(SettingsEvent)

\* When edits and errors end, the last usable settings run and the index agrees
\* with the documents; unusable settings keep the old ones running, and the index
\* agrees with them unless an earlier proposal was left half published.
Agrees == ahead = None /\ index = Scanned(policy)
Converges ==
    <>[](IF settings \in Policies THEN policy = settings /\ Agrees ELSE ahead # None \/ Agrees)
=============================================================================
