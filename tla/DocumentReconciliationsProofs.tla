------------------- MODULE DocumentReconciliationsProofs -------------------
(***************************************************************************)
(* Proofs about DocumentReconciliations, for any collections, policies,    *)
(* bounds and errors: types, that no edit of the settings is lost or beaten*)
(* by an older proposal, that nothing retired is indexed, and, while       *)
(* directories and settings do not change at once, that no document and no *)
(* root is forgotten.                                                      *)
(***************************************************************************)
EXTENDS DocumentReconciliations, SequenceTheorems, TLAPS

Row      == [text : Texts, config : Configs]
Proposal == [settings : Policies \cup {Inadmissible}, due : BOOLEAN]

WorldTyped ==
    /\ text \in [Collections -> Texts \cup {Gone}]
    /\ settings \in Policies \cup {Unusable, Inadmissible}
    /\ edits \in 0..MaxEdits
EventsTyped  == events \in Seq(Event) /\ Len(events) <= QueueSize /\ overflow \in BOOLEAN
WatchesTyped ==
    /\ watched \subseteq Collections /\ registered \subseteq Collections
    /\ roots \subseteq Collections /\ proposed \subseteq Collections
ConfigTyped ==
    /\ debounced \in {"none", "fresh", "quiet"}
    /\ policy \in Policies
    /\ proposal \in Proposal \cup {None}
QueueTyped ==
    /\ pending \in [Collections -> Work \cup {None}]
    /\ batch \in [Collections -> Work \cup {None}]
StoreTyped == index \in Index /\ ahead \in Index \cup {None}
PlaceTyped ==
    /\ lane \in {"idle", "overflow", "changes", "config", "apply", "documents", "scan"}
    /\ reload \in BOOLEAN /\ faults \in 0..MaxFaults

LEMMA TypeParts ==
    TypeOK <=> /\ WorldTyped /\ EventsTyped /\ WatchesTyped /\ ConfigTyped
               /\ QueueTyped /\ StoreTyped /\ PlaceTyped
BY DEF TypeOK, WorldTyped, EventsTyped, WatchesTyped, ConfigTyped, QueueTyped, StoreTyped,
       PlaceTyped, Proposal

LEMMA NextTypeParts ==
    TypeOK' <=> /\ WorldTyped' /\ EventsTyped' /\ WatchesTyped' /\ ConfigTyped'
                /\ QueueTyped' /\ StoreTyped' /\ PlaceTyped'
BY DEF TypeOK, WorldTyped, EventsTyped, WatchesTyped, ConfigTyped, QueueTyped, StoreTyped,
       PlaceTyped, Proposal

(***************************************************************************)
(* What the stages of a tick leave to each other: only the publication of  *)
(* a proposal has watches of its own, only a scan has a batch, and nothing *)
(* is both taken and pending.                                              *)
(***************************************************************************)
StagesHandOver ==
    /\ lane = "apply" => proposal # None /\ proposal.settings \in Policies
    /\ lane # "apply" => proposed = {}
    /\ \A c \in Collections : batch[c] # None => lane = "scan" /\ pending[c] = None

-----------------------------------------------------------------------------
(* What the pieces of the actions return.                                  *)

LEMMA NoneIsApart ==
    /\ \A work \in Work : work # None
    /\ \A row \in Row : row # None
    /\ \A p \in Proposal : p # None
    /\ \A i \in Index : i # None
BY ReconciliationsAssumption DEF Work, Row, Proposal, Index

LEMMA PolicySays ==
    ASSUME NEW p \in Policies, NEW c \in Collections, p[c] # Off
    PROVE  p[c] \in Configs
BY ReconciliationsAssumption

LEMMA RowsType ==
    ASSUME WorldTyped, NEW c \in Collections, NEW k \in Configs
    PROVE  /\ Rows(c, k) \in Row \cup {None}
           /\ Rows(c, k) # None => Rows(c, k).config = k
BY DEF WorldTyped, Rows, Row, Exists

LEMMA ScannedType ==
    ASSUME WorldTyped, NEW p \in Policies
    PROVE  Scanned(p) \in Index
<1>1. ASSUME NEW c \in Collections
      PROVE  (IF p[c] = Off THEN None ELSE Rows(c, p[c])) \in Row \cup {None}
  BY PolicySays, RowsType
<1>2. QED
  BY <1>1 DEF Scanned, Index, Row

LEMMA ReconfiguredType ==
    ASSUME WorldTyped, StoreTyped, NEW p \in Policies
    PROVE  Reconfigured(p) \in Index
<1>1. Scanned(p) \in Index
  BY ScannedType
<1>2. Adopted \in Index
  BY DEF Adopted, StoreTyped
<1>3. QED
  BY <1>1, <1>2 DEF Reconfigured, Index

LEMMA RecordType ==
    ASSUME ConfigTyped, QueueTyped, NEW cs \in SUBSET Active(policy), NEW r \in BOOLEAN,
           Record(cs, r)
    PROVE  pending' \in [Collections -> Work \cup {None}]
<1>1. PICK putOff \in BOOLEAN :
        pending' = [c \in Collections |->
            IF c \notin cs THEN pending[c]
            ELSE IF pending[c] = None
                 THEN [config |-> policy[c], refresh |-> r, due |-> FALSE]
                 ELSE [config |-> policy[c], refresh |-> r \/ pending[c].refresh,
                       due |-> pending[c].due /\ ~ putOff]]
  BY DEF Record
<1>2. \A c \in cs : policy[c] \in Configs
  BY PolicySays DEF ConfigTyped, Active
<1>3. QED
  BY <1>1, <1>2 DEF QueueTyped, Work

LEMMA KeptWorkType ==
    ASSUME QueueTyped, NEW p \in Policies
    PROVE  KeptWork(p) \in [Collections -> Work \cup {None}]
<1>1. ASSUME NEW c \in Collections, pending[c] # None, p[c] # Off
      PROVE  [pending[c] EXCEPT !.config = p[c]] \in Work
  BY <1>1, PolicySays DEF QueueTyped, Work
<1>2. QED
  BY <1>1 DEF KeptWork

LEMMA RetriedType ==
    ASSUME NEW work \in Work
    PROVE  Retried(work) \in Work /\ Retried(work).config = work.config
                                  /\ Retried(work).refresh = work.refresh
BY DEF Retried, Work

LEMMA NotifyType ==
    ASSUME EventsTyped, NEW e \in Event, Notify(e)
    PROVE  EventsTyped'
<1>1. /\ Append(events, e) \in Seq(Event) /\ Len(Append(events, e)) = Len(events) + 1
      /\ Len(events) \in Nat /\ QueueSize \in Nat
  BY ReconciliationsAssumption DEF EventsTyped
<1>2. CASE Len(events) < QueueSize
  BY <1>1, <1>2 DEF EventsTyped, Notify
<1>3. CASE events' = events /\ overflow' = TRUE
  BY <1>3 DEF EventsTyped
<1>4. QED
  BY <1>1, <1>2, <1>3 DEF Notify

LEMMA EventTypes ==
    /\ \A c \in Collections : FileEvent(c) \in Event /\ RootEvent(c) \in Event
    /\ SettingsEvent \in Event
BY DEF Event, FileEvent, RootEvent, SettingsEvent

-----------------------------------------------------------------------------
(* What each action leaves alone.                                          *)

LEMMA OthersKeepTheWorld ==
    ASSUME Next, ~ Editors
    PROVE  UNCHANGED world
BY DEF Next, Receive, ReceiveSettings, ReceiveDocument, Received, HearReload, SettingsQuiet,
       WorkDue, ProposalDue, CollectionDue, Tick, TakeOverflow, StartTick, BeginTick, Stage,
       ReconcileSettings, ProcessChanges, NoProposalDue, RejectProposal, InstallProposed,
       Apply, ApplyFails, NothingReady, TakeReady, WatchFails, EndScans, Scan, ScanFails

LEMMA OthersKeepTheQueue ==
    ASSUME Next, ~ Receive, ~ TakeOverflow, ~ WorkDue, ~ Apply, ~ TakeReady, ~ WatchFails,
           \A c \in Collections : ~ Scan(c) /\ ~ ScanFails(c)
    PROVE  UNCHANGED queue
BY DEF Next, Editors, RemoveRoot, WriteDocument, CreateRoot, WriteSettings, Edit, HearReload,
       SettingsQuiet, Tick, StartTick, BeginTick, Stage, ReconcileSettings, ProcessChanges,
       NoProposalDue, RejectProposal, InstallProposed, ApplyFails, NothingReady, EndScans, queue

LEMMA OthersKeepTheConfig ==
    ASSUME Next, ~ ReceiveSettings, ~ ProposalDue, ~ SettingsQuiet, ~ ReconcileSettings,
           ~ ProcessChanges, ~ RejectProposal, ~ InstallProposed, ~ Apply, ~ ApplyFails
    PROVE  UNCHANGED config
BY DEF Next, Editors, RemoveRoot, WriteDocument, CreateRoot, WriteSettings, Edit, Receive,
       ReceiveDocument, Received, HearReload, WorkDue, CollectionDue, Tick, TakeOverflow,
       StartTick, BeginTick, Stage, NoProposalDue, NothingReady, TakeReady, WatchFails,
       EndScans, Scan, ScanFails, config

LEMMA OthersKeepTheStore ==
    ASSUME Next, ~ Apply, ~ ApplyFails, \A c \in Collections : ~ Scan(c) /\ ~ ScanFails(c)
    PROVE  UNCHANGED store
BY DEF Next, Editors, RemoveRoot, WriteDocument, CreateRoot, WriteSettings, Edit, Receive,
       ReceiveSettings, ReceiveDocument, Received, HearReload, SettingsQuiet, WorkDue,
       ProposalDue, CollectionDue, Tick, TakeOverflow, StartTick, BeginTick, Stage,
       ReconcileSettings, ProcessChanges, NoProposalDue, RejectProposal, InstallProposed,
       NothingReady, TakeReady, WatchFails, EndScans, store

LEMMA OthersKeepTheWatches ==
    ASSUME Next, \A c \in Collections : ~ RemoveRoot(c), ~ HearReload, ~ ReconcileSettings,
           ~ InstallProposed, ~ Apply, ~ ApplyFails, ~ TakeReady, ~ WatchFails
    PROVE  UNCHANGED <<watches, proposed>>
BY DEF Next, Editors, WriteDocument, CreateRoot, WriteSettings, Edit, Receive,
       ReceiveSettings, ReceiveDocument, Received, SettingsQuiet, WorkDue, ProposalDue,
       CollectionDue, Tick, TakeOverflow, StartTick, BeginTick, Stage, ProcessChanges,
       NoProposalDue, RejectProposal, NothingReady, EndScans, Scan, ScanFails, watches, config

LEMMA OthersKeepTheEvents ==
    ASSUME Next, ~ Editors, ~ Receive, ~ TakeOverflow, ~ Apply
    PROVE  UNCHANGED native
BY DEF Next, HearReload, SettingsQuiet, WorkDue, ProposalDue, CollectionDue, Tick, StartTick,
       BeginTick, Stage, ReconcileSettings, ProcessChanges, NoProposalDue, RejectProposal,
       InstallProposed, ApplyFails, NothingReady, TakeReady, WatchFails, EndScans, Scan,
       ScanFails, native

-----------------------------------------------------------------------------
(* Types, action by action.                                                *)

LEMMA WorldStaysTyped ==
    ASSUME TypeOK, [Next]_vars
    PROVE  WorldTyped'
<1> USE TypeParts DEF WorldTyped
<1>1. ASSUME NEW c \in Collections, RemoveRoot(c)
      PROVE  WorldTyped'
  BY <1>1, ReconciliationsAssumption DEF RemoveRoot, Edit
<1>2. ASSUME NEW c \in Collections, NEW t \in Texts, WriteDocument(c, t) \/ CreateRoot(c, t)
      PROVE  WorldTyped'
  BY <1>2, ReconciliationsAssumption DEF WriteDocument, CreateRoot, Edit
<1>3. ASSUME NEW p \in Policies \cup {Unusable, Inadmissible}, WriteSettings(p)
      PROVE  WorldTyped'
  BY <1>3, ReconciliationsAssumption DEF WriteSettings, Edit
<1>4. CASE UNCHANGED world
  BY <1>4 DEF world
<1>5. Next /\ ~ Editors => UNCHANGED world
  BY OthersKeepTheWorld
<1>6. QED
  BY <1>1, <1>2, <1>3, <1>4, <1>5 DEF Editors, vars, world

LEMMA EventsStayTyped ==
    ASSUME TypeOK, [Next]_vars
    PROVE  EventsTyped'
<1>1. EventsTyped
  BY TypeParts
<1>2. CASE Editors
  BY <1>1, <1>2, NotifyType, EventTypes
     DEF Editors, RemoveRoot, WriteDocument, CreateRoot, WriteSettings, EventsTyped, native
<1>3. CASE Receive
  <2>1. events # <<>> /\ events' = Tail(events) /\ overflow' = overflow
    BY <1>3 DEF Receive, ReceiveSettings, ReceiveDocument, Received
  <2>2. /\ Tail(events) \in Seq(Event) /\ Len(Tail(events)) = Len(events) - 1
        /\ Len(events) \in Nat /\ QueueSize \in Nat
    BY <1>1, <2>1, ReconciliationsAssumption DEF EventsTyped
  <2>3. QED
    BY <1>1, <2>1, <2>2 DEF EventsTyped
<1>4. CASE TakeOverflow \/ Apply
  BY <1>1, <1>4 DEF TakeOverflow, Apply, EventsTyped
<1>5. CASE UNCHANGED native
  BY <1>1, <1>5 DEF native, EventsTyped
<1>6. QED
  BY <1>2, <1>3, <1>4, <1>5, OthersKeepTheEvents DEF vars, native

LEMMA WatchesStayTyped ==
    ASSUME TypeOK, [Next]_vars
    PROVE  WatchesTyped'
<1>1. WatchesTyped
  BY TypeParts
<1>2. \A p : WatchRoots(p) \subseteq Collections
  BY DEF WatchRoots, Active
<1>3. \A p, rows, outdated : ReloadHandlers(p, rows, outdated) =>
        /\ watched' \subseteq Collections /\ registered' \subseteq Collections
        /\ roots' \subseteq Collections
  BY <1>1, <1>2 DEF ReloadHandlers, WatchesTyped
<1>4. CASE HearReload \/ ReconcileSettings \/ Apply
  BY <1>1, <1>3, <1>4 DEF HearReload, ReconcileSettings, Apply, WatchesTyped, config
<1>5. CASE \E c \in Collections : RemoveRoot(c)
  BY <1>1, <1>5 DEF RemoveRoot, Edit, WatchesTyped, config
<1>6. CASE InstallProposed \/ ApplyFails
  BY <1>1, <1>2, <1>6 DEF InstallProposed, ApplyFails, NewRoots, WatchesTyped
<1>7. CASE TakeReady \/ WatchFails
  BY <1>1, <1>2, <1>7 DEF TakeReady, WatchFails, Missing, WatchesTyped, watches, config
<1>8. CASE UNCHANGED <<watches, proposed>>
  BY <1>1, <1>8 DEF watches, WatchesTyped
<1>9. QED
  BY <1>4, <1>5, <1>6, <1>7, <1>8, OthersKeepTheWatches DEF vars, watches

LEMMA ConfigStaysTyped ==
    ASSUME TypeOK, StagesHandOver, [Next]_vars
    PROVE  ConfigTyped'
<1>1. ConfigTyped /\ WorldTyped
  BY TypeParts
<1>2. Loaded \in Proposal \cup {None}
  BY <1>1 DEF Loaded, WorldTyped, Proposal
<1>3. proposal # None => [proposal EXCEPT !.due = TRUE] \in Proposal
                           /\ [proposal EXCEPT !.due = FALSE] \in Proposal
  BY <1>1 DEF ConfigTyped, Proposal
<1>4. CASE ReceiveSettings
  BY <1>1, <1>4 DEF ReceiveSettings, Received, ConfigTyped
<1>5. CASE ProposalDue \/ SettingsQuiet
  BY <1>1, <1>3, <1>5 DEF ProposalDue, SettingsQuiet, ConfigTyped
<1>6. CASE ReconcileSettings \/ ProcessChanges
  BY <1>1, <1>2, <1>6 DEF ReconcileSettings, ProcessChanges, ConfigTyped
<1>7. CASE RejectProposal
  BY <1>1, <1>7 DEF RejectProposal, ConfigTyped
<1>8. CASE InstallProposed
  BY <1>1, <1>3, <1>8 DEF InstallProposed, PutBack, Due, ConfigTyped
<1>9. CASE Apply
  BY <1>1, <1>9 DEF Apply, StagesHandOver, ConfigTyped
<1>10. CASE ApplyFails
  BY <1>1, <1>3, <1>10 DEF ApplyFails, PutBack, StagesHandOver, ConfigTyped
<1>11. CASE UNCHANGED config
  BY <1>1, <1>11 DEF config, ConfigTyped
<1>12. QED
  BY <1>4, <1>5, <1>6, <1>7, <1>8, <1>9, <1>10, <1>11, OthersKeepTheConfig DEF vars, config

LEMMA QueueStaysTyped ==
    ASSUME TypeOK, StagesHandOver, [Next]_vars
    PROVE  QueueTyped'
<1>1. QueueTyped /\ ConfigTyped /\ EventsTyped
  BY TypeParts
<1>2. CASE ReceiveSettings
  BY <1>1, <1>2 DEF ReceiveSettings, Received, QueueTyped
<1>3. CASE ReceiveDocument
  <2>1. QED
    BY <1>1, <1>3, RecordType DEF ReceiveDocument, Received, QueueTyped
<1>4. CASE TakeOverflow
  BY <1>1, <1>4, RecordType DEF TakeOverflow, QueueTyped
<1>5. CASE WorkDue
  BY <1>1, <1>5 DEF WorkDue, ProposalDue, CollectionDue, QueueTyped, Work, queue
<1>6. CASE Apply
  BY <1>1, <1>6, KeptWorkType DEF Apply, StagesHandOver, QueueTyped
<1>7. CASE TakeReady
  BY <1>1, <1>7 DEF TakeReady, Ready, Waiting, QueueTyped
<1>8. CASE WatchFails
  BY <1>1, <1>8, RetriedType DEF WatchFails, Due, QueueTyped
<1>9. ASSUME NEW c \in Collections, Scan(c) \/ ScanFails(c)
      PROVE  QueueTyped'
  BY <1>1, <1>9, RetriedType DEF Scan, ScanFails, QueueTyped
<1>10. CASE UNCHANGED queue
  BY <1>1, <1>10 DEF queue, QueueTyped
<1>11. QED
  BY <1>2, <1>3, <1>4, <1>5, <1>6, <1>7, <1>8, <1>9, <1>10, OthersKeepTheQueue
     DEF vars, queue, Receive

LEMMA StoreStaysTyped ==
    ASSUME TypeOK, StagesHandOver, [Next]_vars
    PROVE  StoreTyped'
<1>1. StoreTyped /\ WorldTyped /\ QueueTyped
  BY TypeParts
<1>2. CASE Apply
  BY <1>1, <1>2, ReconfiguredType DEF Apply, StagesHandOver, StoreTyped
<1>3. CASE ApplyFails
  BY <1>1, <1>3, ReconfiguredType DEF ApplyFails, StagesHandOver, StoreTyped
<1>4. ASSUME NEW c \in Collections, Scan(c) \/ ScanFails(c)
      PROVE  StoreTyped'
  <2>1. Rows(c, batch[c].config) \in Row \cup {None}
    BY <1>1, <1>4, RowsType DEF Scan, ScanFails, QueueTyped, Work
  <2>2. [index EXCEPT ![c] = Rows(c, batch[c].config)] \in Index
    BY <1>1, <2>1 DEF StoreTyped, Index, Row
  <2>3. QED
    BY <1>1, <1>4, <2>2 DEF Scan, ScanFails, StoreTyped
<1>5. CASE UNCHANGED store
  BY <1>1, <1>5 DEF store, StoreTyped
<1>6. QED
  BY <1>2, <1>3, <1>4, <1>5, OthersKeepTheStore DEF vars, store

LEMMA PlaceStaysTyped ==
    ASSUME TypeOK, [Next]_vars
    PROVE  PlaceTyped'
<1>1. PlaceTyped
  BY TypeParts
<1>2. \A kind : Fault(kind) => faults' \in 0..MaxFaults
  BY <1>1, ReconciliationsAssumption DEF Fault, PlaceTyped
<1>3. CASE Editors \/ Receive
  BY <1>1, <1>3 DEF Editors, RemoveRoot, WriteDocument, CreateRoot, WriteSettings, Edit, Receive,
     ReceiveSettings, ReceiveDocument, Received, PlaceTyped
<1>4. CASE HearReload \/ SettingsQuiet \/ WorkDue
  BY <1>1, <1>4 DEF HearReload, SettingsQuiet, WorkDue, ProposalDue, CollectionDue, PlaceTyped
<1>5. CASE TakeOverflow \/ StartTick \/ ReconcileSettings \/ ProcessChanges
  BY <1>1, <1>5 DEF TakeOverflow, StartTick, BeginTick, ReconcileSettings, ProcessChanges, Goto,
     PlaceTyped
<1>6. CASE NoProposalDue \/ RejectProposal \/ InstallProposed \/ Apply \/ ApplyFails
  BY <1>1, <1>2, <1>6 DEF NoProposalDue, RejectProposal, InstallProposed, Apply, ApplyFails, Goto,
     PlaceTyped
<1>7. CASE NothingReady \/ TakeReady \/ WatchFails \/ EndScans
  BY <1>1, <1>2, <1>7 DEF NothingReady, TakeReady, WatchFails, EndScans, Goto, PlaceTyped
<1>8. ASSUME NEW c \in Collections, Scan(c) \/ ScanFails(c)
      PROVE  PlaceTyped'
  BY <1>1, <1>2, <1>8 DEF Scan, ScanFails, PlaceTyped
<1>9. CASE UNCHANGED vars
  BY <1>1, <1>9 DEF vars, PlaceTyped
<1>10. QED
  BY <1>3, <1>4, <1>5, <1>6, <1>7, <1>8, <1>9 DEF Next, Tick, Stage

LEMMA StagesStillHandOver ==
    ASSUME TypeOK, StagesHandOver, [Next]_vars
    PROVE  StagesHandOver'
<1>1. ConfigTyped /\ QueueTyped
  BY TypeParts
<1>2. CASE Editors \/ Receive
  BY <1>2 DEF Editors, RemoveRoot, WriteDocument, CreateRoot, WriteSettings, Edit, Receive,
     ReceiveSettings, ReceiveDocument, Received, StagesHandOver, config, queue
<1>3. CASE HearReload \/ SettingsQuiet \/ WorkDue
  BY <1>3 DEF HearReload, SettingsQuiet, WorkDue, ProposalDue, CollectionDue, StagesHandOver,
     config, queue
<1>4. CASE TakeOverflow \/ StartTick \/ ReconcileSettings \/ ProcessChanges
  BY <1>4 DEF TakeOverflow, StartTick, BeginTick, ReconcileSettings, ProcessChanges, Goto,
     StagesHandOver, config, queue
<1>5. CASE NoProposalDue \/ RejectProposal
  BY <1>5 DEF NoProposalDue, RejectProposal, Goto, StagesHandOver, config, queue
<1>6. CASE InstallProposed
  BY <1>1, <1>6 DEF InstallProposed, Due, Goto, StagesHandOver, queue, ConfigTyped, Proposal
<1>7. CASE Apply \/ ApplyFails
  BY <1>7 DEF Apply, ApplyFails, Goto, StagesHandOver, queue
<1>8. CASE NothingReady \/ EndScans
  BY <1>8 DEF NothingReady, EndScans, Goto, StagesHandOver, config, queue
<1>9. CASE TakeReady
  BY <1>1, <1>9 DEF TakeReady, Ready, Waiting, Goto, StagesHandOver, config
<1>10. CASE WatchFails
  BY <1>10 DEF WatchFails, Goto, StagesHandOver, config
<1>11. ASSUME NEW c \in Collections, Scan(c) \/ ScanFails(c)
      PROVE  StagesHandOver'
  BY <1>1, <1>11 DEF Scan, ScanFails, StagesHandOver, config, QueueTyped
<1>12. CASE UNCHANGED vars
  BY <1>12 DEF vars, StagesHandOver
<1>13. QED
  BY <1>2, <1>3, <1>4, <1>5, <1>6, <1>7, <1>8, <1>9, <1>10, <1>11, <1>12 DEF Next, Tick, Stage

LEMMA InitIsTyped ==
    ASSUME Init
    PROVE  TypeOK /\ StagesHandOver
<1>1. WorldTyped /\ ConfigTyped
  <2>1. WorldTyped
    BY ReconciliationsAssumption DEF Init, WorldTyped
  <2>2. ConfigTyped
    BY ReconciliationsAssumption DEF Init, ConfigTyped
  <2>3. QED
    BY <2>1, <2>2
<1>2. EventsTyped /\ PlaceTyped
  <2>1. QueueSize \in Nat /\ MaxFaults \in Nat
    BY ReconciliationsAssumption
  <2>2. events = <<>> /\ overflow = FALSE /\ lane = "idle" /\ reload = FALSE /\ faults = 0
    BY DEF Init
  <2>3. EventsTyped
    <3>1. <<>> \in Seq(Event) /\ Len(<<>>) <= QueueSize
      BY <2>1
    <3>2. QED
      BY <2>2, <3>1 DEF EventsTyped
  <2>4. PlaceTyped
    <3>1. 0 \in 0..MaxFaults
      BY <2>1
    <3>2. QED
      BY <2>2, <3>1 DEF PlaceTyped
  <2>5. QED
    BY <2>3, <2>4
<1>3. WatchesTyped
  BY DEF Init, WatchesTyped, WatchRoots, Active
<1>4. QueueTyped
  BY DEF Init, QueueTyped
<1>5. StoreTyped
  BY <1>1, ScannedType DEF Init, StoreTyped, ConfigTyped
<1>6. StagesHandOver
  BY DEF Init, StagesHandOver
<1>7. QED
  BY <1>1, <1>2, <1>3, <1>4, <1>5, <1>6, TypeParts

LEMMA TypesAreInductive ==
    ASSUME TypeOK, StagesHandOver, [Next]_vars
    PROVE  TypeOK' /\ StagesHandOver'
BY WorldStaysTyped, EventsStayTyped, WatchesStayTyped, ConfigStaysTyped, QueueStaysTyped,
   StoreStaysTyped, PlaceStaysTyped, StagesStillHandOver, NextTypeParts

\* Every variable keeps its type: a policy that runs is one that settings may
\* hold, and what is committed, indexed or pending names real settings.
THEOREM TypeCorrectness == Spec => []TypeOK
<1>1. Init => TypeOK /\ StagesHandOver
  BY InitIsTyped
<1>2. TypeOK /\ StagesHandOver /\ [Next]_vars => TypeOK' /\ StagesHandOver'
  BY TypesAreInductive
<1>3. QED
  BY <1>1, <1>2, PTL DEF Spec

-----------------------------------------------------------------------------
(* An event that was reported is in the queue, or an overflow is, until it *)
(* is received or the overflow is taken.                                   *)

LEMMA NotifiedIsReported ==
    ASSUME EventsTyped, NEW e, Notify(e)
    PROVE  /\ overflow' \/ Queued(e)'
           /\ overflow => overflow'
           /\ \A d : Queued(d) => Queued(d)'
<1>1. /\ Append(events, e)[Len(events) + 1] = e
      /\ Len(events) + 1 \in DOMAIN Append(events, e)
      /\ \A k \in DOMAIN events : k \in DOMAIN Append(events, e) /\ Append(events, e)[k] = events[k]
  BY DEF EventsTyped
<1>2. CASE events' = Append(events, e) /\ UNCHANGED overflow
  BY <1>1, <1>2 DEF Queued
<1>3. CASE overflow' = TRUE /\ UNCHANGED events
  BY <1>3 DEF Queued
<1>4. QED
  BY <1>2, <1>3 DEF Notify

LEMMA OthersAreStillQueued ==
    ASSUME EventsTyped, events # <<>>, events' = Tail(events), NEW e, Queued(e), e # Head(events)
    PROVE  Queued(e)'
<1>1. PICK k \in DOMAIN events : events[k] = e
  BY DEF Queued
<1>2. k \in Nat /\ k > 1 /\ k <= Len(events) /\ Len(events) \in Nat
  BY <1>1 DEF EventsTyped
<1>3. k - 1 \in 1..Len(Tail(events)) /\ Tail(events)[k - 1] = e
  BY <1>1, <1>2, HeadTailProperties DEF EventsTyped
<1>4. k - 1 \in DOMAIN Tail(events)
  BY <1>3, HeadTailProperties DEF EventsTyped
<1>5. QED
  BY <1>3, <1>4 DEF Queued

LEMMA ReportsLast ==
    ASSUME TypeOK, [Next]_vars, NEW e, overflow \/ Queued(e),
           ~ TakeOverflow, ~ (Receive /\ Head(events) = e)
    PROVE  overflow' \/ Queued(e)'
<1>1. EventsTyped
  BY TypeParts
<1>2. CASE Editors
  <2>1. CASE UNCHANGED native
    BY <2>1 DEF native, Queued
  <2>2. CASE \E d : Notify(d)
    BY <1>1, <2>2, NotifiedIsReported
  <2>3. QED
    BY <1>2, <2>1, <2>2 DEF Editors, RemoveRoot, WriteDocument, CreateRoot, WriteSettings
<1>3. CASE Receive
  <2>1. events # <<>> /\ events' = Tail(events) /\ overflow' = overflow
    BY <1>3 DEF Receive, ReceiveSettings, ReceiveDocument, Received
  <2>2. QED
    BY <1>1, <1>3, <2>1, OthersAreStillQueued
<1>4. CASE Apply
  BY <1>4 DEF Apply, Queued
<1>5. CASE UNCHANGED native
  BY <1>5 DEF native, Queued
<1>6. QED
  BY <1>2, <1>3, <1>4, <1>5, OthersKeepTheEvents DEF vars, native

-----------------------------------------------------------------------------
(* Settings.                                                               *)

\* A newer edit of the settings has not been heard of yet.
SettingsUnheard == overflow \/ lane = "overflow" \/ Queued(SettingsEvent)

LEMMA UnheardLasts ==
    ASSUME TypeOK, SettingsUnheard, [Next]_vars, ~ ReceiveSettings, ~ ReconcileSettings
    PROVE  SettingsUnheard'
<1>1. CASE TakeOverflow
  BY <1>1 DEF TakeOverflow, Goto, SettingsUnheard
<1>2. CASE overflow \/ Queued(SettingsEvent)
  BY <1>1, <1>2, ReportsLast DEF SettingsUnheard, Receive, ReceiveDocument
<1>3. CASE lane = "overflow"
  <2>1. Editors \/ UNCHANGED vars
    BY <1>3 DEF Next, Receive, ReceiveDocument, Received, HearReload, SettingsQuiet, WorkDue,
       ProposalDue, CollectionDue, Tick, TakeOverflow, StartTick, BeginTick, Stage, ProcessChanges,
       NoProposalDue, RejectProposal, InstallProposed, Apply, ApplyFails, NothingReady,
       TakeReady, WatchFails, EndScans, Scan, ScanFails
  <2>2. lane' = lane
    BY <2>1 DEF Editors, RemoveRoot, WriteDocument, CreateRoot, WriteSettings, Edit, vars
  <2>3. QED
    BY <1>3, <2>2 DEF SettingsUnheard
<1>4. QED
  BY <1>1, <1>2, <1>3 DEF SettingsUnheard

LEMMA NewEditsAreUnheard ==
    ASSUME TypeOK, [Next]_vars, settings' # settings
    PROVE  SettingsUnheard' /\ UNCHANGED config
<1>1. PICK p \in Policies \cup {Unusable, Inadmissible} : WriteSettings(p)
  BY OthersKeepTheWorld DEF Editors, RemoveRoot, WriteDocument, CreateRoot, world, vars
<1>2. Notify(SettingsEvent) /\ UNCHANGED config
  BY <1>1 DEF WriteSettings, Edit
<1>3. EventsTyped
  BY TypeParts
<1>4. QED
  BY <1>2, <1>3, NotifiedIsReported DEF SettingsUnheard

\* What an action does to the proposal: nothing, drop it, change its deadline, or
\* read the file.
LEMMA ProposalSteps ==
    ASSUME TypeOK, StagesHandOver, [Next]_vars
    PROVE  \/ proposal' = proposal
           \/ proposal' = None
           \/ proposal # None /\ proposal' # None /\ proposal'.settings = proposal.settings
                /\ ~ ReceiveSettings /\ ~ ReconcileSettings
           \/ proposal' = Loaded /\ settings' = settings
<1>1. ConfigTyped
  BY TypeParts
<1>2. proposal # None =>
        /\ [proposal EXCEPT !.due = TRUE] \in Proposal
        /\ [proposal EXCEPT !.due = TRUE].settings = proposal.settings
        /\ [proposal EXCEPT !.due = FALSE] \in Proposal
        /\ [proposal EXCEPT !.due = FALSE].settings = proposal.settings
  BY <1>1 DEF ConfigTyped, Proposal
<1>3. CASE ProposalDue
  BY <1>2, <1>3, NoneIsApart
     DEF ProposalDue, Goto, ReceiveSettings, Received, ReconcileSettings, native, store
<1>4. CASE InstallProposed \/ ApplyFails
  BY <1>2, <1>4, NoneIsApart
     DEF InstallProposed, ApplyFails, PutBack, Due, StagesHandOver, ReceiveSettings, Received,
         ReconcileSettings
<1>5. CASE ReceiveSettings \/ SettingsQuiet \/ ReconcileSettings \/ ProcessChanges
           \/ RejectProposal \/ Apply
  BY <1>5 DEF ReceiveSettings, SettingsQuiet, ReconcileSettings, ProcessChanges, RejectProposal,
     Apply, world
<1>6. CASE UNCHANGED config
  BY <1>6 DEF config
<1>7. QED
  BY <1>3, <1>4, <1>5, <1>6, OthersKeepTheConfig DEF vars, config

LEMMA NewerSettingsStillWin ==
    ASSUME TypeOK, StagesHandOver, NewerSettingsWin, [Next]_vars
    PROVE  NewerSettingsWin'
<1> SUFFICES ASSUME proposal' # None, (proposal.settings # settings)', ~ SettingsUnheard'
             PROVE  FALSE
  BY DEF NewerSettingsWin, SettingsUnheard
<1>1. settings' = settings
  BY NewEditsAreUnheard
<1>2. Loaded # None => Loaded.settings = settings
  BY DEF Loaded
<1>3. proposal # None /\ proposal'.settings = proposal.settings
  BY <1>1, <1>2, ProposalSteps
<1>4. SettingsUnheard
  BY <1>1, <1>3 DEF NewerSettingsWin, SettingsUnheard
<1>5. ReceiveSettings \/ ReconcileSettings
  BY <1>4, UnheardLasts
<1>6. proposal' = None \/ proposal' = Loaded
  BY <1>5 DEF ReceiveSettings, ReconcileSettings
<1>7. QED
  BY <1>1, <1>2, <1>6

LEMMA NewSettingsStayPending ==
    ASSUME TypeOK, StagesHandOver, NewerSettingsWin, NewSettingsArePending, [Next]_vars
    PROVE  NewSettingsArePending'
<1> SUFFICES ASSUME (settings \in Policies /\ settings # policy)', ~ SettingsUnheard',
                    debounced' = "none",
                    ~ (proposal' # None /\ proposal'.settings = settings')
             PROVE  FALSE
  BY DEF NewSettingsArePending, SettingsUnheard
<1>1. settings' = settings
  BY NewEditsAreUnheard
<1>2. Loaded # None /\ Loaded.settings = settings
  <2>1. settings # Unusable
    BY <1>1, ReconciliationsAssumption
  <2>2. [settings |-> settings, due |-> TRUE] \in Proposal
    BY <1>1 DEF Proposal
  <2>3. QED
    BY <2>1, <2>2, NoneIsApart DEF Loaded
<1>3. CASE Apply
  <2>1. proposal # None /\ proposal.settings # settings
    BY <1>1, <1>3 DEF Apply, StagesHandOver
  <2>2. SettingsUnheard
    BY <2>1 DEF NewerSettingsWin, SettingsUnheard
  <2>3. ~ ReceiveSettings /\ ~ ReconcileSettings
    BY <1>3 DEF Apply, ReceiveSettings, Received, ReconcileSettings
  <2>4. QED
    BY <2>2, <2>3, UnheardLasts
<1>4. CASE ~ Apply
  <2>1. policy' = policy
    BY <1>4, OthersKeepTheConfig
       DEF config, vars, ReceiveSettings, Received, ProposalDue, SettingsQuiet, ReconcileSettings,
           ProcessChanges, RejectProposal, InstallProposed, ApplyFails
  <2>2. \/ SettingsUnheard \/ debounced # "none"
        \/ proposal # None /\ proposal.settings = settings
    <3>1. settings \in Policies /\ settings # policy
      BY <1>1, <2>1
    <3>2. QED
      BY <3>1 DEF NewSettingsArePending, SettingsUnheard
  <2>3. ~ ReceiveSettings /\ ~ ReconcileSettings
    BY <1>1, <1>2 DEF ReceiveSettings, ReconcileSettings
  <2>4. debounced = "none"
    BY <1>1, <1>2, <1>4, <2>3, OthersKeepTheConfig
       DEF config, vars, ProposalDue, SettingsQuiet, ProcessChanges, RejectProposal,
           InstallProposed, ApplyFails
  <2>5. proposal # None /\ proposal.settings = settings
    BY <2>2, <2>3, <2>4, UnheardLasts
  <2>6. proposal' = None
    BY <1>1, <1>2, <2>5, ProposalSteps
  <2>7. RejectProposal
    <3>1. ConfigTyped
      BY TypeParts
    <3>2. [proposal EXCEPT !.due = TRUE] # None /\ [proposal EXCEPT !.due = FALSE] # None
      BY <2>5, <3>1, NoneIsApart DEF ConfigTyped, Proposal
    <3>3. ~ ProposalDue /\ ~ InstallProposed /\ ~ ApplyFails
      BY <2>5, <2>6, <3>2 DEF ProposalDue, InstallProposed, ApplyFails, PutBack
    <3>4. ~ SettingsQuiet /\ ~ ProcessChanges
      BY <2>4, <2>5, <2>6 DEF SettingsQuiet, ProcessChanges
    <3>5. QED
      BY <1>4, <2>3, <2>5, <2>6, <3>3, <3>4, OthersKeepTheConfig DEF config, vars
  <2>8. QED
    BY <1>1, <2>5, <2>7, ReconciliationsAssumption DEF RejectProposal
<1>5. QED
  BY <1>3, <1>4

SettingsInv == TypeOK /\ StagesHandOver /\ NewerSettingsWin /\ NewSettingsArePending

LEMMA SettingsInvHolds == Spec => []SettingsInv
<1>1. Init => SettingsInv
  BY InitIsTyped DEF Init, SettingsInv, NewerSettingsWin, NewSettingsArePending
<1>2. SettingsInv /\ [Next]_vars => SettingsInv'
  BY TypesAreInductive, NewerSettingsStillWin, NewSettingsStayPending DEF SettingsInv
<1>3. QED
  BY <1>1, <1>2, PTL DEF Spec

\* A proposal that is being retried never beats a newer edit of the settings: it
\* differs from the file only while the edit has not been heard of (unified.rs:436).
THEOREM NewerSettingsAlwaysWin == Spec => []NewerSettingsWin
<1>1. SettingsInv => NewerSettingsWin
  BY DEF SettingsInv
<1>2. QED
  BY <1>1, SettingsInvHolds, PTL

\* An edit of the settings is on its way until its settings run or turn out
\* unusable, whatever of their publication fails.
THEOREM SettingsAreNeverLost == Spec => []NewSettingsArePending
<1>1. SettingsInv => NewSettingsArePending
  BY DEF SettingsInv
<1>2. QED
  BY <1>1, SettingsInvHolds, PTL

-----------------------------------------------------------------------------
(* The running settings.                                                   *)

LEMMA OthersKeepThePolicy ==
    ASSUME [Next]_vars, ~ Apply
    PROVE  policy' = policy
BY OthersKeepTheConfig
   DEF config, vars, ReceiveSettings, Received, ProposalDue, SettingsQuiet, ReconcileSettings,
       ProcessChanges, RejectProposal, InstallProposed, ApplyFails

LEMMA RecordFollows ==
    ASSUME QueueTyped, NothingRetiredIsIndexed, NEW cs, NEW r, Record(cs, r), NEW c \in Collections,
           pending'[c] # None
    PROVE  pending'[c].config = policy[c]
BY DEF Record, NothingRetiredIsIndexed

\* The scans that a policy publishes are scans under that policy.
LEMMA ReconfiguredFollows ==
    ASSUME WorldTyped, NothingRetiredIsIndexed, NEW p \in Policies, NEW c \in Collections,
           Reconfigured(p)[c] # None
    PROVE  Reconfigured(p)[c].config = p[c]
<1>1. CASE ahead # None \/ p[c] # policy[c]
  <2>1. Reconfigured(p)[c] = Rows(c, p[c]) /\ p[c] # Off
    BY <1>1 DEF Reconfigured, Scanned
  <2>2. QED
    BY <2>1, PolicySays, RowsType
<1>2. CASE ahead = None /\ p[c] = policy[c]
  BY <1>2 DEF Reconfigured, Adopted, NothingRetiredIsIndexed
<1>3. QED
  BY <1>1, <1>2

LEMMA NothingRetiredIsIndexedStays ==
    ASSUME TypeOK, StagesHandOver, NothingRetiredIsIndexed, [Next]_vars
    PROVE  NothingRetiredIsIndexed'
<1>1. WorldTyped /\ QueueTyped /\ StoreTyped /\ ConfigTyped
  BY TypeParts
<1>2. CASE Apply
  <2>1. /\ proposal.settings \in Policies /\ policy' = proposal.settings
        /\ index' = Reconfigured(proposal.settings) /\ pending' = KeptWork(proposal.settings)
        /\ \A c \in Collections : batch'[c] = None
    BY <1>2 DEF Apply, StagesHandOver
  <2>2. ASSUME NEW c \in Collections, pending'[c] # None
        PROVE  pending'[c].config = policy'[c]
    BY <1>1, <2>1, <2>2 DEF KeptWork, QueueTyped, Work
  <2>3. QED
    BY <1>1, <2>1, <2>2, ReconfiguredFollows DEF NothingRetiredIsIndexed
<1>3. CASE ~ Apply
  <2> USE OthersKeepThePolicy
  <2>1. CASE ReceiveSettings \/ WorkDue
    BY <1>1, <1>3, <2>1 DEF ReceiveSettings, Received, WorkDue, ProposalDue, CollectionDue, queue,
       store, NothingRetiredIsIndexed, QueueTyped, Work
  <2>2. CASE ReceiveDocument \/ TakeOverflow
    BY <1>1, <1>3, <2>2, RecordFollows
       DEF ReceiveDocument, Received, TakeOverflow, store, NothingRetiredIsIndexed
  <2>3. CASE TakeReady
    BY <1>3, <2>3 DEF TakeReady, Ready, Waiting, store, NothingRetiredIsIndexed
  <2>4. CASE WatchFails
    BY <1>1, <1>3, <2>4, RetriedType DEF WatchFails, Due, store, NothingRetiredIsIndexed, QueueTyped
  <2>5. ASSUME NEW c \in Collections, Scan(c)
        PROVE  NothingRetiredIsIndexed'
    <3>1. batch[c] # None /\ batch[c].config = policy[c] /\ batch[c].config \in Configs
      BY <1>1, <2>5 DEF Scan, NothingRetiredIsIndexed, QueueTyped, Work
    <3>2. Rows(c, batch[c].config) # None => Rows(c, batch[c].config).config = policy[c]
      BY <1>1, <3>1, RowsType
    <3>3. QED
      BY <1>1, <1>3, <2>5, <3>2 DEF Scan, NothingRetiredIsIndexed, QueueTyped, StoreTyped, Index
  <2>6. ASSUME NEW c \in Collections, ScanFails(c)
        PROVE  NothingRetiredIsIndexed'
    BY <1>1, <1>3, <2>6, RetriedType DEF ScanFails, NothingRetiredIsIndexed, QueueTyped
  <2>7. CASE ApplyFails \/ UNCHANGED <<queue, store>>
    BY <1>3, <2>7 DEF ApplyFails, queue, store, NothingRetiredIsIndexed
  <2>8. QED
    BY <1>3, <2>1, <2>2, <2>3, <2>4, <2>5, <2>6, <2>7, OthersKeepTheQueue, OthersKeepTheStore
       DEF Receive, vars, queue, store
<1>4. QED
  BY <1>2, <1>3

\* Nothing is indexed, due or scanned under settings that no longer run, whatever
\* of a publication or a scan fails.
THEOREM RetiredIsNeverIndexed == Spec => []NothingRetiredIsIndexed
<1>1. Init => TypeOK /\ StagesHandOver /\ NothingRetiredIsIndexed
  <2> SUFFICES ASSUME Init
               PROVE  TypeOK /\ StagesHandOver /\ NothingRetiredIsIndexed
    OBVIOUS
  <2>1. TypeOK /\ StagesHandOver /\ WorldTyped /\ ConfigTyped
    BY InitIsTyped, TypeParts
  <2>2. ASSUME NEW c \in Collections, index[c] # None
        PROVE  index[c].config = policy[c]
    <3>1. index[c] = Rows(c, policy[c]) /\ policy[c] # Off
      BY <2>2 DEF Init, Scanned
    <3>2. QED
      BY <2>1, <2>2, <3>1, PolicySays, RowsType DEF ConfigTyped
  <2>3. QED
    BY <2>1, <2>2 DEF Init, NothingRetiredIsIndexed
<1>2. TypeOK /\ StagesHandOver /\ NothingRetiredIsIndexed /\ [Next]_vars =>
        TypeOK' /\ StagesHandOver' /\ NothingRetiredIsIndexed'
  BY TypesAreInductive, NothingRetiredIsIndexedStays
<1>3. QED
  BY <1>1, <1>2, PTL DEF Spec

-----------------------------------------------------------------------------
(* Watches.  What follows assumes that directories do not come and go while*)
(* settings change, and that only a publication of settings can commit a   *)
(* generation that is not adopted; without either assumption it is false.  *)

Separate == ~ Unsettled /\ "strand" \notin FaultKinds

\* Native watches, the registry and the running policy name the same roots, but
\* for those of the proposal that is being published.
WatchesKnown ==
    /\ \A c \in watched : Exists(c)
    /\ watched \subseteq registered \cup proposed
    /\ watched \subseteq Active(policy) \cup proposed
    /\ registered \subseteq Active(policy)
    /\ proposed \cap Active(policy) = {}
    /\ lane = "apply" => proposed \subseteq Active(proposal.settings)

\* Nothing but the running settings is on its way to be published.
SettingsAtRest ==
    /\ settings = policy /\ ahead = None
    /\ proposal # None => proposal.settings = policy

\* Only one of the two is ever unsettled.
OneUnsettled == RootsSettled \/ SettingsAtRest

LEMMA IndexedIsActive ==
    ASSUME NEW p \in Policies, NEW rows \in Index, NEW c \in Collections, rows[c] # None,
           rows[c].config = p[c]
    PROVE  c \in Active(p)
<1>1. rows[c] \in Row
  BY DEF Index, Row
<1>2. QED
  BY <1>1, ReconciliationsAssumption DEF Row, Active

LEMMA ReloadedWatches ==
    ASSUME NEW p \in Policies, NEW rows \in Index, NEW outdated, ReloadHandlers(p, rows, outdated),
           \A c \in Collections : rows[c] # None => rows[c].config = p[c]
    PROVE  /\ WatchRoots(p) \subseteq registered' /\ registered' \subseteq Active(p)
           /\ watched' \subseteq watched \cup {c \in registered' : Exists(c)}
           /\ watched \ watched' \subseteq outdated \ registered'
           /\ watched' \cap outdated \cap registered \subseteq registered'
           /\ WatchRoots(p) \ registered \subseteq watched'
<1>1. {c \in Collections : rows[c] # None} \subseteq Active(p)
  BY IndexedIsActive
<1>2. WatchRoots(p) \subseteq Active(p)
  BY DEF WatchRoots
<1> DEFINE documents == {c \in Collections : rows[c] # None}
           missing   == (documents \ registered)
                          \cup {c \in WatchRoots(p) : c \notin documents \/ c \notin roots}
<1>3. /\ registered' = documents \cup WatchRoots(p)
      /\ watched' = (watched \cup {c \in missing : Exists(c)})
                        \ (outdated \cap (registered \ registered'))
  BY DEF ReloadHandlers
<1>4. missing \subseteq registered' /\ WatchRoots(p) \ registered \subseteq missing
  BY <1>3
<1>5. \A c \in WatchRoots(p) : Exists(c)
  BY DEF WatchRoots
<1>6. QED
  BY <1>1, <1>2, <1>3, <1>4, <1>5

LEMMA RunningReload ==
    ASSUME TypeOK, StagesHandOver, NothingRetiredIsIndexed, HearReload \/ ReconcileSettings
    PROVE  /\ WatchRoots(policy) \subseteq registered' /\ registered' \subseteq Active(policy)
           /\ watched' \subseteq watched \cup {c \in registered' : Exists(c)}
           /\ watched \subseteq watched'
           /\ proposed = {} /\ proposed' = {} /\ policy' = policy /\ text' = text
           /\ lane' # "apply"
<1>1. policy \in Policies /\ index \in Index
  BY TypeParts DEF ConfigTyped, StoreTyped
<1>2. ReloadHandlers(policy, index, {}) /\ UNCHANGED <<policy, proposed, text>>
  BY DEF HearReload, ReconcileSettings, config, world
<1>3. lane # "apply" /\ lane' # "apply"
  BY DEF HearReload, ReconcileSettings, Goto
<1>4. \A c \in Collections : index[c] # None => index[c].config = policy[c]
  BY DEF NothingRetiredIsIndexed
<1>5. QED
  BY <1>1, <1>2, <1>3, <1>4, ReloadedWatches DEF StagesHandOver

LEMMA AppliedReload ==
    ASSUME TypeOK, StagesHandOver, NothingRetiredIsIndexed, Apply
    PROVE  /\ policy' \in Policies
           /\ WatchRoots(policy') \subseteq registered' /\ registered' \subseteq Active(policy')
           /\ watched' \subseteq watched \cup {c \in registered' : Exists(c)}
           /\ watched \ watched' \subseteq Collections \ registered'
           /\ watched' \cap Collections \cap registered \subseteq registered'
           /\ WatchRoots(policy') \ registered \subseteq watched'
           /\ policy' = proposal.settings /\ proposed' = {} /\ text' = text /\ lane' # "apply"
<1>1. /\ policy' = proposal.settings /\ proposal.settings \in Policies
      /\ index' = Reconfigured(proposal.settings)
      /\ ReloadHandlers(proposal.settings, index', Collections)
      /\ proposed' = {} /\ text' = text /\ lane' # "apply"
  BY DEF Apply, StagesHandOver, Goto, world
<1>2. WorldTyped /\ StoreTyped
  BY TypeParts
<1>3. index' \in Index
  BY <1>1, <1>2, ReconfiguredType
<1>4. \A c \in Collections : index'[c] # None => index'[c].config = proposal.settings[c]
  BY <1>1, <1>2, ReconfiguredFollows
<1>5. QED
  BY <1>1, <1>3, <1>4, ReloadedWatches

\* An editor only takes watches away, and those with their directories.
LEMMA EditorsAndWatches ==
    ASSUME TypeOK, Editors
    PROVE  /\ watched' \subseteq watched
           /\ UNCHANGED <<registered, roots, config, queue, store, lane>>
           /\ \A c \in watched' : Exists(c) => Exists(c)'
           /\ \A c \in Collections : c \in watched /\ c \notin watched' => ~ Exists(c)'
<1>1. WorldTyped /\ Gone \notin Texts /\ watched \subseteq Collections
  BY TypeParts, ReconciliationsAssumption DEF WatchesTyped
<1>2. ASSUME NEW d \in Collections, RemoveRoot(d)
      PROVE  /\ watched' \subseteq watched
             /\ \A c \in watched' : Exists(c) => Exists(c)'
             /\ \A c \in Collections : c \in watched /\ c \notin watched' => ~ Exists(c)'
  BY <1>1, <1>2 DEF RemoveRoot, Exists, WorldTyped
<1>3. ASSUME NEW d \in Collections, NEW t \in Texts, WriteDocument(d, t) \/ CreateRoot(d, t)
      PROVE  watched' = watched /\ \A c \in Collections : Exists(c) => Exists(c)'
  BY <1>1, <1>3 DEF WriteDocument, CreateRoot, Exists, WorldTyped
<1>4. ASSUME NEW p \in Policies \cup {Unusable, Inadmissible}, WriteSettings(p)
      PROVE  watched' = watched /\ \A c \in Collections : Exists(c) => Exists(c)'
  BY <1>4 DEF WriteSettings, Exists
<1>5. UNCHANGED <<registered, roots, config, queue, store, lane>>
  BY DEF Editors, RemoveRoot, WriteDocument, CreateRoot, WriteSettings, Edit
<1>6. QED
  BY <1>1, <1>2, <1>3, <1>4, <1>5 DEF Editors

LEMMA WatchesStayKnown ==
    ASSUME TypeOK, StagesHandOver, NothingRetiredIsIndexed, WatchesKnown, OneUnsettled,
           [Next]_vars
    PROVE  WatchesKnown'
<1>1. ConfigTyped /\ WatchesTyped
  BY TypeParts
<1>2. WatchRoots(policy) \subseteq Active(policy) /\ \A c \in WatchRoots(policy) : Exists(c)
  BY DEF WatchRoots
<1>3. CASE Editors
  <2>1. \A c \in watched' : Exists(c)'
    BY <1>3, EditorsAndWatches DEF WatchesKnown
  <2>2. QED
    BY <1>3, <2>1, EditorsAndWatches DEF WatchesKnown, Active, config
<1>4. CASE HearReload \/ ReconcileSettings
  <2>1. watched' \subseteq registered' /\ \A c \in watched' : Exists(c)
    BY <1>1, <1>4, RunningReload DEF WatchesKnown, WatchesTyped, WatchRoots
  <2>2. QED
    BY <1>4, <2>1, RunningReload DEF WatchesKnown, Exists, Active
<1>5. CASE InstallProposed
  <2>1. /\ proposed = {} /\ proposal.settings \in Policies
        /\ UNCHANGED <<registered, policy, text>>
    BY <1>1, <1>5 DEF InstallProposed, StagesHandOver, Due, ConfigTyped, Proposal, world
  <2>2. NewRoots \subseteq Active(proposal.settings) /\ \A c \in NewRoots : Exists(c)
    BY DEF NewRoots, WatchRoots
  <2>3. NewRoots \cap Active(policy) = {}
    <3>1. CASE SettingsAtRest
      BY <1>5, <3>1 DEF SettingsAtRest, InstallProposed, Due, NewRoots
    <3>2. CASE RootsSettled
      <4>1. \A c \in NewRoots : c \in Active(policy) => c \in WatchRoots(policy)
        BY <2>2 DEF WatchRoots
      <4>2. QED
        BY <2>1, <3>2, <4>1 DEF RootsSettled, WatchesKnown, NewRoots
    <3>3. QED
      BY <3>1, <3>2 DEF OneUnsettled
  <2>4. CASE watched' = watched \cup NewRoots /\ proposed' = NewRoots /\ proposal' = proposal
    BY <2>1, <2>2, <2>3, <2>4 DEF WatchesKnown, Exists, Active
  <2>5. CASE watched' = watched \ NewRoots /\ proposed' = proposed /\ lane' # "apply"
    BY <2>1, <2>5 DEF WatchesKnown, Exists, Active
  <2>6. QED
    BY <1>5, <2>4, <2>5 DEF InstallProposed, Goto
<1>6. CASE Apply
  <2>1. lane = "apply"
    BY <1>6 DEF Apply
  <2>2. watched' \subseteq registered'
    BY <1>1, <1>6, <2>1, AppliedReload DEF WatchesKnown, WatchesTyped, WatchRoots
  <2>3. \A c \in watched' : Exists(c)
    BY <1>6, AppliedReload DEF WatchesKnown
  <2>4. QED
    BY <1>6, <2>2, <2>3, AppliedReload DEF WatchesKnown, Exists, Active
<1>7. CASE ApplyFails
  <2>1. watched' = watched \ proposed /\ proposed' = {} /\ lane' # "apply"
        /\ UNCHANGED <<registered, policy, text>>
    BY <1>7 DEF ApplyFails, Goto, world
  <2>2. QED
    BY <2>1 DEF WatchesKnown, Exists, Active
<1>8. CASE TakeReady \/ WatchFails
  <2>1. /\ watched' \subseteq watched \cup Missing
        /\ watched' \subseteq watched \/ registered' = registered \cup WatchRoots(policy)
        /\ registered' \in {registered, registered \cup WatchRoots(policy)}
        /\ UNCHANGED <<proposed, policy, proposal, text>> /\ lane # "apply" /\ lane' # "apply"
    BY <1>8 DEF TakeReady, WatchFails, Goto, watches, config, world
  <2>2. Missing \subseteq WatchRoots(policy)
    BY DEF Missing
  <2>3. QED
    BY <1>2, <2>1, <2>2 DEF WatchesKnown, Exists, Active
<1>9. CASE /\ UNCHANGED <<watches, proposed, text, policy>>
           /\ lane' = "apply" => UNCHANGED <<lane, proposal>>
  BY <1>9 DEF WatchesKnown, Exists, Active, watches
<1>10. ~ InstallProposed /\ ~ Apply /\ ~ ApplyFails /\ [Next]_vars =>
          (lane' = "apply" => UNCHANGED <<lane, proposal>>) \/ Editors
  BY DEF Next, Receive, ReceiveSettings, ReceiveDocument, Received, HearReload, SettingsQuiet,
     WorkDue, ProposalDue, CollectionDue, Tick, TakeOverflow, StartTick, BeginTick, Stage,
     ReconcileSettings, ProcessChanges, NoProposalDue, RejectProposal, NothingReady, TakeReady,
     WatchFails, EndScans, Scan, ScanFails, Goto, vars, config
<1>11. QED
  BY <1>3, <1>4, <1>5, <1>6, <1>7, <1>8, <1>9, <1>10, OthersKeepTheWatches, OthersKeepTheWorld,
     OthersKeepThePolicy DEF vars, world, watches, Editors

\* A root that is watched stays so while it is one.
LEMMA WatchedStaysWatched ==
    ASSUME TypeOK, StagesHandOver, NothingRetiredIsIndexed, WatchesKnown, [Next]_vars,
           NEW c \in Collections, c \in watched, c \in WatchRoots(policy)'
    PROVE  c \in watched'
<1>1. Exists(c)' /\ c \in Active(policy')
  BY DEF WatchRoots, Active
<1>2. CASE Editors
  BY <1>1, <1>2, EditorsAndWatches
<1>3. CASE HearReload \/ ReconcileSettings
  BY <1>3, RunningReload
<1>4. CASE InstallProposed
  BY <1>4 DEF InstallProposed, StagesHandOver, NewRoots, WatchesKnown
<1>5. CASE Apply
  <2>1. c \in WatchRoots(policy')
    BY <1>1, <1>5, AppliedReload DEF WatchRoots, Exists
  <2>2. QED
    BY <1>5, <2>1, AppliedReload
<1>6. CASE ApplyFails
  BY <1>1, <1>6 DEF ApplyFails, WatchesKnown
<1>7. CASE TakeReady \/ WatchFails
  BY <1>7 DEF TakeReady, WatchFails, watches
<1>8. CASE UNCHANGED watches
  BY <1>8 DEF watches
<1>9. QED
  BY <1>2, <1>3, <1>4, <1>5, <1>6, <1>7, <1>8, OthersKeepTheWatches DEF vars, watches, Editors

\* A root that was none is one by being created, or is watched when its settings
\* are applied.
LEMMA NewRootsAreReported ==
    ASSUME TypeOK, StagesHandOver, NothingRetiredIsIndexed, WatchesKnown, [Next]_vars,
           NEW c \in Collections, c \notin WatchRoots(policy), c \in WatchRoots(policy)',
           c \notin watched'
    PROVE  /\ overflow' \/ Queued(RootEvent(c))'
           /\ \E t \in Texts : CreateRoot(c, t)
<1>1. Exists(c)' /\ c \in Active(policy') /\ ~ (Exists(c) /\ c \in Active(policy))
  BY DEF WatchRoots, Active
<1>2. WorldTyped /\ EventsTyped
  BY TypeParts
<1>3. CASE Editors
  <2>1. policy' = policy
    BY <1>3, EditorsAndWatches DEF config
  <2>2. ~ Exists(c) /\ text'[c] # text[c]
    BY <1>1, <2>1 DEF Exists
  <2>3. PICK t \in Texts : CreateRoot(c, t)
    BY <1>1, <1>2, <1>3, <2>2
       DEF Editors, RemoveRoot, WriteDocument, CreateRoot, WriteSettings, Exists, WorldTyped
  <2>4. Notify(RootEvent(c))
    BY <2>3 DEF CreateRoot
  <2>5. QED
    BY <1>2, <2>3, <2>4, NotifiedIsReported
<1>4. CASE Apply
  <2>1. /\ text' = text /\ c \in WatchRoots(policy')
        /\ WatchRoots(policy') \ registered \subseteq watched'
    BY <1>1, <1>4, AppliedReload DEF WatchRoots, Active, Exists
  <2>2. c \notin Active(policy)
    BY <1>1, <2>1 DEF Exists
  <2>3. c \notin registered
    BY <2>2 DEF WatchesKnown
  <2>4. QED
    BY <2>1, <2>3
<1>5. CASE ~ Editors /\ ~ Apply
  <2>1. text' = text /\ policy' = policy
    BY <1>5, OthersKeepTheWorld, OthersKeepThePolicy DEF world, vars
  <2>2. QED
    BY <1>1, <2>1 DEF Exists
<1>6. QED
  BY <1>3, <1>4, <1>5

LEMMA OneUnsettledStays ==
    ASSUME TypeOK, StagesHandOver, NothingRetiredIsIndexed, WatchesKnown, OneUnsettled, Separate,
           [Next]_vars
    PROVE  OneUnsettled'
<1> SUFFICES ASSUME ~ RootsSettled'
             PROVE  SettingsAtRest'
  BY DEF OneUnsettled
<1>1. PICK c \in Collections : c \in WatchRoots(policy)' /\ c \notin watched'
  BY DEF RootsSettled, WatchRoots, Active
<1>2. CASE c \notin WatchRoots(policy)
  <2>1. PICK t \in Texts : CreateRoot(c, t)
    BY <1>1, <1>2, NewRootsAreReported
  <2>2. SettingsSettled /\ UNCHANGED <<settings, policy, proposal, ahead>>
    BY <2>1 DEF CreateRoot, Edit, Separate, config, store
  <2>3. QED
    BY <2>2 DEF SettingsSettled, SettingsAtRest
<1>3. CASE c \in WatchRoots(policy)
  <2>1. c \notin watched
    BY <1>1, WatchedStaysWatched
  <2>2. SettingsAtRest
    BY <1>3, <2>1 DEF OneUnsettled, RootsSettled
  <2>3. settings' = settings
    <3>1. \A p : ~ WriteSettings(p)
      BY <1>3, <2>1 DEF WriteSettings, RootsSettled, Separate
    <3>2. QED
      BY <3>1, OthersKeepTheWorld DEF Editors, RemoveRoot, WriteDocument, CreateRoot, world, vars
  <2>4. CASE Apply
    BY <2>2, <2>3, <2>4 DEF Apply, StagesHandOver, SettingsAtRest
  <2>5. CASE ~ Apply
    <3>1. policy' = policy
      BY <2>5, OthersKeepThePolicy
    <3>2. proposal' # None => proposal'.settings = policy
      <4>1. Loaded # None => Loaded.settings = settings
        BY DEF Loaded
      <4>2. QED
        BY <2>2, <4>1, ProposalSteps DEF SettingsAtRest
    <3>3. ahead' = None
      BY <2>2, <2>5, OthersKeepTheStore
         DEF SettingsAtRest, Separate, Scan, ScanFails, Fault, ApplyFails, StagesHandOver, store,
             vars
    <3>4. QED
      BY <2>2, <2>3, <3>1, <3>2, <3>3 DEF SettingsAtRest
  <2>6. QED
    BY <2>4, <2>5
<1>4. QED
  BY <1>2, <1>3

LEMMA RecordKeeps ==
    ASSUME ConfigTyped, QueueTyped, NEW cs \in SUBSET Active(policy), NEW r \in BOOLEAN,
           Record(cs, r), NEW c \in Collections
    PROVE  /\ pending[c] # None => pending'[c] # None
           /\ pending[c] # None /\ pending[c].refresh => pending'[c].refresh
           /\ c \in cs => pending'[c] # None /\ (r => pending'[c].refresh)
<1>1. PICK putOff \in BOOLEAN :
        pending' = [d \in Collections |->
            IF d \notin cs THEN pending[d]
            ELSE IF pending[d] = None
                 THEN [config |-> policy[d], refresh |-> r, due |-> FALSE]
                 ELSE [config |-> policy[d], refresh |-> r \/ pending[d].refresh,
                       due |-> pending[d].due /\ ~ putOff]]
  BY DEF Record
<1>2. CASE c \notin cs
  BY <1>1, <1>2
<1>3. CASE c \in cs
  <2>1. policy[c] \in Configs
    BY <1>3, PolicySays DEF ConfigTyped, Active
  <2>2. CASE pending[c] = None
    <3>1. pending'[c] = [config |-> policy[c], refresh |-> r, due |-> FALSE]
      BY <1>1, <1>3, <2>2
    <3>2. pending'[c] \in Work
      BY <2>1, <3>1 DEF Work
    <3>3. pending'[c] # None
      BY <3>2, NoneIsApart
    <3>4. r => pending'[c].refresh
      BY <3>1
    <3>5. QED
      BY <2>2, <3>3, <3>4
  <2>3. CASE pending[c] # None
    <3>1. pending'[c] = [config |-> policy[c], refresh |-> r \/ pending[c].refresh,
                         due |-> pending[c].due /\ ~ putOff]
      BY <1>1, <1>3, <2>3
    <3>2. pending'[c] \in Work
      BY <2>1, <2>3, <3>1 DEF Work, QueueTyped
    <3>3. pending'[c] # None
      BY <3>2, NoneIsApart
    <3>4. r \/ pending[c].refresh => pending'[c].refresh
      <4>1. pending'[c].refresh = (r \/ pending[c].refresh)
        BY <3>1
      <4>2. pending[c].refresh \in BOOLEAN
        BY <2>3 DEF QueueTyped, Work
      <4>3. QED
        BY <4>1, <4>2
    <3>5. QED
      BY <3>3, <3>4
  <2>4. QED
    BY <2>2, <2>3
<1>4. QED
  BY <1>2, <1>3

\* Receipt of an event of a collection makes it pending.
LEMMA ReceivedIsPending ==
    ASSUME TypeOK, ReceiveDocument, NEW c \in Active(policy),
           Head(events) \in {FileEvent(c), RootEvent(c)}
    PROVE  /\ pending'[c] # None
           /\ Head(events) = RootEvent(c) => pending'[c].refresh
<1>1. ConfigTyped /\ QueueTyped /\ c \in Collections
  BY TypeParts DEF Active
<1>2. Head(events).of = c /\ (Head(events) = RootEvent(c) => Head(events).kind = "root")
  BY DEF FileEvent, RootEvent
<1>3. Record({c}, Head(events).kind = "root" \/ ~ Exists(c))
  BY <1>2 DEF ReceiveDocument
<1>4. (Head(events).kind = "root" \/ ~ Exists(c)) \in BOOLEAN
  OBVIOUS
<1>5. QED
  BY <1>1, <1>2, <1>3, <1>4, RecordKeeps

LEMMA OverflowIsPending ==
    ASSUME TypeOK, TakeOverflow, NEW c \in Active(policy)
    PROVE  pending'[c] # None /\ pending'[c].refresh
<1>1. ConfigTyped /\ QueueTyped /\ c \in Collections
  BY TypeParts DEF Active
<1>2. QED
  BY <1>1, RecordKeeps DEF TakeOverflow

\* A root that is not watched has its refresh until the watch is repaired.
LEMMA RefreshLasts ==
    ASSUME TypeOK, StagesHandOver, WatchesKnown, OneUnsettled, [Next]_vars, NEW c \in Collections,
           c \in WatchRoots(policy), c \notin watched, c \notin watched',
           pending[c] # None, pending[c].refresh
    PROVE  pending'[c] # None /\ pending'[c].refresh
<1>1. ConfigTyped /\ QueueTyped
  BY TypeParts
<1>2. CASE ReceiveSettings
  BY <1>2 DEF ReceiveSettings
<1>3. CASE ReceiveDocument
  <2>1. (Head(events).kind = "root" \/ ~ Exists(Head(events).of)) \in BOOLEAN
    OBVIOUS
  <2>2. QED
    BY <1>1, <1>3, <2>1, RecordKeeps DEF ReceiveDocument
<1>4. CASE TakeOverflow
  BY <1>1, <1>4, RecordKeeps DEF TakeOverflow
<1>5. CASE WorkDue
  <2>1. ASSUME NEW d \in Collections, CollectionDue(d)
        PROVE  pending'[c] # None /\ pending'[c].refresh
    <3>1. pending' = [pending EXCEPT ![d].due = TRUE]
      BY <2>1 DEF CollectionDue
    <3>2. [pending[c] EXCEPT !.due = TRUE] \in Work
      BY <1>1 DEF QueueTyped, Work
    <3>3. QED
      BY <1>1, <3>1, <3>2, NoneIsApart DEF QueueTyped, Work
  <2>2. QED
    BY <1>5, <2>1 DEF WorkDue, ProposalDue, queue
<1>6. CASE Apply
  <2>1. SettingsAtRest
    BY DEF OneUnsettled, RootsSettled
  <2>2. pending'[c] = [pending[c] EXCEPT !.config = policy[c]] /\ policy[c] # Off
    BY <1>6, <2>1 DEF Apply, StagesHandOver, SettingsAtRest, KeptWork, WatchRoots, Active
  <2>3. pending'[c] \in Work
    BY <1>1, <2>2, PolicySays DEF ConfigTyped, QueueTyped, Work
  <2>4. QED
    BY <1>1, <2>2, <2>3, NoneIsApart DEF QueueTyped, Work
<1>7. CASE TakeReady
  <2>1. c \notin Refreshing
    BY <1>7 DEF TakeReady, Missing
  <2>2. QED
    BY <1>7, <2>1 DEF TakeReady, Waiting, Refreshing
<1>8. CASE WatchFails
  BY <1>1, <1>8, RetriedType, NoneIsApart DEF WatchFails, Due, QueueTyped
<1>9. ASSUME NEW d \in Collections, Scan(d) \/ ScanFails(d)
      PROVE  pending'[c] # None /\ pending'[c].refresh
  BY <1>1, <1>9 DEF Scan, ScanFails, StagesHandOver, QueueTyped
<1>10. CASE UNCHANGED queue
  BY <1>10 DEF queue
<1>11. QED
  BY <1>2, <1>3, <1>4, <1>5, <1>6, <1>7, <1>8, <1>9, <1>10, OthersKeepTheQueue
     DEF Receive, vars, queue

LEMMA EveryRootStaysWatched ==
    ASSUME TypeOK, StagesHandOver, NothingRetiredIsIndexed, WatchesKnown, OneUnsettled,
           EveryRootIsWatched, [Next]_vars
    PROVE  EveryRootIsWatched'
<1> SUFFICES ASSUME NEW c \in WatchRoots(policy)', c \notin watched',
                    ~ (overflow' \/ Queued(RootEvent(c))')
             PROVE  pending'[c] # None /\ pending'[c].refresh
  BY DEF EveryRootIsWatched
<1>1. c \in Collections
  BY DEF WatchRoots, Active
<1>2. c \notin watched /\ c \in WatchRoots(policy)
  BY <1>1, WatchedStaysWatched, NewRootsAreReported
<1>3. c \in Active(policy)
  BY <1>2 DEF WatchRoots
<1>4. CASE overflow \/ Queued(RootEvent(c))
  <2>1. TakeOverflow \/ (Receive /\ Head(events) = RootEvent(c))
    BY <1>4, ReportsLast
  <2>2. RootEvent(c) # SettingsEvent
    BY DEF RootEvent, SettingsEvent
  <2>3. TakeOverflow \/ (ReceiveDocument /\ Head(events) = RootEvent(c))
    BY <2>1, <2>2 DEF Receive, ReceiveSettings
  <2>4. QED
    BY <1>3, <2>3, ReceivedIsPending, OverflowIsPending
<1>5. CASE pending[c] # None /\ pending[c].refresh
  BY <1>1, <1>2, <1>5, RefreshLasts
<1>6. QED
  BY <1>2, <1>4, <1>5 DEF EveryRootIsWatched

\* Work that is pending or being scanned stays so until its scan succeeds or the
\* settings do without it.
LEMMA WorkLasts ==
    ASSUME TypeOK, [Next]_vars, NEW c \in Collections, ~ Apply, ~ Scan(c),
           pending[c] # None \/ batch[c] # None, StagesHandOver
    PROVE  pending'[c] # None \/ batch'[c] # None
<1>1. ConfigTyped /\ QueueTyped
  BY TypeParts
<1>2. CASE ReceiveSettings
  BY <1>2 DEF ReceiveSettings, Received
<1>3. CASE ReceiveDocument
  <2>1. (Head(events).kind = "root" \/ ~ Exists(Head(events).of)) \in BOOLEAN
    OBVIOUS
  <2>2. QED
    BY <1>1, <1>3, <2>1, RecordKeeps DEF ReceiveDocument, Received
<1>4. CASE TakeOverflow
  BY <1>1, <1>4, RecordKeeps DEF TakeOverflow
<1>5. CASE WorkDue
  <2>1. ASSUME NEW d \in Collections, CollectionDue(d)
        PROVE  pending'[c] # None \/ batch'[c] # None
    <3>1. pending' = [pending EXCEPT ![d].due = TRUE] /\ batch' = batch
      BY <2>1 DEF CollectionDue
    <3>2. pending[c] # None => [pending[c] EXCEPT !.due = TRUE] \in Work
      BY <1>1 DEF QueueTyped, Work
    <3>3. QED
      BY <1>1, <3>1, <3>2, NoneIsApart DEF QueueTyped, Work
  <2>2. QED
    BY <1>5, <2>1 DEF WorkDue, ProposalDue, queue
<1>6. CASE TakeReady
  BY <1>6 DEF TakeReady, Ready, Waiting, StagesHandOver
<1>7. CASE WatchFails
  BY <1>1, <1>7, RetriedType, NoneIsApart DEF WatchFails, Due, QueueTyped
<1>8. ASSUME NEW d \in Collections, Scan(d) \/ ScanFails(d)
      PROVE  pending'[c] # None \/ batch'[c] # None
  BY <1>1, <1>8, RetriedType, NoneIsApart DEF Scan, ScanFails, QueueTyped
<1>9. CASE UNCHANGED queue
  BY <1>9 DEF queue
<1>10. QED
  BY <1>2, <1>3, <1>4, <1>5, <1>6, <1>7, <1>8, <1>9, OthersKeepTheQueue DEF Receive, vars, queue

\* An edit of documents is reported, or its collection waits for new watches.
LEMMA EditsAreNoticed ==
    ASSUME TypeOK, EveryRootIsWatched, Editors, NEW c \in Active(policy), text'[c] # text[c]
    PROVE  \/ overflow' \/ Queued(FileEvent(c))' \/ Queued(RootEvent(c))'
           \/ pending'[c] # None
<1>1. WorldTyped /\ EventsTyped /\ c \in Collections
  BY TypeParts DEF Active
<1>2. \/ RemoveRoot(c)
      \/ \E t \in Texts : WriteDocument(c, t) \/ CreateRoot(c, t)
  BY <1>1 DEF Editors, RemoveRoot, WriteDocument, CreateRoot, WriteSettings, WorldTyped
<1>3. CASE Notify(FileEvent(c)) \/ Notify(RootEvent(c))
  BY <1>1, <1>3, NotifiedIsReported
<1>4. CASE UNCHANGED native /\ Exists(c) /\ c \notin watched
  <2>1. overflow \/ Queued(RootEvent(c)) \/ pending[c] # None
    BY <1>4 DEF EveryRootIsWatched, WatchRoots
  <2>2. pending' = pending
    BY EditorsAndWatches DEF queue
  <2>3. QED
    BY <1>4, <2>1, <2>2 DEF native, Queued
<1>5. QED
  BY <1>2, <1>3, <1>4 DEF RemoveRoot, WriteDocument, CreateRoot

LEMMA EveryDocumentStaysPending ==
    ASSUME TypeOK, StagesHandOver, NothingRetiredIsIndexed, EveryRootIsWatched,
           EveryDocumentIsPending, [Next]_vars
    PROVE  EveryDocumentIsPending'
<1> SUFFICES ASSUME NEW c \in Active(policy)', index'[c] # Rows(c, policy[c])',
                    ~ (overflow' \/ Queued(FileEvent(c))' \/ Queued(RootEvent(c))')
             PROVE  pending'[c] # None \/ batch'[c] # None
  BY DEF EveryDocumentIsPending
<1>1. c \in Collections /\ WorldTyped /\ ConfigTyped /\ QueueTyped /\ StoreTyped
  BY TypeParts DEF Active
<1>2. ASSUME c \in Active(policy), index[c] # Rows(c, policy[c]), ~ Apply, ~ Scan(c)
      PROVE  pending'[c] # None \/ batch'[c] # None
  <2>1. CASE overflow \/ Queued(FileEvent(c)) \/ Queued(RootEvent(c))
    <3>1. TakeOverflow \/ (Receive /\ Head(events) \in {FileEvent(c), RootEvent(c)})
      BY <2>1, ReportsLast
    <3>2. SettingsEvent \notin {FileEvent(c), RootEvent(c)}
      BY DEF FileEvent, RootEvent, SettingsEvent
    <3>3. QED
      BY <1>2, <3>1, <3>2, ReceivedIsPending, OverflowIsPending DEF Receive, ReceiveSettings
  <2>2. CASE pending[c] # None \/ batch[c] # None
    BY <1>1, <1>2, <2>2, WorkLasts
  <2>3. QED
    BY <1>2, <2>1, <2>2 DEF EveryDocumentIsPending
<1>3. CASE Editors
  <2>1. UNCHANGED <<policy, index>> /\ ~ Apply /\ ~ Scan(c)
    <3>1. edits' = edits + 1 /\ edits \in Int
      BY <1>1, <1>3
         DEF Editors, RemoveRoot, WriteDocument, CreateRoot, WriteSettings, Edit, WorldTyped
    <3>2. edits' # edits
      BY <3>1
    <3>3. QED
      BY <1>3, <3>2, EditorsAndWatches DEF config, store, Apply, Scan, world
  <2>2. c \in Active(policy)
    BY <2>1 DEF Active
  <2>3. CASE text'[c] = text[c]
    BY <1>2, <2>1, <2>2, <2>3 DEF Rows, Exists
  <2>4. CASE text'[c] # text[c]
    BY <1>3, <2>2, <2>4, EditsAreNoticed
  <2>5. QED
    BY <2>3, <2>4
<1>4. CASE Apply
  <2> DEFINE p == proposal.settings
  <2>1. policy' = p /\ p[c] # Off /\ text' = text /\ index'[c] # Rows(c, p[c])
    BY <1>4 DEF Apply, Active, Rows, Exists, world
  <2>2. ahead = None /\ p[c] = policy[c] /\ index'[c] = index[c]
    BY <1>1, <1>4, <2>1 DEF Apply, Reconfigured, Scanned, Adopted
  <2>3. c \in Active(policy) /\ index[c] # Rows(c, policy[c])
    BY <1>1, <2>1, <2>2 DEF Active
  <2>4. ~ (overflow \/ Queued(FileEvent(c)) \/ Queued(RootEvent(c)))
    BY <1>4 DEF Apply, Queued
  <2>5. batch[c] = None
    BY <1>1, <1>4 DEF Apply, StagesHandOver
  <2>6. pending[c] # None
    BY <2>3, <2>4, <2>5 DEF EveryDocumentIsPending
  <2>7. pending'[c] = [pending[c] EXCEPT !.config = p[c]] /\ p[c] \in Configs
    BY <1>1, <1>4, <2>1, <2>2, <2>6, PolicySays DEF Apply, KeptWork, ConfigTyped
  <2>8. pending'[c] \in Work
    BY <1>1, <2>6, <2>7 DEF QueueTyped, Work
  <2>9. QED
    BY <2>8, NoneIsApart
<1>5. CASE ~ Editors /\ ~ Apply
  <2>1. policy' = policy /\ text' = text
    BY <1>5, OthersKeepTheWorld, OthersKeepThePolicy DEF world, vars
  <2>2. c \in Active(policy) /\ index'[c] # Rows(c, policy[c])
    BY <2>1 DEF Active, Rows, Exists
  <2>3. ~ Scan(c)
    <3>1. ASSUME Scan(c)
          PROVE  index'[c] = Rows(c, policy[c])
      BY <1>1, <3>1 DEF Scan, NothingRetiredIsIndexed, StoreTyped, Index
    <3>2. QED
      BY <2>2, <3>1
  <2>4. index'[c] = index[c]
    BY <1>1, <1>5, <2>3, OthersKeepTheStore
       DEF Scan, ScanFails, ApplyFails, StoreTyped, Index, store, vars
  <2>5. QED
    BY <1>2, <1>5, <2>2, <2>3, <2>4
<1>6. QED
  BY <1>3, <1>4, <1>5

RootsInv == /\ TypeOK /\ StagesHandOver /\ NothingRetiredIsIndexed
            /\ WatchesKnown /\ OneUnsettled /\ EveryRootIsWatched /\ EveryDocumentIsPending

LEMMA InitIsWatched ==
    ASSUME Init
    PROVE  RootsInv
<1>1. TypeOK /\ StagesHandOver /\ WorldTyped /\ ConfigTyped
  BY InitIsTyped, TypeParts
<1>2. \A c \in Active(policy) : index[c] = Rows(c, policy[c])
  BY DEF Init, Scanned, Active
<1>3. \A c \in Collections : index[c] # None => index[c].config = policy[c]
  BY <1>1, PolicySays, RowsType DEF Init, Scanned, ConfigTyped
<1>4. WatchRoots(policy) = watched /\ watched = registered /\ proposed = {} /\ lane = "idle"
  BY DEF Init
<1>5. WatchesKnown
  BY <1>4 DEF WatchesKnown, WatchRoots
<1>6. OneUnsettled /\ EveryRootIsWatched
  BY <1>4 DEF OneUnsettled, RootsSettled, EveryRootIsWatched
<1>7. QED
  BY <1>1, <1>2, <1>3, <1>5, <1>6
     DEF Init, RootsInv, NothingRetiredIsIndexed, EveryDocumentIsPending

LEMMA RootsInvIsInductive ==
    ASSUME Separate, RootsInv, [Next]_vars
    PROVE  RootsInv'
BY TypesAreInductive, NothingRetiredIsIndexedStays, WatchesStayKnown, OneUnsettledStays,
   EveryRootStaysWatched, EveryDocumentStaysPending DEF RootsInv

LEMMA RootsInvHolds ==
    ASSUME Separate
    PROVE  Spec => []RootsInv
<1>1. Init => RootsInv
  BY InitIsWatched
<1>2. RootsInv /\ [Next]_vars => RootsInv'
  BY RootsInvIsInductive
<1>3. QED
  BY <1>1, <1>2, PTL DEF Spec

\* A document whose text or settings the index does not have is on its way to a
\* scan, through failures, retries and new settings (unified.rs:114, 144).
THEOREM NoDocumentIsForgotten ==
    ASSUME Separate
    PROVE  Spec => []EveryDocumentIsPending
<1>1. RootsInv => EveryDocumentIsPending
  BY DEF RootsInv
<1>2. QED
  BY <1>1, RootsInvHolds, PTL

\* An indexed root without a native watch is on its way to a new one before its
\* next scan (register_handler_roots_with_reinstall, unified.rs:602).
THEOREM NoRootIsForgotten ==
    ASSUME Separate
    PROVE  Spec => []EveryRootIsWatched
<1>1. RootsInv => EveryRootIsWatched
  BY DEF RootsInv
<1>2. QED
  BY <1>1, RootsInvHolds, PTL

=============================================================================
