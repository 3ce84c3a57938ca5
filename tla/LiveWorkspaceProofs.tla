------------------------ MODULE LiveWorkspaceProofs ------------------------
(***************************************************************************)
(* Proofs about LiveWorkspace, for any number of readers and routers and   *)
(* every bound: type correctness; that whoever may write has the index     *)
(* open at its last commit; and that a reader which watches, with nothing  *)
(* left to handle, answers from the tree as it is.                         *)
(*                                                                         *)
(* Nothing here depends on what the routers do beyond what Routed allows   *)
(* them, so that it holds of WorkspaceReaders as well.                     *)
(***************************************************************************)
EXTENDS LiveWorkspace, TLAPS

Places == Writing \cup {"none", "booting", "loaded", "waiting", "failed", "gone"}
Procs  == [Children -> Locals]

\* The lease is the program counter of whoever writes.
Exclusive ==
    /\ \A c \in Children : At(c, Writing) <=> lease = c
    /\ cli.at = "writing" <=> lease = Cli

\* A pass under the watch has read the present tree, or knows of a later change.
ReadIsCurrent ==
    \A c \in Children :
        At(c, {"rescanning", "handling"}) /\ ~proc[c].dirty => proc[c].read = tree

\* The inductive invariant.
LiveInv == TypeOKLive /\ Exclusive /\ WriterIsCurrent /\ ReadIsCurrent /\ WatchingIsCurrent

RestTyped ==
    /\ tree \in 0..MaxEdits /\ settings \in Rules
    /\ index \in Rows \cup {None, Partial}
    /\ lease \in Children \cup Routers \cup {Cli, Nobody}
    /\ known \in SUBSET (Children \cup {Cli})
    /\ cli \in [at : {"idle", "writing"}, conf : Rules, read : 0..MaxEdits]
    /\ faults \in 0..MaxFaults

LEMMA TypeParts == TypeOKLive <=> proc \in Procs /\ RestTyped
BY DEF TypeOKLive, RestTyped, Procs

LEMMA NextTypeParts == TypeOKLive' <=> proc' \in Procs /\ RestTyped'
BY DEF TypeOKLive, RestTyped, Procs

-----------------------------------------------------------------------------
(* The locals of a process, one field at a time.                           *)

LEMMA PutLocals ==
    ASSUME NEW p \in Procs, NEW c \in Children, NEW s \in Locals
    PROVE  [p EXCEPT ![c] = s] \in Procs
BY DEF Procs

LEMMA PutAt ==
    ASSUME NEW p \in Procs, NEW c \in Children, NEW at \in Places
    PROVE  [p EXCEPT ![c].at = at] \in Procs
<1>1. [p[c] EXCEPT !.at = at] \in Locals
  BY SMT DEF Procs, Locals, Places
<1> QED
  BY <1>1, PutLocals

LEMMA PutConf ==
    ASSUME NEW p \in Procs, NEW c \in Children, NEW rules \in Rules
    PROVE  [p EXCEPT ![c].conf = rules] \in Procs
<1>1. [p[c] EXCEPT !.conf = rules] \in Locals
  BY SMT DEF Procs, Locals
<1> QED
  BY <1>1, PutLocals

LEMMA PutInitial ==
    ASSUME NEW p \in Procs, NEW c \in Children, NEW rules \in Rules
    PROVE  [p EXCEPT ![c].initial = rules] \in Procs
<1>1. [p[c] EXCEPT !.initial = rules] \in Locals
  BY SMT DEF Procs, Locals
<1> QED
  BY <1>1, PutLocals

LEMMA PutRead ==
    ASSUME NEW p \in Procs, NEW c \in Children, NEW read \in 0..MaxEdits
    PROVE  [p EXCEPT ![c].read = read] \in Procs
<1>1. [p[c] EXCEPT !.read = read] \in Locals
  BY SMT DEF Procs, Locals
<1> QED
  BY <1>1, PutLocals

LEMMA PutDirty ==
    ASSUME NEW p \in Procs, NEW c \in Children, NEW b \in BOOLEAN
    PROVE  [p EXCEPT ![c].dirty = b] \in Procs
<1>1. [p[c] EXCEPT !.dirty = b] \in Locals
  BY SMT DEF Procs, Locals
<1> QED
  BY <1>1, PutLocals

LEMMA PutStop ==
    ASSUME NEW p \in Procs, NEW c \in Children, NEW b \in BOOLEAN
    PROVE  [p EXCEPT ![c].stop = b] \in Procs
<1>1. [p[c] EXCEPT !.stop = b] \in Locals
  BY SMT DEF Procs, Locals
<1> QED
  BY <1>1, PutLocals

LEMMA FreshTyped ==
    ASSUME NEW at \in Places
    PROVE  Fresh \in Locals /\ [Fresh EXCEPT !.at = at] \in Locals
<1>1. 0 \in Rules /\ 0 \in 0..MaxEdits
  BY LiveAssumption DEF Rules
<1>2. Fresh \in Locals
  BY <1>1, SMT DEF Fresh, Locals
<1>3. \A s \in Locals : [s EXCEPT !.at = at] \in Locals
  BY SMT DEF Locals, Places
<1> QED
  BY <1>2, <1>3

LEMMA FailedTyped ==
    ASSUME NEW s \in Locals
    PROVE  [Fresh EXCEPT !.at = "failed", !.conf = s.conf, !.stop = s.stop] \in Locals
<1>1. s.conf \in Rules /\ s.stop \in BOOLEAN
  BY DEF Locals
<1>2. [Fresh EXCEPT !.at = "failed"] \in Locals
  BY FreshTyped DEF Places
<1>3. \A f \in Locals : [f EXCEPT !.conf = s.conf] \in Locals
  BY <1>1, SMT DEF Locals
<1>4. \A f \in Locals : \A b \in BOOLEAN : [f EXCEPT !.stop = b] \in Locals
  BY SMT DEF Locals
<1> QED
  BY <1>1, <1>2, <1>3, <1>4

LEMMA GoesTyped ==
    ASSUME NEW c \in Children, NEW at \in Places, proc \in Procs, Goes(c, at)
    PROVE  proc' \in Procs
BY PutAt DEF Goes

LEMMA DoneTyped ==
    ASSUME NEW c \in Children, NEW at \in Places, proc \in Procs, Done(c, at)
    PROVE  proc' \in Procs
<1>1. 0 \in 0..MaxEdits
  BY LiveAssumption
<1>2. [proc EXCEPT ![c].at = at] \in Procs
  BY PutAt
<1>3. [[proc EXCEPT ![c].at = at] EXCEPT ![c].read = 0] \in Procs
  BY <1>1, <1>2, PutRead
<1> QED
  BY <1>3, Zenon DEF Done

LEMMA GoneTyped ==
    ASSUME NEW c \in Children, proc \in Procs, Gone(c)
    PROVE  proc' \in Procs
BY FreshTyped, PutLocals DEF Gone, Places

LEMMA FailsTyped ==
    ASSUME NEW c \in Children, proc \in Procs, LiveFails(c)
    PROVE  proc' \in Procs
<1>1. proc[c] \in Locals
  BY DEF Procs
<1> QED
  BY <1>1, FailedTyped, PutLocals DEF LiveFails

-----------------------------------------------------------------------------
(* Type correctness, one lemma per action.                                 *)

LEMMA EditTreeType ==
    ASSUME TypeOKLive, EditTree
    PROVE  TypeOKLive'
<1>1. proc' \in Procs
  <2>1. \A c \in Children : [proc[c] EXCEPT !.dirty = TRUE] \in Locals
    <3>1. \A s \in Locals : \A b \in BOOLEAN : [s EXCEPT !.dirty = b] \in Locals
      BY SMT DEF Locals
    <3> QED
      BY <3>1, TypeParts DEF Procs
  <2> QED
    BY <2>1, TypeParts DEF EditTree, Procs
<1>2. RestTyped'
  BY TypeParts, LiveAssumption DEF EditTree, Watched, RestTyped, Procs, Locals, Rows, Texts, Rules, world, At, Passes
<1> QED
  BY <1>1, <1>2, NextTypeParts

LEMMA EditSettingsType ==
    ASSUME TypeOKLive, EditSettings
    PROVE  TypeOKLive'
<1>1. proc' \in Procs
  BY TypeParts DEF EditSettings, Procs, RestTyped, Places, Writing, Passes
<1>2. RestTyped'
  BY TypeParts, LiveAssumption DEF EditSettings, RestTyped, Procs, Locals, Rows, Texts, Rules, world, At, Passes
<1> QED
  BY <1>1, <1>2, NextTypeParts

LEMMA BootType ==
    ASSUME TypeOKLive, NEW c \in Children, Boot(c)
    PROVE  TypeOKLive'
<1>1. proc' \in Procs
  <2>1. CASE index \in Rows
    <3>1. settings \in Rules /\ "loaded" \in Places /\ proc \in Procs
      BY TypeParts DEF RestTyped, Places
    <3>2. [proc EXCEPT ![c].at = "loaded"] \in Procs
      BY <3>1, PutAt
    <3>3. [[proc EXCEPT ![c].at = "loaded"] EXCEPT ![c].conf = settings] \in Procs
      BY <3>1, <3>2, PutConf
    <3> QED
      BY <2>1, <3>3, Zenon DEF Boot
  <2>2. CASE index \notin Rows
    BY <2>2, GoneTyped, TypeParts DEF Boot
  <2> QED
    BY <2>1, <2>2
<1>2. RestTyped'
  BY TypeParts, LiveAssumption DEF Boot, Gone, Released, Fresh, RestTyped, Procs, Locals, Rows, Texts, Rules, world, At, Passes
<1> QED
  BY <1>1, <1>2, NextTypeParts

LEMMA BeginLiveType ==
    ASSUME TypeOKLive, NEW c \in Children, BeginLive(c)
    PROVE  TypeOKLive'
<1>1. proc' \in Procs
  BY TypeParts, PutAt, PutInitial DEF BeginLive, Procs, RestTyped, Places, Writing, Passes
<1>2. RestTyped'
  BY TypeParts, LiveAssumption DEF BeginLive, RestTyped, Procs, Locals, Rows, Texts, Rules, world, At, Passes
<1> QED
  BY <1>1, <1>2, NextTypeParts

LEMMA ContextFailsType ==
    ASSUME TypeOKLive, NEW c \in Children, ContextFails(c)
    PROVE  TypeOKLive'
<1>1. proc' \in Procs
  BY TypeParts, FailsTyped DEF ContextFails, Procs, RestTyped, Places, Writing, Passes
<1>2. RestTyped'
  BY TypeParts, LiveAssumption DEF ContextFails, LiveFails, Released, Fresh, ContextChanged, RestTyped, Procs, Locals, Rows, Texts, Rules, world, At, Passes
<1> QED
  BY <1>1, <1>2, NextTypeParts

LEMMA ElectType ==
    ASSUME TypeOKLive, NEW c \in Children, Elect(c)
    PROVE  TypeOKLive'
<1>1. proc' \in Procs
  BY TypeParts, GoesTyped DEF Elect, Procs, RestTyped, Places, Writing, Passes
<1>2. RestTyped'
  BY TypeParts, LiveAssumption DEF Elect, Goes, ContextChanged, RestTyped, Procs, Locals, Rows, Texts, Rules, world, At, Passes
<1> QED
  BY <1>1, <1>2, NextTypeParts

LEMMA ScanBeginsType ==
    ASSUME TypeOKLive, NEW c \in Children, ScanBegins(c)
    PROVE  TypeOKLive'
<1> DEFINE to == IF proc[c].at = "elected" THEN "scanning" ELSE "rescanning"
<1>1. proc' \in Procs
  <2>1. CASE ~proc[c].stop
    <3>1. tree \in 0..MaxEdits /\ to \in Places /\ proc \in Procs
      BY TypeParts DEF RestTyped, Places, Writing, Passes
    <3>2. [proc EXCEPT ![c].read = tree] \in Procs
      BY <3>1, PutRead
    <3>3. [[proc EXCEPT ![c].read = tree] EXCEPT ![c].at = to] \in Procs
      BY <3>1, <3>2, PutAt
    <3>4. proc' = [[proc EXCEPT ![c].read = tree] EXCEPT ![c].at = to]
      BY <2>1, <3>1 DEF ScanBegins, Procs, Locals
    <3> QED
      BY <3>3, <3>4
  <2>2. CASE proc[c].stop
    <3>1. (IF At(c, {"elected"}) THEN "prepared" ELSE "watching") \in Places
      BY DEF Places, Writing
    <3> QED
      BY <2>2, <3>1, GoesTyped, TypeParts DEF ScanBegins
  <2> QED
    BY <2>1, <2>2
<1>2. RestTyped'
  BY TypeParts, LiveAssumption DEF ScanBegins, Goes, ContextChanged, RestTyped, Procs, Locals, Rows, Texts, Rules, world, At, Passes
<1> QED
  BY <1>1, <1>2, NextTypeParts

LEMMA ScanCommitsType ==
    ASSUME TypeOKLive, NEW c \in Children, ScanCommits(c)
    PROVE  TypeOKLive'
<1>1. proc' \in Procs
  <2>1. (IF At(c, {"scanning"}) THEN "prepared" ELSE "watching") \in Places
    BY DEF Places, Writing
  <2> QED
    BY <2>1, DoneTyped, TypeParts DEF ScanCommits
<1>2. RestTyped'
  BY TypeParts, LiveAssumption DEF ScanCommits, Done, Commit, Part, RestTyped, Procs, Locals, Rows, Texts, Rules, world, At, Passes
<1> QED
  BY <1>1, <1>2, NextTypeParts

LEMMA HandleBeginsType ==
    ASSUME TypeOKLive, NEW c \in Children, HandleBegins(c)
    PROVE  TypeOKLive'
<1>1. proc' \in Procs
  BY TypeParts, PutAt, PutRead, PutDirty DEF HandleBegins, Procs, RestTyped, Places, Writing, Passes
<1>2. RestTyped'
  BY TypeParts, LiveAssumption DEF HandleBegins, RestTyped, Procs, Locals, Rows, Texts, Rules, world, At, Passes
<1> QED
  BY <1>1, <1>2, NextTypeParts

LEMMA HandleCommitsType ==
    ASSUME TypeOKLive, NEW c \in Children, HandleCommits(c)
    PROVE  TypeOKLive'
<1>1. proc' \in Procs
  BY DoneTyped, TypeParts DEF HandleCommits, Places, Writing
<1>2. RestTyped'
  BY TypeParts, LiveAssumption DEF HandleCommits, Done, Commit, RestTyped, Procs, Locals, Rows, Texts, Rules, world, At, Passes
<1> QED
  BY <1>1, <1>2, NextTypeParts

LEMMA LeaveType ==
    ASSUME TypeOKLive, NEW c \in Children, Leave(c)
    PROVE  TypeOKLive'
<1>1. proc' \in Procs
  BY GoneTyped, FailsTyped, TypeParts DEF Leave
<1>2. RestTyped'
  BY TypeParts, LiveAssumption DEF Leave, Gone, LiveFails, Released, Fresh, ContextChanged, RestTyped, Procs, Locals, Rows, Texts, Rules, world, At, Passes
<1> QED
  BY <1>1, <1>2, NextTypeParts

LEMMA EndsType ==
    ASSUME TypeOKLive, NEW c \in Children, Ends(c)
    PROVE  TypeOKLive'
<1>1. proc' \in Procs
  BY TypeParts, GoneTyped DEF Ends, Procs, RestTyped, Places, Writing, Passes
<1>2. RestTyped'
  BY TypeParts, LiveAssumption DEF Ends, Gone, Released, Fresh, RestTyped, Procs, Locals, Rows, Texts, Rules, world, At, Passes
<1> QED
  BY <1>1, <1>2, NextTypeParts

LEMMA WriterFailsType ==
    ASSUME TypeOKLive, NEW c \in Children, WriterFails(c)
    PROVE  TypeOKLive'
<1>1. proc' \in Procs
  BY TypeParts, FailsTyped DEF WriterFails, Procs, RestTyped, Places, Writing, Passes
<1>2. RestTyped'
  BY TypeParts, LiveAssumption DEF WriterFails, Fault, Interrupted, Part, LiveFails, Released, Fresh, RestTyped, Procs, Locals, Rows, Texts, Rules, world, At, Passes
<1> QED
  BY <1>1, <1>2, NextTypeParts

LEMMA CliStartsType ==
    ASSUME TypeOKLive, CliStarts
    PROVE  TypeOKLive'
<1>1. proc' \in Procs
  BY TypeParts DEF CliStarts, Procs, RestTyped, Places, Writing, Passes
<1>2. RestTyped'
  BY TypeParts, LiveAssumption DEF CliStarts, Fault, RestTyped, Procs, Locals, Rows, Texts, Rules, world, At, Passes
<1> QED
  BY <1>1, <1>2, NextTypeParts

LEMMA CliCommitsType ==
    ASSUME TypeOKLive, CliCommits
    PROVE  TypeOKLive'
<1>1. proc' \in Procs
  BY TypeParts DEF CliCommits, Procs, RestTyped, Places, Writing, Passes
<1>2. RestTyped'
  BY TypeParts, LiveAssumption DEF CliCommits, Released, CliIdle, RestTyped, Procs, Locals, Rows, Texts, Rules, world, At, Passes
<1> QED
  BY <1>1, <1>2, NextTypeParts

LEMMA CliDiesType ==
    ASSUME TypeOKLive, CliDies
    PROVE  TypeOKLive'
<1>1. proc' \in Procs
  BY TypeParts DEF CliDies, Procs, RestTyped, Places, Writing, Passes
<1>2. RestTyped'
  BY TypeParts, LiveAssumption DEF CliDies, Released, CliIdle, Part, RestTyped, Procs, Locals, Rows, Texts, Rules, world, At, Passes
<1> QED
  BY <1>1, <1>2, NextTypeParts

LEMMA SpawnType ==
    ASSUME TypeOKLive, NEW c \in Children, Spawn(c), faults' \in 0..MaxFaults
    PROVE  TypeOKLive'
<1>1. proc' \in Procs
  BY TypeParts, FreshTyped, PutLocals DEF Spawn, Procs, RestTyped, Places, Writing, Passes
<1>2. RestTyped'
  BY TypeParts, LiveAssumption DEF Spawn, Fresh, RestTyped, Procs, Locals, Rows, Texts, Rules, world, At, Passes
<1> QED
  BY <1>1, <1>2, NextTypeParts

LEMMA HangupType ==
    ASSUME TypeOKLive, NEW c \in Children, Hangup(c), faults' \in 0..MaxFaults
    PROVE  TypeOKLive'
<1>1. proc' \in Procs
  BY TypeParts, PutStop DEF Hangup, Procs, RestTyped, Places, Writing, Passes
<1>2. RestTyped'
  BY TypeParts, LiveAssumption DEF Hangup, RestTyped, Procs, Locals, Rows, Texts, Rules, world, At, Passes
<1> QED
  BY <1>1, <1>2, NextTypeParts

LEMMA DiesType ==
    ASSUME TypeOKLive, NEW c \in Children, NEW at \in {"gone", "none"}, Dies(c, at), faults' \in 0..MaxFaults
    PROVE  TypeOKLive'
<1>1. proc' \in Procs
  BY TypeParts, FreshTyped, PutLocals DEF Dies, Procs, RestTyped, Places, Writing, Passes
<1>2. RestTyped'
  BY TypeParts, LiveAssumption DEF Dies, Interrupted, Part, Released, Fresh, RestTyped, Procs, Locals, Rows, Texts, Rules, world, At, Passes
<1> QED
  BY <1>1, <1>2, NextTypeParts

LEMMA BuriedType ==
    ASSUME TypeOKLive, NEW c \in Children, Buried(c), faults' \in 0..MaxFaults
    PROVE  TypeOKLive'
<1>1. proc' \in Procs
  BY TypeParts, FreshTyped, PutLocals DEF Buried, Procs, RestTyped, Places, Writing, Passes
<1>2. RestTyped'
  BY TypeParts, LiveAssumption DEF Buried, Fresh, RestTyped, Procs, Locals, Rows, Texts, Rules, world, At, Passes
<1> QED
  BY <1>1, <1>2, NextTypeParts

LEMMA TakeLeaseType ==
    ASSUME TypeOKLive, NEW r \in Routers, TakeLease(r), faults' \in 0..MaxFaults
    PROVE  TypeOKLive'
<1>1. proc' \in Procs
  BY TypeParts DEF TakeLease, Procs, RestTyped, Places, Writing, Passes
<1>2. RestTyped'
  BY TypeParts, LiveAssumption DEF TakeLease, RestTyped, Procs, Locals, Rows, Texts, Rules, world, At, Passes
<1> QED
  BY <1>1, <1>2, NextTypeParts

LEMMA DropLeaseType ==
    ASSUME TypeOKLive, NEW r \in Routers, DropLease(r), faults' \in 0..MaxFaults
    PROVE  TypeOKLive'
<1>1. proc' \in Procs
  BY TypeParts DEF DropLease, Procs, RestTyped, Places, Writing, Passes
<1>2. RestTyped'
  BY TypeParts, LiveAssumption DEF DropLease, RestTyped, Procs, Locals, Rows, Texts, Rules, world, At, Passes
<1> QED
  BY <1>1, <1>2, NextTypeParts

LEMMA PublishFirstType ==
    ASSUME TypeOKLive, NEW r \in Routers, NEW text \in 0..MaxEdits, NEW rules \in Rules, PublishFirst(r, text, rules), faults' \in 0..MaxFaults
    PROVE  TypeOKLive'
<1>1. proc' \in Procs
  BY TypeParts DEF PublishFirst, Procs, RestTyped, Places, Writing, Passes
<1>2. RestTyped'
  BY TypeParts, LiveAssumption DEF PublishFirst, RestTyped, Procs, Locals, Rows, Texts, Rules, world, At, Passes
<1> QED
  BY <1>1, <1>2, NextTypeParts

-----------------------------------------------------------------------------
(* One step of each operation keeps the invariant.                        *)

LEMMA EditTreeStep ==
    ASSUME LiveInv, EditTree
    PROVE  LiveInv'
<1>1. TypeOKLive'
  BY EditTreeType DEF LiveInv
<1>2. Exclusive' /\ WriterIsCurrent'
  BY LiveAssumption, SMT
  DEF EditTree, Watched,
      LiveInv, TypeOKLive, Locals, At, Exclusive, WriterIsCurrent, Writing, Passes, world, Alive
<1>3. ReadIsCurrent'
  BY LiveAssumption, SMT
  DEF EditTree, Watched,
      LiveInv, TypeOKLive, Locals, At, ReadIsCurrent, world, Alive
<1>4. WatchingIsCurrent'
  BY LiveAssumption, SMT
  DEF EditTree, Watched,
      LiveInv, TypeOKLive, Locals, At, Writing, Passes, Exclusive, ReadIsCurrent, WatchingIsCurrent, world, Alive
<1> QED
  BY <1>1, <1>2, <1>3, <1>4 DEF LiveInv

LEMMA EditSettingsStep ==
    ASSUME LiveInv, EditSettings
    PROVE  LiveInv'
<1>1. TypeOKLive'
  BY EditSettingsType DEF LiveInv
<1>2. Exclusive' /\ WriterIsCurrent'
  BY LiveAssumption, SMT
  DEF EditSettings,
      LiveInv, TypeOKLive, Locals, At, Exclusive, WriterIsCurrent, Writing, Passes, world, Alive
<1>3. ReadIsCurrent'
  BY LiveAssumption, SMT
  DEF EditSettings,
      LiveInv, TypeOKLive, Locals, At, ReadIsCurrent, world, Alive
<1>4. WatchingIsCurrent'
  BY LiveAssumption, SMT
  DEF EditSettings,
      LiveInv, TypeOKLive, Locals, At, Writing, Passes, Exclusive, ReadIsCurrent, WatchingIsCurrent, world, Alive
<1> QED
  BY <1>1, <1>2, <1>3, <1>4 DEF LiveInv

LEMMA BootStep ==
    ASSUME LiveInv, NEW c \in Children, Boot(c)
    PROVE  LiveInv'
<1>1. TypeOKLive'
  BY BootType DEF LiveInv
<1>2. Exclusive' /\ WriterIsCurrent'
  BY LiveAssumption, SMT
  DEF Boot, Gone, Released, Fresh,
      LiveInv, TypeOKLive, Locals, At, Exclusive, WriterIsCurrent, Writing, Passes, world, Alive
<1>3. ReadIsCurrent'
  BY LiveAssumption, SMT
  DEF Boot, Gone, Released, Fresh,
      LiveInv, TypeOKLive, Locals, At, ReadIsCurrent, world, Alive
<1>4. WatchingIsCurrent'
  BY LiveAssumption, SMT
  DEF Boot, Gone, Released, Fresh,
      LiveInv, TypeOKLive, Locals, At, Writing, Passes, Exclusive, ReadIsCurrent, WatchingIsCurrent, world, Alive
<1> QED
  BY <1>1, <1>2, <1>3, <1>4 DEF LiveInv

LEMMA BeginLiveStep ==
    ASSUME LiveInv, NEW c \in Children, BeginLive(c)
    PROVE  LiveInv'
<1>1. TypeOKLive'
  BY BeginLiveType DEF LiveInv
<1>2. Exclusive' /\ WriterIsCurrent'
  BY LiveAssumption, SMT
  DEF BeginLive,
      LiveInv, TypeOKLive, Locals, At, Exclusive, WriterIsCurrent, Writing, Passes, world, Alive
<1>3. ReadIsCurrent'
  BY LiveAssumption, SMT
  DEF BeginLive,
      LiveInv, TypeOKLive, Locals, At, ReadIsCurrent, world, Alive
<1>4. WatchingIsCurrent'
  BY LiveAssumption, SMT
  DEF BeginLive,
      LiveInv, TypeOKLive, Locals, At, Writing, Passes, Exclusive, ReadIsCurrent, WatchingIsCurrent, world, Alive
<1> QED
  BY <1>1, <1>2, <1>3, <1>4 DEF LiveInv

LEMMA ContextFailsStep ==
    ASSUME LiveInv, NEW c \in Children, ContextFails(c)
    PROVE  LiveInv'
<1>1. TypeOKLive'
  BY ContextFailsType DEF LiveInv
<1>2. Exclusive' /\ WriterIsCurrent'
  BY LiveAssumption, SMT
  DEF ContextFails, LiveFails, Released, Fresh, ContextChanged,
      LiveInv, TypeOKLive, Locals, At, Exclusive, WriterIsCurrent, Writing, Passes, world, Alive
<1>3. ReadIsCurrent'
  BY LiveAssumption, SMT
  DEF ContextFails, LiveFails, Released, Fresh, ContextChanged,
      LiveInv, TypeOKLive, Locals, At, ReadIsCurrent, world, Alive
<1>4. WatchingIsCurrent'
  BY LiveAssumption, SMT
  DEF ContextFails, LiveFails, Released, Fresh, ContextChanged,
      LiveInv, TypeOKLive, Locals, At, Writing, Passes, Exclusive, ReadIsCurrent, WatchingIsCurrent, world, Alive
<1> QED
  BY <1>1, <1>2, <1>3, <1>4 DEF LiveInv

LEMMA ElectStep ==
    ASSUME LiveInv, NEW c \in Children, Elect(c)
    PROVE  LiveInv'
<1>1. TypeOKLive'
  BY ElectType DEF LiveInv
<1>2. Exclusive' /\ WriterIsCurrent'
  BY LiveAssumption, SMT
  DEF Elect, Goes, ContextChanged,
      LiveInv, TypeOKLive, Locals, At, Exclusive, WriterIsCurrent, Writing, Passes, world, Alive
<1>3. ReadIsCurrent'
  BY LiveAssumption, SMT
  DEF Elect, Goes, ContextChanged,
      LiveInv, TypeOKLive, Locals, At, ReadIsCurrent, world, Alive
<1>4. WatchingIsCurrent'
  BY LiveAssumption, SMT
  DEF Elect, Goes, ContextChanged,
      LiveInv, TypeOKLive, Locals, At, Writing, Passes, Exclusive, ReadIsCurrent, WatchingIsCurrent, world, Alive
<1> QED
  BY <1>1, <1>2, <1>3, <1>4 DEF LiveInv

LEMMA ScanBeginsStep ==
    ASSUME LiveInv, NEW c \in Children, ScanBegins(c)
    PROVE  LiveInv'
<1>1. TypeOKLive'
  BY ScanBeginsType DEF LiveInv
<1>2. Exclusive' /\ WriterIsCurrent'
  BY LiveAssumption, SMT
  DEF ScanBegins, Goes, ContextChanged,
      LiveInv, TypeOKLive, Locals, At, Exclusive, WriterIsCurrent, Writing, Passes, world, Alive
<1>3. ReadIsCurrent'
  BY LiveAssumption, SMT
  DEF ScanBegins, Goes, ContextChanged,
      LiveInv, TypeOKLive, Locals, At, ReadIsCurrent, world, Alive
<1>4. WatchingIsCurrent'
  BY LiveAssumption, SMT
  DEF ScanBegins, Goes, ContextChanged,
      LiveInv, TypeOKLive, Locals, At, Writing, Passes, Exclusive, ReadIsCurrent, WatchingIsCurrent, world, Alive
<1> QED
  BY <1>1, <1>2, <1>3, <1>4 DEF LiveInv

LEMMA ScanCommitsStep ==
    ASSUME LiveInv, NEW c \in Children, ScanCommits(c)
    PROVE  LiveInv'
<1>1. TypeOKLive'
  BY ScanCommitsType DEF LiveInv
<1>2. Exclusive' /\ WriterIsCurrent'
  BY LiveAssumption, SMT
  DEF ScanCommits, Done, Commit, Part,
      LiveInv, TypeOKLive, Locals, At, Exclusive, WriterIsCurrent, Writing, Passes, world, Alive
<1>3. ReadIsCurrent'
  BY LiveAssumption, SMT
  DEF ScanCommits, Done, Commit, Part,
      LiveInv, TypeOKLive, Locals, At, ReadIsCurrent, world, Alive
<1>4. WatchingIsCurrent'
  BY LiveAssumption, SMT
  DEF ScanCommits, Done, Commit, Part,
      LiveInv, TypeOKLive, Locals, At, Writing, Passes, Exclusive, ReadIsCurrent, WatchingIsCurrent, world, Alive
<1> QED
  BY <1>1, <1>2, <1>3, <1>4 DEF LiveInv

LEMMA HandleBeginsStep ==
    ASSUME LiveInv, NEW c \in Children, HandleBegins(c)
    PROVE  LiveInv'
<1>1. TypeOKLive'
  BY HandleBeginsType DEF LiveInv
<1>2. Exclusive' /\ WriterIsCurrent'
  BY LiveAssumption, SMT
  DEF HandleBegins,
      LiveInv, TypeOKLive, Locals, At, Exclusive, WriterIsCurrent, Writing, Passes, world, Alive
<1>3. ReadIsCurrent'
  BY LiveAssumption, SMT
  DEF HandleBegins,
      LiveInv, TypeOKLive, Locals, At, ReadIsCurrent, world, Alive
<1>4. WatchingIsCurrent'
  BY LiveAssumption, SMT
  DEF HandleBegins,
      LiveInv, TypeOKLive, Locals, At, Writing, Passes, Exclusive, ReadIsCurrent, WatchingIsCurrent, world, Alive
<1> QED
  BY <1>1, <1>2, <1>3, <1>4 DEF LiveInv

LEMMA HandleCommitsStep ==
    ASSUME LiveInv, NEW c \in Children, HandleCommits(c)
    PROVE  LiveInv'
<1>1. TypeOKLive'
  BY HandleCommitsType DEF LiveInv
<1>2. Exclusive' /\ WriterIsCurrent'
  BY LiveAssumption, SMT
  DEF HandleCommits, Done, Commit,
      LiveInv, TypeOKLive, Locals, At, Exclusive, WriterIsCurrent, Writing, Passes, world, Alive
<1>3. ReadIsCurrent'
  BY LiveAssumption, SMT
  DEF HandleCommits, Done, Commit,
      LiveInv, TypeOKLive, Locals, At, ReadIsCurrent, world, Alive
<1>4. WatchingIsCurrent'
  BY LiveAssumption, SMT
  DEF HandleCommits, Done, Commit,
      LiveInv, TypeOKLive, Locals, At, Writing, Passes, Exclusive, ReadIsCurrent, WatchingIsCurrent, world, Alive
<1> QED
  BY <1>1, <1>2, <1>3, <1>4 DEF LiveInv

\* The two ends of a watch: with the connection, or with the settings.
LEMMA LeaveStep ==
    ASSUME LiveInv, NEW c \in Children, Leave(c)
    PROVE  LiveInv'
<1>1. TypeOKLive'
  BY LeaveType DEF LiveInv
<1>2. /\ At(c, {"watching"}) /\ c \in known /\ lease = c /\ lease' = Nobody
      /\ UNCHANGED <<tree, settings, index, cli>>
      /\ known' \in {known, known \ {c}}
  BY SMT DEF Leave, Gone, LiveFails, Released, LiveInv, Exclusive, WriterIsCurrent, At, Writing, Passes, world
<1>3. /\ proc'[c].at \in {"gone", "failed"}
      /\ \A d \in Children \ {c} : proc'[d] = proc[d]
  <2>1. proc \in Procs
    BY TypeParts DEF LiveInv
  <2>2. CASE Gone(c)
    BY <2>1, <2>2 DEF Gone, Fresh, Procs
  <2>3. CASE LiveFails(c)
    BY <2>1, <2>3 DEF LiveFails, Fresh, Procs
  <2> QED
    BY <2>2, <2>3 DEF Leave
<1>4. \A d \in Children \ {c} : ~At(d, Writing) /\ ~At(d, Writing)'
  BY <1>2, <1>3 DEF LiveInv, Exclusive, At
<1>5. ~At(c, Writing)' /\ cli.at # "writing"
  BY <1>2, <1>3, LiveAssumption DEF LiveInv, Exclusive, At, Writing, Passes
<1>6. \A d \in Children : ~At(d, Writing)' /\ lease' # d
  BY <1>2, <1>4, <1>5, LiveAssumption
<1>7. Exclusive' /\ WriterIsCurrent'
  BY <1>2, <1>5, <1>6, LiveAssumption DEF Exclusive, WriterIsCurrent
<1>8. ReadIsCurrent' /\ WatchingIsCurrent'
  BY <1>6 DEF ReadIsCurrent, WatchingIsCurrent, At, Writing, Passes
<1> QED
  BY <1>1, <1>7, <1>8 DEF LiveInv

LEMMA EndsStep ==
    ASSUME LiveInv, NEW c \in Children, Ends(c)
    PROVE  LiveInv'
<1>1. TypeOKLive'
  BY EndsType DEF LiveInv
<1>2. Exclusive' /\ WriterIsCurrent'
  BY LiveAssumption, SMT
  DEF Ends, Gone, Released, Fresh,
      LiveInv, TypeOKLive, Locals, At, Exclusive, WriterIsCurrent, Writing, Passes, world, Alive
<1>3. ReadIsCurrent'
  BY LiveAssumption, SMT
  DEF Ends, Gone, Released, Fresh,
      LiveInv, TypeOKLive, Locals, At, ReadIsCurrent, world, Alive
<1>4. WatchingIsCurrent'
  BY LiveAssumption, SMT
  DEF Ends, Gone, Released, Fresh,
      LiveInv, TypeOKLive, Locals, At, Writing, Passes, Exclusive, ReadIsCurrent, WatchingIsCurrent, world, Alive
<1> QED
  BY <1>1, <1>2, <1>3, <1>4 DEF LiveInv

LEMMA WriterFailsStep ==
    ASSUME LiveInv, NEW c \in Children, WriterFails(c)
    PROVE  LiveInv'
<1>1. TypeOKLive'
  BY WriterFailsType DEF LiveInv
<1>2. Exclusive' /\ WriterIsCurrent'
  BY LiveAssumption, SMT
  DEF WriterFails, Fault, Interrupted, Part, LiveFails, Released, Fresh,
      LiveInv, TypeOKLive, Locals, At, Exclusive, WriterIsCurrent, Writing, Passes, world, Alive
<1>3. ReadIsCurrent'
  BY LiveAssumption, SMT
  DEF WriterFails, Fault, Interrupted, Part, LiveFails, Released, Fresh,
      LiveInv, TypeOKLive, Locals, At, ReadIsCurrent, world, Alive
<1>4. WatchingIsCurrent'
  BY LiveAssumption, SMT
  DEF WriterFails, Fault, Interrupted, Part, LiveFails, Released, Fresh,
      LiveInv, TypeOKLive, Locals, At, Writing, Passes, Exclusive, ReadIsCurrent, WatchingIsCurrent, world, Alive
<1> QED
  BY <1>1, <1>2, <1>3, <1>4 DEF LiveInv

LEMMA CliStartsStep ==
    ASSUME LiveInv, CliStarts
    PROVE  LiveInv'
<1>1. TypeOKLive'
  BY CliStartsType DEF LiveInv
<1>2. Exclusive' /\ WriterIsCurrent'
  BY LiveAssumption, SMT
  DEF CliStarts, Fault,
      LiveInv, TypeOKLive, Locals, At, Exclusive, WriterIsCurrent, Writing, Passes, world, Alive
<1>3. ReadIsCurrent'
  BY LiveAssumption, SMT
  DEF CliStarts, Fault,
      LiveInv, TypeOKLive, Locals, At, ReadIsCurrent, world, Alive
<1>4. WatchingIsCurrent'
  BY LiveAssumption, SMT
  DEF CliStarts, Fault,
      LiveInv, TypeOKLive, Locals, At, Writing, Passes, Exclusive, ReadIsCurrent, WatchingIsCurrent, world, Alive
<1> QED
  BY <1>1, <1>2, <1>3, <1>4 DEF LiveInv

LEMMA CliCommitsStep ==
    ASSUME LiveInv, CliCommits
    PROVE  LiveInv'
<1>1. TypeOKLive'
  BY CliCommitsType DEF LiveInv
<1>2. Exclusive' /\ WriterIsCurrent'
  BY LiveAssumption, SMT
  DEF CliCommits, Released, CliIdle,
      LiveInv, TypeOKLive, Locals, At, Exclusive, WriterIsCurrent, Writing, Passes, world, Alive
<1>3. ReadIsCurrent'
  BY LiveAssumption, SMT
  DEF CliCommits, Released, CliIdle,
      LiveInv, TypeOKLive, Locals, At, ReadIsCurrent, world, Alive
<1>4. WatchingIsCurrent'
  BY LiveAssumption, SMT
  DEF CliCommits, Released, CliIdle,
      LiveInv, TypeOKLive, Locals, At, Writing, Passes, Exclusive, ReadIsCurrent, WatchingIsCurrent, world, Alive
<1> QED
  BY <1>1, <1>2, <1>3, <1>4 DEF LiveInv

LEMMA CliDiesStep ==
    ASSUME LiveInv, CliDies
    PROVE  LiveInv'
<1>1. TypeOKLive'
  BY CliDiesType DEF LiveInv
<1>2. Exclusive' /\ WriterIsCurrent'
  BY LiveAssumption, SMT
  DEF CliDies, Released, CliIdle, Part,
      LiveInv, TypeOKLive, Locals, At, Exclusive, WriterIsCurrent, Writing, Passes, world, Alive
<1>3. ReadIsCurrent'
  BY LiveAssumption, SMT
  DEF CliDies, Released, CliIdle, Part,
      LiveInv, TypeOKLive, Locals, At, ReadIsCurrent, world, Alive
<1>4. WatchingIsCurrent'
  BY LiveAssumption, SMT
  DEF CliDies, Released, CliIdle, Part,
      LiveInv, TypeOKLive, Locals, At, Writing, Passes, Exclusive, ReadIsCurrent, WatchingIsCurrent, world, Alive
<1> QED
  BY <1>1, <1>2, <1>3, <1>4 DEF LiveInv

LEMMA SpawnStep ==
    ASSUME LiveInv, NEW c \in Children, Spawn(c), faults' \in 0..MaxFaults
    PROVE  LiveInv'
<1>1. TypeOKLive'
  BY SpawnType DEF LiveInv
<1>2. Exclusive' /\ WriterIsCurrent'
  BY LiveAssumption, SMT
  DEF Spawn, Fresh,
      LiveInv, TypeOKLive, Locals, At, Exclusive, WriterIsCurrent, Writing, Passes, world, Alive
<1>3. ReadIsCurrent'
  BY LiveAssumption, SMT
  DEF Spawn, Fresh,
      LiveInv, TypeOKLive, Locals, At, ReadIsCurrent, world, Alive
<1>4. WatchingIsCurrent'
  BY LiveAssumption, SMT
  DEF Spawn, Fresh,
      LiveInv, TypeOKLive, Locals, At, Writing, Passes, Exclusive, ReadIsCurrent, WatchingIsCurrent, world, Alive
<1> QED
  BY <1>1, <1>2, <1>3, <1>4 DEF LiveInv

LEMMA HangupStep ==
    ASSUME LiveInv, NEW c \in Children, Hangup(c), faults' \in 0..MaxFaults
    PROVE  LiveInv'
<1>1. TypeOKLive'
  BY HangupType DEF LiveInv
<1>2. Exclusive' /\ WriterIsCurrent'
  BY LiveAssumption, SMT
  DEF Hangup,
      LiveInv, TypeOKLive, Locals, At, Exclusive, WriterIsCurrent, Writing, Passes, world, Alive
<1>3. ReadIsCurrent'
  BY LiveAssumption, SMT
  DEF Hangup,
      LiveInv, TypeOKLive, Locals, At, ReadIsCurrent, world, Alive
<1>4. WatchingIsCurrent'
  BY LiveAssumption, SMT
  DEF Hangup,
      LiveInv, TypeOKLive, Locals, At, Writing, Passes, Exclusive, ReadIsCurrent, WatchingIsCurrent, world, Alive
<1> QED
  BY <1>1, <1>2, <1>3, <1>4 DEF LiveInv

LEMMA DiesStep ==
    ASSUME LiveInv, NEW c \in Children, NEW at \in {"gone", "none"}, Dies(c, at), faults' \in 0..MaxFaults
    PROVE  LiveInv'
<1>1. TypeOKLive'
  BY DiesType DEF LiveInv
<1>2. Exclusive' /\ WriterIsCurrent'
  BY LiveAssumption, SMT
  DEF Dies, Interrupted, Part, Released, Fresh,
      LiveInv, TypeOKLive, Locals, At, Exclusive, WriterIsCurrent, Writing, Passes, world, Alive
<1>3. ReadIsCurrent'
  BY LiveAssumption, SMT
  DEF Dies, Interrupted, Part, Released, Fresh,
      LiveInv, TypeOKLive, Locals, At, ReadIsCurrent, world, Alive
<1>4. WatchingIsCurrent'
  BY LiveAssumption, SMT
  DEF Dies, Interrupted, Part, Released, Fresh,
      LiveInv, TypeOKLive, Locals, At, Writing, Passes, Exclusive, ReadIsCurrent, WatchingIsCurrent, world, Alive
<1> QED
  BY <1>1, <1>2, <1>3, <1>4 DEF LiveInv

LEMMA BuriedStep ==
    ASSUME LiveInv, NEW c \in Children, Buried(c), faults' \in 0..MaxFaults
    PROVE  LiveInv'
<1>1. TypeOKLive'
  BY BuriedType DEF LiveInv
<1>2. Exclusive' /\ WriterIsCurrent'
  BY LiveAssumption, SMT
  DEF Buried, Fresh,
      LiveInv, TypeOKLive, Locals, At, Exclusive, WriterIsCurrent, Writing, Passes, world, Alive
<1>3. ReadIsCurrent'
  BY LiveAssumption, SMT
  DEF Buried, Fresh,
      LiveInv, TypeOKLive, Locals, At, ReadIsCurrent, world, Alive
<1>4. WatchingIsCurrent'
  BY LiveAssumption, SMT
  DEF Buried, Fresh,
      LiveInv, TypeOKLive, Locals, At, Writing, Passes, Exclusive, ReadIsCurrent, WatchingIsCurrent, world, Alive
<1> QED
  BY <1>1, <1>2, <1>3, <1>4 DEF LiveInv

LEMMA TakeLeaseStep ==
    ASSUME LiveInv, NEW r \in Routers, TakeLease(r), faults' \in 0..MaxFaults
    PROVE  LiveInv'
<1>1. TypeOKLive'
  BY TakeLeaseType DEF LiveInv
<1>2. Exclusive' /\ WriterIsCurrent'
  BY LiveAssumption, SMT
  DEF TakeLease,
      LiveInv, TypeOKLive, Locals, At, Exclusive, WriterIsCurrent, Writing, Passes, world, Alive
<1>3. ReadIsCurrent'
  BY LiveAssumption, SMT
  DEF TakeLease,
      LiveInv, TypeOKLive, Locals, At, ReadIsCurrent, world, Alive
<1>4. WatchingIsCurrent'
  BY LiveAssumption, SMT
  DEF TakeLease,
      LiveInv, TypeOKLive, Locals, At, Writing, Passes, Exclusive, ReadIsCurrent, WatchingIsCurrent, world, Alive
<1> QED
  BY <1>1, <1>2, <1>3, <1>4 DEF LiveInv

LEMMA DropLeaseStep ==
    ASSUME LiveInv, NEW r \in Routers, DropLease(r), faults' \in 0..MaxFaults
    PROVE  LiveInv'
<1>1. TypeOKLive'
  BY DropLeaseType DEF LiveInv
<1>2. Exclusive' /\ WriterIsCurrent'
  BY LiveAssumption, SMT
  DEF DropLease,
      LiveInv, TypeOKLive, Locals, At, Exclusive, WriterIsCurrent, Writing, Passes, world, Alive
<1>3. ReadIsCurrent'
  BY LiveAssumption, SMT
  DEF DropLease,
      LiveInv, TypeOKLive, Locals, At, ReadIsCurrent, world, Alive
<1>4. WatchingIsCurrent'
  BY LiveAssumption, SMT
  DEF DropLease,
      LiveInv, TypeOKLive, Locals, At, Writing, Passes, Exclusive, ReadIsCurrent, WatchingIsCurrent, world, Alive
<1> QED
  BY <1>1, <1>2, <1>3, <1>4 DEF LiveInv

LEMMA PublishFirstStep ==
    ASSUME LiveInv, NEW r \in Routers, NEW text \in 0..MaxEdits, NEW rules \in Rules, PublishFirst(r, text, rules), faults' \in 0..MaxFaults
    PROVE  LiveInv'
<1>1. TypeOKLive'
  BY PublishFirstType DEF LiveInv
<1>2. Exclusive' /\ WriterIsCurrent'
  BY LiveAssumption, SMT
  DEF PublishFirst,
      LiveInv, TypeOKLive, Locals, At, Exclusive, WriterIsCurrent, Writing, Passes, world, Alive
<1>3. ReadIsCurrent'
  BY LiveAssumption, SMT
  DEF PublishFirst,
      LiveInv, TypeOKLive, Locals, At, ReadIsCurrent, world, Alive
<1>4. WatchingIsCurrent'
  BY LiveAssumption, SMT
  DEF PublishFirst,
      LiveInv, TypeOKLive, Locals, At, Writing, Passes, Exclusive, ReadIsCurrent, WatchingIsCurrent, world, Alive
<1> QED
  BY <1>1, <1>2, <1>3, <1>4 DEF LiveInv

-----------------------------------------------------------------------------
(* The theorems.                                                           *)

LEMMA InitLive == LiveInit => LiveInv
BY LiveAssumption, SMT
DEF LiveInit, LiveInv, TypeOKLive, Exclusive, WriterIsCurrent, ReadIsCurrent, WatchingIsCurrent,
    At, Writing, Passes, Fresh, CliIdle, Locals, Rules, Rows

LEMMA LiveStutter ==
    ASSUME LiveInv, UNCHANGED <<tree, settings, index, lease, known, proc, cli>>, faults' \in 0..MaxFaults
    PROVE  LiveInv'
BY DEF LiveInv, TypeOKLive, Exclusive, WriterIsCurrent, ReadIsCurrent, WatchingIsCurrent, At

LEMMA RoutedStep ==
    ASSUME LiveInv, Routed
    PROVE  LiveInv'
<1>1. faults' \in 0..MaxFaults
  BY DEF Routed
<1>2. ASSUME NEW c \in Children, Spawn(c) \/ Hangup(c) \/ Dies(c, "gone") \/ Dies(c, "none") \/ Buried(c)
      PROVE  LiveInv'
  BY <1>1, <1>2, SpawnStep, HangupStep, DiesStep, BuriedStep
<1>3. ASSUME NEW r \in Routers, TakeLease(r) \/ DropLease(r)
      PROVE  LiveInv'
  BY <1>1, <1>3, TakeLeaseStep, DropLeaseStep
<1>4. ASSUME NEW r \in Routers, NEW text \in 0..MaxEdits, NEW rules \in Rules, PublishFirst(r, text, rules)
      PROVE  LiveInv'
  BY <1>1, <1>4, PublishFirstStep
<1>5. CASE UNCHANGED <<world, index, lease, known, proc, cli>>
  BY <1>1, <1>5, LiveStutter DEF world
<1> QED
  BY <1>2, <1>3, <1>4, <1>5 DEF Routed

LEMMA RunsStep ==
    ASSUME LiveInv, NEW c \in Children, Runs(c) \/ WriterFails(c)
    PROVE  LiveInv'
BY BootStep, BeginLiveStep, ContextFailsStep, ElectStep, ScanBeginsStep, ScanCommitsStep,
   HandleBeginsStep, HandleCommitsStep, LeaveStep, EndsStep, WriterFailsStep DEF Runs

LEMMA LiveNextStep ==
    ASSUME LiveInv, [LiveNext]_liveVars
    PROVE  LiveInv'
<1>1. CASE EditTree \/ EditSettings \/ CliStarts \/ CliCommits \/ CliDies
  BY <1>1, EditTreeStep, EditSettingsStep, CliStartsStep, CliCommitsStep, CliDiesStep
<1>2. CASE \E c \in Children : Runs(c) \/ WriterFails(c)
  BY <1>2, RunsStep
<1>3. CASE Routed
  BY <1>3, RoutedStep
<1>4. CASE UNCHANGED liveVars
  BY <1>4, LiveStutter DEF liveVars, LiveInv, TypeOKLive
<1> QED
  BY <1>1, <1>2, <1>3, <1>4 DEF LiveNext

\* The inductive invariant holds of every behaviour of the readers, whatever
\* their routers do to them.
THEOREM LiveInvariant == LiveSpec => []LiveInv
<1>1. LiveInit => LiveInv
  BY InitLive
<1>2. LiveInv /\ [LiveNext]_liveVars => LiveInv'
  BY LiveNextStep
<1> QED
  BY <1>1, <1>2, PTL DEF LiveSpec

\* Two readers never write at once, nor a reader and an explicit run: the
\* operations of live.rs hold the lease exactly where they write.
THEOREM LiveWritersExclude == LiveSpec => []Exclusive
<1>1. LiveInv => Exclusive
  BY DEF LiveInv
<1> QED
  BY <1>1, LiveInvariant, PTL

\* Whoever may change the index has it open at its last commit.
THEOREM LiveWriterIsCurrent == LiveSpec => []WriterIsCurrent
<1>1. LiveInv => WriterIsCurrent
  BY DEF LiveInv
<1> QED
  BY <1>1, LiveInvariant, PTL

\* A reader that watches, with nothing left to handle, answers from the tree
\* as it is: scan, watch, scan again leaves no change behind.
THEOREM LiveWatchingIsCurrent == LiveSpec => []WatchingIsCurrent
<1>1. LiveInv => WatchingIsCurrent
  BY DEF LiveInv
<1> QED
  BY <1>1, LiveInvariant, PTL
=============================================================================
