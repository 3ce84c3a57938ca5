--------------------------- MODULE SnapshotStore ---------------------------
(***************************************************************************)
(* What the semantic journal promises: one durable value, replaced whole   *)
(* and at once.  A writer offers snapshots of its memory; publishing makes *)
(* one of them the value.  A writer that knows a version may only replace  *)
(* that version; one that knows none replaces whatever is there.           *)
(***************************************************************************)
CONSTANTS Writers, Contents, Empty, Versions, NoVersion

VARIABLES
    value,     \* what a load returns
    version,   \* which publication it is
    backup,    \* what a loss of power may bring back
    known,     \* per writer: the version it loaded or was told it published
    mine,      \* per writer: the version it published, told or not
    offers     \* per writer: the snapshots it has prepared

vars == <<value, version, backup, known, mine, offers>>

Init ==
    /\ value   = Empty
    /\ version = NoVersion
    /\ backup  = [value |-> Empty, version |-> NoVersion]
    /\ known   = [w \in Writers |-> NoVersion]
    /\ mine    = [w \in Writers |-> NoVersion]
    /\ offers  = [w \in Writers |-> {}]

Offer(w, c) ==
    /\ offers' = [offers EXCEPT ![w] = @ \cup {c}]
    /\ UNCHANGED <<value, version, backup, known, mine>>

Withdrawing(w) == \E kept \in SUBSET offers[w] : offers' = [offers EXCEPT ![w] = kept]

Publish(w) ==
    /\ known[w] \in {NoVersion, version}
    /\ value' \in offers[w]
    /\ version' \in Versions \ {version, NoVersion}
    /\ mine' = [mine EXCEPT ![w] = version']
    /\ UNCHANGED <<backup, known, offers>>

Secure ==
    /\ backup' = [value |-> value, version |-> version]
    /\ UNCHANGED <<value, version, known, mine, offers>>

Acknowledge(w) ==
    /\ known' = [known EXCEPT ![w] = mine[w]]
    /\ Withdrawing(w)
    /\ UNCHANGED <<value, version, backup, mine>>

GiveUp(w) ==
    /\ mine' = [mine EXCEPT ![w] = known[w]]
    /\ Withdrawing(w)
    /\ UNCHANGED <<value, version, backup, known>>

Read(w) ==
    /\ known' = [known EXCEPT ![w] = version]
    /\ mine'  = [mine EXCEPT ![w] = version]
    /\ UNCHANGED <<value, version, backup, offers>>

Restart(w) ==
    /\ known'  = [known EXCEPT ![w] = NoVersion]
    /\ mine'   = [mine EXCEPT ![w] = NoVersion]
    /\ offers' = [offers EXCEPT ![w] = {}]
    /\ UNCHANGED <<value, version, backup>>

PowerLoss ==
    /\ \E kept \in {backup, [value |-> value, version |-> version]} :
          /\ value'   = kept.value
          /\ version' = kept.version
          /\ backup'  = kept
    /\ known'  = [w \in Writers |-> NoVersion]
    /\ mine'   = [w \in Writers |-> NoVersion]
    /\ offers' = [w \in Writers |-> {}]

Next ==
    \/ \E w \in Writers :
          \/ \E c \in Contents : Offer(w, c)
          \/ Publish(w) \/ Acknowledge(w) \/ GiveUp(w) \/ Read(w) \/ Restart(w)
    \/ Secure
    \/ PowerLoss

Spec == Init /\ [][Next]_vars
=============================================================================
