------------------------ MODULE CommittedDocuments ------------------------
(***************************************************************************)
(* What the document index promises: one committed set of chunks, replaced *)
(* whole.  A store answers from one set that was committed, and goes on    *)
(* with it until it adopts the newest; only a store that has the newest    *)
(* replaces it, and a chunk id once committed never names another chunk.   *)
(***************************************************************************)
EXTENDS Naturals

CONSTANTS Stores, Absent

VARIABLES
    committed,  \* the newest set of chunks and its version
    seen,       \* per store: the set it answers from, Absent while closed
    kept,       \* per store: the set a settings reload may go back to, or Absent
    published   \* every chunk ever committed

vars == <<committed, seen, kept, published>>

Init ==
    /\ committed = [version |-> 0, docs |-> {}]
    /\ seen = [s \in Stores |-> Absent]
    /\ kept = [s \in Stores |-> Absent]
    /\ published = {}

Publish(s) ==
    /\ seen[s] = committed
    /\ committed'.version > committed.version
    /\ \A d \in committed'.docs, e \in published : d.id = e.id => d = e
    /\ published' = published \cup committed'.docs
    /\ UNCHANGED <<seen, kept>>

Adopt(s) ==
    /\ seen' = [seen EXCEPT ![s] = committed]
    /\ kept' \in {kept, [kept EXCEPT ![s] = seen[s]]}
    /\ UNCHANGED <<committed, published>>

GoBack(s) ==
    /\ kept[s] # Absent
    /\ seen' = [seen EXCEPT ![s] = kept[s]]
    /\ kept' = [kept EXCEPT ![s] = Absent]
    /\ UNCHANGED <<committed, published>>

Settle(s) ==
    /\ kept' = [kept EXCEPT ![s] = Absent]
    /\ UNCHANGED <<committed, seen, published>>

Close(s) ==
    /\ seen' = [seen EXCEPT ![s] = Absent]
    /\ kept' = [kept EXCEPT ![s] = Absent]
    /\ UNCHANGED <<committed, published>>

Next == \E s \in Stores : Publish(s) \/ Adopt(s) \/ GoBack(s) \/ Settle(s) \/ Close(s)

Spec == Init /\ [][Next]_vars
=============================================================================
