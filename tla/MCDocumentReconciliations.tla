--------------------- MODULE MCDocumentReconciliations ---------------------
(* Two collections: one whose settings change, and one that comes and goes. *)
EXTENDS DocumentReconciliations

CONSTANTS c1, c2, k1, k2, t1

Policy(x, y) == [c \in {c1, c2} |-> IF c = c1 THEN x ELSE y]
MCInitPolicy == Policy(k1, k1)
MCInitText == [c \in {c1, c2} |-> t1]
MCPolicies == {MCInitPolicy, Policy(k2, k1), Policy(k1, Off)}
=============================================================================
