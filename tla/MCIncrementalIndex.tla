------------------------ MODULE MCIncrementalIndex ------------------------
(* A caller a, and b and c that may both declare the name it refers to.    *)
EXTENDS IncrementalIndex

CONSTANTS a, b, c, n, r1, r2

Caller(imports) == [declares |-> {}, uses |-> {n}, imports |-> imports]
Library == [declares |-> {n}, uses |-> {}, imports |-> {}]
Rewritten == [declares |-> {n}, uses |-> {}, imports |-> {c}]
Other == [declares |-> {}, uses |-> {}, imports |-> {}]

MCFiles == {a, b, c}
MCContents == {Caller({b, c}), Caller({b}), Caller({}), Library, Rewritten, Other}
MCWritable == [f \in MCFiles |-> IF f = a THEN {Caller({b, c}), Caller({})} ELSE {Library, Other}]
\* The caller and its target change together, in two roots.
MCMovingWritable == [f \in MCFiles |-> CASE f = a -> {Caller({b})} [] f = b -> {Rewritten} [] f = c -> {}]
MCInitDisk == [f \in MCFiles |-> CASE f = a -> Caller({b, c}) [] f = b -> Library [] f = c -> Other]
MCSparseDisk == [MCInitDisk EXCEPT ![c] = Absent]
MCInitId == [f \in MCFiles |-> CASE f = a -> 1 [] f = b -> 2 [] f = c -> 3]
MCRootOf == [f \in MCFiles |-> IF f = a THEN r1 ELSE r2]
=============================================================================
