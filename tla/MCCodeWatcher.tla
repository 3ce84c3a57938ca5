---------------------------- MODULE MCCodeWatcher ----------------------------
EXTENDS CodeWatcher, TLC

CONSTANTS src, gen, a, b, v1, v2

\* Two files side by side in the root.
MCFlatDirOf == [f \in {a, b} |-> src]
MCFlatDisk == a :> v1 @@ b :> Absent

\* One file in the root, one in a directory that comes and goes.
MCDirOf == a :> src @@ b :> gen
MCDisk == a :> v1 @@ b :> v1
=============================================================================
