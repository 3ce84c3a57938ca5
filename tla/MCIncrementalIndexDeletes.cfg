SPECIFICATION Spec
CONSTANTS
    a = a
    b = b
    c = c
    n = n
    r1 = r1
    r2 = r2
    Absent = Absent
    Files <- MCFiles
    Names = {n}
    Contents <- MCContents
    Writable <- MCWritable
    InitDisk <- MCSparseDisk
    InitId <- MCInitId
    InitCounter = 3
    Roots = {r1, r2}
    RootOf <- MCRootOf
    MaxEdits = 3
    MaxFaults = 1
    MaxSelects = 1
    KeepGoing = TRUE
    Deletes = TRUE
    Restores = TRUE
INVARIANTS EdgesJoinLiveSymbols OneTargetPerReference
PROPERTY UnboundedRunsDrain
