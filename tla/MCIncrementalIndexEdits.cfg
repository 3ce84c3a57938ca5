SPECIFICATION FairSpec
CONSTANTS
    a = a
    b = b
    c = c
    n = n
    r1 = r1
    r2 = r2
    Absent = Absent
    Files <- MCFiles
    Names = {n}
    Contents <- MCContents
    Writable <- MCWritable
    InitDisk <- MCInitDisk
    InitId <- MCInitId
    InitCounter = 3
    Roots = {r1, r2}
    RootOf <- MCRootOf
    MaxEdits = 2
    MaxFaults = 2
    MaxSelects = 1
    KeepGoing = FALSE
    Deletes = FALSE
    Restores = FALSE
INVARIANTS DamageIsOwed
PROPERTY Converges
