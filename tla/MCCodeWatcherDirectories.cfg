SPECIFICATION FairSpec
CONSTANTS
    src = src
    gen = gen
    a = a
    b = b
    v1 = v1
    v2 = v2
    Absent = Absent
    NoWave = NoWave
    Top = src
    Files = {a, b}
    Dirs = {gen}
    DirOf <- MCDirOf
    InitDisk <- MCDisk
    Versions = {v1, v2}
    QueueCap = 2
    WaveThreshold = 2
    MaxEdits = 4
    MaxFaults = 1
    MaxRequests = 0
    FaultKinds = {"scan", "resolve", "writer", "save", "walk"}
    Unsettled = {}
INVARIANTS
    TypeOK
    RetainedWaveMatchesRows
    EveryChangeIsPending
    EveryObligationIsPending
    EveryDirectoryIsWatched
CHECK_DEADLOCK FALSE
PROPERTY Converges
