SPECIFICATION Spec
CONSTANTS
    src = src
    gen = gen
    a = a
    b = b
    v1 = v1
    v2 = v2
    Absent = Absent
    NoWave = NoWave
    Top = src
    Files = {a, b}
    Dirs = {}
    DirOf <- MCFlatDirOf
    InitDisk <- MCFlatDisk
    Versions = {v1, v2}
    QueueCap = 1
    WaveThreshold = 2
    MaxEdits = 4
    MaxFaults = 2
    MaxRequests = 1
    FaultKinds = {"scan", "resolve", "writer", "save", "file", "request"}
    Unsettled = {}
INVARIANTS
    EveryChangeIsPending
CHECK_DEADLOCK FALSE
