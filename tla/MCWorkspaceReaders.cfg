SPECIFICATION FairSpec
CONSTANTS
    r1 = r1
    c1 = c1
    c2 = c2
    Children = {c1, c2}
    Routers = {r1}
    Cli = Cli
    Nobody = Nobody
    None = None
    Partial = Partial
    Torn = Torn
    FaultKinds = {"live", "crash", "load", "run"}
    MaxEdits = 1
    MaxSettings = 1
    MaxFaults = 1
    MaxWorkers = 2
    Ending = {r1}
INVARIANTS WriterIsCurrent WatchingIsCurrent FreshReadersAreCurrent CapacityIsPhysical PinnedReadersStay NoProcessIsLeft
CHECK_DEADLOCK FALSE
PROPERTIES Converges
