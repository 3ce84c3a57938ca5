SPECIFICATION FairSpec
CONSTANTS
    c1 = c1
    c2 = c2
    k1 = k1
    k2 = k2
    t1 = t1
    Collections = {c1, c2}
    Texts = {t1, t2}
    Configs = {k1, k2}
    Gone = Gone
    Off = Off
    None = None
    Policies <- MCPolicies
    InitText <- MCInitText
    InitPolicy <- MCInitPolicy
    Unusable = Unusable
    Inadmissible = Inadmissible
    Unsettled = FALSE
    FaultKinds = {"watch", "apply", "adopt", "scan", "code"}
    QueueSize = 2
    MaxEdits = 3
    MaxFaults = 2
INVARIANTS EveryDocumentIsPending EveryRootIsWatched NothingRetiredIsIndexed NewSettingsArePending NewerSettingsWin
PROPERTY Converges
CHECK_DEADLOCK FALSE
