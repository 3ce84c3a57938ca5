SPECIFICATION Spec
CONSTANTS
    Owners = {o1, o2}
    Saves = {s1, s2}
    Ids = {i1}
    Vecs = {v1}
    NoVec = NoVec
    Nobody = Nobody
    MaxDeltas = 1
    MaxDeltaIds = 1
    Provenance = TRUE
    MaxRevision = 2
    MaxArtifacts = 3
CONSTRAINT SmallShared
SYMMETRY Symmetry
VIEW View
INVARIANTS CleanVectorsAreDurable CommittedStateIsLoadable AcknowledgedIsDurable
PROPERTIES NoStaleOverwrite NoForeignOverwrite ImplementsStore
