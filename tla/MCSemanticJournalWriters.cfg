SPECIFICATION FairSpec
CONSTANTS
    Owners = {o1, o2}
    Saves = {s1, s2}
    Ids = {i1}
    Vecs = {v1}
    NoVec = NoVec
    Nobody = Nobody
    MaxDeltas = 1
    MaxDeltaIds = 0
    Provenance = FALSE
    MaxRevision = 1
    MaxArtifacts = 2
INVARIANTS LoadersKeepTheirGeneration CommittedStateIsLoadable
PROPERTIES SavesEnd
