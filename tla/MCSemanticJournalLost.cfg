SPECIFICATION Spec
CONSTANTS
    Owners = {o1}
    Saves = {s1}
    Ids = {i1, i2}
    Vecs = {v1}
    NoVec = NoVec
    Nobody = Nobody
    MaxDeltas = 1
    MaxDeltaIds = 2
    Provenance = TRUE
    MaxRevision = 4
    MaxArtifacts = 2
INVARIANTS ProvenanceIsRecorded
