SPECIFICATION ReadersSpec
CONSTANTS
    Stores = {s1}
    Sources = {a}
    Contents = {old}
    NoFile = NoFile
    Nobody = Nobody
    Block = 2
    MaxId = 2
    MaxSegments = 1
    MaxPublications = 2
    MaxFaults = 0
    Readers = {r1}
INVARIANT HitsNameTheirGeneration
CHECK_DEADLOCK FALSE
