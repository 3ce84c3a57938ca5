SPECIFICATION FairSpec
CONSTANTS
    Stores = {s1, s2}
    Sources = {a, b}
    Contents = {old}
    NoFile = NoFile
    Nobody = Nobody
    Block = 1
    MaxId = 2
    MaxSegments = 1
    MaxPublications = 2
    MaxFaults = 2
INVARIANTS TypeOK CommittedIsLoadable CommittedIsSearchable AnswersAreOneGeneration
PROPERTIES ImplementsCommittedDocuments OperationsEnd
CHECK_DEADLOCK FALSE
