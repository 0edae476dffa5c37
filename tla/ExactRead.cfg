CONSTANTS
    Responses <- MCResponses
    Documents <- MCDocuments
    AllowedKinds = {"user"}
    MaxSafe = 8
    MaxCandidates = 4
    MaxConcurrency = 2
    MaxGroups = 2
    MaxCoordinates = 2
SPECIFICATION Spec
INVARIANTS
    RetainedIsProved
    NothingLost
    ReadsFit
PROPERTY CancellationEndsReading
