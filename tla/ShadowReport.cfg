CONSTANTS
    Current <- MCCurrent
    Eligible <- MCEligible
    Directory <- MCDirectory
    Diff <- MCDiff
    MaxHistory = 5
    ScanRevisions = 5
    RetainedDiffs = 4
    MaxDiffPaths = 5
    MaxPairObservations = 15
    BulkMinimum = 4
    BulkMaximum = 4
    PairRelativeEvents = 3
    OutputCandidates = 2
    FutureAnnotations = 2
    MinimumOpportunities = 3
    MinimumShared = 2
    RunnerUpMargin = 1
SPECIFICATION ShadowSpec
INVARIANTS
    CandidatesDisjoint
    OmittedChangesNothing
CHECK_DEADLOCK FALSE
