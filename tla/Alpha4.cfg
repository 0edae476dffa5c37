CONSTANTS
    s1 = s1  s2 = s2
    Session = {s1, s2}
    Enriched = TRUE
    Listings <- MCListings
    BatchSize = 1
    MaxPartitions = 2
    MaxVersion = 2
    MaxChanges = 3
    MaxFaults = 1
SPECIFICATION LiveSpec
INVARIANT LiveIsCaughtUp
PROPERTIES
    MirrorsSessions
    ActivatedComplete
CHECK_DEADLOCK FALSE
