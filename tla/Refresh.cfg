CONSTANTS
    Process = {p1, p2}
    MaxChanges = 1
    MaxEdits = 2
    MaxFaults = 1
SPECIFICATION LiveSpec
INVARIANTS
    UpToDateIsFresh
    NoRedundantRefresh
PROPERTY EventuallyFresh
