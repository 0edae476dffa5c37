CONSTANTS
    None = None
    Call = {c1, c2}
    Health = h
    MayExceed = {c2}
    MaxFaults = 1
SPECIFICATION LiveSpec
INVARIANTS
    NeverConcurrent
    AnswerIsOwn
    ClosedHasNothingPending
PROPERTIES
    SettledForGood
    EveryCallSettles
CHECK_DEADLOCK FALSE
