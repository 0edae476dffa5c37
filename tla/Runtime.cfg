CONSTANTS
    HealthOp = {h1}
    SearchOp = {q1}
    ViewOp = {}
    MaxBindings = 2
    MaxRestarts = 1
    MaxFaults = 2
SPECIFICATION LiveSpec
INVARIANTS
    OneSource
    ReadyIsCurrent
    DisposedHoldsNothing
PROPERTY Recovers
CHECK_DEADLOCK FALSE
