CONSTANTS
    Line <- MCLine
    MaxLines = 5
    Maximum = 28
    MarkerBudget = 6
SPECIFICATION ProjectionSpec
INVARIANTS
    PrefixIsEnough
    
CHECK_DEADLOCK FALSE
