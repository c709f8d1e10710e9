CONSTANTS
    N = 3
    CommandLines <- MCFewCommandLines
    Unconnected = {1}
    MaxChanges = 0
SPECIFICATION Spec
INVARIANT MasterSurvives
CHECK_DEADLOCK FALSE
