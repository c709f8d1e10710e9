CONSTANTS
    N = 3
    CommandLines <- MCCommandLines
    Unconnected = {1}
    MaxChanges = 1
SPECIFICATION Spec
INVARIANTS
    TypeOK
    ServedOnce
    OptionsHeard
    WindowsAsAsked
PROPERTIES
    RequestsServed
    ParentsReturn
CHECK_DEADLOCK FALSE
