CONSTANTS
    Tab = {t1, t2}
    Text = {a, b}
    Empty = Empty
    Selection = Selection
    NoText = NoText
SPECIFICATION Spec
INVARIANTS
    TypeOK
    ShownWhileDue
PROPERTIES
    FlashEnds
    WritesAreAllowed
