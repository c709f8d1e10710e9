CONSTANTS
    t1 = t1
    t2 = t2
    t3 = t3
    t4 = t4
    w1 = w1
    w2 = w2
    w3 = w3
    Tab = {t1, t2, t3, t4}
    Win = {w1, w2, w3}
    NoTab = NoTab
    NoWin = NoWin
    MaxDialogs = 4
SYMMETRY Symmetry
SPECIFICATION Spec
INVARIANTS
    TypeOK
    TabOrderAgrees
    CurrentAgrees
    NumbersAgree
    OwnedOnce
    RenameKeepsTab
PROPERTIES
    ImplementsOwnership
CHECK_DEADLOCK FALSE
