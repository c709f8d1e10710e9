CONSTANTS
    Tab = {t1, t2}
    Win = {w1, w2}
    NoTab = NoTab
    NoWin = NoWin
    MaxDialogs = 2
SPECIFICATION Spec
INVARIANT NoDialogLeftOpen
CHECK_DEADLOCK FALSE
