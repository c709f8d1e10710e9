CONSTANTS
    Colours = {"white", "black"}
    Initial <- MCInitial
    MaxChanges = 2
    Terms = {t1, t2}
SPECIFICATION Spec
INVARIANTS
    TypeOK
    DialogShowsFile
    TrackedColoursAgree
    TerminalsShowFile
CHECK_DEADLOCK FALSE
