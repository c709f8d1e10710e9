CONSTANTS
    Names = {"Default", "p", "q"}
    Default = "Default"
    System = {}
    Own = {"p"}
    MaxValue = 1
    MaxChanges = 2
    Terms = {t1, t2}
    Reflected = TRUE
SPECIFICATION Spec
INVARIANTS
    TypeOK
    CountsAreHolders
    ShowsItsOptions
    CacheFollowsFile
    MenuFollowsFiles
PROPERTIES
    OnlyEditorsOverwrite
    Settles
CHECK_DEADLOCK FALSE
