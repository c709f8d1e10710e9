CONSTANTS
    Profiles = {"Default", "dark"}
    SchemeOf <- MCSchemeOf
    NoScheme = "no scheme"
    HidesMenu = {"dark"}
    Schemes = {"GTK", "night"}
    Foreign <- MCForeign
    MaxTabs = 3
    MaxChanges = 4
SPECIFICATION Spec
INVARIANTS
    TypeOK
    AlwaysAWindow
PROPERTY RestoredAsSaved
CHECK_DEADLOCK FALSE
