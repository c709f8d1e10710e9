CONSTANTS
    Profiles = {"Default", "dark"}
    SchemeOf <- MCSchemeOf
    NoScheme = "no scheme"
    HidesMenu = {"dark"}
    Schemes = {"GTK", "night"}
    Foreign <- MCForeign
    MaxTabs = 3
    MaxChanges = 2
SPECIFICATION Spec
PROPERTY SessionRestores
CHECK_DEADLOCK FALSE
