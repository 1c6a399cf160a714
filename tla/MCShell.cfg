\* Two variants and two messages: three kinds of notice for a history of two.
SPECIFICATION FairShellSpec
CONSTANTS
    Variants = {"warning", "error"}
    Messages = {"flags", "other"}
    FlagMessage = "flags"
    MaxVisible = 1
    MaxHistory = 2
    MaxAdds = 3
    MaxFlags = 2
CHECK_DEADLOCK FALSE
INVARIANTS
    ShellTypeOK
    OneTimerPerToast
    NoticesConserved
    BellMeansNew
PROPERTIES
    ToastsGo
