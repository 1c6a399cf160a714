\* A client repeats a request only after the first one has ended.
SPECIFICATION Spec
CONSTANTS
    Requests = {r1, r2, r3}
    Keys = {k1, k2}
    None = None
    BulkSize = 1
    Subscribed = TRUE
    Limit = 2
    Attempts = 2
    MaxOpen = 1
    MaxErrors = 2
    MaxCrashes = 1
    MaxDays = 1
\* every request may have been answered
CHECK_DEADLOCK FALSE
SYMMETRY Symmetry
INVARIANTS OneMessagePerKey
