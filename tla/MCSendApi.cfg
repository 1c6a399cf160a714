\* Three requests, two at a time: single messages and bulk requests of two.
SPECIFICATION Spec
CONSTANTS
    Requests = {r1, r2, r3}
    Keys = {k1}
    None = None
    BulkSize = 2
    Subscribed = TRUE
    Limit = 1
    Attempts = 2
    MaxOpen = 2
    MaxErrors = 2
    MaxCrashes = 1
    MaxDays = 1
\* every request may have been answered
CHECK_DEADLOCK FALSE
SYMMETRY Symmetry
INVARIANTS QuotaOvershootBounded AnswersAccounted MessagesPerKeyBounded
