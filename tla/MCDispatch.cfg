\* Two workers share two phones; one crash, one new minute; a pipeline of
\* increments is sent up to twice.
SPECIFICATION FairSpec
CONSTANTS
    Msgs = {m1, m2}
    Devices = {d1, d2}
    Workers = {w1, w2}
    None = None
    MaxResults = 2
    DeviceLimit = 1
    Attempts = 2
    ThresholdNum = 1
    ThresholdDen = 2
    HalfOpenSuccesses = 1
    MaxCrashes = 1
    MaxWindows = 1
\* every message may have been handled
CHECK_DEADLOCK FALSE
INVARIANTS
    OneConfirmedSend
    OutcomeMatchesSends
    RowNamesSender
    RateOvershootBounded
PROPERTY
    TakenIsSettled
