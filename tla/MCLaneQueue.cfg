\* Two fair workers, a depth of one entry that two transactional messages exceed,
\* one crash.  The marketing lane is read when it is admitted and found empty.
SPECIFICATION FairSpec
CONSTANTS
    OTPs = {o1}
    Transactionals = {t1, t2}
    Marketings = {}
    Msgs <- MCMsgs
    LaneOf <- MCLaneOf
    Consumers = {c1, c2}
    None = None
    AntiStarvationRatio = 2
    MaxAttempts = 1
    MaxQueueDepth = 1
    MaxSkips = 3
    MaxCrashes = 1
INVARIANTS
    Accounted
    OneHandler
    
PROPERTIES
    HandedOutAtMostOnce
    UrgentLanesDrain
