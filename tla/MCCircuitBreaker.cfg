\* One device breaker with the default threshold 0.5.
SPECIFICATION FairSpec
CONSTANTS
    Keys = {d1}
    ThresholdNum = 1
    ThresholdDen = 2
    HalfOpenSuccesses = 3
    MaxFailures = 5
    MaxSuccesses = 4
INVARIANTS
    ClosedWithinThreshold
    TrialIsConsecutive
PROPERTIES
    ClosesOnlyAfterTrial
    RecoversOnceHealthy
