\* Two server processes; failing calls and a restart.
SPECIFICATION FairSpec
CONSTANTS
    Msgs = {1, 2, 3}
    Unreadable = {1}
    Replicas = {s1, s2}
    BatchSize = 2
    Attempts = 2
    MaxErrors = 2
    MaxCrashes = 1
\* every message may have been sent
CHECK_DEADLOCK FALSE
INVARIANTS
    PendingIsAccounted
    EnqueuedPerProcess
PROPERTIES
    DueIsEnqueued
