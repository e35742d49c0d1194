CONSTANTS
    Event = {o1, o2}
    Worker = {w1}
    Token = {t1, t2, t3}
    BatchSize = 2
    LeaseFor = 2
    RetryAfter = 1
    MaxLag = 1
    MaxAttempts = 1
    MaxCrashes = 2
    None = None
SPECIFICATION ProcessFairSpec
INVARIANTS
    NoOrphanSweep
PROPERTIES
    EventuallyPublished
    FailureSurfaces
    StopHonoured
