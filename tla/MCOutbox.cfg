CONSTANTS
    Event = {o1, o2}
    Worker = {w1, w2}
    Token = {t1, t2, t3, t4, t5}
    BatchSize = 2
    LeaseFor = 2
    RetryAfter = 1
    MaxLag = 1
    MaxAttempts = 2
    MaxCrashes = 1
    None = None
SPECIFICATION Spec
SYMMETRY MCSymmetry
INVARIANTS
    AtMostOneSettler
PROPERTIES
    ImplementsContract
    SettledByOwner
