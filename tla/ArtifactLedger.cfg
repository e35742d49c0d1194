CONSTANTS
    Worker = {w1, w2}
    MaxTime = 1
    Skew = 1
    LockGranted = TRUE
    Kind = {config, audio}
    Redactable = config
    None = None
SPECIFICATION FairSpec
INVARIANTS
    OutcomeJustified
PROPERTIES
    OutcomeSettles
    JobsEnd
