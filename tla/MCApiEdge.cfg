SPECIFICATION FairSpec
CONSTANTS
    Request = {r1, r2}
    Client = {c1, c2}
    Kid = {k1}
    Forged = {f1}
    Token <- MCToken
    MaxRequests = 1
    WindowSeconds = 1
    Second = 2
    Ttl = 2
    Timeout = 1
    None = None
INVARIANTS BurstBounded
PROPERTIES RotationIsFollowed RetryAfterFits WithdrawnKeysExpire EveryTokenAnswered
