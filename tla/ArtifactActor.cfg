CONSTANTS
    Intent = {i1}
    Request = {r1}
    Case = {c1}
    Digest = {d1}
    TTL = 1
    ActorRequired = TRUE
    MaxClock = 1
    None = None
SPECIFICATION Spec
INVARIANT
    SchemaAcceptsCompletion
