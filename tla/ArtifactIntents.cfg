CONSTANTS
    Intent = {i1}
    Request = {r1, r2}
    Case = {c1, c2}
    Digest = {d1, d2}
    TTL = 1
    ActorRequired = FALSE
    MaxClock = 2
    None = None
SPECIFICATION FairSpec
INVARIANTS
    EvidenceVerified
    EvidenceInTime
    AnswersAgree
    SchemaAcceptsCompletion
PROPERTY
    CompletionAnswered
