CONSTANTS
    ann = ann
    oli = oli
    aud = aud
    Request = {r1, r2}
    CaseId = {c1}
    ActorId = {ann}
    Roles <- MCRoles
    AssetIds <- MCAssetIds
    Key = {k1}
    Asset = {}
    Title = {t1}
    Input = {}
    BodyInput <- AnyBody
    StateInput = {"investigating", "diagnosed", "needs_information"}
    EvidenceInput <- FullEvidence
    MaxVersion = 2
    None = None
SPECIFICATION FairSpec
INVARIANTS
    AcknowledgedIsDurable
    TimelineCoversRow
PROPERTIES
    ImplementsLifecycle
    EveryRequestAnswered
CHECK_DEADLOCK FALSE
