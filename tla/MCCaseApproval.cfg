CONSTANTS
    ann = ann
    oli = oli
    aud = aud
    Request = {r1}
    CaseId = {c1}
    ActorId = {ann, oli, aud}
    Roles <- MCRoles
    AssetIds <- MCAssetIds
    Key = {k1}
    Asset = {}
    Title = {t1}
    Input = {}
    BodyInput <- AnyBody
    StateInput = {"investigating", "diagnosed", "fix_proposed", "confirmed", "resolved", "learned"}
    EvidenceInput <- WithAndWithoutEvidence
    MaxVersion = 5
    None = None
SPECIFICATION Spec
SYMMETRY MCSymmetry
INVARIANTS
    ApprovalTrail
    SchemaNeverRefuses
CHECK_DEADLOCK FALSE
