CONSTANTS
    ann = ann
    oli = oli
    Request = {r1, r2}
    CaseId = {c1, c2}
    ActorId = {ann, oli}
    User = ann
    Roles <- MCRoles
    AssetIds <- MCAssetIds
    Key = {k1, k2, k3}
    FormKey = {k1, k2}
    Asset = {a1}
    a1 = a1
    t1 = t1
    t2 = t2
    i1 = i1
    Title = {t1, t2}
    Input = {i1}
    BodyInput <- MCBodyInput
    FormBody <- MCFormBody
    StateInput = {"investigating"}
    EvidenceInput <- NoEvidence
    MaxVersion = 0
    MaxIntent = 2
    None = None
SPECIFICATION IntakeSpec
SYMMETRY MCSymmetry
INVARIANTS
    OneCasePerIntent
    KeyKeepsItsIntent
    CreateAnswered
    RecordComplete
CHECK_DEADLOCK FALSE
