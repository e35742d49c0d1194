CONSTANTS
    anna = anna
    CaseId = {1, 2, 3}
    ActorId = {anna}
    Actors <- MCActors
    EvidenceInput <- MCEvidenceInput
    MaxVersion = 0
    Selected = {1, 2, 3}
    FilterInput <- MCFilterInput
    PageLimit = 1
    MaxTime = 2
    None = None
SPECIFICATION QueueFairSpec
INVARIANTS
    NothingSkipped
    NextPageHasCases
PROPERTIES
    WalkEnds
