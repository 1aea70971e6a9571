SPECIFICATION EitherSpec

CONSTANTS
    GroupSize <- MCGroupSize
    Quota <- MCQuota
    Orderers = 2
    MaxResponses = 4
    RetryRaw = FALSE
    MaxProposals = 3

INVARIANTS
    TypeOK
    EndorsedEnough
    OneProposal
    EvaluateFresh
PROPERTIES
    Returns
