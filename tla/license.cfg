SPECIFICATION Spec
CONSTANTS
    Handler = {h1, h2, h3}
    MaxTokens = 3
CHECK_DEADLOCK FALSE
INVARIANTS
    LicensedHasArtifacts
    StatusIsTruthful
    DeactivationHolds
