SPECIFICATION EffectsSpec
CONSTANTS
    Requests <- MCRequests
    Texts = {"ls", "rm"}
    Allowlist <- MCAllowlist
    MaxArgv = 2
    MaxEffects = 2
    MaxChildren = 1
    MaxRenderings = 2
    ForeignChildren = TRUE
INVARIANTS
    EffectsTypeOK
    DryRunSealed
    LedgerBeforeEffect
    FreshObservation
    BackstopUnreachable
    StepsContiguous
PROPERTY TruncationStands
