SPECIFICATION DispatchSpec
CONSTANTS
    Requests <- PartialRenderer
    Texts = {"t"}
    Allowlist <- NoAllowlist
    MaxArgv = 1
    MaxEffects = 1
    MaxChildren = 0
    MaxRenderings = 0
    ForeignChildren = FALSE
    Codes = {0}
    MaxSignals = 1
CHECK_DEADLOCK FALSE
INVARIANT EveryPathRenders
