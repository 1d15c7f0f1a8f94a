SPECIFICATION DispatchSpec
CONSTANTS
    Requests <- OneLiveRun
    Texts = {"t"}
    Allowlist <- NoAllowlist
    MaxArgv = 1
    MaxEffects = 1
    MaxChildren = 1
    MaxRenderings = 0
    ForeignChildren = FALSE
    Codes = {0}
    MaxSignals = 1
CHECK_DEADLOCK FALSE
INVARIANT ArrivedSignalDecides
