SPECIFICATION FairDispatchSpec
CONSTANTS
    Requests <- AllRequests
    Texts = {"t"}
    Allowlist <- NoAllowlist
    MaxArgv = 1
    MaxEffects = 2
    MaxChildren = 2
    MaxRenderings = 1
    ForeignChildren = TRUE
    Codes = {0, 2}
    MaxSignals = 1
CHECK_DEADLOCK FALSE
INVARIANTS
    DispatchTypeOK
    OneDocument
    SuccessIsEarned
    ConsentFirst
    NoChildOutlives
    SpanCoversSettling
    SignalDecides
    PreviewNeverSilent
PROPERTIES SettlingEnds ImplementsContract
