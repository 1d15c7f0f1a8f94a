SPECIFICATION TraceSpec
CONSTANTS
    r1 = r1
    r2 = r2
    c1 = c1
    c2 = c2
    Procs <- MCProcs
    Roots <- MCRoots
    RootEnv <- MCRootEnv
    Hour = 2
    Roll = 1
    MaxTime = 2
    MaxEntries = 3
    MaxMishaps = 1
SYMMETRY Interchangeable
CHECK_DEADLOCK FALSE
INVARIANTS TraceTypeOK NeverBeforeLabel ChainIsAncestry OverrunIsBounded
