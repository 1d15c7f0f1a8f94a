CONSTANTS
    Procs = {p1, p2}
    Runs = {r1, r2}
    Apps <- MCApps
    Requests <- MCRequests
    Commands = {"a", "b"}
    Consequential = {"b"}
    Manifests <- MCManifests
    MaxRuns = 2
    MaxEvents = 2
SPECIFICATION ChecksSpec
SYMMETRY Symmetric
CHECK_DEADLOCK FALSE
INVARIANTS
    PreconditionsHeld
    RunIsAccounted
PROPERTY ManifestIsEarned
