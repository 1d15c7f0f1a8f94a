CONSTANTS
    Procs = {p1}
    Runs = {r1, r2}
    Apps <- UsualApp
    Requests <- EveryCheck
    Commands = {"a"}
    Consequential = {}
    Manifests <- NoManifest
    MaxRuns = 3
    MaxEvents = 2
SPECIFICATION ChecksSpec
CHECK_DEADLOCK FALSE
INVARIANT RegistryIsCurrent
