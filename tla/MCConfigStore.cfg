CONSTANTS
    Procs = {p1, p2}
    Apps <- MCApps
    Jobs <- MCJobs
    Edits <- MCEdits
    Starts <- MCStarts
    MaxJobs = 3
SPECIFICATION StoreSpec
CHECK_DEADLOCK FALSE
PROPERTY OnlyItsKey
