SPECIFICATION SharedSpec
CONSTANTS
    d1 = d1
    d2 = d2
    d3 = d3
    Process = Process
    Dispatches <- Two
    Discipline = "nested"
    MaxRecords = 1
CHECK_DEADLOCK FALSE
INVARIANTS EverySwallowFailsClosed
