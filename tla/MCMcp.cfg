SPECIFICATION FairMcpSpec
CONSTANTS
    TTL = 1
    Principals = {"c1", "c2"}
    Names = {"drop", "list", "purge", "gone"}
    Args = {"all", "some"}
    Commands = {"drop", "list", "purge"}
    Listed = {"drop", "list"}
    Consequential = {"drop", "purge"}
    Lines <- MCLines
    MaxLines = 4
    MaxTime = 1
CHECK_DEADLOCK FALSE
INVARIANTS McpTypeOK OneAnswerEach SingleUse ConsentIsForTheCall RefusalStands
PROPERTY EndIsReached
