CONSTANTS
    MaxTokens = 3
SPECIFICATION Spec
INVARIANTS
    HighestSourceWins
    EveryTokenCounts
    ContractHolds
    OnlyLiveScopes
    ChannelsAgree
