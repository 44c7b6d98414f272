SPECIFICATION RelayFairSpec
CONSTANTS
    Keys = {1}
    Requests = {r1}
    Probers = {p}
    Base = 1
    Cap = 2
    MaxNow = 0
    MaxFailures = 2
    Chunks <- MCChunks
    MaxChunks = 2
INVARIANTS RelayTypeOK EndTellsOutcome RelayedInOrder UsageCounted
PROPERTIES OnlyVerdictsCool ImplementsGateway RequestsEnd
