CONSTANTS
    NumWorkers = 2
    MaxConns = 2
    NumClients = 2
    Events = {}
SPECIFICATION FairSpec
INVARIANTS
    InOnePlace
PROPERTIES
    CompletionsCollected
    RequestsRead
