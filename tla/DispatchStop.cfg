CONSTANTS
    NumWorkers = 2
    MaxConns = 1
    NumClients = 2
    Events = {"SIGHUP", "SIGINT", "stranger"}
SPECIFICATION FairSpec
INVARIANTS
    DispatchTypeOK
    ServerKeepsRunning
    OnlyClientsPolled
PROPERTIES
    ServedByOneWorker
    SighupStops
    SigintStops
    RequestsRead
