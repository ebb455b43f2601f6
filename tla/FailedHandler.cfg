CONSTANTS
    NumWorkers = 2
    MaxConns = 2
    NumClients = 2
    Events = {"handler_fails"}
SPECIFICATION Spec
INVARIANTS
    InOnePlace
