CONSTANTS
    NumWorkers = 2
    MaxConns = 1
    NumClients = 2
    Events = {"SIGHUP", "late_signal"}
SPECIFICATION FairSpec
\* The counterexample ends in a deadlock: a failed accept leaves state_mux locked.
CHECK_DEADLOCK FALSE
PROPERTIES
    SighupStops
