CONSTANTS
    NumWorkers = 2
    MaxConns = 1
    NumClients = 2
    Events = {"SIGINT", "late_signal", "client_dies"}
SPECIFICATION Spec
CONSTRAINT LostWorkersBound
\* The server may come to a halt: an acceptor in accept holds state_mux, and a
\* failed accept leaves it locked.
CHECK_DEADLOCK FALSE
INVARIANTS
    NoLostWakeup
    RegisteredStayOpen
