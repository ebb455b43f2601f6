---------------------------- MODULE Connections -----------------------------
(***************************************************************************)
(* What the request handlers need from the dispatching of connections: a   *)
(* connection is served by one worker at a time.  Module Storage assumes   *)
(* it in Receive; module Dispatch implements it.                           *)
(***************************************************************************)
CONSTANTS
    Conns, Servers,
    Closed, Polled      \* where a connection is that no server has

VARIABLE place      \* of each connection: Closed, Polled or a server

Init == place = [c \in Conns |-> Closed]

Move(c, from, to) == place[c] = from /\ place' = [place EXCEPT ![c] = to]

\* The server that accepts a connection registers it and hands it over.
Register(c, s) == Move(c, Closed, s)
Take(c, s) == Move(c, Polled, s)
GiveBack(c, s) == Move(c, s, Polled)
Close(c, s) == Move(c, s, Closed)

Next == \E c \in Conns, s \in Servers :
            Register(c, s) \/ Take(c, s) \/ GiveBack(c, s) \/ Close(c, s)

Spec == Init /\ [][Next]_place
=============================================================================
