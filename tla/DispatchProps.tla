--------------------------- MODULE DispatchProps ----------------------------
(***************************************************************************)
(* What the main loop and the workers promise each other (module           *)
(* Dispatch).                                                              *)
(***************************************************************************)
EXTENDS Dispatch

----------------------------------------------------------------------------
(* Where a descriptor is.                                                  *)

Busy(w) == wd[w].do_work # "IDLE"
InLoop(w) == thr[w].pc \in LoopPcs

\* The descriptor a worker has been given, as it will report it.
Given(w) == IF ~Busy(w) THEN NoFd ELSE IF InLoop(w) THEN wd[w].in_conn ELSE thr[w].conn

\* The new connection the acceptor's worker holds or reports.
NewConn(w) ==
    IF Given(w) # Acceptor THEN NoFd
    ELSE IF ~InLoop(w) THEN thr[w].newconn
    ELSE IF wd[w].do_work = "DONE" THEN wd[w].add_conn ELSE NoFd

PollsOf(c) == {i \in Entries : poll_array[i] = c}
HeldBy(w, c) == Given(w) = c \/ NewConn(w) = c
HoldersOf(c) == {w \in Workers : HeldBy(w, c)}
Assigning(c) == mpc = "assign" /\ mfd = c

Places(c) ==
    Cardinality(PollsOf(c)) + Cardinality(HoldersOf(c))
      + (IF Assigning(c) THEN 1 ELSE 0)
      + (IF c = Acceptor /\ acc_polled THEN 1 ELSE 0)

----------------------------------------------------------------------------
(* Type invariant: the fields of worker_data, poll_array, shared_state and *)
(* the locals of both loops; a poll array and a table within their sizes.  *)
DispatchTypeOK ==
    /\ mpc \in MainPcs /\ mi \in Workers /\ mfd \in Fds \union {Acceptor, NoFd}
    /\ poll_array \in [Entries -> Fds \union {NoFd}]
    /\ acc_polled \in BOOLEAN /\ working_threads \in Int /\ sighup \in BOOLEAN
    /\ pending \subseteq {"SIGHUP", "SIGINT", "SIGUSR1"}
    /\ wd \in [Workers -> WorkerData]
    /\ thr \in [Workers -> ThreadType]
    /\ clients \subseteq Fds /\ Cardinality(clients) <= MaxConns
    /\ state_mux \in Workers \union {0}
    /\ sock \in [Fds -> SockStates] /\ alive \in [Fds -> BOOLEAN]
    /\ acceptor_open \in BOOLEAN /\ backlog \in 0 .. NumClients

\* worker.c:103, "the values of conn and newconn tell the main thread if a
\* connection has been added or dropped": a connected client is polled, or with
\* one worker, or on its way there - once, and never lost; so is the acceptor.
InOnePlace ==
    \A c \in clients \union (IF acceptor_open THEN {Acceptor} ELSE {}) : Places(c) = 1

\* working_threads (server_loop.c:128, :162) counts the workers that are not
\* idle, although it is changed by other steps than do_work's report.
WorkersCounted == working_threads = Cardinality({w \in Workers : Busy(w)})

\* No step of the main loop fails: a worker is idle whenever one is looked for
\* (server_loop.c:133) and no closed descriptor is polled (server_loop.c:109).
ServerKeepsRunning == mpc \notin {"died", "killed"}

\* worker_connection.c:38, "waiting for a message from the new connection,
\* otherwise drop it": only connections in the client table are polled.
OnlyClientsPolled == PolledFds \subseteq clients

\* No wake-up is lost (worker.c:74, server_loop.c:127, server_subcalls.c:54): a
\* worker asleep on its condition variable has neither work nor the order to exit.
NoLostWakeup == \A w \in Workers : At(w, "asleep") => wd[w].do_work # "DO" /\ ~wd[w].exit

\* Locks carry descriptors (file.h:16), and accept reuses them: no descriptor is
\* free while a client is registered under it, whatever fails, so that a new
\* client never inherits the locks of another (worker_connection.c:96-99).
RegisteredStayOpen == Running => \A c \in clients : sock[c] # "closed"

\* What RegisteredStayOpen rests on: a connection whose first message is awaited
\* or being registered is open, not in the table, and one worker's only.
Greeting(w) == thr[w].pc \in {"acc_hello", "acc_add"}
NewcomersApart ==
    \A w \in Workers : Greeting(w) =>
        /\ thr[w].newconn \in Fds \ clients
        /\ sock[thr[w].newconn] # "closed"
        /\ \A v \in Workers \ {w} : Greeting(v) => thr[v].newconn # thr[w].newconn

\* The inductive invariant of the theorems.
DispatchInv == DispatchTypeOK /\ NoLostWakeup /\ RegisteredStayOpen /\ NewcomersApart

----------------------------------------------------------------------------
(* Why connections change hands one at a time, where nothing fails: the    *)
(* inductive invariant behind InOnePlace.                                  *)

\* No handler fails, no client dies and no signal comes in the middle of a
\* connection: each of them ends the promises below (run FailedHandler).
Orderly == Events \intersect {"late_signal", "handler_fails", "client_dies"} = {}

\* The descriptors somebody must look after.
Present == clients \union (IF acceptor_open THEN {Acceptor} ELSE {})
IsPolled(c) == PollsOf(c) # {} \/ (c = Acceptor /\ acc_polled)

\* Nothing else is polled, in a worker's hands or on its way there.
OnlyPresent ==
    /\ OnlyClientsPolled /\ (acc_polled => acceptor_open)
    /\ mpc = "assign" => mfd \in Present
    /\ \A w \in Workers :
          /\ Given(w) \in Present \union {NoFd}
          /\ ~Greeting(w) => NewConn(w) \in clients \union {NoFd}

\* Each of them is in one place: in one entry, or main's choice, or a worker's.
OneHand ==
    /\ \A i, j \in Entries : poll_array[i] = poll_array[j] /\ poll_array[i] # NoFd => i = j
    /\ \A c \in Present :
          /\ IsPolled(c) \/ Assigning(c) \/ \E w \in Workers : HeldBy(w, c)
          /\ ~(IsPolled(c) /\ Assigning(c))
          /\ \A w \in Workers : HeldBy(w, c) =>
                ~IsPolled(c) /\ ~Assigning(c) /\ \A v \in Workers : HeldBy(v, c) => v = w

\* A worker at work has been given work, and knows on what.
WorkerOrderly(w) ==
    /\ thr[w].pc \notin {"fail_done", "fail_kill"}
    /\ ~InLoop(w) => wd[w].do_work = "DO"
    /\ InLoop(w) /\ wd[w].do_work = "DO" => wd[w].in_conn # NoFd
    /\ thr[w].pc \in AcceptPcs => thr[w].conn = Acceptor
    /\ thr[w].pc \in {"acc_test", "acc_lock", "acc_accept"} => thr[w].newconn = NoFd
    /\ At(w, "acc_reply") => thr[w].newconn # NoFd
    /\ thr[w].pc \in ServePcs => thr[w].conn \in Fds
    /\ At(w, "reply") => ~thr[w].failed
WorkersOrderly == \A w \in Workers : WorkerOrderly(w)

\* How far a connection is: nobody reads it, or it is somebody's turn to.
Asking == {"request", "bye"}
AtRest == {"idle"} \union Asking

\* What worker w knows of the connection it has been given, and of the new one.
GivenSock(w) ==
    CASE At(w, "handle") -> {"waiting", "leaving"}
      [] At(w, "reply") -> {"waiting"}
      [] At(w, "cconn_reply") -> {"leaving"}
      [] At(w, "cconn_remove") -> {"left"}
      [] At(w, "done") \/ wd[w].do_work = "DONE" -> AtRest
      [] OTHER -> Asking
NewSock(w) ==
    CASE At(w, "acc_hello") -> {"greeting", "hello", "strange"}
      [] thr[w].pc \in {"acc_add", "acc_reply"} -> {"greeted"}
      [] OTHER -> AtRest
WorkerSock(w) ==
    /\ Given(w) \in Fds => sock[Given(w)] \in GivenSock(w)
    /\ NewConn(w) \in Fds => sock[NewConn(w)] \in NewSock(w)

\* Each side of a connection knows how far the other is: nobody reads what is
\* not there, and nobody writes to, or polls, what has been closed.
SocketsOrderly ==
    Running =>
    /\ \A c \in Fds : sock[c] # "closed" => alive[c]
    /\ \A i \in Entries : poll_array[i] # NoFd => sock[poll_array[i]] \in AtRest
    /\ mpc = "assign" /\ mfd # Acceptor => sock[mfd] \in Asking
    /\ \A w \in Workers : WorkerSock(w)

\* One signal is sent, and then nobody connects: the acceptor stays polled until
\* the main loop closes it.
SignalsOrderly ==
    /\ ~({"SIGHUP", "SIGINT"} \subseteq pending)
    /\ pending \intersect {"SIGHUP", "SIGINT"} # {} =>
          acceptor_open /\ mpc \notin {"hup_close", "int_close"}
    /\ mpc \in {"hup_close", "int_close"} => acceptor_open
    /\ Signalled => backlog = 0 /\ (acceptor_open => acc_polled)

\* thread_assign_work finds an idle worker among those it has not looked at.
AssignFindsIdle == mpc = "assign" => \E w \in mi .. NumWorkers : CanAssign(w)

HandOverInv ==
    /\ DispatchInv /\ ServerKeepsRunning /\ WorkersCounted /\ OnlyPresent /\ OneHand
    /\ WorkersOrderly /\ SocketsOrderly /\ SignalsOrderly /\ AssignFindsIdle

\* Bound of the runs with failures: a completion reported twice lowers
\* working_threads each time.
LostWorkersBound == working_threads >= 0

----------------------------------------------------------------------------
(* The main loop and the workers implement module Connections: a connected *)
(* client is in the poll set or with one worker, and changes hands only    *)
(* through the poll set.  Until a worker has it, main's choice is polled.  *)
(* NoFd and Acceptor, which name no worker, stand for Closed and Polled.   *)
PlaceOf(c) ==
    IF c \notin clients THEN NoFd
    ELSE IF HoldersOf(c) # {} THEN CHOOSE w \in HoldersOf(c) : TRUE
    ELSE Acceptor
place == [c \in Fds |-> PlaceOf(c)]

ConnectionPlaces == INSTANCE Connections WITH
    Conns <- Fds, Servers <- Workers, Closed <- NoFd, Polled <- Acceptor

\* Receive of module Storage rests on this: see module Connections.
ServedByOneWorker == ConnectionPlaces!Spec

----------------------------------------------------------------------------
\* Completions are not lost although SIGUSR1 is not queued: no report stays
\* uncollected for ever, unless the server is stopping (server_loop.c:152).
CompletionsCollected ==
    \A w \in Workers :
        []<>(wd[w].do_work # "DONE" \/ mpc \in {"join", "int_join", "stopped"})

\* server_loop.c:100, "find the first connection who needs attention": a request
\* stays unread for ever only if other clients keep sending or connecting, or
\* the server is stopped by a signal, or a newcomer waits at a full table: the
\* acceptor then leaves it there (worker_connection.c:28), and the main loop,
\* which looks at the listening socket first (exec/server.c:86), may turn to it
\* every time.
ClientsSend == \E c \in Fds : sock'[c] # sock[c] /\ sock'[c] \in Unread
NewcomerWaits == backlog > 0 /\ Cardinality(clients) >= MaxConns
RequestsRead ==
    \A c \in Fds :
        <>[](c \in clients /\ HasMessage(c) /\ mpc # "stopped")
            => []<><<ClientsSend \/ Connect>>_vars \/ <>[]NewcomerWaits

\* exec/server.c:68, "if SIGHUP was raised and there are no more active clients":
\* once the clients have left, the server that was told to stop stops.
ClientsLeave == \A c \in Fds : SF_vars(Running /\ Bye(c))
SighupStops == ClientsLeave => ("SIGHUP" \in pending ~> mpc = "stopped")

\* server_loop.c:57: SIGINT stops the server, whatever its workers are doing.
SigintStops == "SIGINT" \in pending ~> mpc = "stopped"
=============================================================================
