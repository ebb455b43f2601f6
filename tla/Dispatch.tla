------------------------------ MODULE Dispatch ------------------------------
(***************************************************************************)
(* The main loop and the hand-over of connections to the worker threads:   *)
(* exec/server.c, server/server_loop.c, server/server_subcalls.c, the loop *)
(* of worker.c and the acceptor of worker_connection.c.                    *)
(*                                                                         *)
(* The main loop polls the signal descriptor, the listening socket and the *)
(* idle connections, in this order of priority.  A descriptor with         *)
(* something to read leaves the poll array and goes to an idle worker; the *)
(* worker reports back through its worker_data and SIGUSR1, which is not   *)
(* queued.                                                                 *)
(*                                                                         *)
(* Abstracted: what a request does to the files (module Storage) is one    *)
(* step that needs state_mux, as get_client_lastop does, and may fail when *)
(* Events says so.  The listening socket's queue is a count; a client is   *)
(* the state of its socket.                                                *)
(***************************************************************************)
EXTENDS Integers, FiniteSets, FiniteSetsExt

CONSTANTS
    NumWorkers,     \* threads_count
    MaxConns,       \* max_connections
    NumClients,     \* bound: clients connected, or waiting to be, at one time
    Events          \* what may happen beside clients that follow the protocol

(* "SIGHUP", "SIGINT": the signal is sent once, when no client is          *)
(*   connecting, and no client connects afterwards;                        *)
(* "late_signal": they are sent at any time;                               *)
(* "handler_fails": a handler may return -1;                               *)
(* "client_dies": a client may go away without MESSAGE_CLOSE_CONN;         *)
(* "stranger": a client may start with another message.                    *)
ASSUME DispatchAssumption ==
    /\ NumWorkers \in Nat \ {0}
    /\ MaxConns \in Nat \ {0}
    /\ NumClients \in Nat \ {0}
    /\ Events \subseteq {"SIGHUP", "SIGINT", "late_signal", "handler_fails",
                         "client_dies", "stranger"}

Workers == 1 .. NumWorkers
Entries == 1 .. MaxConns       \* the connections' part of the poll array
Fds == 1 .. NumClients         \* descriptors accept may return
Acceptor == 0                  \* ro_acceptor_fd
NoFd == -1

VARIABLES
    \* The main thread: where it is, its loop index and the descriptor it is
    \* about to assign; poll_array without its two last entries, and whether
    \* the listening socket's entry is set; its two variables of main().
    mpc, mi, mfd, poll_array, acc_polled, working_threads, sighup,
    pending,        \* signals to be read from the signal descriptor
    wd,             \* worker_data of each worker
    thr,            \* what each worker is doing, and its locals
    clients, state_mux,      \* of shared_state: the client table, and who holds the mutex
    sock, alive,    \* connections: see SockStates; whether the peer is there
    acceptor_open, backlog   \* the listening socket and its queue

mainvars == <<mpc, mi, mfd, poll_array, acc_polled, working_threads, sighup>>
netvars == <<sock, alive, acceptor_open, backlog>>
vars == <<mainvars, pending, wd, thr, clients, state_mux, netvars>>

----------------------------------------------------------------------------
MainPcs == {"loop", "poll", "signal", "assign", "collect", "hup_close", "int_close",
            "stop", "int_stop", "join", "int_join", "stopped", "died", "killed"}

\* "stopped": main returned; "died": PERRCHECK left with _exit(1); "killed":
\* SIGPIPE, which the server neither blocks nor handles.
Running == mpc \notin {"stopped", "died", "killed"}

DoWork == {"IDLE", "DO", "DONE"}
AcceptPcs == {"acc_test", "acc_lock", "acc_accept", "acc_hello", "acc_add", "acc_reply"}
ServePcs == {"read", "handle", "reply", "cconn_reply", "cconn_remove"}
ReportPcs == {"fail_done", "fail_kill", "done"}
LoopPcs == {"wait", "asleep", "kill", "exited"}

WorkerData == [do_work : DoWork, exit : BOOLEAN, in_conn : Fds \union {Acceptor, NoFd},
               add_conn : Fds \union {NoFd}]
ThreadType == [pc : LoopPcs \union AcceptPcs \union ServePcs \union ReportPcs,
               conn : Fds \union {Acceptor, NoFd}, newconn : Fds \union {NoFd},
               failed : BOOLEAN]       \* ret of the handler is -1

\* A connection, by the message under way on it: sent and unread, read and not
\* answered, or none.  "left": the client has its last answer and has closed.
Unread == {"hello", "strange", "request", "bye"}
SockStates == {"closed", "greeting", "greeted", "idle", "waiting", "leaving", "left"}
                \union Unread
AfterRead(s) ==
    CASE s \in {"hello", "strange"} -> "greeted"
      [] s = "request" -> "waiting"
      [] s = "bye" -> "leaving"

HasMessage(c) == sock[c] \in Unread
HasEOF(c) == ~HasMessage(c) /\ sock[c] # "closed" /\ (~alive[c] \/ sock[c] = "left")
\* POLLIN; an open descriptor is never POLLNVAL, a closed one always is.
Readable(c) == HasMessage(c) \/ HasEOF(c)

At(w, label) == thr[w].pc = label
Goto(w, label) == thr' = [thr EXCEPT ![w].pc = label]
Thread(label, conn, newconn, failed) ==
    [pc |-> label, conn |-> conn, newconn |-> newconn, failed |-> failed]
Become(w, thread) == thr' = [thr EXCEPT ![w] = thread]
WaitingThread == Thread("wait", NoFd, NoFd, FALSE)
MuxFree == state_mux = 0

----------------------------------------------------------------------------
Init ==
    /\ mpc = "loop" /\ mi = 1 /\ mfd = NoFd
    /\ poll_array = [i \in Entries |-> NoFd]
    /\ acc_polled = TRUE /\ working_threads = 0 /\ sighup = FALSE
    /\ pending = {}
    /\ wd = [w \in Workers |->
               [do_work |-> "IDLE", exit |-> FALSE, in_conn |-> NoFd, add_conn |-> NoFd]]
    /\ thr = [w \in Workers |-> WaitingThread]
    /\ clients = {} /\ state_mux = 0
    /\ sock = [c \in Fds |-> "closed"]
    /\ alive = [c \in Fds |-> FALSE]
    /\ acceptor_open = TRUE /\ backlog = 0

----------------------------------------------------------------------------
(* The main loop.                                                          *)

\* get_current_connections, and the choice between stopping and polling.
GetCurrentConnections ==
    /\ mpc = "loop" /\ MuxFree
    /\ mpc' = IF sighup /\ clients = {} THEN "stop" ELSE "poll"
    /\ UNCHANGED <<mi, mfd, poll_array, acc_polled, working_threads, sighup, pending, wd,
                   thr, clients, state_mux, netvars>>

PollSignal ==
    /\ mpc = "poll" /\ pending # {}
    /\ mpc' = "signal"
    /\ UNCHANGED <<mi, mfd, poll_array, acc_polled, working_threads, sighup, pending, wd,
                   thr, clients, state_mux, netvars>>

\* Mutant of PollsAll: the number of busy workers is not looked at.
PollsAlways == mpc = "poll" /\ pending = {}

\* poll_call looks beyond the signals only when a worker is said to be free.
PollsAll == mpc = "poll" /\ pending = {} /\ working_threads < NumWorkers

\* Mutant of AcceptorReady: the listening socket is served unasked.
AcceptorPolled == acc_polled /\ acceptor_open
AcceptorReady == acc_polled /\ acceptor_open /\ backlog > 0
ReadyEntries == {i \in Entries : poll_array[i] # NoFd /\ Readable(poll_array[i])}
\* POLLNVAL: the entry's descriptor has been closed.
InvalidEntry ==
    \/ acc_polled /\ ~acceptor_open
    \/ \E i \in Entries : poll_array[i] # NoFd /\ sock[poll_array[i]] = "closed"

StartAssign(c) == mfd' = c /\ mi' = 1 /\ mpc' = "assign"

\* after_poll_acceptor
PollAcceptor ==
    /\ PollsAll /\ AcceptorReady
    /\ acc_polled' = FALSE /\ StartAssign(Acceptor)
    /\ UNCHANGED <<poll_array, working_threads, sighup, pending, wd, thr, clients,
                   state_mux, netvars>>

\* Mutant of TakeEntry: the entry stays in the poll array.
CopyEntry(i) == UNCHANGED poll_array /\ StartAssign(poll_array[i])

TakeEntry(i) == poll_array' = [poll_array EXCEPT ![i] = NoFd] /\ StartAssign(poll_array[i])

\* after_poll_connection: the first entry that is ready.
PollConnection ==
    /\ PollsAll /\ ~AcceptorReady
    /\ \E i \in ReadyEntries : (\A j \in ReadyEntries : i <= j) /\ TakeEntry(i)
    /\ UNCHANGED <<acc_polled, working_threads, sighup, pending, wd, thr, clients,
                   state_mux, netvars>>

\* poll returns for a closed descriptor; after_poll_connection finds no POLLIN
\* and returns EIO.
PollInvalid ==
    /\ PollsAll /\ ~AcceptorReady /\ ReadyEntries = {} /\ InvalidEntry
    /\ mpc' = "died"
    /\ UNCHANGED <<mi, mfd, poll_array, acc_polled, working_threads, sighup, pending, wd,
                   thr, clients, state_mux, netvars>>

----------------------------------------------------------------------------
(* Hand-over, main side: one step per worker whose mutex is taken.         *)

\* pthread_cond_signal
Wake(W) == thr' = [w \in Workers |->
                     IF w \in W /\ At(w, "asleep") THEN [thr[w] EXCEPT !.pc = "wait"]
                     ELSE thr[w]]

CanAssign(w) == wd[w].do_work = "IDLE"

\* thread_assign_work
AssignWork ==
    /\ mpc = "assign"
    /\ IF CanAssign(mi)
       THEN /\ wd' = [wd EXCEPT ![mi].do_work = "DO", ![mi].in_conn = mfd]
            /\ Wake({mi})
            /\ working_threads' = working_threads + 1
            /\ mpc' = "loop" /\ mi' = 1 /\ mfd' = NoFd
       ELSE /\ IF mi < NumWorkers THEN mi' = mi + 1 /\ UNCHANGED <<mpc, mfd>>
               ELSE mpc' = "died" /\ UNCHANGED <<mi, mfd>>
            /\ UNCHANGED <<wd, thr, working_threads>>
    /\ UNCHANGED <<poll_array, acc_polled, sighup, pending, clients, state_mux, netvars>>

\* add_connection_to_poll: a full array drops the descriptor.
FreeEntries == {i \in Entries : poll_array[i] = NoFd}
AddedToPoll(c) ==
    IF c = NoFd \/ FreeEntries = {} THEN poll_array
    ELSE [poll_array EXCEPT ![Min(FreeEntries)] = c]

\* Mutant of CollectNext: one worker too far.
CollectPastEnd == mi' = mi + 1 /\ mpc' = "collect"

\* Mutant of CollectNext: the loop stops at the first worker, as if one signal
\* meant one completion.
CollectFirst == mi' = 1 /\ mpc' = "loop"

CollectNext ==
    /\ mi' = IF mi < NumWorkers THEN mi + 1 ELSE 1
    /\ mpc' = IF mi < NumWorkers THEN "collect" ELSE "loop"

\* thread_has_finished.  The in_conn of an idle worker is read by nobody before
\* it is set again; it is reset here so that it does not count as state.
ThreadHasFinished ==
    /\ mpc = "collect"
    /\ CollectNext
    /\ IF wd[mi].do_work = "DONE"
       THEN /\ wd' = [wd EXCEPT ![mi].do_work = "IDLE", ![mi].in_conn = NoFd]
            /\ working_threads' = working_threads - 1
            /\ LET back == wd[mi].in_conn
               IN  /\ acc_polled' = (acc_polled \/ back = Acceptor)
                   /\ poll_array' = AddedToPoll(IF back = Acceptor THEN wd[mi].add_conn
                                                ELSE back)
       ELSE UNCHANGED <<wd, working_threads, acc_polled, poll_array>>
    /\ UNCHANGED <<mfd, sighup, pending, thr, clients, state_mux, netvars>>

----------------------------------------------------------------------------
(* Signals and termination.                                                *)

\* readn on the signal descriptor; which of several pending signals comes
\* first is left open.
ReadSignal ==
    /\ mpc = "signal"
    /\ \E s \in pending :
          /\ pending' = pending \ {s}
          /\ mpc' = CASE s = "SIGHUP" -> "hup_close"
                      [] s = "SIGINT" -> "int_close"
                      [] s = "SIGUSR1" -> "collect"
    /\ UNCHANGED <<mi, mfd, poll_array, acc_polled, working_threads, sighup, wd, thr,
                   clients, state_mux, netvars>>

\* sighup_do, and the like statements for SIGINT and SIGQUIT.  Closing a socket
\* that is closed already is an error.
CloseAcceptor ==
    /\ mpc \in {"hup_close", "int_close"} /\ MuxFree
    /\ IF acceptor_open
       THEN /\ acceptor_open' = FALSE /\ backlog' = 0
            /\ acc_polled' = FALSE
            /\ sighup' = (sighup \/ mpc = "hup_close")
            /\ mpc' = IF mpc = "hup_close" THEN "loop" ELSE "int_stop"
       ELSE mpc' = "died" /\ UNCHANGED <<acceptor_open, backlog, acc_polled, sighup>>
    /\ UNCHANGED <<mi, mfd, poll_array, working_threads, pending, wd, thr, clients,
                   state_mux, sock, alive>>

\* Mutant of ToSignal: the test on do_work is the wrong way round.
ToSignalWorking == {w \in Workers : wd[w].do_work = "DO"}
ToSignal == {w \in Workers : wd[w].do_work # "DO"}

\* stop_all_threads.  A worker reads nothing but its own flag, so the loop is
\* one step; only a worker without work is signalled.
StopAllThreads ==
    /\ mpc \in {"stop", "int_stop"}
    /\ wd' = [w \in Workers |-> [wd[w] EXCEPT !.exit = TRUE]]
    /\ Wake(ToSignal)
    /\ mpc' = IF mpc = "stop" THEN "join" ELSE "int_join"
    /\ UNCHANGED <<mi, mfd, poll_array, acc_polled, working_threads, sighup, pending,
                   clients, state_mux, netvars>>

\* join_all_threads; after SIGINT close_all_client_connections, in which a
\* descriptor that is closed, or listed twice, is an error.
PolledFds == {poll_array[i] : i \in Entries} \ {NoFd}
ClosesPolled ==
    /\ \A c \in PolledFds : sock[c] # "closed"
    /\ Cardinality(PolledFds) = MaxConns - Cardinality(FreeEntries)
JoinAllThreads ==
    /\ mpc \in {"join", "int_join"}
    /\ \A w \in Workers : At(w, "exited")
    /\ mpc' = IF mpc = "join" \/ ClosesPolled THEN "stopped" ELSE "died"
    /\ sock' = [c \in Fds |-> IF mpc = "int_join" /\ c \in PolledFds THEN "closed"
                              ELSE sock[c]]
    /\ UNCHANGED <<mi, mfd, poll_array, acc_polled, working_threads, sighup, pending, wd,
                   thr, clients, state_mux, alive, acceptor_open, backlog>>

MainStep ==
    \/ GetCurrentConnections \/ PollSignal \/ PollAcceptor \/ PollConnection \/ PollInvalid
    \/ AssignWork \/ ThreadHasFinished
    \/ ReadSignal \/ CloseAcceptor \/ StopAllThreads \/ JoinAllThreads

----------------------------------------------------------------------------
(* Worker threads: the loop of worker_routine.                             *)

\* What the loop of a worker does not touch.
outside == <<mainvars, clients, state_mux, netvars>>

WaitForWork(w) ==
    /\ At(w, "wait")
    /\ thr' = [thr EXCEPT ![w] =
                 IF wd[w].exit THEN [@ EXCEPT !.pc = "exited"]
                 ELSE IF wd[w].do_work # "DO" THEN [@ EXCEPT !.pc = "asleep"]
                 ELSE Thread(IF wd[w].in_conn = Acceptor THEN "acc_test" ELSE "read",
                             wd[w].in_conn, NoFd, FALSE)]
    /\ UNCHANGED <<outside, pending, wd>>

\* worker_do returned -1: THREAD_ERRCHECK_ADV reports the worker done and
\* signals, but does not leave, so the ordinary report follows.
FailDone(w) ==
    /\ At(w, "fail_done")
    /\ wd' = [wd EXCEPT ![w].do_work = "DONE"]
    /\ Goto(w, "fail_kill")
    /\ UNCHANGED <<outside, pending>>

FailKill(w) ==
    /\ At(w, "fail_kill")
    /\ pending' = pending \union {"SIGUSR1"}
    /\ Goto(w, "done")
    /\ UNCHANGED <<outside, wd>>

Done(w) ==
    /\ At(w, "done")
    /\ wd' = [wd EXCEPT ![w] = [do_work |-> "DONE", exit |-> @.exit,
                                in_conn |-> thr[w].conn, add_conn |-> thr[w].newconn]]
    /\ Goto(w, "kill")
    /\ UNCHANGED <<outside, pending>>

Kill(w) ==
    /\ At(w, "kill")
    /\ pending' = pending \union {"SIGUSR1"}
    /\ Become(w, WaitingThread)
    /\ UNCHANGED <<outside, wd>>

LoopSteps(w) == WaitForWork(w) \/ FailDone(w) \/ FailKill(w) \/ Done(w) \/ Kill(w)

----------------------------------------------------------------------------
(* worker_do on a connection.  A peer that is gone makes write_msg raise   *)
(* SIGPIPE.                                                                *)

WriteMsg(w, c, state, label) ==
    IF alive[c]
    THEN sock' = [sock EXCEPT ![c] = state] /\ Goto(w, label) /\ UNCHANGED mpc
    ELSE mpc' = "killed" /\ UNCHANGED <<sock, thr>>

\* main's variables but mpc, which a signal may end
mainlocals == <<mi, mfd, poll_array, acc_polled, working_threads, sighup>>

\* read_msg: blocks while there is nothing to read.
Read(w) ==
    LET c == thr[w].conn
    IN  /\ At(w, "read")
        /\ \/ HasMessage(c) /\ sock' = [sock EXCEPT ![c] = AfterRead(@)] /\ Goto(w, "handle")
           \/ (HasEOF(c) \/ sock[c] = "closed") /\ Goto(w, "fail_done") /\ UNCHANGED sock
    /\ UNCHANGED <<mainvars, pending, wd, clients, state_mux, alive, acceptor_open, backlog>>

\* get_client_lastop, which an unknown client fails, and the handler.
Handle(w) ==
    LET c == thr[w].conn
    IN  /\ At(w, "handle") /\ MuxFree
        /\ IF c \notin clients THEN Goto(w, "fail_done")
           ELSE IF sock[c] = "leaving" THEN Goto(w, "cconn_reply")
           ELSE \E failed \in {FALSE} \union (IF "handler_fails" \in Events THEN {TRUE} ELSE {}) :
                   Become(w, Thread("reply", c, NoFd, failed))
    /\ UNCHANGED <<outside, pending, wd>>

\* The answer is written before worker_do returns what the handler did.
Reply(w) ==
    /\ At(w, "reply")
    /\ WriteMsg(w, thr[w].conn, "idle", IF thr[w].failed THEN "fail_done" ELSE "done")
    /\ UNCHANGED <<mainlocals, pending, wd, clients, state_mux, alive, acceptor_open, backlog>>

CConnReply(w) ==
    /\ At(w, "cconn_reply")
    /\ WriteMsg(w, thr[w].conn, "left", "cconn_remove")
    /\ UNCHANGED <<mainlocals, pending, wd, clients, state_mux, alive, acceptor_open, backlog>>

CloseFd(c) ==
    /\ sock' = [sock EXCEPT ![c] = "closed"]
    /\ alive' = [alive EXCEPT ![c] = FALSE]

\* Mutant of Unregister: the table keeps the client.
UnregisterNobody(c) == UNCHANGED clients
Unregister(c) == clients' = clients \ {c}

\* Mutant of ConnClosed: conn is not reset, and the closed descriptor is reported.
ConnStays(w) == Goto(w, "done")
ConnClosed(w) == Become(w, Thread("done", NoFd, NoFd, FALSE))

\* remove_client, and close: only accept looks at which descriptors are free.
CConnRemove(w) ==
    LET c == thr[w].conn
    IN  /\ At(w, "cconn_remove") /\ MuxFree
        /\ IF c \in clients
           THEN Unregister(c) /\ CloseFd(c) /\ ConnClosed(w)
           ELSE Goto(w, "fail_done") /\ UNCHANGED <<clients, sock, alive>>
    /\ UNCHANGED <<mainvars, pending, wd, state_mux, acceptor_open, backlog>>

ServeSteps(w) == Read(w) \/ Handle(w) \/ Reply(w) \/ CConnReply(w) \/ CConnRemove(w)

----------------------------------------------------------------------------
(* worker_do on the listening socket: do_acceptor.                         *)

AccTest(w) ==
    /\ At(w, "acc_test") /\ MuxFree
    /\ Goto(w, IF Cardinality(clients) >= MaxConns THEN "done" ELSE "acc_lock")
    /\ UNCHANGED <<outside, pending, wd>>

AccLock(w) ==
    /\ At(w, "acc_lock") /\ MuxFree
    /\ state_mux' = w
    /\ Goto(w, "acc_accept")
    /\ UNCHANGED <<mainvars, pending, wd, clients, netvars>>

IsLowestFree(c) == sock[c] = "closed" /\ \A f \in Fds : sock[f] = "closed" => c <= f

\* accept waits while nobody is connecting, with state_mux held; on a closed
\* socket it fails and the mutex is never released.
AccAccept(w) ==
    /\ At(w, "acc_accept")
    /\ \/ /\ acceptor_open /\ backlog > 0
          /\ \E c \in Fds :
                /\ IsLowestFree(c)
                /\ sock' = [sock EXCEPT ![c] = "greeting"]
                /\ alive' = [alive EXCEPT ![c] = TRUE]
                /\ Become(w, Thread("acc_hello", thr[w].conn, c, FALSE))
          /\ backlog' = backlog - 1 /\ state_mux' = 0
       \/ /\ ~acceptor_open
          /\ Goto(w, "fail_done")
          /\ UNCHANGED <<backlog, sock, alive, state_mux>>
    /\ UNCHANGED <<mainvars, pending, wd, clients, acceptor_open>>

\* close(*newconn); *newconn = -1
DropNew(w) ==
    /\ CloseFd(thr[w].newconn)
    /\ Become(w, Thread("done", thr[w].conn, NoFd, FALSE))

\* The first message: MESSAGE_OPEN_CONN, another one, or the end of the
\* connection, after which the descriptor stays open and is reported.
AccHello(w) ==
    LET c == thr[w].newconn
    IN  /\ At(w, "acc_hello")
        /\ \/ /\ sock[c] = "hello"
              /\ sock' = [sock EXCEPT ![c] = "greeted"] /\ Goto(w, "acc_add") /\ UNCHANGED alive
           \/ sock[c] = "strange" /\ DropNew(w)
           \/ HasEOF(c) /\ Goto(w, "fail_done") /\ UNCHANGED <<sock, alive>>
    /\ UNCHANGED <<mainvars, pending, wd, clients, state_mux, acceptor_open, backlog>>

\* add_client
AccAdd(w) ==
    /\ At(w, "acc_add") /\ MuxFree
    /\ IF Cardinality(clients) < MaxConns
       THEN /\ clients' = clients \union {thr[w].newconn}
            /\ Goto(w, "acc_reply") /\ UNCHANGED <<sock, alive>>
       ELSE DropNew(w) /\ UNCHANGED clients
    /\ UNCHANGED <<mainvars, pending, wd, state_mux, acceptor_open, backlog>>

AccReply(w) ==
    /\ At(w, "acc_reply")
    /\ WriteMsg(w, thr[w].newconn, "idle", "done")
    /\ UNCHANGED <<mainlocals, pending, wd, clients, state_mux, alive, acceptor_open, backlog>>

AcceptSteps(w) ==
    \/ AccTest(w) \/ AccLock(w) \/ AccAccept(w) \/ AccHello(w) \/ AccAdd(w) \/ AccReply(w)

WorkerStep(w) == LoopSteps(w) \/ ServeSteps(w) \/ AcceptSteps(w)

----------------------------------------------------------------------------
(* Clients, as client_api.c makes them, and the signals sent to the server. *)

clientless == <<mainvars, pending, wd, thr, clients, state_mux, acceptor_open>>

\* A signal has been sent.
Signalled == pending \intersect {"SIGHUP", "SIGINT"} # {} \/ ~acceptor_open
                 \/ mpc \in {"hup_close", "int_close"}
Connecting == {c \in Fds : sock[c] # "closed"}

Connect ==
    /\ acceptor_open
    /\ Signalled => "late_signal" \in Events
    /\ backlog + Cardinality(Connecting) < NumClients
    /\ backlog' = backlog + 1
    /\ UNCHANGED <<clientless, sock, alive>>

Send(c, from, message) ==
    /\ alive[c] /\ sock[c] = from
    /\ sock' = [sock EXCEPT ![c] = message]
    /\ UNCHANGED <<clientless, alive, backlog>>

Hello(c) ==
    \/ Send(c, "greeting", "hello")
    \/ "stranger" \in Events /\ Send(c, "greeting", "strange")
Request(c) == Send(c, "idle", "request")
Bye(c) == Send(c, "idle", "bye")

Die(c) ==
    /\ "client_dies" \in Events
    /\ sock[c] # "closed" /\ alive[c]
    /\ alive' = [alive EXCEPT ![c] = FALSE]
    /\ UNCHANGED <<clientless, sock, backlog>>

SendSignal(s) ==
    /\ s \in Events /\ ~Signalled
    /\ "late_signal" \in Events \/ (backlog = 0 /\ acc_polled)
    /\ pending' = pending \union {s}
    /\ UNCHANGED <<mainvars, wd, thr, clients, state_mux, netvars>>

ClientStep ==
    \/ Connect
    \/ \E c \in Fds : Hello(c) \/ Request(c) \/ Bye(c) \/ Die(c)
    \/ \E s \in {"SIGHUP", "SIGINT"} : SendSignal(s)

----------------------------------------------------------------------------
Terminated == ~Running /\ UNCHANGED vars

Next ==
    \/ Running /\ (MainStep \/ (\E w \in Workers : WorkerStep(w)) \/ ClientStep)
    \/ Terminated

Spec == Init /\ [][Next]_vars

(* The main thread and the workers are scheduled again and again, and a    *)
(* client says hello as soon as it is connected, as openConnection does.   *)
FairSpec ==
    /\ Spec
    /\ WF_vars(Running /\ MainStep)
    /\ \A w \in Workers : WF_vars(Running /\ WorkerStep(w))
    /\ \A c \in Fds : WF_vars(Running /\ Hello(c))
=============================================================================
