--------------------------- MODULE DispatchProofs ---------------------------
(***************************************************************************)
(* For any number of workers, connections and clients, and whatever fails: *)
(* the types of the main loop and the workers are kept, no wake-up is lost *)
(* and no registered descriptor is free.                                   *)
(***************************************************************************)
EXTENDS DispatchProps, FiniteSetTheorems, TLAPS

\* The sets the model counts are finite.
LEMMA FdsFinite ==
  ASSUME NEW S \in SUBSET Fds
  PROVE  IsFiniteSet(S) /\ Cardinality(S) \in Nat
<1>1. IsFiniteSet(Fds)
  BY DispatchAssumption, FS_Interval DEF DispatchAssumption, Fds
<1> QED
  BY <1>1, FS_Subset, FS_CardinalityType

\* A part of a set of descriptors has no more of them.
LEMMA FewerFds ==
  ASSUME NEW S \in SUBSET Fds, NEW T \in SUBSET S
  PROVE  Cardinality(T) <= Cardinality(S)
  BY FdsFinite, FS_Subset

\* A wake-up changes at most the label of a sleeping worker, to "wait".
LEMMA WakeFrame ==
  ASSUME thr \in [Workers -> ThreadType], NEW W, Wake(W)
  PROVE  /\ thr' \in [Workers -> ThreadType]
         /\ \A w \in Workers :
              /\ thr'[w].newconn = thr[w].newconn
              /\ thr'[w].pc = thr[w].pc \/ (thr[w].pc = "asleep" /\ thr'[w].pc = "wait")
              /\ w \in W => thr'[w].pc # "asleep"
<1>1. ASSUME NEW w \in Workers
      PROVE  /\ thr'[w] = IF w \in W /\ thr[w].pc = "asleep" THEN [thr[w] EXCEPT !.pc = "wait"]
                          ELSE thr[w]
             /\ thr[w] \in ThreadType
  BY DEF Wake, At
<1>2. ASSUME NEW w \in Workers
      PROVE  /\ thr'[w] \in ThreadType
             /\ thr'[w].newconn = thr[w].newconn
             /\ thr'[w].pc = thr[w].pc \/ (thr[w].pc = "asleep" /\ thr'[w].pc = "wait")
             /\ w \in W => thr'[w].pc # "asleep"
  BY <1>1 DEF ThreadType, LoopPcs
<1>3. thr' = [w \in Workers |-> thr'[w]]
  BY DEF Wake
<1> QED
  BY <1>2, <1>3

\* Init establishes the invariant.
LEMMA DispatchInitInv == Init => DispatchInv
<1> SUFFICES ASSUME Init
             PROVE  DispatchInv
  OBVIOUS
<1>1. Cardinality(clients) <= MaxConns
  BY DispatchAssumption, FS_EmptySet DEF DispatchAssumption, Init
<1>2. wd \in [Workers -> WorkerData] /\ thr \in [Workers -> ThreadType]
  BY DEF Init, WaitingThread, Thread, WorkerData, DoWork, ThreadType, LoopPcs
<1>3. /\ mpc \in MainPcs /\ mi \in Workers /\ mfd \in Fds \union {Acceptor, NoFd}
      /\ poll_array \in [Entries -> Fds \union {NoFd}]
      /\ working_threads \in Int /\ backlog \in 0 .. NumClients
  BY DispatchAssumption DEF DispatchAssumption, Init, MainPcs, Workers
<1>4. sock \in [Fds -> SockStates] /\ alive \in [Fds -> BOOLEAN]
  BY DEF Init, SockStates
<1>5. DispatchTypeOK
  BY <1>1, <1>2, <1>3, <1>4 DEF DispatchTypeOK, Init
<1> QED
  BY <1>5 DEF Init, WaitingThread, Thread, DispatchInv, NoLostWakeup, At, RegisteredStayOpen, NewcomersApart, Greeting

----------------------------------------------------------------------------
(* Types.                                                                  *)

\* The steps of the main loop keep the types.
LEMMA MainType ==
  ASSUME DispatchTypeOK, MainStep
  PROVE  DispatchTypeOK'
<1> USE DEF DispatchTypeOK, MainPcs
<1>0. 1 \in Workers
  BY DispatchAssumption DEF DispatchAssumption, Workers
<1>1. CASE GetCurrentConnections \/ PollSignal \/ PollInvalid
  BY <1>1 DEF GetCurrentConnections, PollSignal, PollInvalid, netvars
<1>2. CASE PollAcceptor
  BY <1>0, <1>2 DEF PollAcceptor, StartAssign, netvars
<1>3. CASE PollConnection
  BY <1>0, <1>3 DEF PollConnection, StartAssign, TakeEntry, ReadyEntries, netvars
<1>4. CASE AssignWork
  <2>1. CASE CanAssign(mi)
    <3>1. thr' \in [Workers -> ThreadType]
      BY <1>4, <2>1, WakeFrame DEF AssignWork
    <3>2. wd' \in [Workers -> WorkerData]
      BY <1>4, <2>1 DEF AssignWork, WorkerData, DoWork
    <3> QED
      BY <1>0, <1>4, <2>1, <3>1, <3>2 DEF AssignWork, netvars
  <2>2. CASE ~CanAssign(mi)
    BY DispatchAssumption, <1>4, <2>2 DEF DispatchAssumption, Workers, AssignWork, netvars
  <2> QED
    BY <2>1, <2>2
<1>5. CASE ThreadHasFinished
  <2>1. mi' \in Workers /\ mpc' \in MainPcs
    BY DispatchAssumption, <1>5 DEF DispatchAssumption, Workers, ThreadHasFinished, CollectNext
  <2>2. wd' \in [Workers -> WorkerData]
    BY <1>5 DEF ThreadHasFinished, WorkerData, DoWork
  <2>3. poll_array' \in [Entries -> Fds \union {NoFd}]
    BY <1>5 DEF ThreadHasFinished, AddedToPoll, WorkerData
  <2>4. acc_polled' \in BOOLEAN
    BY <1>5, Zenon DEF ThreadHasFinished
  <2>5. working_threads' \in Int
    BY <1>5 DEF ThreadHasFinished
  <2> QED
    BY <1>5, <2>1, <2>2, <2>3, <2>4, <2>5 DEF ThreadHasFinished, netvars
<1>6. CASE ReadSignal
  BY <1>6 DEF ReadSignal, netvars
<1>7. CASE CloseAcceptor
  <2>1. acc_polled' \in BOOLEAN /\ sighup' \in BOOLEAN
    BY <1>7, Zenon DEF CloseAcceptor
  <2>2. mpc' \in MainPcs /\ acceptor_open' \in BOOLEAN
    BY <1>7 DEF CloseAcceptor
  <2>3. backlog' \in 0 .. NumClients
    BY DispatchAssumption, <1>7 DEF DispatchAssumption, CloseAcceptor
  <2> QED
    BY <1>7, <2>1, <2>2, <2>3 DEF CloseAcceptor
<1>8. CASE StopAllThreads
  <2>1. thr' \in [Workers -> ThreadType]
    BY <1>8, WakeFrame DEF StopAllThreads
  <2>2. wd' \in [Workers -> WorkerData]
    <3>1. ASSUME NEW w \in Workers
          PROVE  [wd[w] EXCEPT !.exit = TRUE] \in WorkerData
      BY DEF WorkerData
    <3> QED
      BY <1>8, <3>1 DEF StopAllThreads
  <2> QED
    BY <1>8, <2>1, <2>2 DEF StopAllThreads, netvars
<1>9. CASE JoinAllThreads
  BY <1>9 DEF JoinAllThreads, SockStates
<1> QED
  BY <1>1, <1>2, <1>3, <1>4, <1>5, <1>6, <1>7, <1>8, <1>9 DEF MainStep

Labels == LoopPcs \union AcceptPcs \union ServePcs \union ReportPcs

\* Moving to another label keeps the types and the other workers' locals.
LEMMA GotoFrame ==
  ASSUME thr \in [Workers -> ThreadType], NEW w \in Workers, NEW l \in Labels, Goto(w, l)
  PROVE  /\ thr' \in [Workers -> ThreadType]
         /\ thr'[w] = [thr[w] EXCEPT !.pc = l]
         /\ \A v \in Workers \ {w} : thr'[v] = thr[v]
<1>1. [thr[w] EXCEPT !.pc = l] \in ThreadType
  BY DEF ThreadType, Labels
<1> QED
  BY <1>1 DEF Goto

\* So does setting its locals.
LEMMA BecomeFrame ==
  ASSUME thr \in [Workers -> ThreadType], NEW w \in Workers, NEW l \in Labels,
         NEW c \in Fds \union {Acceptor, NoFd}, NEW n \in Fds \union {NoFd},
         NEW f \in BOOLEAN, Become(w, Thread(l, c, n, f))
  PROVE  /\ thr' \in [Workers -> ThreadType]
         /\ thr'[w] = Thread(l, c, n, f)
         /\ \A v \in Workers \ {w} : thr'[v] = thr[v]
<1>1. Thread(l, c, n, f) \in ThreadType
  BY DEF Thread, ThreadType, Labels
<1> QED
  BY <1>1 DEF Become

\* A worker's locals are typed.
LEMMA LocalsType ==
  ASSUME thr \in [Workers -> ThreadType], NEW w \in Workers
  PROVE  thr[w].conn \in Fds \union {Acceptor, NoFd} /\ thr[w].newconn \in Fds \union {NoFd}
  BY DEF ThreadType

\* The labels the steps below move to.
LEMMA LabelsKnown ==
  {"wait", "asleep", "kill", "exited", "acc_test", "acc_lock", "acc_accept", "acc_hello",
   "acc_add", "acc_reply", "read", "handle", "reply", "cconn_reply", "cconn_remove",
   "fail_done", "fail_kill", "done"} = Labels
  BY DEF Labels, LoopPcs, AcceptPcs, ServePcs, ReportPcs

\* The steps of the loop of a worker keep the types.
LEMMA LoopType ==
  ASSUME DispatchTypeOK, NEW w \in Workers, LoopSteps(w)
  PROVE  DispatchTypeOK'
<1> USE DEF DispatchTypeOK
<1>1. CASE WaitForWork(w)
  <2>1. wd[w].in_conn \in Fds \union {Acceptor, NoFd}
    BY DEF WorkerData
  <2>2. [thr[w] EXCEPT !.pc = "exited"] \in ThreadType /\ [thr[w] EXCEPT !.pc = "asleep"] \in ThreadType
    BY LabelsKnown DEF ThreadType, Labels
  <2>3. ASSUME NEW l \in {"acc_test", "read"}
        PROVE  Thread(l, wd[w].in_conn, NoFd, FALSE) \in ThreadType
    BY <2>1, LabelsKnown DEF Thread, ThreadType, Labels
  <2>4. thr' \in [Workers -> ThreadType]
    BY <1>1, <2>2, <2>3 DEF WaitForWork
  <2> QED
    BY <1>1, <2>4 DEF WaitForWork, outside, mainvars, netvars
<1>2. CASE FailDone(w)
  <2>1. [wd[w] EXCEPT !.do_work = "DONE"] \in WorkerData
    BY DEF WorkerData, DoWork
  <2>2. thr' \in [Workers -> ThreadType]
    BY <1>2, GotoFrame, LabelsKnown DEF FailDone
  <2> QED
    BY <1>2, <2>1, <2>2 DEF FailDone, outside, mainvars, netvars
<1>3. CASE FailKill(w)
  <2>1. thr' \in [Workers -> ThreadType]
    BY <1>3, GotoFrame, LabelsKnown DEF FailKill
  <2> QED
    BY <1>3, <2>1 DEF FailKill, outside, mainvars, netvars
<1>4. CASE Done(w)
  <2>1. /\ wd[w].exit \in BOOLEAN /\ thr[w].newconn \in Fds \union {NoFd}
        /\ thr[w].conn \in Fds \union {Acceptor, NoFd}
    BY DEF WorkerData, ThreadType
  <2>2. wd' \in [Workers -> WorkerData]
    BY <1>4, <2>1 DEF Done, WorkerData, DoWork
  <2>3. thr' \in [Workers -> ThreadType]
    BY <1>4, GotoFrame, LabelsKnown DEF Done
  <2> QED
    BY <1>4, <2>2, <2>3 DEF Done, outside, mainvars, netvars
<1>5. CASE Kill(w)
  <2>1. thr' \in [Workers -> ThreadType]
    BY <1>5, BecomeFrame, LabelsKnown DEF Kill, WaitingThread
  <2> QED
    BY <1>5, <2>1 DEF Kill, outside, mainvars, netvars
<1> QED
  BY <1>1, <1>2, <1>3, <1>4, <1>5 DEF LoopSteps

\* write_msg moves the worker on, or ends the process.
LEMMA WriteMsgType ==
  ASSUME DispatchTypeOK, NEW w \in Workers, NEW c, NEW state \in SockStates,
         NEW l \in Labels, WriteMsg(w, c, state, l)
  PROVE  /\ sock' \in [Fds -> SockStates]
         /\ thr' \in [Workers -> ThreadType]
         /\ mpc' \in MainPcs
  BY GotoFrame DEF DispatchTypeOK, WriteMsg, MainPcs

\* What is read is answered.
LEMMA AfterReadType == \A s \in Unread : AfterRead(s) \in SockStates
  BY DEF Unread, AfterRead, SockStates

\* The steps on a connection keep the types.
LEMMA ServeType ==
  ASSUME DispatchTypeOK, NEW w \in Workers, ServeSteps(w)
  PROVE  DispatchTypeOK'
<1> USE DEF DispatchTypeOK
<1>1. CASE Read(w)
  <2>1. thr' \in [Workers -> ThreadType]
    BY <1>1, GotoFrame, LabelsKnown DEF Read
  <2>2. sock' \in [Fds -> SockStates]
    BY <1>1, AfterReadType DEF Read, HasMessage
  <2> QED
    BY <1>1, <2>1, <2>2 DEF Read, mainvars
<1>2. CASE Handle(w)
  <2>1. thr' \in [Workers -> ThreadType]
    BY <1>2, BecomeFrame, GotoFrame, LocalsType, LabelsKnown DEF Handle
  <2> QED
    BY <1>2, <2>1 DEF Handle, outside, mainvars, netvars
<1>3. CASE Reply(w)
  BY <1>3, WriteMsgType, LabelsKnown DEF Reply, SockStates, mainlocals
<1>4. CASE CConnReply(w)
  BY <1>4, WriteMsgType, LabelsKnown DEF CConnReply, SockStates, mainlocals
<1>5. CASE CConnRemove(w)
  <2>1. thr' \in [Workers -> ThreadType]
    BY <1>5, BecomeFrame, GotoFrame, LabelsKnown DEF CConnRemove, ConnClosed
  <2>2. sock' \in [Fds -> SockStates] /\ alive' \in [Fds -> BOOLEAN]
    BY <1>5 DEF CConnRemove, CloseFd, SockStates
  <2>3. clients' \subseteq Fds /\ Cardinality(clients') <= MaxConns
    <3>1. clients' = clients \/ clients' = clients \ {thr[w].conn}
      BY <1>5, Zenon DEF CConnRemove, Unregister
    <3>2. Cardinality(clients \ {thr[w].conn}) <= Cardinality(clients)
      BY FewerFds
    <3>3. Cardinality(clients \ {thr[w].conn}) \in Nat /\ Cardinality(clients) \in Nat
      BY FdsFinite
    <3>4. MaxConns \in Nat /\ Cardinality(clients) <= MaxConns /\ clients \subseteq Fds
      BY DispatchAssumption DEF DispatchAssumption
    <3>5. Cardinality(clients \ {thr[w].conn}) <= MaxConns
      BY ONLY <3>2, <3>3, <3>4
    <3>6. CASE clients' = clients
      BY <3>4, <3>6
    <3>7. CASE clients' = clients \ {thr[w].conn}
      BY <3>4, <3>5, <3>7
    <3> QED
      BY <3>1, <3>6, <3>7
  <2> QED
    BY <1>5, <2>1, <2>2, <2>3 DEF CConnRemove, mainvars
<1> QED
  BY <1>1, <1>2, <1>3, <1>4, <1>5 DEF ServeSteps

\* The steps on the listening socket keep the types.
LEMMA AcceptType ==
  ASSUME DispatchTypeOK, NewcomersApart, NEW w \in Workers, AcceptSteps(w)
  PROVE  DispatchTypeOK'
<1> USE DEF DispatchTypeOK
<1>1. CASE AccTest(w) \/ AccLock(w)
  <2>1. thr' \in [Workers -> ThreadType]
    BY <1>1, GotoFrame, LabelsKnown DEF AccTest, AccLock
  <2> QED
    BY <1>1, <2>1 DEF AccTest, AccLock, outside, mainvars, netvars
<1>2. CASE AccAccept(w)
  <2>1. thr' \in [Workers -> ThreadType]
    BY <1>2, BecomeFrame, GotoFrame, LocalsType, LabelsKnown DEF AccAccept
  <2>2. sock' \in [Fds -> SockStates] /\ state_mux' \in Workers \union {0}
    BY <1>2 DEF AccAccept, SockStates
  <2>3. alive' \in [Fds -> BOOLEAN]
    BY <1>2 DEF AccAccept
  <2>4. backlog' \in 0 .. NumClients
    <3>1. backlog' = backlog \/ (backlog > 0 /\ backlog' = backlog - 1)
      BY <1>2, Zenon DEF AccAccept
    <3> QED
      BY <3>1, DispatchAssumption DEF DispatchAssumption
  <2> QED
    BY <1>2, <2>1, <2>2, <2>3, <2>4 DEF AccAccept, mainvars
<1>3. DropNew(w) => /\ thr' \in [Workers -> ThreadType]
                    /\ sock' \in [Fds -> SockStates] /\ alive' \in [Fds -> BOOLEAN]
  BY BecomeFrame, LocalsType, LabelsKnown DEF DropNew, CloseFd, SockStates
<1>4. CASE AccHello(w)
  <2>1. thr' \in [Workers -> ThreadType]
    BY <1>3, <1>4, GotoFrame, LabelsKnown DEF AccHello
  <2>2. sock' \in [Fds -> SockStates] /\ alive' \in [Fds -> BOOLEAN]
    BY <1>3, <1>4 DEF AccHello, SockStates
  <2> QED
    BY <1>4, <2>1, <2>2 DEF AccHello, mainvars
<1>5. CASE AccAdd(w)
  <2>1. thr' \in [Workers -> ThreadType]
    BY <1>3, <1>5, GotoFrame, LabelsKnown DEF AccAdd
  <2>2. sock' \in [Fds -> SockStates] /\ alive' \in [Fds -> BOOLEAN]
    BY <1>3, <1>5 DEF AccAdd
  <2>3. clients' \subseteq Fds /\ Cardinality(clients') <= MaxConns
    <3>1. thr[w].newconn \in Fds
      BY <1>5 DEF AccAdd, At, NewcomersApart, Greeting
    <3>2. Cardinality(clients \union {thr[w].newconn}) \in Int
      BY <3>1, FdsFinite
    <3>3. CASE clients' = clients
      BY <3>3
    <3>4. CASE Cardinality(clients) < MaxConns /\ clients' = clients \union {thr[w].newconn}
      <4>1. Cardinality(clients') <= Cardinality(clients) + 1
        BY <3>4, FdsFinite, FS_AddElement
      <4> QED
        BY <4>1, <3>1, <3>2, <3>4, FdsFinite, DispatchAssumption DEF DispatchAssumption
    <3> QED
      BY <1>5, <3>3, <3>4 DEF AccAdd
  <2> QED
    BY <1>5, <2>1, <2>2, <2>3 DEF AccAdd, mainvars
<1>6. CASE AccReply(w)
  BY <1>6, WriteMsgType, LabelsKnown DEF AccReply, SockStates, mainlocals
<1> QED
  BY <1>1, <1>2, <1>4, <1>5, <1>6 DEF AcceptSteps

\* The steps of the clients keep the types.
LEMMA ClientType ==
  ASSUME DispatchTypeOK, ClientStep
  PROVE  DispatchTypeOK'
<1> USE DEF DispatchTypeOK
<1>1. CASE Connect
  <2>1. backlog' \in 0 .. NumClients
    <3>1. Cardinality(Connecting) \in Nat
      BY FdsFinite DEF Connecting
    <3> QED
      BY <1>1, <3>1, DispatchAssumption DEF DispatchAssumption, Connect
  <2> QED
    BY <1>1, <2>1 DEF Connect, clientless, mainvars
<1>2. ASSUME NEW c \in Fds, Hello(c) \/ Request(c) \/ Bye(c)
      PROVE  DispatchTypeOK'
  <2>1. sock' \in [Fds -> SockStates]
    BY <1>2 DEF Hello, Request, Bye, Send, SockStates, Unread
  <2> QED
    BY <1>2, <2>1 DEF Hello, Request, Bye, Send, clientless, mainvars
<1>3. ASSUME NEW c \in Fds, Die(c)
      PROVE  DispatchTypeOK'
  BY <1>3 DEF Die, clientless, mainvars
<1>4. ASSUME NEW s \in {"SIGHUP", "SIGINT"}, SendSignal(s)
      PROVE  DispatchTypeOK'
  BY <1>4 DEF SendSignal, mainvars, netvars
<1> QED
  BY <1>1, <1>2, <1>3, <1>4 DEF ClientStep

----------------------------------------------------------------------------
(* Wake-ups.                                                               *)

\* The main thread signals whomever it gives work or the order to exit.
LEMMA MainWakes ==
  ASSUME DispatchTypeOK, NoLostWakeup, MainStep
  PROVE  NoLostWakeup'
<1> USE DEF NoLostWakeup, At
<1>1. CASE AssignWork
  <2>1. CASE CanAssign(mi)
    <3>1. ASSUME NEW v \in Workers, thr'[v].pc = "asleep"
          PROVE  v # mi /\ thr[v].pc = "asleep"
      BY <1>1, <2>1, <3>1, WakeFrame DEF DispatchTypeOK, AssignWork
    <3> QED
      BY <1>1, <2>1, <3>1 DEF DispatchTypeOK, AssignWork
  <2>2. CASE ~CanAssign(mi)
    BY <1>1, <2>2 DEF AssignWork
  <2> QED
    BY <2>1, <2>2
<1>2. CASE ThreadHasFinished
  <2>1. ASSUME NEW v \in Workers
        PROVE  wd'[v].exit = wd[v].exit /\ (wd'[v].do_work = "DO" => wd[v].do_work = "DO")
    BY <1>2 DEF ThreadHasFinished, DispatchTypeOK, WorkerData
  <2> QED
    BY <1>2, <2>1 DEF ThreadHasFinished
<1>3. CASE StopAllThreads
  <2>1. ASSUME NEW v \in Workers
        PROVE  thr'[v].pc # "asleep"
    BY <1>3, WakeFrame DEF StopAllThreads, ToSignal, DispatchTypeOK
  <2> QED
    BY <2>1
<1>4. CASE UNCHANGED <<wd, thr>>
  BY <1>4
<1> QED
  BY <1>1, <1>2, <1>3, <1>4 DEF MainStep, GetCurrentConnections, PollSignal, PollAcceptor,
       PollConnection, PollInvalid, ReadSignal, CloseAcceptor, JoinAllThreads

\* A worker goes to sleep only when it has nothing to do, and changes what it
\* has to do only while it is awake.
LEMMA WorkerWakes ==
  ASSUME DispatchTypeOK, NoLostWakeup, NEW w \in Workers, WorkerStep(w)
  PROVE  NoLostWakeup'
<1> USE DEF NoLostWakeup, At, DispatchTypeOK
<1>1. CASE WaitForWork(w)
  BY <1>1 DEF WaitForWork, Thread
<1>2. CASE FailDone(w) \/ FailKill(w) \/ Done(w) \/ Kill(w)
  <2>1. ASSUME NEW v \in Workers, v # w
        PROVE  thr'[v] = thr[v] /\ wd'[v] = wd[v]
    BY <1>2, <2>1 DEF FailDone, FailKill, Done, Kill, Goto, Become
  <2>2. thr'[w].pc # "asleep"
    BY <1>2 DEF FailDone, FailKill, Done, Kill, Goto, Become, WaitingThread, Thread, ThreadType
  <2> QED
    BY <2>1, <2>2
<1>3. CASE ServeSteps(w) \/ AcceptSteps(w)
  <2>1. thr' = thr \/ (\E l \in Labels \ {"asleep"} : Goto(w, l))
          \/ (\E l \in Labels \ {"asleep"} : \E c, n, f : Become(w, Thread(l, c, n, f)))
    BY <1>3, LabelsKnown DEF ServeSteps, AcceptSteps, Read, Handle, Reply, CConnReply, CConnRemove,
         ConnClosed, WriteMsg, AccTest, AccLock, AccAccept, AccHello, AccAdd, AccReply, DropNew
  <2>2. thr' = thr \/ (thr'[w].pc # "asleep" /\ \A v \in Workers \ {w} : thr'[v] = thr[v])
    BY <2>1 DEF Goto, Become, Thread, ThreadType
  <2>3. UNCHANGED wd
    BY <1>3 DEF ServeSteps, AcceptSteps, Read, Handle, Reply, CConnReply, CConnRemove,
         AccTest, AccLock, AccAccept, AccHello, AccAdd, AccReply
  <2> QED
    BY <2>2, <2>3
<1> QED
  BY <1>1, <1>2, <1>3 DEF WorkerStep, LoopSteps

----------------------------------------------------------------------------
(* Descriptors.                                                            *)

\* A step that starts no greeting, registers nobody, and closes only what it
\* has removed from the table.
Quiet ==
    /\ \A v \in Workers : thr'[v].pc \in {"acc_hello", "acc_add"} =>
          thr[v].pc \in {"acc_hello", "acc_add"} /\ thr'[v].newconn = thr[v].newconn
    /\ clients' \subseteq clients
    /\ \A f \in Fds : sock'[f] = "closed" => sock[f] = "closed" \/ f \in clients \ clients'

\* Such a step keeps newcomers apart and registered descriptors open.
LEMMA QuietApart ==
  ASSUME DispatchTypeOK, Running, RegisteredStayOpen, NewcomersApart, Quiet
  PROVE  RegisteredStayOpen' /\ NewcomersApart'
  BY DEF DispatchTypeOK, RegisteredStayOpen, NewcomersApart, Greeting, Quiet

\* The steps of the main loop are quiet, but the last, before which all the
\* workers have exited.
LEMMA MainApart ==
  ASSUME DispatchTypeOK, Running, RegisteredStayOpen, NewcomersApart, MainStep
  PROVE  RegisteredStayOpen' /\ NewcomersApart'
<1>1. CASE JoinAllThreads
  BY <1>1 DEF JoinAllThreads, At, Running, RegisteredStayOpen, NewcomersApart, Greeting
<1>2. CASE AssignWork \/ StopAllThreads
  <2>1. thr' = thr \/ (\E W : Wake(W))
    BY <1>2 DEF AssignWork, StopAllThreads
  <2>2. UNCHANGED <<clients, sock>>
    BY <1>2 DEF AssignWork, StopAllThreads, netvars
  <2>3. Quiet
    BY <2>1, <2>2, WakeFrame DEF DispatchTypeOK, Quiet
  <2> QED
    BY <2>3, QuietApart
<1>3. CASE UNCHANGED <<thr, clients, sock>>
  BY <1>3, QuietApart DEF Quiet
<1> QED
  BY <1>1, <1>2, <1>3 DEF MainStep, GetCurrentConnections, PollSignal, PollAcceptor,
       PollConnection, PollInvalid, ThreadHasFinished, ReadSignal, CloseAcceptor, netvars

\* Moving to a label outside the greeting, whatever the locals become, starts none.
LEMMA WorkerMoves ==
  ASSUME thr \in [Workers -> ThreadType], NEW w \in Workers,
         NEW l \in Labels \ {"acc_hello", "acc_add"}, NEW c, NEW n, NEW f,
         Goto(w, l) \/ Become(w, Thread(l, c, n, f))
  PROVE  \A v \in Workers : thr'[v].pc \in {"acc_hello", "acc_add"} =>
            thr[v].pc \in {"acc_hello", "acc_add"} /\ thr'[v].newconn = thr[v].newconn
  BY DEF Goto, Become, Thread, ThreadType

\* write_msg closes nothing.
LEMMA WriteMsgQuiet ==
  ASSUME DispatchTypeOK, NEW w \in Workers, NEW c, NEW state \in {"idle", "left"},
         NEW l \in Labels \ {"acc_hello", "acc_add"}, WriteMsg(w, c, state, l),
         clients' = clients
  PROVE  Quiet
  BY WorkerMoves DEF DispatchTypeOK, WriteMsg, Quiet

\* The steps of the loop of a worker are quiet.
LEMMA LoopApart ==
  ASSUME DispatchTypeOK, Running, RegisteredStayOpen, NewcomersApart,
         NEW w \in Workers, LoopSteps(w)
  PROVE  RegisteredStayOpen' /\ NewcomersApart'
<1>1. UNCHANGED <<clients, sock>>
  BY DEF LoopSteps, WaitForWork, FailDone, FailKill, Done, Kill, outside, netvars
<1>2. \/ \E l \in Labels \ {"acc_hello", "acc_add"} : Goto(w, l)
      \/ \E l \in Labels \ {"acc_hello", "acc_add"} : \E c, n, f : Become(w, Thread(l, c, n, f))
  BY LabelsKnown DEF LoopSteps, WaitForWork, FailDone, FailKill, Done, Kill, Goto, Become, WaitingThread
<1>3. Quiet
  BY <1>1, <1>2, WorkerMoves DEF DispatchTypeOK, Quiet
<1> QED
  BY <1>3, QuietApart

\* So are the steps on a connection: what remove_client removes is closed.
LEMMA ServeApart ==
  ASSUME DispatchTypeOK, Running, RegisteredStayOpen, NewcomersApart,
         NEW w \in Workers, ServeSteps(w)
  PROVE  RegisteredStayOpen' /\ NewcomersApart'
<1> USE DEF DispatchTypeOK
<1>1. CASE Read(w)
  <2>1. \A s \in Unread : AfterRead(s) # "closed"
    BY DEF Unread, AfterRead
  <2>2. \A f \in Fds : sock'[f] = "closed" => sock[f] = "closed"
    BY <1>1, <2>1 DEF Read, HasMessage
  <2>3. Quiet
    BY <1>1, <2>2, WorkerMoves, LabelsKnown DEF Read, Quiet
  <2> QED
    BY <2>3, QuietApart
<1>2. CASE Handle(w)
  <2>1. Quiet
    BY <1>2, WorkerMoves, LabelsKnown DEF Handle, Quiet, outside, netvars
  <2> QED
    BY <2>1, QuietApart
<1>3. CASE Reply(w) \/ CConnReply(w)
  <2>1. Quiet
    BY <1>3, WriteMsgQuiet, LabelsKnown DEF Reply, CConnReply
  <2> QED
    BY <2>1, QuietApart
<1>4. CASE CConnRemove(w)
  <2>1. CASE thr[w].conn \in clients
    <3>1. Quiet
      BY <1>4, <2>1, WorkerMoves, LabelsKnown DEF CConnRemove, Unregister, CloseFd, ConnClosed, Quiet
    <3> QED
      BY <3>1, QuietApart
  <2>2. CASE thr[w].conn \notin clients
    <3>1. Quiet
      BY <1>4, <2>2, WorkerMoves, LabelsKnown DEF CConnRemove, Quiet
    <3> QED
      BY <3>1, QuietApart
  <2> QED
    BY <2>1, <2>2
<1> QED
  BY <1>1, <1>2, <1>3, <1>4 DEF ServeSteps

\* accept returns a descriptor that is free, so not registered and not another
\* newcomer's; from then on it is registered, dropped or answered.
LEMMA AcceptApart ==
  ASSUME DispatchTypeOK, Running, RegisteredStayOpen, NewcomersApart,
         NEW w \in Workers, AcceptSteps(w)
  PROVE  RegisteredStayOpen' /\ NewcomersApart'
<1> USE DEF DispatchTypeOK
<1>1. CASE AccTest(w) \/ AccLock(w)
  <2>1. Quiet
    BY <1>1, WorkerMoves, LabelsKnown DEF AccTest, AccLock, Quiet, outside, netvars
  <2> QED
    BY <2>1, QuietApart
<1>2. CASE AccAccept(w)
  <2>1. CASE acceptor_open
    <3>1. PICK c \in Fds :
             /\ sock[c] = "closed"
             /\ sock' = [sock EXCEPT ![c] = "greeting"]
             /\ Become(w, Thread("acc_hello", thr[w].conn, c, FALSE))
      BY <1>2, <2>1 DEF AccAccept, IsLowestFree
    <3>2. clients' = clients /\ c \notin clients
      BY <1>2, <3>1 DEF AccAccept, RegisteredStayOpen
    <3>3. /\ thr'[w].pc = "acc_hello" /\ thr'[w].newconn = c
          /\ \A v \in Workers \ {w} : thr'[v] = thr[v]
      BY <3>1 DEF Become, Thread
    <3>4. \A v \in Workers \ {w} : Greeting(v) => thr[v].newconn # c
      BY <3>1 DEF NewcomersApart
    <3> QED
      BY <3>1, <3>2, <3>3, <3>4 DEF RegisteredStayOpen, NewcomersApart, Greeting
  <2>2. CASE ~acceptor_open
    <3>1. Quiet
      BY <1>2, <2>2, WorkerMoves, LabelsKnown DEF AccAccept, Quiet
    <3> QED
      BY <3>1, QuietApart
  <2> QED
    BY <2>1, <2>2
<1>3. ASSUME At(w, "acc_hello") \/ At(w, "acc_add"), DropNew(w), clients' = clients
      PROVE  RegisteredStayOpen' /\ NewcomersApart'
  <2>1. thr[w].newconn \in Fds \ clients
    BY <1>3 DEF At, NewcomersApart, Greeting
  <2>2. /\ thr'[w].pc = "done"
        /\ \A v \in Workers \ {w} : thr'[v] = thr[v]
        /\ sock' = [sock EXCEPT ![thr[w].newconn] = "closed"]
    BY <1>3 DEF DropNew, CloseFd, Become, Thread
  <2>3. \A v \in Workers \ {w} : Greeting(v) => thr[v].newconn # thr[w].newconn
    BY <1>3 DEF At, NewcomersApart, Greeting
  <2> QED
    BY <1>3, <2>1, <2>2, <2>3 DEF RegisteredStayOpen, NewcomersApart, Greeting
<1>4. CASE AccHello(w)
  <2>1. CASE DropNew(w)
    BY <1>3, <1>4, <2>1 DEF AccHello
  <2>2. CASE Goto(w, "acc_add") /\ sock' = [sock EXCEPT ![thr[w].newconn] = "greeted"]
    <3>1. Quiet
      BY <1>4, <2>2 DEF AccHello, Quiet, Goto, At, ThreadType
    <3> QED
      BY <3>1, QuietApart
  <2>3. CASE Goto(w, "fail_done") /\ sock' = sock
    <3>1. Quiet
      BY <1>4, <2>3, WorkerMoves, LabelsKnown DEF AccHello, Quiet
    <3> QED
      BY <3>1, QuietApart
  <2> QED
    BY <1>4, <2>1, <2>2, <2>3 DEF AccHello
<1>5. CASE AccAdd(w)
  <2>1. CASE Cardinality(clients) < MaxConns
    <3>1. /\ clients' = clients \union {thr[w].newconn} /\ sock' = sock
          /\ thr'[w].pc = "acc_reply"
          /\ \A v \in Workers \ {w} : thr'[v] = thr[v]
      BY <1>5, <2>1 DEF AccAdd, Goto, ThreadType
    <3>2. /\ sock[thr[w].newconn] # "closed"
          /\ \A v \in Workers \ {w} : Greeting(v) => thr[v].newconn # thr[w].newconn
      BY <1>5 DEF AccAdd, At, NewcomersApart, Greeting
    <3> QED
      BY <3>1, <3>2 DEF RegisteredStayOpen, NewcomersApart, Greeting
  <2>2. CASE ~(Cardinality(clients) < MaxConns)
    BY <1>3, <1>5, <2>2 DEF AccAdd
  <2> QED
    BY <2>1, <2>2
<1>6. CASE AccReply(w)
  <2>1. Quiet
    BY <1>6, WriteMsgQuiet, LabelsKnown DEF AccReply
  <2> QED
    BY <2>1, QuietApart
<1> QED
  BY <1>1, <1>2, <1>4, <1>5, <1>6 DEF AcceptSteps

\* The steps of the clients are quiet: only the server closes a descriptor.
LEMMA ClientApart ==
  ASSUME DispatchTypeOK, Running, RegisteredStayOpen, NewcomersApart, ClientStep
  PROVE  RegisteredStayOpen' /\ NewcomersApart' /\ UNCHANGED <<wd, thr>>
<1>1. UNCHANGED <<wd, thr, clients>>
  BY DEF ClientStep, Connect, Hello, Request, Bye, Send, Die, SendSignal, clientless
<1>2. \A f \in Fds : sock'[f] = "closed" => sock[f] = "closed"
  BY DEF ClientStep, Connect, Hello, Request, Bye, Send, Die, SendSignal, netvars, DispatchTypeOK
<1>3. Quiet
  BY <1>1, <1>2 DEF Quiet
<1> QED
  BY <1>1, <1>3, QuietApart

----------------------------------------------------------------------------
(* The invariant and what follows from it.                                 *)

\* Every step preserves the invariant.
LEMMA DispatchNextInv == DispatchInv /\ [Next]_vars => DispatchInv'
<1> SUFFICES ASSUME DispatchInv, [Next]_vars
             PROVE  DispatchInv'
  OBVIOUS
<1> USE DEF DispatchInv
<1>1. CASE Running /\ MainStep
  BY <1>1, MainType, MainWakes, MainApart
<1>2. ASSUME Running, NEW w \in Workers, WorkerStep(w)
      PROVE  DispatchInv'
  <2>1. DispatchTypeOK'
    BY <1>2, LoopType, ServeType, AcceptType DEF WorkerStep
  <2>2. NoLostWakeup'
    BY <1>2, WorkerWakes
  <2>3. RegisteredStayOpen' /\ NewcomersApart'
    BY <1>2, LoopApart, ServeApart, AcceptApart DEF WorkerStep
  <2> QED
    BY <2>1, <2>2, <2>3
<1>3. CASE Running /\ ClientStep
  <2>1. NoLostWakeup'
    BY <1>3, ClientApart DEF NoLostWakeup, At
  <2> QED
    BY <1>3, <2>1, ClientType, ClientApart
<1>4. CASE UNCHANGED vars
  BY <1>4 DEF vars, mainvars, netvars, DispatchTypeOK, NoLostWakeup, At, RegisteredStayOpen,
       Running, NewcomersApart, Greeting
<1> QED
  BY <1>1, <1>2, <1>3, <1>4 DEF Next, Terminated

\* The main loop, the workers and the table keep their types, and neither the
\* poll array nor the table outgrows max_connections, whatever the clients and
\* the handlers do.
THEOREM DispatchTypeCorrect == Spec => []DispatchTypeOK
<1>1. DispatchInv => DispatchTypeOK
  BY DEF DispatchInv
<1> QED
  BY <1>1, DispatchInitInv, DispatchNextInv, PTL DEF Spec

\* A worker that is given work or told to exit is never left asleep.
THEOREM WakeupsArrive == Spec => []NoLostWakeup
<1>1. DispatchInv => NoLostWakeup
  BY DEF DispatchInv
<1> QED
  BY <1>1, DispatchInitInv, DispatchNextInv, PTL DEF Spec

\* No descriptor is free while a client is registered under it, even after a
\* handler has failed and its connection has been reported twice.
THEOREM RegisteredDescriptorsOpen == Spec => []RegisteredStayOpen
<1>1. DispatchInv => RegisteredStayOpen
  BY DEF DispatchInv
<1> QED
  BY <1>1, DispatchInitInv, DispatchNextInv, PTL DEF Spec
=============================================================================
