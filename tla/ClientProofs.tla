---------------------------- MODULE ClientProofs ----------------------------
(***************************************************************************)
(* The client interface changes nothing in the server: what is proved of   *)
(* Storage for any requests holds for the clients of client_api.c.  The    *)
(* server's lastop and what a client can tell from its calls agree; with   *)
(* one worker, a call that fails learns why, and a client that was told of *)
(* a lock has it; and a message is read as it was written.                 *)
(***************************************************************************)
EXTENDS ReplyProps, OneWorkerProofs, SequenceTheorems

\* Each step of a client or of the server with clients is a step of Storage,
\* or changes nothing Storage speaks of.
LEMMA ClientNextRefines ==
    ASSUME [ClientNext]_cvars
    PROVE  [Next]_vars
<1>1. CASE UNCHANGED cvars
  BY <1>1 DEF cvars
<1>2. ASSUME NEW c \in Conns, openConnection(c) PROVE [Next]_vars
  BY <1>2 DEF openConnection, Next, WorkerStep
<1>3. ASSUME NEW c \in Conns, Return(c) \/ CallFails(c) PROVE [Next]_vars
  BY <1>3 DEF Return, CallFails
<1>4. ASSUME NEW t \in Workers, Work(t) PROVE [Next]_vars
  BY <1>4 DEF Work, Next, WorkerStep
<1>5. ASSUME NEW t \in Workers, NEW c \in Conns, Serve(t, c) PROVE [Next]_vars
  BY <1>5 DEF Serve, Next, WorkerStep
<1>6. ASSUME NEW t \in Workers, NEW c \in Conns, RefuseWrite(t, c) PROVE [Next]_vars
  BY <1>6 DEF RefuseWrite
<1> QED
  BY <1>1, <1>2, <1>3, <1>4, <1>5, <1>6 DEF ClientNext

\* The answers' contents are added to the steps of Client.
LEMMA ReplyNextRefines ==
    ASSUME [ReplyNext]_rvars
    PROVE  [ClientNext]_cvars
<1>1. CASE UNCHANGED rvars
  BY <1>1 DEF rvars
<1>2. ASSUME NEW t \in Workers, ReplyWork(t) PROVE ClientNext
  BY <1>2 DEF ReplyWork, ClientNext
<1>3. ASSUME NEW c \in Conns, ReplyReturn(c) PROVE ClientNext
  BY <1>3 DEF ReplyReturn, ClientNext
<1>4. ASSUME \/ \E c \in Conns : openConnection(c) \/ CallFails(c)
             \/ \E t \in Workers, c \in Conns : Serve(t, c) \/ RefuseWrite(t, c)
      PROVE  ClientNext
  BY <1>4 DEF ClientNext
<1> QED
  BY <1>1, <1>2, <1>3, <1>4 DEF ReplyNext

\* The server with the clients of client_api.c implements the server that gets
\* any requests in any order.
THEOREM ClientsImplementStorage == ReplySpec => Spec
<1>1. ReplyInit => Init
  BY DEF ReplyInit, ClientInit
<1>2. [ReplyNext]_rvars => [Next]_vars
  BY ClientNextRefines, ReplyNextRefines
<1> QED
  BY <1>1, <1>2, PTL DEF ReplySpec, Spec

\* Whatever calls clients make, a locked file is open and its owner connected
\* (do_close_connection, worker_connection.c:72).
THEOREM ClientLocksNeverDangle == ReplySpec => []LockedFilesOpen
<1> QED
  BY ClientsImplementStorage, LocksNeverDangle

\* Whatever calls clients make, the types of the table hold.
THEOREM ClientTableTyped == ReplySpec => []TypeOK
<1> QED
  BY ClientsImplementStorage, TypeCorrect

----------------------------------------------------------------------------
(* The gate of writeFile: where a creation may be, and when lastop is set. *)

\* Only the end of a creation that locks sets lastop in a handler.
LEMMA HandlerLastop ==
  ASSUME NEW t \in Workers, HandlerStep(t)
  PROVE  \/ lastop' = lastop
         \/ /\ CreateOpen(t) /\ CanOpen(fslot(t), OpenOwner(t)) /\ Wants(t, "O_LOCK")
            /\ lastop' = [lastop EXCEPT ![Conn(t)] = Req(t).name]
            /\ Reply(t)
<1> USE DEF table
<1>1. FileScan(t) => lastop' = lastop
  BY DEF FileScan, GetFile, CheckName, EmptySlot
<1>2. SimpleSteps(t) \/ RemoveSteps(t) \/ WriteSteps(t) => lastop' = lastop
  BY DEF SimpleSteps, OpenFile, CloseFile, CloseBook, ReadFile, LockFile, UnlockFile,
         RemoveSteps, RemoveCheck, RemoveFile, RemoveBook,
         WriteSteps, CheckCapacity, Reserve, Apply, Release, Refuse
<1>3. EvictSteps(t) => lastop' = lastop
  BY DEF EvictSteps, EvictPick, EvictChoose, EvictNone, EvictName, EvictSize, EvictUsage,
         EvictForce, EvictOpen, EvictRemove, EvictBook
<1>4. ReadNSteps(t) \/ CloseConnSteps(t) \/ HandlerFailed(t) => lastop' = lastop
  BY DEF ReadNSteps, ReadNWasClosed, ReadNOpen, ReadNRead, ReadNClose, ReadNBook, ReadNName,
         CloseConnSteps, CConnCheck, CConnClose, CConnBook, CConnRemove, HandlerFailed
<1>5. CreateFile(t) \/ CountFile(t) => lastop' = lastop
  BY DEF CreateFile, CountFile
<1>6. CASE CreateOpen(t)
  BY <1>6 DEF CreateOpen
<1> QED
  BY <1>1, <1>2, <1>3, <1>4, <1>5, <1>6 DEF HandlerStep, CreateSteps

\* The scans keep to the path of creations.
LEMMA ScanKeepsPath ==
  ASSUME BaseInv, NEW t \in Workers, FileScan(t), CreatorPath(t)
  PROVE  /\ Creates(t) => thr'[t].pc \in ScanPcs \union CreatePcs \union {"idle"}
         /\ thr'[t].pc \in CreatePcs \union {"empty_slot"} => Creates(t)
<1> USE Moved, IdleType DEF ScanPcs, CreatePcs
<1>1. FileNotFound(t) =>
         \/ thr'[t].pc = "idle"
         \/ Creates(t) /\ thr'[t].pc = "empty_slot"
  BY DEF FileNotFound
<1>2. GetFileNext(t) =>
         \/ thr'[t].pc \in {"idle", "get_file"}
         \/ Creates(t) /\ thr'[t].pc = "empty_slot"
  BY <1>1 DEF GetFileNext
<1>3. CASE GetFile(t)
  BY <1>2, <1>3 DEF GetFile
<1>4. CASE CheckName(t)
  <2>1. CASE FileFound(t)
    <3>1. Req(t).op \in NamedOps
      BY <1>4 DEF BaseInv, ScanNamed, CheckName, At
    <3>2. FirstStep[Req(t).op] \in SlotPcs
      BY <3>1 DEF FirstStep, NamedOps, SlotPcs, SimplePcs
    <3>3. \/ thr'[t].pc = "idle"
          \/ ~Creates(t) /\ thr'[t].pc \in SlotPcs
      BY <2>1, <3>2 DEF FileFound
    <3> QED
      BY <3>3 DEF SlotPcs, SimplePcs
  <2>2. CASE FileNotFound(t) \/ GetFileNext(t)
    BY <1>1, <1>2, <2>2
  <2> QED
    BY <1>4, <2>1, <2>2 DEF CheckName
<1>5. CASE EmptySlot(t)
  <2>1. Creates(t)
    BY <1>5 DEF CreatorPath, EmptySlot, At
  <2> QED
    BY <1>5, <2>1 DEF EmptySlot
<1> QED
  BY <1>3, <1>4, <1>5 DEF FileScan

\* Every step of a handler keeps to it, until the handler ends.
LEMMA HandlerKeepsPath ==
  ASSUME BaseInv, EvictorExclusive, VictimOpen, NEW t \in Workers, HandlerStep(t),
         CreatorPath(t)
  PROVE  \/ thr'[t].pc \in {"idle", "failed", "aborted"}
         \/ /\ Creates(t) => thr'[t].pc \in ScanPcs \union CreatePcs
            /\ thr'[t].pc \in CreatePcs \union {"empty_slot"} => Creates(t)
<1> DEFINE Done == thr'[t].pc \in {"idle", "failed", "aborted"}
           Off == thr'[t].pc \notin CreatePcs \union {"empty_slot"}
<1>1. CASE FileScan(t)
  BY <1>1, ScanKeepsPath
<1>2. CASE CreateSteps(t)
  <2>1. CreateFlow(t)
    BY <1>2, CreateFlows
  <2>2. Creates(t)
    BY <2>1 DEF CreateFlow, CreatorPath
  <2> QED
    BY <2>1, <2>2, IdleType DEF CreateFlow, CreatePcs
<1>3. CASE ~FileScan(t) /\ ~CreateSteps(t)
  <2>1. EvictFlow(t) => Off /\ thr[t].pc \notin ScanPcs \union CreatePcs
    BY DEF EvictFlow, EvictingPcs, EvictPickPcs, EvictHoldPcs, ScanPcs, CreatePcs
  <2>2. EvictSteps(t) => EvictFlow(t)
    BY EvictFlows
  <2>3. SimpleFlow(t) \/ RemoveFlow(t) =>
           Done \/ (Off /\ thr[t].pc \notin ScanPcs \union CreatePcs)
    BY IdleType DEF SimpleFlow, RemoveFlow, SimplePcs, RemovePcs, ScanPcs, CreatePcs
  <2>4. WriteFlow(t) \/ ReadNFlow(t) =>
           Done \/ (Off /\ thr[t].pc \notin ScanPcs \union CreatePcs)
    BY IdleType DEF WriteFlow, ReadNFlow, WritePcs, ReadNPcs, ScanPcs, CreatePcs
  <2>5. CloseConnFlow(t) => Done \/ (Off /\ thr[t].pc \notin ScanPcs \union CreatePcs)
    BY IdleType DEF CloseConnFlow, ClosingPcs, CloseConnPcs, ScanPcs, CreatePcs
  <2>6. HandlerFailed(t) => Done
    BY Moved, IdleType DEF HandlerFailed
  <2>7. Done \/ (Off /\ thr[t].pc \notin ScanPcs \union CreatePcs)
    BY <1>3, <2>1, <2>2, <2>3, <2>4, <2>5, <2>6, SimpleFlows, RemoveFlows, WriteFlows,
       ReadNFlows, CloseConnFlows DEF HandlerStep
  <2> QED
    BY <2>7 DEF CreatorPath
<1> QED
  BY <1>1, <1>2, <1>3

\* The errors of file.c have a flag each.
LEMMA ErrorFlagTyped ==
  ASSUME NEW t \in Workers
  PROVE  ErrorFlag(t) \in Flags \ {"OP_SUCC"}
<1>1. FileErrno(fslot(t), AllowedOwners(t)) \in {"ENOENT", "EAGAIN", "EPERM", "EEXIST"}
  BY DEF FileErrno
<1> QED
  BY <1>1 DEF ErrorFlag, Flags

\* Every step adds known flags.
LEMMA FlagsTyped ==
  ASSUME NEW t \in Workers
  PROVE  FlagsOfStep(t) \subseteq Flags
<1>1. SearchFlags(t) \subseteq Flags
  BY DEF SearchFlags, Flags
<1> QED
  BY <1>1, ErrorFlagTyped DEF FlagsOfStep, Flags

\* Only the last step of a creation is taken at create_open.
LEMMA CreateFlowsAt ==
  ASSUME BaseInv, EvictorExclusive, VictimOpen, NEW t \in Workers, HandlerStep(t),
         At(t, "create_open")
  PROVE  CreateOpen(t)
<1>1. EvictFlow(t) \/ PlainFlow(t)
  BY HandlerFlows
<1>2. CreateFlow(t)
  BY <1>1 DEF EvictFlow, PlainFlow, EvictingPcs, EvictPickPcs, EvictHoldPcs, ScanFlow, SimpleFlow,
     RemoveFlow, WriteFlow, ReadNFlow, CloseConnFlow, ClosingPcs, CloseConnPcs, ScanPcs,
     SimplePcs, RemovePcs, WritePcs, ReadNPcs, At
<1> QED
  BY <1>2 DEF CreateFlow

\* A failed handler, and one that has closed the connection, have one step left.
LEMMA LastSteps ==
  ASSUME BaseInv, EvictorExclusive, VictimOpen, NEW t \in Workers, HandlerStep(t),
         thr[t].pc \in {"failed", "cconn_remove"}
  PROVE  HandlerFailed(t) \/ CConnRemove(t)
<1>1. ~FileScan(t) /\ ~CreateSteps(t)
  BY ScanFlows, CreateFlows DEF ScanFlow, CreateFlow, ScanPcs, CreatePcs
<1>2. ~SimpleSteps(t) /\ ~RemoveSteps(t)
  BY SimpleFlows, RemoveFlows DEF SimpleFlow, RemoveFlow, SimplePcs, RemovePcs
<1>3. ~WriteSteps(t) /\ ~EvictSteps(t)
  BY WriteFlows, EvictFlows
     DEF WriteFlow, WritePcs, EvictFlow, EvictingPcs, EvictPickPcs, EvictHoldPcs
<1>4. ~ReadNSteps(t)
  BY ReadNFlows DEF ReadNFlow, ReadNPcs
<1>5. CloseConnSteps(t) => CConnRemove(t)
  BY DEF CloseConnSteps, CConnCheck, CConnClose, CConnBook, At
<1> QED
  BY <1>1, <1>2, <1>3, <1>4, <1>5 DEF HandlerStep

\* A request that may create a file is told of success by create_open only.
LEMMA CreatorTold ==
  ASSUME NEW t \in Workers, Creates(t), thr[t].pc \in ScanPcs \union CreatePcs
  PROVE  "OP_SUCC" \in FlagsOfStep(t) <=> At(t, "create_open") /\ thr'[t].pc = "idle"
<1>1. "OP_SUCC" \notin SearchFlags(t)
  BY DEF SearchFlags
<1> QED
  BY <1>1 DEF FlagsOfStep, HandlerReturns, ScanPcs, CreatePcs, SimplePcs, ReadNPcs, At

\* After a failure, and after the client was told good-bye, nothing is added.
LEMMA NothingAdded ==
  ASSUME NEW t \in Workers, thr[t].pc \in {"failed", "cconn_remove"}
  PROVE  FlagsOfStep(t) = {}
  BY DEF FlagsOfStep, HandlerReturns, SimplePcs, ReadNPcs, At

\* What an answer comes to.
LEMMA AnswerRead ==
  ASSUME NEW r \in Requests \union {NoRequest}, NEW reply \in SUBSET Flags
  PROVE  /\ Answer(r, reply) \in CallType
         /\ Answer(r, reply).st = "answered"
         /\ Answer(r, reply).res = "closed" <=> r.op = "CLOSE_CONN"
         /\ Answer(r, reply).res = "ok" <=> r.op # "CLOSE_CONN" /\ "OP_SUCC" \in reply
         /\ Answer(r, reply).req \in {r, NoRequest}
         /\ Answer(r, reply).res = "ok" /\ TakesLock(r) => Answer(r, reply).req = r
<1>1. /\ Outcome(r.op, reply) \in Results
      /\ Outcome(r.op, reply) = "closed" <=> r.op = "CLOSE_CONN"
      /\ Outcome(r.op, reply) = "ok" <=> r.op # "CLOSE_CONN" /\ "OP_SUCC" \in reply
  BY DEF Outcome, Results
<1> QED
  BY <1>1 DEF Answer, CallType, CallStates

\* writeFile is valid after an answer that tells of a locked creation, and
\* after no other.
LEMMA AnswerArms ==
  ASSUME NEW c \in Conns, NEW r \in Requests \union {NoRequest}, NEW reply \in SUBSET Flags,
         r.op = "WRITE_FILE" => armed[c] = r.name,
         call'[c] = Answer(r, reply), armed' = armed
  PROVE  ArmedAfter(c)' = IF "OP_SUCC" \in reply /\ CreatesLocked(r) THEN r.name ELSE NoName
<1>1. /\ call'[c].res = "ok" <=> r.op # "CLOSE_CONN" /\ "OP_SUCC" \in reply
      /\ call'[c].req \in {r, NoRequest}
      /\ call'[c].res = "ok" /\ TakesLock(r) => call'[c].req = r
  BY AnswerRead
<1>2. NoRequest.op = "CLOSE_CONN"
  BY DEF NoRequest
<1>3. CreatesLocked(r) => r.op = "OPEN_FILE" /\ TakesLock(r)
  BY DEF CreatesLocked, TakesLock, OpenFlags
<1>4. CASE "OP_SUCC" \in reply /\ CreatesLocked(r)
  BY <1>1, <1>3, <1>4 DEF ArmedAfter
<1>5. CASE ~("OP_SUCC" \in reply /\ CreatesLocked(r))
  <2>1. ~(call'[c].res = "ok" /\ CreatesLocked(call'[c].req))
    BY <1>1, <1>2, <1>5 DEF CreatesLocked
  <2>2. ~(call'[c].req.op = "WRITE_FILE" /\ call'[c].req.name # armed'[c])
    BY <1>1, <1>2
  <2> QED
    BY <1>5, <2>1, <2>2 DEF ArmedAfter
<1> QED
  BY <1>4, <1>5

----------------------------------------------------------------------------
(* GateInv is inductive, given IInv.                                       *)

BusyServing(t) ==
    /\ ServerAlive /\ thr[t].pc \notin {"idle", "failed", "cconn_remove"} => Serving(t)
    /\ ClosePath(t)

\* What GateInv says of one client.
ClientGate(c) ==
    /\ call[c].st \in {"free", "backoff"} => lastop[c] = armed[c]
    /\ call[c].st \in {"off", "closed"} => armed[c] = NoName
    /\ St(c, "answered") => IF call[c].res = "closed" THEN call[c].req.op = "CLOSE_CONN"
                           ELSE lastop[c] = ArmedAfter(c)

\* GateInv is one statement per client and one per worker.
LEMMA GateParts ==
  /\ GateInv => /\ ClientTypeOK
                 /\ \A c \in Conns : ClientGate(c)
                 /\ \A t \in Workers : BusyServing(t)
  /\ /\ ClientTypeOK'
     /\ \A c \in Conns : ClientGate(c)'
     /\ \A t \in Workers : BusyServing(t)'
     => GateInv'
  BY DEF GateInv, GateAgrees, ClientGate, BusyServing

\* A step that touches nothing of client c leaves what is said of it.
LEMMA ClientGateKept ==
  ASSUME NEW c \in Conns, ClientGate(c), call'[c] = call[c], lastop'[c] = lastop[c],
         armed'[c] = armed[c]
  PROVE  ClientGate(c)'
  BY DEF ClientGate, St, ArmedAfter

\* Nor does a worker that neither moves nor has its client touched.
LEMMA ServingKept ==
  ASSUME NEW t \in Workers, BusyServing(t), thr'[t] = thr[t], ServerAlive,
         thr[t].pc # "idle" => /\ call'[Conn(t)] = call[Conn(t)]
                               /\ lastop'[Conn(t)] = lastop[Conn(t)]
                               /\ armed'[Conn(t)] = armed[Conn(t)]
  PROVE  BusyServing(t)'
  BY DEF BusyServing, Serving, ClosePath, CreatorPath, Creates, Wants, Conn, Req, St

\* Once the server has gone nobody is served.
LEMMA NobodyServed ==
  ASSUME NEW t \in Workers, BusyServing(t), thr' = thr, ~ServerAlive
  PROVE  BusyServing(t)'
  BY DEF BusyServing, ClosePath, ServerAlive, At, Req

\* The types of a client's variables survive every step.
LEMMA ClientTypeStep ==
  ASSUME IInv, ClientTypeOK, [ClientNext]_cvars, IInv'
  PROVE  ClientTypeOK'
<1> USE DEF ClientTypeOK
<1>1. CASE UNCHANGED cvars
  BY <1>1 DEF cvars, clientvars
<1>2. NoCall \in CallType /\ [NoCall EXCEPT !.st = "free"] \in CallType
      /\ [NoCall EXCEPT !.st = "closed"] \in CallType
  BY DEF NoCall, CallType, CallStates, Results
<1>3. ASSUME NEW c \in Conns, openConnection(c) \/ CallFails(c)
      PROVE  ClientTypeOK'
  <2>1. CASE openConnection(c)
    BY <1>2, <2>1 DEF openConnection
  <2>2. CASE CallFails(c)
    <3>1. [x \in Names |-> "none"] \in [Names -> {"none", "held", "expelled"}]
      OBVIOUS
    <3> QED
      BY <1>2, <2>2, <3>1 DEF CallFails
  <2> QED
    BY <1>3, <2>1, <2>2
<1>4. ASSUME NEW c \in Conns, Return(c) PROVE ClientTypeOK'
  <2>1. call[c] \in CallType /\ call[c].req \in RequestType \union {NoRequest}
    BY RequestAssumption DEF CallType
  <2>2. [call[c] EXCEPT !.st = "backoff"] \in CallType
    BY <2>1 DEF CallType, CallStates
  <2>3. call' \in [Conns -> CallType]
    BY <1>2, <1>4, <2>2 DEF Return, SetCall
  <2>4. ArmedAfter(c) \in Names \union {NoName}
    BY <2>1 DEF ArmedAfter, CreatesLocked, RequestType, NoRequest
  <2>5. belief' \in [Conns -> [Names -> {"none", "held", "expelled"}]]
    BY <1>4 DEF Return
  <2> QED
    BY <1>4, <2>3, <2>4, <2>5 DEF Return
<1>5. ASSUME NEW t \in Workers, Work(t) PROVE ClientTypeOK'
  <2>1. call[Conn(t)].reply \union FlagsOfStep(t) \in SUBSET Flags /\ Conn(t) \in Conns
    <3>1. HandlerStep(t)
      BY <1>5 DEF Work, WorkerStep
    <3>2. Conn(t) \in Conns
      BY <3>1, HandlerBusy, BusyConn DEF IInv, BaseInv
    <3> QED
      BY <3>2, FlagsTyped DEF CallType
  <2> DEFINE reply == call[Conn(t)].reply \union FlagsOfStep(t)
  <2>2. Req(t) \in Requests \union {NoRequest}
    BY DEF IInv, TypeOK, ThreadType, Req
  <2>3. Answer(Req(t), reply) \in CallType
    BY <2>1, <2>2, AnswerRead
  <2>4. [call[Conn(t)] EXCEPT !.reply = reply] \in CallType
    BY <2>1 DEF CallType
  <2>5. call' = [call EXCEPT ![Conn(t)] =
                   IF WritesAnswer(t) THEN Answer(Req(t), reply) ELSE [@ EXCEPT !.reply = reply]]
        /\ belief' = Expels(t) /\ UNCHANGED armed
    BY <1>5 DEF Work
  <2> HIDE DEF reply
  <2>6. call' \in [Conns -> CallType]
    BY <2>3, <2>4, <2>5
  <2>7. belief' \in [Conns -> [Names -> {"none", "held", "expelled"}]]
    BY <2>5 DEF Expels
  <2> QED
    BY <2>5, <2>6, <2>7
<1>6. ASSUME NEW t \in Workers, NEW c \in Conns, Serve(t, c) PROVE ClientTypeOK'
  <2>1. thr'[t].req \in Requests \union {NoRequest}
    BY DEF IInv, TypeOK, ThreadType
  <2>2. [NoCall EXCEPT !.st = "served", !.req = thr'[t].req] \in CallType
    BY <2>1 DEF NoCall, CallType, CallStates, Results
  <2>3. Asks(c, thr'[t].req) \in [Conns -> [Names -> {"none", "held", "expelled"}]]
    BY DEF Asks
  <2> QED
    BY <1>6, <2>2, <2>3 DEF Serve
<1>7. ASSUME NEW t \in Workers, NEW c \in Conns, RefuseWrite(t, c) PROVE ClientTypeOK'
  <2>1. \A r \in Requests : Answer(r, {}) \in CallType
    BY AnswerRead
  <2> QED
    BY <1>7, <2>1 DEF RefuseWrite
<1> QED
  BY <1>1, <1>3, <1>4, <1>5, <1>6, <1>7 DEF ClientNext

\* The steps of clients between two requests.
LEMMA ClientStepGate ==
  ASSUME IInv, GateInv, IInv', ClientTypeOK', NEW c \in Conns,
         openConnection(c) \/ Return(c) \/ CallFails(c)
  PROVE  GateInv'
<1> USE GateParts
<1>1. /\ lastop \in [Conns -> Names \union {NoName}]
      /\ armed \in [Conns -> Names \union {NoName}] /\ call \in [Conns -> CallType]
  BY DEF IInv, TypeOK, ClientTypeOK
<1>2. /\ thr' = thr
      /\ \A d \in Conns : d # c => /\ call'[d] = call[d] /\ lastop'[d] = lastop[d]
                                   /\ armed'[d] = armed[d]
  BY <1>1
     DEF openConnection, AddClient, Return, SetCall, CallFails, vars, table
<1>3. ServerAlive => ~St(c, "served")
  BY DEF openConnection, Return, CallFails, NobodyThere, St
<1>4. \A t \in Workers : BusyServing(t)'
  <2> TAKE t \in Workers
  <2>1. CASE thr[t].pc \in {"idle", "failed", "cconn_remove"}
    BY <1>2, <2>1, GateParts DEF BusyServing, ClosePath, Req
  <2>2. CASE thr[t].pc \notin {"idle", "failed", "cconn_remove"} /\ ServerAlive
    <3>1. Conn(t) # c /\ Conn(t) \in Conns
      BY <1>3, <2>2, BusyConn DEF BusyServing, Serving, IInv, BaseInv
    <3> QED
      BY <1>2, <2>2, <3>1, ServingKept
  <2>3. CASE ~ServerAlive
    BY <1>2, <2>3, NobodyServed
  <2> QED
    BY <2>1, <2>2, <2>3
<1>5. ClientGate(c)'
  <2>1. CASE openConnection(c)
    <3>1. armed[c] = NoName
      BY <2>1 DEF openConnection, ClientGate, St
    <3>2. call'[c].st = "free" /\ lastop'[c] = NoName /\ armed' = armed
      BY <1>1, <2>1 DEF openConnection, AddClient, NoCall
    <3> QED
      BY <3>1, <3>2 DEF ClientGate, St
  <2>2. CASE CallFails(c)
    <3>1. call'[c].st = "off" /\ armed'[c] = NoName
      BY <1>1, <2>2 DEF CallFails, NoCall
    <3> QED
      BY <3>1 DEF ClientGate, St
  <2>3. CASE Return(c)
    <3>1. armed'[c] = ArmedAfter(c) /\ lastop' = lastop /\ St(c, "answered")
      BY <1>1, <2>3 DEF Return, vars, table
    <3>2. CASE call[c].res = "closed"
      <4>1. call'[c].st = "closed"
        BY <1>1, <2>3, <3>2 DEF Return, NoCall
      <4>2. call[c].req.op = "CLOSE_CONN"
        BY <3>1, <3>2 DEF ClientGate
      <4> QED
        BY <3>1, <3>2, <4>1, <4>2 DEF ArmedAfter, ClientGate, St
    <3>3. CASE call[c].res # "closed"
      <4>1. call'[c].st \in {"free", "backoff"}
        BY <1>1, <2>3, <3>3 DEF Return, SetCall, NoCall, CallType
      <4>2. lastop[c] = ArmedAfter(c)
        BY <3>1, <3>3 DEF ClientGate
      <4> QED
        BY <3>1, <4>1, <4>2 DEF ClientGate, St
    <3> QED
      BY <3>2, <3>3
  <2> QED
    BY <2>1, <2>2, <2>3
<1>6. \A d \in Conns : ClientGate(d)'
  BY <1>2, <1>5, ClientGateKept
<1> QED
  BY <1>4, <1>6

\* A worker reads a request, or refuses it at once.
LEMMA ServeGate ==
  ASSUME IInv, GateInv, IInv', ClientTypeOK', NEW t \in Workers, NEW c \in Conns,
         Serve(t, c) \/ RefuseWrite(t, c)
  PROVE  GateInv'
<1> USE GateParts
<1>1. /\ lastop \in [Conns -> Names \union {NoName}] /\ thr \in [Workers -> ThreadType]
      /\ armed \in [Conns -> Names \union {NoName}] /\ call \in [Conns -> CallType]
  BY DEF IInv, TypeOK, ClientTypeOK
<1>2. /\ call[c].st \in {"free", "backoff"} /\ lastop[c] = armed[c] /\ ~St(c, "served")
      /\ ServerAlive
  BY DEF Serve, Receive, RefuseWrite, St, ClientGate
<1>3. \A u \in Workers : thr[u].pc \notin {"idle", "failed", "cconn_remove"} =>
                            Conn(u) # c /\ Conn(u) \in Conns
  BY <1>2, BusyConn DEF BusyServing, Serving, IInv, BaseInv
<1>4. CASE RefuseWrite(t, c)
  <2>1. PICK r \in Requests : /\ r.op = "WRITE_FILE" /\ lastop[c] # r.name
                              /\ call' = [call EXCEPT ![c] = Answer(r, {})]
    BY <1>4 DEF RefuseWrite
  <2>2. thr' = thr /\ lastop' = lastop /\ armed' = armed
    BY <1>4 DEF RefuseWrite, vars, table
  <2>3. call'[c] = Answer(r, {}) /\ \A d \in Conns : d # c => call'[d] = call[d]
    BY <1>1, <2>1
  <2>4. call'[c].st = "answered" /\ call'[c].res = "EBADMSG" /\ call'[c].req = r
    BY <2>1, <2>3 DEF Answer, Outcome
  <2>5. ArmedAfter(c)' = lastop[c]
    BY <1>2, <2>1, <2>2, <2>4 DEF ArmedAfter
  <2>6. ClientGate(c)'
    BY <2>2, <2>4, <2>5 DEF ClientGate, St
  <2>7. \A d \in Conns : ClientGate(d)'
    BY <2>2, <2>3, <2>6, ClientGateKept
  <2>8. \A u \in Workers : BusyServing(u)'
    <3> TAKE u \in Workers
    <3>1. CASE thr[u].pc \in {"idle", "failed", "cconn_remove"}
      BY <2>2, <3>1 DEF BusyServing, ClosePath, Req
    <3>2. CASE thr[u].pc \notin {"idle", "failed", "cconn_remove"}
      BY <1>2, <1>3, <2>2, <2>3, <3>2, ServingKept
    <3> QED
      BY <3>1, <3>2
  <2> QED
    BY <2>7, <2>8
<1>5. CASE Serve(t, c)
  <2>1. PICK d \in clients, r \in Requests :
           /\ ReceiveNamed(t, d, r) \/ ReceiveReadN(t, d, r) \/ ReceiveCloseConn(t, d, r)
           /\ At(t, "idle")
    BY <1>5 DEF Serve, Receive
  <2>2. PICK l \in {"get_file", "readn_wasclosed", "cconn_check"} :
           /\ thr' = [thr EXCEPT ![t] = [IdleThread EXCEPT !.pc = l, !.conn = d, !.req = r]]
           /\ l = "get_file" => r.op \in NamedOps
           /\ l = "readn_wasclosed" => r.op = "READN_FILE"
           /\ l = "cconn_check" => r.op = "CLOSE_CONN"
           /\ r.op = "WRITE_FILE" => lastop[d] = r.name
    BY <2>1 DEF ReceiveNamed, ReceiveReadN, ReceiveCloseConn, Begin, NamedOps
  <2>3. /\ thr'[t].pc = l /\ thr'[t].conn = d /\ thr'[t].req = r
        /\ \A u \in Workers : u # t => thr'[u] = thr[u]
    BY <1>1, <2>2 DEF IdleThread
  <2>4. d = c
    BY <1>5, <2>3 DEF Serve
  <2>5. /\ r.op # "CLOSE_CONN" => lastop'[c] = NoName
        /\ \A e \in Conns : e # c => lastop'[e] = lastop[e]
    BY <1>1, <2>1, <2>4 DEF ReceiveNamed, ReceiveReadN, ReceiveCloseConn, table
  <2>6. /\ armed' = armed
        /\ call'[c] = [NoCall EXCEPT !.st = "served", !.req = r]
        /\ \A e \in Conns : e # c => call'[e] = call[e]
    BY <1>1, <1>5, <2>3 DEF Serve
  <2>7. call'[c].st = "served" /\ call'[c].reply = {}
    BY <2>6 DEF NoCall
  <2>8. \A e \in Conns : ClientGate(e)'
    <3>1. ClientGate(c)'
      BY <2>7 DEF ClientGate, St
    <3> QED
      BY <2>5, <2>6, <3>1, ClientGateKept
  <2>9. BusyServing(t)'
    <3>1. Conn(t)' = c /\ Req(t)' = r
      BY <2>3, <2>4 DEF Conn, Req
    <3>2. CreatorPath(t)'
      BY <2>2, <2>3, <3>1 DEF CreatorPath, Creates, ScanPcs, CreatePcs
    <3>3. r.op = "WRITE_FILE" => armed'[c] = r.name
      BY <1>2, <2>2, <2>4, <2>6
    <3>4. ClosePath(t)'
      BY <2>2, <2>3, <3>1 DEF ClosePath, CloseConnPcs
    <3> QED
      BY <2>5, <2>7, <3>1, <3>2, <3>3, <3>4 DEF BusyServing, Serving, St
  <2>10. \A u \in Workers : BusyServing(u)'
    <3> TAKE u \in Workers
    <3>1. CASE u = t
      BY <2>9, <3>1
    <3>2. CASE u # t /\ thr[u].pc \in {"idle", "failed", "cconn_remove"}
      BY <2>3, <3>2 DEF BusyServing, ClosePath, Req
    <3>3. CASE u # t /\ thr[u].pc \notin {"idle", "failed", "cconn_remove"}
      BY <1>2, <1>3, <2>3, <2>5, <2>6, <3>3, ServingKept
    <3> QED
      BY <3>1, <3>2, <3>3
  <2> QED
    BY <2>8, <2>10
<1> QED
  BY <1>4, <1>5

\* A step of the handler of c's request.
LEMMA WorkGate ==
  ASSUME IInv, GateInv, IInv', ClientTypeOK', NEW t \in Workers, Work(t)
  PROVE  GateInv'
<1> USE GateParts
<1>1. /\ lastop \in [Conns -> Names \union {NoName}] /\ thr[t] \in ThreadType
      /\ armed \in [Conns -> Names \union {NoName}] /\ call \in [Conns -> CallType]
  BY DEF IInv, TypeOK, ClientTypeOK
<1>2. BaseInv /\ EvictorExclusive /\ VictimOpen /\ HandlerStep(t) /\ ServerAlive
  BY DEF IInv, BaseInv, Work, WorkerStep
<1>3. thr[t].pc # "idle" /\ Conn(t) \in Conns /\ thr[t].req \in Requests \union {NoRequest}
  BY <1>1, <1>2, HandlerBusy, BusyConn DEF ThreadType
<1> PICK c \in Conns : c = Conn(t)
  BY <1>3
<1> PICK r \in Requests \union {NoRequest} : r = Req(t)
  BY <1>3 DEF Req
<1>6. call[c].reply \union FlagsOfStep(t) \in SUBSET Flags
  BY <1>1, FlagsTyped DEF CallType
<1> PICK reply \in SUBSET Flags : reply = call[c].reply \union FlagsOfStep(t)
  BY <1>6
<1>4. /\ \A u \in Workers : u # t => thr'[u] = thr[u]
      /\ thr'[t] = IdleThread \/ (Conn(t)' = c /\ Req(t)' = r)
  BY <1>2, OthersKeep
<1>5. /\ armed' = armed
      /\ \A d \in Conns : d # c => call'[d] = call[d]
      /\ call'[c] = IF WritesAnswer(t) THEN Answer(r, reply)
                    ELSE [call[c] EXCEPT !.reply = reply]
  BY <1>1, <1>3 DEF Work
<1>7. \A d \in Conns : d # c => lastop'[d] = lastop[d]
  BY <1>1, <1>2, HandlerLastop
<1>8. \A d \in Conns : d # c => ClientGate(d)'
  BY <1>5, <1>7, ClientGateKept
<1>9. \A u \in Workers : u # t => BusyServing(u)'
  <2> TAKE u \in Workers
  <2> HAVE u # t
  <2>1. thr[u].pc # "idle" => Conn(u) # c /\ Conn(u) \in Conns
    <3>1. ASSUME thr[u].pc # "idle" PROVE Conn(u) # c
      BY <1>2, <3>1 DEF BaseInv, ConnExclusive, At
    <3> QED
      BY <1>2, <3>1, BusyConn
  <2> QED
    BY <1>2, <1>4, <1>5, <1>7, <2>1, ServingKept
<1>10. ClosePath(t)'
  <2>1. thr'[t].pc = "idle" \/ (Conn(t)' = c /\ Req(t)' = r)
    BY <1>4, IdleType
  <2>2. thr'[t].pc \in ClosingPcs => thr[t].pc \in ClosingPcs
    BY <1>2, HandlerFlows, IdleType
       DEF EvictFlow, PlainFlow, EvictingPcs, EvictPickPcs, EvictHoldPcs, ScanFlow, CreateFlow,
           SimpleFlow, RemoveFlow, WriteFlow, ReadNFlow, CloseConnFlow, ClosingPcs, CloseConnPcs,
           ScanPcs, SlotPcs, SimplePcs, WritePcs, ReadNPcs
  <2> QED
    BY <2>1, <2>2 DEF BusyServing, ClosePath, ClosingPcs, CloseConnPcs
<1>11. ClientGate(c)' /\ BusyServing(t)'
  <2>1. CASE thr[t].pc \in {"failed", "cconn_remove"}
    <3>1. ~WritesAnswer(t) /\ thr'[t].pc = "idle" /\ lastop' = lastop
      <4>1. HandlerFailed(t) \/ CConnRemove(t)
        BY <1>2, <2>1, LastSteps
      <4>2. thr'[t].pc = "idle" /\ lastop' = lastop
        BY <1>2, <4>1, Moved, IdleType DEF HandlerFailed, CConnRemove, table
      <4>3. CConnRemove(t) => r.op = "CLOSE_CONN"
        BY DEF BusyServing, ClosePath, CloseConnPcs, CConnRemove, At
      <4> QED
        BY <4>1, <4>2, <4>3 DEF WritesAnswer, HandlerFailed, At
    <3>2. reply = call[c].reply
      BY <2>1, NothingAdded
    <3>3. call'[c] = call[c]
      BY <1>1, <1>3, <1>5, <3>1, <3>2 DEF CallType
    <3> QED
      BY <1>3, <1>5, <1>10, <3>1, <3>3, ClientGateKept DEF BusyServing
  <2>2. CASE thr[t].pc \notin {"failed", "cconn_remove"}
    <3>1. Serving(t)
      BY <1>2, <1>3, <2>2 DEF BusyServing
    <3>2. /\ St(c, "served")
          /\ Req(t).op # "CLOSE_CONN" => lastop[c] = NoName
          /\ Req(t).op = "WRITE_FILE" => armed[c] = Req(t).name
          /\ Creates(t) => "OP_SUCC" \notin call[c].reply
          /\ CreatorPath(t)
      BY <3>1 DEF Serving
    <3>3. \/ thr'[t].pc \in {"idle", "failed", "aborted"}
          \/ /\ Creates(t) => thr'[t].pc \in ScanPcs \union CreatePcs
             /\ thr'[t].pc \in CreatePcs \union {"empty_slot"} => Creates(t)
      BY <1>2, <3>2, HandlerKeepsPath
    <3>4. Creates(t) => ("OP_SUCC" \in reply <=> At(t, "create_open") /\ thr'[t].pc = "idle")
      BY <3>2, CreatorTold DEF CreatorPath
    <3>5. \/ lastop' = lastop
          \/ /\ At(t, "create_open") /\ thr'[t].pc = "idle" /\ Creates(t)
             /\ CreatesLocked(Req(t)) /\ lastop'[c] = Req(t).name
      <4>1. CASE CreateOpen(t) /\ Wants(t, "O_LOCK") /\ Reply(t)
                 /\ lastop' = [lastop EXCEPT ![c] = Req(t).name]
        <5>1. At(t, "create_open") /\ thr'[t].pc = "idle" /\ lastop'[c] = Req(t).name
          BY <1>1, <1>2, <1>3, <4>1, Moved, IdleType DEF CreateOpen
        <5>2. Creates(t)
          BY <3>2, <5>1 DEF CreatorPath, CreatePcs, At
        <5>3. CreatesLocked(Req(t))
          BY <4>1, <5>2 DEF CreatesLocked, OpenFlags, Creates, Wants
        <5> QED
          BY <5>1, <5>2, <5>3
      <4> QED
        BY <1>2, <4>1, HandlerLastop
    <3>6. CASE WritesAnswer(t)
      <4>1. call'[c] = Answer(r, reply)
        BY <1>5, <3>6
      <4>2. /\ call'[c].st = "answered"
            /\ call'[c].res = "closed" <=> r.op = "CLOSE_CONN"
            /\ call'[c].req \in {r, NoRequest}
        BY <4>1, AnswerRead
      <4>3. ASSUME r.op # "CLOSE_CONN" PROVE lastop'[c] = ArmedAfter(c)'
        <5>1. ArmedAfter(c)' =
                 IF "OP_SUCC" \in reply /\ CreatesLocked(r) THEN r.name ELSE NoName
          BY <1>5, <3>2, <4>1, AnswerArms
        <5>2. CASE "OP_SUCC" \in reply /\ CreatesLocked(r)
          <6>1. Creates(t) /\ Wants(t, "O_LOCK")
            BY <5>2 DEF CreatesLocked, OpenFlags, Creates, Wants
          <6>2. At(t, "create_open") /\ thr'[t].pc = "idle"
            BY <3>4, <5>2, <6>1
          <6>3. CreateOpen(t)
            BY <1>2, <6>2, CreateFlowsAt
          <6>4. lastop' = [lastop EXCEPT ![c] = r.name]
            BY <1>2, <6>1, <6>2, <6>3, Moved DEF CreateOpen, Fail
          <6> QED
            BY <1>1, <5>1, <5>2, <6>4
        <5>3. CASE ~("OP_SUCC" \in reply /\ CreatesLocked(r))
          BY <3>2, <3>4, <3>5, <4>3, <5>1, <5>3
        <5> QED
          BY <5>2, <5>3
      <4>4. ClientGate(c)'
        BY <1>3, <4>2, <4>3 DEF ClientGate, St, NoRequest
      <4>5. thr'[t].pc \in {"idle", "failed", "cconn_remove"}
        BY <3>6 DEF WritesAnswer
      <4> QED
        BY <1>10, <4>4, <4>5 DEF BusyServing
    <3>7. CASE ~WritesAnswer(t)
      <4>1. call'[c].st = "served" /\ call'[c].reply = reply
        BY <1>1, <1>3, <1>5, <3>2, <3>7 DEF CallType, St
      <4>2. ClientGate(c)'
        BY <4>1 DEF ClientGate, St
      <4>3. BusyServing(t)'
        <5> SUFFICES ASSUME thr'[t].pc \notin {"idle", "failed", "aborted", "cconn_remove"}
                     PROVE  Serving(t)'
          BY <1>10 DEF BusyServing, ServerAlive, At
        <5>1. Conn(t)' = c /\ Req(t)' = r /\ lastop' = lastop
          BY <1>4, <3>5, IdleType
        <5>2. Creates(t)' <=> Creates(t)
          BY <5>1 DEF Creates, Wants
        <5>3. CreatorPath(t)'
          BY <3>3, <5>2 DEF CreatorPath
        <5>4. Creates(t) => "OP_SUCC" \notin reply
          BY <3>4
        <5> QED
          BY <1>5, <3>2, <4>1, <5>1, <5>2, <5>3, <5>4 DEF Serving, St
      <4> QED
        BY <4>2, <4>3
    <3> QED
      BY <3>6, <3>7
  <2> QED
    BY <2>1, <2>2
<1> QED
  BY <1>8, <1>9, <1>11

\* IInv and GateInv together are inductive.
THEOREM GateInvariance == ClientSpec => [](IInv /\ GateInv)
<1>1. ClientInit => IInv /\ GateInv
  <2> SUFFICES ASSUME ClientInit PROVE IInv /\ GateInv
    OBVIOUS
  <2>1. IInv
    BY InitInv DEF ClientInit
  <2>2. ClientTypeOK
    BY DEF ClientInit, ClientTypeOK, NoCall, CallType, CallStates, Results
  <2>3. \A t \in Workers : thr[t].pc = "idle"
    BY IdleType DEF ClientInit, Init
  <2> QED
    BY <2>1, <2>2, <2>3
       DEF ClientInit, Init, GateInv, GateAgrees, NoCall, St, ClosePath, CloseConnPcs
<1>2. ASSUME IInv, GateInv, [ClientNext]_cvars PROVE IInv' /\ GateInv'
  <2>1. [Next]_vars
    BY <1>2, ClientNextRefines
  <2>2. IInv'
    BY <1>2, <2>1, HandlerInv, ReceiveInv, AddClientInv, StutterInv DEF Next, WorkerStep
  <2>3. ClientTypeOK'
    BY <1>2, <2>2, ClientTypeStep DEF GateInv
  <2>4. CASE UNCHANGED cvars
    <3>1. lastop' = lastop /\ thr' = thr /\ call' = call /\ armed' = armed
      BY <2>4 DEF cvars, vars, table, clientvars
    <3>2. \A c \in Conns : ClientGate(c)'
      BY <1>2, <3>1, GateParts, ClientGateKept
    <3>3. \A t \in Workers : BusyServing(t)'
      <4> TAKE t \in Workers
      <4>1. BusyServing(t)
        BY <1>2 DEF GateInv, BusyServing
      <4>2. /\ thr'[t] = thr[t]
            /\ call'[Conn(t)] = call[Conn(t)] /\ lastop'[Conn(t)] = lastop[Conn(t)]
            /\ armed'[Conn(t)] = armed[Conn(t)]
        BY <3>1
      <4> QED
        BY <3>1, <4>1, <4>2, ServingKept, NobodyServed
    <3> QED
      BY <2>2, <2>3, <3>2, <3>3, GateParts
  <2>5. CASE ClientNext
    BY <1>2, <2>2, <2>3, <2>5, ClientStepGate, ServeGate, WorkGate DEF ClientNext
  <2> QED
    BY <1>2, <2>2, <2>4, <2>5
<1> QED
  BY <1>1, <1>2, PTL DEF ClientSpec

\* With any number of workers and clients, whatever they call: between calls
\* the server lets writeFile through exactly when the client's own calls say
\* it is valid (client_api.h:32).
THEOREM GateAlwaysAgrees == ReplySpec => []GateAgrees
<1>1. ReplyInit => ClientInit
  BY DEF ReplyInit
<1>2. [ReplyNext]_rvars => [ClientNext]_cvars
  BY ReplyNextRefines
<1>3. IInv /\ GateInv => GateAgrees
  BY DEF GateInv
<1> QED
  BY <1>1, <1>2, <1>3, GateInvariance, PTL DEF ReplySpec, ClientSpec

----------------------------------------------------------------------------
(* The answers: AnswerInv is inductive with one worker.                    *)

\* The request a label belongs to.
LEMMA OpAt ==
  ASSUME IInv, StepsFit, NEW t \in Workers
  PROVE  LET op == Req(t).op
             pc == thr[t].pc
         IN /\ pc \in CreatePcs \union {"empty_slot", "open_file"} => op = "OPEN_FILE"
            /\ pc \in ScanPcs => op \in NamedOps
            /\ pc \in {"close_file", "close_book"} => op = "CLOSE_FILE"
            /\ pc = "read_file" => op = "READ_FILE"
            /\ pc = "lock_file" => op = "LOCK_FILE"
            /\ pc = "unlock_file" => op = "UNLOCK_FILE"
            /\ pc \in RemovePcs \union {"remove_book"} => op = "REMOVE_FILE"
            /\ pc \in RoomPcs => op \in PutOps
            /\ pc \in ReadNPcs \union {"readn_book"} => op = "READN_FILE"
            /\ pc \in ClosingPcs => op = "CLOSE_CONN"
<1> USE DEF ScanPcs, CreatePcs, RemovePcs, RoomPcs, WritePcs, EvictPickPcs, EvictHoldPcs,
        ReadNPcs, ClosingPcs, CloseConnPcs, NamedOps, PutOps
<1> DEFINE op == Req(t).op
           pc == thr[t].pc
<1>1. op \in Ops /\ pc \in {"idle", "failed", "aborted"} \union StepsOf[op]
  BY RequestAssumption DEF StepsFit, IInv, TypeOK, ThreadType, Req, NoRequest, Ops, RequestType
<1> HIDE DEF op, pc
<1>2. CASE op = "OPEN_FILE"
  BY <1>1, <1>2 DEF StepsOf, Search, op, pc
<1>3. CASE op = "CLOSE_FILE"
  BY <1>1, <1>3 DEF StepsOf, Search, op, pc
<1>4. CASE op \in {"READ_FILE", "LOCK_FILE", "UNLOCK_FILE"}
  BY <1>1, <1>4 DEF StepsOf, Search, op, pc
<1>5. CASE op \in {"WRITE_FILE", "APPEND_FILE"}
  BY <1>1, <1>5 DEF StepsOf, Search, op, pc
<1>6. CASE op = "REMOVE_FILE"
  BY <1>1, <1>6 DEF StepsOf, Search, op, pc
<1>7. CASE op \in {"READN_FILE", "CLOSE_CONN"}
  BY <1>1, <1>7 DEF StepsOf, Search, op, pc
<1>8. QED
  BY <1>1, <1>2, <1>3, <1>4, <1>5, <1>6, <1>7 DEF Ops

\* The one worker there is keeps the server alive.
LEMMA OnlyWorker ==
  ASSUME OneWorker, NEW t \in Workers
  PROVE  \A u \in Workers : u = t
  BY DEF OneWorker

\* FileErrno is the first of the errors that apply.
LEMMA FirstErrno ==
  ASSUME NEW f, NEW owners, OWNER_NEXIST \notin owners
  PROVE  FileErrno(f, owners) =
           IF ~is_existing_file(f) THEN "ENOENT"
           ELSE IF f.owner \notin owners THEN "EAGAIN"
           ELSE IF ~is_open_file(f) THEN "EPERM" ELSE "EEXIST"
<1>1. CASE ~is_existing_file(f)
  BY <1>1 DEF FileErrno, is_existing_file
<1>2. CASE is_existing_file(f) /\ f.owner \notin owners
  BY <1>2 DEF FileErrno
<1>3. CASE is_existing_file(f) /\ f.owner \in owners /\ ~is_open_file(f)
  BY <1>3 DEF FileErrno
<1>4. CASE is_existing_file(f) /\ f.owner \in owners /\ is_open_file(f)
  BY <1>4 DEF FileErrno
<1>5. QED
  BY <1>1, <1>2, <1>3, <1>4

\* With one worker, no other client's file is closed under its lock.
LEMMA LockedOpen ==
  ASSUME OneWorker, IInv, NEW t \in Workers, thr[t].pc \notin {"count_file", "create_open"},
         NEW i \in Slots, files[i].owner \in Conns
  PROVE  is_open_file(files[i])
  BY DEF OneWorker, IInv, LockedFilesOpen, Creating

\* The flag of an operation that fails is one its call tests for.
LEMMA FailureUnderstood ==
  ASSUME OneWorker, IInv, StepsFit, NEW t \in Workers,
         thr[t].pc \in SimplePcs \union {"remove_file", "apply"}, ~CallSucceeds(t),
         At(t, "apply") => Req(t).size # 0
  PROVE  ErrorFlag(t) \in Understood[Req(t).op]
<1> DEFINE f == fslot(t)
           op == Req(t).op
<1>1. /\ thr[t].fex \in Slots /\ f = files[thr[t].fex]
      /\ Conn(t) \in Conns /\ Conn(t) \notin SpecialOwners
      /\ OpenOwner(t) \in {OWNER_NULL, Conn(t)}
  BY NextSlot, BusyConn DEF IInv, BaseInv, fslot, SimplePcs
<1>9. /\ Conn(t) # OWNER_NULL
      /\ OWNER_NEXIST \notin {Conn(t)} /\ OWNER_NEXIST \notin {OWNER_NULL, Conn(t)}
  BY <1>1, OwnerAssumption DEF SpecialOwners
<1> HIDE DEF f
<1>2. CASE At(t, "open_file")
  <2>1. op = "OPEN_FILE" /\ ~CanOpen(f, OpenOwner(t))
    BY <1>2, OpAt DEF f, CallSucceeds, At
  <2>2. FileErrno(f, {OWNER_NULL, OpenOwner(t)}) \in {"ENOENT", "EAGAIN"}
    BY <1>1, <2>1, <1>9, FirstErrno DEF CanOpen, Accessible
  <2>3. QED
    BY <2>1, <2>2 DEF f, ErrorFlag, AllowedOwners, Understood, PutOps
<1>3. CASE At(t, "close_file")
  <2>1. op = "CLOSE_FILE" /\ ~CanClose(f, Conn(t))
    BY <1>3, OpAt DEF f, CallSucceeds, At
  <2>2. FileErrno(f, {OWNER_NULL, Conn(t)}) \in {"ENOENT", "EAGAIN"}
    BY <2>1, <1>9, FirstErrno DEF CanClose, Accessible
  <2>3. QED
    BY <2>1, <2>2 DEF f, ErrorFlag, AllowedOwners, Understood, PutOps
<1>4. CASE thr[t].pc \in {"read_file", "lock_file"}
  <2>1. /\ op \in {"READ_FILE", "LOCK_FILE"}
        /\ ~(Accessible(f, Conn(t)) /\ is_open_file(f))
    BY <1>4, OpAt DEF f, CallSucceeds, CanRead, CanLock
  <2>2. FileErrno(f, {OWNER_NULL, Conn(t)}) \in {"ENOENT", "EAGAIN", "EPERM"}
    BY <2>1, <1>9, FirstErrno DEF Accessible
  <2>3. QED
    BY <2>1, <2>2 DEF f, ErrorFlag, AllowedOwners, Understood, PutOps
<1>5. CASE At(t, "unlock_file")
  <2>1. op = "UNLOCK_FILE" /\ ~CanUnlock(f, Conn(t))
    BY <1>5, OpAt DEF f, CallSucceeds, At
  <2>2. FileErrno(f, {Conn(t)}) \in {"ENOENT", "EAGAIN", "EPERM"}
    BY <2>1, <1>9, FirstErrno DEF CanUnlock, is_locked_file
  <2>3. QED
    BY <2>1, <2>2 DEF f, ErrorFlag, AllowedOwners, Understood, PutOps
<1>6. CASE At(t, "remove_file")
  <2>1. op = "REMOVE_FILE" /\ ~CanRemove(f, Conn(t))
    BY <1>6, OpAt DEF f, CallSucceeds, At, RemovePcs
  <2>2. FileErrno(f, {Conn(t)}) \in {"ENOENT", "EAGAIN"}
    BY <1>1, <2>1, <1>9, FirstErrno DEF CanRemove, is_locked_file, SpecialOwners
  <2>3. QED
    BY <2>1, <2>2 DEF f, ErrorFlag, AllowedOwners, Understood, PutOps
<1>7. CASE At(t, "apply")
  <2>1. op \in PutOps /\ ~CanApply(t)
    BY <1>7, OpAt DEF f, CallSucceeds, At, RoomPcs, WritePcs
  <2>2. CASE op = "WRITE_FILE"
    <3>1. FileErrno(f, {Conn(t)}) \in {"ENOENT", "EAGAIN", "EPERM", "EEXIST"}
      BY <1>9, FirstErrno
    <3>2. QED
      BY <2>2, <3>1 DEF f, ErrorFlag, AllowedOwners, Understood, PutOps
  <2>3. CASE op = "APPEND_FILE"
    <3>1. FileErrno(f, {OWNER_NULL, Conn(t)}) \in {"ENOENT", "EAGAIN", "EPERM"}
      BY <1>7, <2>1, <2>3, <1>9, FirstErrno DEF f, CanApply, CanAppend, Accessible
    <3>2. QED
      BY <2>3, <3>1 DEF f, ErrorFlag, AllowedOwners, Understood, PutOps
  <2>4. QED
    BY <2>1, <2>2, <2>3 DEF PutOps
<1>8. QED
  BY <1>2, <1>3, <1>4, <1>5, <1>6, <1>7 DEF SimplePcs, At

\* Making room, reserving and applying: an operation that fails is followed by
\* the release of its reservation.
LEMMA WriteEnds ==
  ASSUME IInv, NEW t \in Workers, HandlerStep(t), thr[t].pc \in RoomPcs
  PROVE  /\ thr'[t].pc \in {"idle", "failed"} => thr[t].pc \in {"apply", "release"}
         /\ thr'[t].pc = "release" => At(t, "apply")
         /\ At(t, "apply") => IF CallSucceeds(t) THEN thr'[t].pc = "idle"
                              ELSE thr'[t].pc = "release"
<1>1. BaseInv /\ EvictorExclusive /\ VictimOpen
  BY DEF IInv, BaseInv
<1>2. CASE thr[t].pc \in WritePcs
  <2>1. WriteSteps(t)
    BY <1>1, <1>2, WriteAt
  <2>2. At(t, "apply") => (CallSucceeds(t) <=> CanApply(t))
    BY DEF CallSucceeds, At
  <2>3. QED
    BY <1>1, <2>1, <2>2, Moved, IdleType
       DEF WriteSteps, CheckCapacity, Reserve, Apply, Release, Refuse, Abort, Fail, At
<1>3. CASE thr[t].pc \notin WritePcs
  <2>1. EvictFlow(t)
    BY <1>1, <1>3, HandlerFlows
       DEF RoomPcs, PlainFlow, EvictingPcs, EvictPickPcs, EvictHoldPcs
  <2>2. QED
    BY <1>3, <2>1 DEF EvictFlow, EvictingPcs, EvictPickPcs, EvictHoldPcs, WritePcs, At
<1>4. QED
  BY <1>2, <1>3

\* The last step of a handler that succeeds or fails with an errno says which,
\* in a flag that its call tests for.
LEMMA EndUnderstood ==
  ASSUME OneWorker, IInv, StepsFit, NEW t \in Workers, HandlerStep(t),
         thr'[t].pc = "idle", thr[t].pc \notin {"failed", "close_book", "remove_book", "release"},
         Req(t).op # "CLOSE_CONN", ~TooBig(Req(t))
  PROVE  "OP_SUCC" \in FlagsOfStep(t) \/ FlagsOfStep(t) \intersect Understood[Req(t).op] # {}
<1> DEFINE op == Req(t).op
           F == FlagsOfStep(t)
<1>1. /\ BaseInv /\ EvictorExclusive /\ VictimOpen
      /\ HandlerReturns(t)
  BY DEF IInv, BaseInv, HandlerReturns, At
<1>2. CASE thr[t].pc \in {"get_file", "check_name"}
  <2>1. F = SearchFlags(t) /\ op \in NamedOps
    <3>1. F = SearchFlags(t)
      BY <1>1, <1>2 DEF FlagsOfStep, SimplePcs, ReadNPcs, At
    <3>2. QED
      BY <1>2, <3>1, OpAt DEF ScanPcs
  <2>2. CASE At(t, "check_name") /\ check_file_name(fslot(t), Req(t).name)
    <3>1. CheckName(t)
      BY <1>1, <2>2, ScanAt DEF ScanPcs, FileScan, GetFile, EmptySlot, At
    <3>2. FileFound(t) /\ FirstStep[op] # "idle"
      BY <2>1, <2>2, <3>1 DEF CheckName, check_file_name, NamedOps, FirstStep
    <3>3. Creates(t)
      BY <1>1, <3>2, Moved DEF FileFound
    <3>4. QED
      BY <2>1, <2>2, <3>3 DEF SearchFlags, Creates, Understood
  <2>3. CASE ~(At(t, "check_name") /\ check_file_name(fslot(t), Req(t).name))
    <3>1. F = {"FILE_NEXISTS"}
      BY <2>1, <2>3 DEF SearchFlags
    <3>2. "FILE_NEXISTS" \in Understood[op]
      BY <2>1 DEF Understood, NamedOps
    <3>3. QED
      BY <3>1, <3>2
  <2>4. QED
    BY <2>2, <2>3
<1>3. CASE thr[t].pc \in CreatePcs \union {"empty_slot"}
  <2>1. op = "OPEN_FILE"
    BY <1>3, OpAt
  <2>2. thr[t].pc # "count_file"
    BY <1>1, HandlerFlows
       DEF EvictFlow, EvictingPcs, EvictPickPcs, EvictHoldPcs, PlainFlow, ScanFlow, CreateFlow,
           SimpleFlow, RemoveFlow, WriteFlow, ReadNFlow, CloseConnFlow, ClosingPcs, CloseConnPcs,
           ScanPcs, SimplePcs, RemovePcs, WritePcs, ReadNPcs, At
  <2>3. F \in {{"FILE_ERRMAXFILES"}, {"FILE_EXISTS"}, {"OP_SUCC"}}
    BY <1>1, <1>3, <2>2 DEF FlagsOfStep, CreatePcs, SimplePcs, ReadNPcs, At
  <2>4. QED
    BY <2>1, <2>3 DEF Understood
<1>4. CASE thr[t].pc \in SimplePcs \union {"remove_file", "apply"}
  <2>1. CASE CallSucceeds(t)
    BY <1>4, <2>1 DEF FlagsOfStep, SimplePcs, ReadNPcs, At
  <2>2. CASE ~CallSucceeds(t)
    <3>1. ~At(t, "apply")
      BY <2>2, WriteEnds DEF RoomPcs, WritePcs, At
    <3>2. F = {ErrorFlag(t)}
      BY <1>4, <2>2, <3>1 DEF FlagsOfStep, SimplePcs, ReadNPcs, At
    <3>3. QED
      BY <1>4, <2>2, <3>1, <3>2, FailureUnderstood
  <2>3. QED
    BY <2>1, <2>2
<1>5. CASE At(t, "remove_check")
  <2>1. F = {"FILE_NLOCK"} /\ op = "REMOVE_FILE"
    BY <1>1, <1>5, OpAt DEF FlagsOfStep, SimplePcs, RemovePcs, At
  <2>2. QED
    BY <2>1 DEF Understood
<1>6. CASE thr[t].pc \in ReadNPcs \union {"readn_book"}
  BY <1>1, <1>6 DEF FlagsOfStep, SimplePcs, ReadNPcs, At
<1>7. CASE thr[t].pc \in RoomPcs
  BY <1>4, <1>7, WriteEnds
<1>8. thr[t].pc \notin ClosingPcs
  BY OpAt
<1>9. QED
  <2>1. EvictFlow(t) \/ PlainFlow(t)
    BY <1>1, HandlerFlows
  <2>2. QED
    BY <1>2, <1>3, <1>4, <1>5, <1>6, <1>7, <1>8, <2>1
       DEF EvictFlow, EvictingPcs, RoomPcs, PlainFlow, ScanFlow, CreateFlow, SimpleFlow,
           RemoveFlow, WriteFlow, ReadNFlow, CloseConnFlow, ScanPcs, RemovePcs, At

\* The steps of the handlers that end in one call are taken at their labels.
LEMMA SimpleAt ==
  ASSUME BaseInv, EvictorExclusive, VictimOpen, NEW t \in Workers, HandlerStep(t),
         thr[t].pc \in SimplePcs \union {"close_book"}
  PROVE  SimpleSteps(t)
<1>1. ~FileScan(t) /\ ~CreateSteps(t) /\ ~RemoveSteps(t)
  BY ScanFlows, CreateFlows, RemoveFlows
     DEF ScanFlow, CreateFlow, RemoveFlow, ScanPcs, CreatePcs, SimplePcs, RemovePcs
<1>2. ~WriteSteps(t) /\ ~EvictSteps(t) /\ ~ReadNSteps(t)
  BY WriteFlows, EvictFlows, ReadNFlows
     DEF WriteFlow, WritePcs, EvictFlow, EvictingPcs, EvictPickPcs, EvictHoldPcs, ReadNFlow,
         ReadNPcs, SimplePcs
<1>3. ~CloseConnSteps(t) /\ ~HandlerFailed(t)
  BY CloseConnFlows
     DEF CloseConnFlow, ClosingPcs, CloseConnPcs, HandlerFailed, SimplePcs, At
<1>4. QED
  BY <1>1, <1>2, <1>3 DEF HandlerStep

\* When a handler has closed or removed its file, the answer says so; when it
\* has to give a reservation back, the answer has the error.
LEMMA BookedTold ==
  ASSUME OneWorker, IInv, StepsFit, NEW t \in Workers, HandlerStep(t)
  PROVE  /\ thr'[t].pc \in {"close_book", "remove_book"} => "OP_SUCC" \in FlagsOfStep(t)
         /\ thr'[t].pc = "release" /\ Req(t).size # 0
              => FlagsOfStep(t) \intersect Understood[Req(t).op] # {}
<1>1. /\ BaseInv /\ EvictorExclusive /\ VictimOpen
      /\ EvictFlow(t) \/ PlainFlow(t)
  BY HandlerFlows DEF IInv, BaseInv
<1>2. ASSUME thr'[t].pc = "close_book" PROVE "OP_SUCC" \in FlagsOfStep(t)
  <2>1. SimpleFlow(t)
    BY <1>1, <1>2, IdleType
       DEF EvictFlow, EvictingPcs, EvictPickPcs, EvictHoldPcs, PlainFlow, ScanFlow, SlotPcs,
           SimplePcs, CreateFlow, RemoveFlow, WriteFlow, ReadNFlow, CloseConnFlow, ScanPcs,
           WritePcs, ReadNPcs
  <2>2. SimpleSteps(t)
    BY <1>1, <2>1, SimpleAt DEF SimpleFlow
  <2>3. At(t, "close_file") /\ CanClose(fslot(t), Conn(t))
    BY <1>1, <1>2, <2>2, Moved, IdleType DEF SimpleSteps, OpenFile, CloseFile, CloseSlot, CloseBook,
       ReadFile, LockFile, UnlockFile
  <2>4. QED
    BY <2>3 DEF FlagsOfStep, CallSucceeds, SimplePcs, ReadNPcs, At
<1>3. ASSUME thr'[t].pc = "remove_book" PROVE "OP_SUCC" \in FlagsOfStep(t)
  <2>1. RemoveFlow(t)
    BY <1>1, <1>3, IdleType
       DEF EvictFlow, EvictingPcs, EvictPickPcs, EvictHoldPcs, PlainFlow, ScanFlow, SlotPcs,
           SimplePcs, CreateFlow, SimpleFlow, WriteFlow, ReadNFlow, CloseConnFlow, ScanPcs,
           WritePcs, ReadNPcs
  <2>2. RemoveSteps(t)
    <3>1. thr[t].pc \in RemovePcs \union {"remove_book"}
      BY <2>1 DEF RemoveFlow
    <3>2. ~FileScan(t) /\ ~CreateSteps(t) /\ ~SimpleSteps(t)
      BY <1>1, <3>1, ScanFlows, CreateFlows, SimpleFlows
         DEF ScanFlow, CreateFlow, SimpleFlow, ScanPcs, CreatePcs, SimplePcs, RemovePcs
    <3>3. ~WriteSteps(t) /\ ~EvictSteps(t) /\ ~ReadNSteps(t)
      BY <1>1, <3>1, WriteFlows, EvictFlows, ReadNFlows
         DEF WriteFlow, WritePcs, EvictFlow, EvictingPcs, EvictPickPcs, EvictHoldPcs, ReadNFlow,
             ReadNPcs, RemovePcs
    <3>4. ~CloseConnSteps(t) /\ ~HandlerFailed(t)
      BY <1>1, <3>1, CloseConnFlows
         DEF CloseConnFlow, ClosingPcs, CloseConnPcs, HandlerFailed, RemovePcs, At
    <3>5. QED
      BY <3>2, <3>3, <3>4 DEF HandlerStep
  <2>3. At(t, "remove_file") /\ CanRemove(fslot(t), Conn(t))
    BY <1>1, <1>3, <2>2, Moved, IdleType DEF RemoveSteps, RemoveCheck, RemoveFile, RemoveBook
  <2>4. QED
    BY <2>3 DEF FlagsOfStep, CallSucceeds, SimplePcs, ReadNPcs, At
<1>4. ASSUME thr'[t].pc = "release", Req(t).size # 0
      PROVE  FlagsOfStep(t) \intersect Understood[Req(t).op] # {}
  <2>1. thr[t].pc \in RoomPcs
    BY <1>1, <1>4, IdleType
       DEF RoomPcs, EvictFlow, EvictingPcs, EvictPickPcs, EvictHoldPcs, PlainFlow, ScanFlow, SlotPcs,
           SimplePcs, CreateFlow, SimpleFlow, RemoveFlow, WriteFlow, ReadNFlow, CloseConnFlow,
           ScanPcs, ReadNPcs
  <2>2. At(t, "apply") /\ ~CallSucceeds(t)
    BY <1>4, <2>1, WriteEnds
  <2>3. FlagsOfStep(t) = {ErrorFlag(t)}
    BY <1>4, <2>2 DEF FlagsOfStep, SimplePcs, ReadNPcs, At
  <2>4. QED
    BY <1>4, <2>2, <2>3, FailureUnderstood DEF At
<1>5. QED
  BY <1>2, <1>3, <1>4

\* Who asks for a lock is told of success by the last step only.
LEMMA LockTold ==
  ASSUME OneWorker, IInv, StepsFit, NEW t \in Workers, HandlerStep(t), TakesLock(Req(t)),
         "OP_SUCC" \in FlagsOfStep(t)
  PROVE  /\ thr'[t].pc = "idle"
         /\ At(t, "create_open") \/ (thr[t].pc \in {"open_file", "lock_file"} /\ CallSucceeds(t))
<1>1. /\ BaseInv /\ EvictorExclusive /\ VictimOpen
      /\ EvictFlow(t) \/ PlainFlow(t)
  BY HandlerFlows DEF IInv, BaseInv
<1>2. Req(t).op \in {"OPEN_FILE", "LOCK_FILE"}
  BY DEF TakesLock
<1>3. thr[t].pc \notin {"close_file", "read_file", "unlock_file", "remove_file", "apply",
                       "readn_book"} \union ReadNPcs
  BY <1>2, OpAt DEF RemovePcs, RoomPcs, WritePcs, PutOps
<1>4. CASE thr[t].pc \in {"open_file", "lock_file"}
  <2>1. CallSucceeds(t)
    <3>1. "OP_SUCC" # ErrorFlag(t)
      BY ErrorFlagTyped
    <3>2. QED
      BY <1>4, <3>1 DEF FlagsOfStep, SimplePcs, ReadNPcs, At
  <2>2. thr'[t].pc \in {"idle", "close_book"}
    BY <1>1, <1>4, IdleType
       DEF EvictFlow, EvictingPcs, EvictPickPcs, EvictHoldPcs, PlainFlow, ScanFlow,
           CreateFlow, CreatePcs, SimpleFlow, RemoveFlow, RemovePcs, WriteFlow, ReadNFlow,
           CloseConnFlow, ClosingPcs, CloseConnPcs, ScanPcs, WritePcs, ReadNPcs, At
  <2>3. thr'[t].pc # "close_book"
    <3>1. IInv' /\ StepsFit'
      BY HandlerInv, StepsFitStep
    <3>2. ASSUME thr'[t].pc = "close_book" PROVE FALSE
      <4>1. Req(t)' = Req(t)
        BY <1>1, <3>2, OthersKeep, IdleType
      <4>2. \A s \in {"OPEN_FILE", "LOCK_FILE"} : "close_book" \notin StepsOf[s]
        BY DEF StepsOf, Search, ScanPcs, CreatePcs
      <4>3. QED
        BY <1>2, <3>1, <3>2, <4>1, <4>2 DEF StepsFit
    <3>3. QED
      BY <3>2
  <2>4. QED
    BY <1>4, <2>1, <2>2, <2>3
<1>5. CASE thr[t].pc \notin {"open_file", "lock_file"}
  <2>1. "OP_SUCC" \notin SearchFlags(t)
    BY DEF SearchFlags
  <2>2. At(t, "create_open") /\ HandlerReturns(t)
    BY <1>3, <1>5, <2>1 DEF FlagsOfStep, SimplePcs, At
  <2>3. QED
    BY <2>2 DEF HandlerReturns
<1>6. QED
  BY <1>4, <1>5

\* What an answer that means nothing to the call comes from.
LEMMA AnswerBad ==
  ASSUME NEW r \in Requests \union {NoRequest}, NEW reply \in SUBSET Flags,
         Answer(r, reply).res = "EBADMSG"
  PROVE  /\ Answer(r, reply).req = r
         /\ r.op # "CLOSE_CONN" /\ "OP_SUCC" \notin reply
         /\ reply \intersect Understood[r.op] = {}
<1>1. Outcome(r.op, reply) = "EBADMSG"
  BY DEF Answer
<1>2. /\ r.op # "CLOSE_CONN" /\ "OP_SUCC" \notin reply
      /\ reply \intersect Understood[r.op] = {}
  BY <1>1 DEF Outcome
<1>3. QED
  BY <1>1, <1>2 DEF Answer

\* A step of the handler of c's request keeps AnswerInv.
LEMMA WorkAnswer ==
  ASSUME OneWorker, IInv, ClientTypeOK, StepsFit, AnswerInv, NoHandlerFails',
         NEW t \in Workers, Work(t)
  PROVE  AnswerInv'
<1>1. /\ BaseInv /\ EvictorExclusive /\ VictimOpen /\ HandlerStep(t)
      /\ thr[t] \in ThreadType /\ call \in [Conns -> CallType]
      /\ ServerAlive /\ \A u \in Workers : u = t
  BY DEF IInv, BaseInv, TypeOK, ClientTypeOK, Work, WorkerStep, OneWorker
<1>2. /\ thr[t].pc # "idle" /\ Conn(t) \in Conns
      /\ thr[t].req \in Requests \union {NoRequest}
  BY <1>1, HandlerBusy, BusyConn DEF ThreadType
<1> PICK c \in Conns : c = Conn(t)
  BY <1>2
<1> PICK r \in Requests \union {NoRequest} : r = Req(t)
  BY <1>2 DEF Req
<1>3. call[c].reply \union FlagsOfStep(t) \in SUBSET Flags
  BY <1>1, FlagsTyped DEF CallType
<1> PICK reply \in SUBSET Flags : reply = call[c].reply \union FlagsOfStep(t)
  BY <1>3
<1>4. thr'[t] = IdleThread \/ (Conn(t)' = c /\ Req(t)' = r)
  BY <1>1, OthersKeep
<1>5. /\ armed' = armed
      /\ \A d \in Conns : d # c => call'[d] = call[d]
      /\ call'[c] = IF WritesAnswer(t) THEN Answer(r, reply)
                    ELSE [call[c] EXCEPT !.reply = reply]
  BY <1>1, <1>2 DEF Work
<1>6. AnswerSoFar(t)
  BY DEF AnswerInv
<1>7. AnswerSoFar(t)'
  <2>1. CASE thr'[t].pc \in {"idle", "failed", "aborted"}
    BY <2>1 DEF AnswerSoFar, At
  <2>2. CASE thr'[t].pc = "cconn_remove"
    <3>1. IInv' /\ StepsFit'
      BY <1>1, HandlerInv, StepsFitStep
    <3>2. "cconn_remove" \in ClosingPcs
      BY DEF ClosingPcs, CloseConnPcs
    <3>3. Req(t)'.op = "CLOSE_CONN"
      <4>1. \A s \in Ops : "cconn_remove" \in StepsOf[s] => s = "CLOSE_CONN"
        BY DEF Ops, NamedOps, StepsOf, Search, ScanPcs, CreatePcs, RemovePcs, RoomPcs, WritePcs,
           EvictPickPcs, EvictHoldPcs, ReadNPcs
      <4>2. Req(t)' = r /\ r.op \in Ops
        BY <1>4, <2>2, RequestAssumption, IdleType DEF NoRequest, Ops, RequestType
      <4>3. QED
        BY <2>2, <3>1, <4>1, <4>2 DEF StepsFit
    <3>4. QED
      BY <2>2, <3>3 DEF AnswerSoFar, TakesLock, At
  <2>3. CASE thr'[t].pc \notin {"idle", "failed", "aborted", "cconn_remove"}
    <3>1. Conn(t)' = c /\ Req(t)' = r /\ thr[t].pc # "failed"
      <4>1. ~HandlerFailed(t)
        BY <1>1, <2>3, Moved, IdleType DEF HandlerFailed
      <4>2. ~CConnRemove(t)
        BY <1>1, <2>3, Moved, IdleType DEF CConnRemove
      <4>3. QED
        BY <1>1, <1>4, <2>3, <4>1, <4>2, IdleType, LastSteps DEF IInv
    <3>2. call'[c].reply = reply
      <4>1. ~WritesAnswer(t)
        BY <2>3 DEF WritesAnswer
      <4>2. QED
        BY <1>1, <1>5, <4>1 DEF CallType
    <3>3. thr'[t].pc \in {"close_book", "remove_book"} => "OP_SUCC" \in reply
      BY <1>1, BookedTold
    <3>4. thr'[t].pc = "release" => r.size = 0 \/ reply \intersect Understood[r.op] # {}
      BY <1>1, BookedTold
    <3>5. TakesLock(r) => "OP_SUCC" \notin reply
      BY <1>1, <1>2, <1>6, <2>3, <3>1, LockTold DEF AnswerSoFar, ServerAlive, At
    <3>6. QED
      BY <3>1, <3>2, <3>3, <3>4, <3>5 DEF AnswerSoFar, At
  <2>4. QED
    BY <2>1, <2>2, <2>3
<1>8. AnswersUnderstood'
  <2> SUFFICES ASSUME NEW d \in Conns, call'[d].res = "EBADMSG"
               PROVE  LET q == call'[d].req IN
                      \/ TooBig(q)
                      \/ q.op = "WRITE_FILE" /\ q.size = 0
                      \/ q.op = "WRITE_FILE" /\ armed'[d] # q.name
    BY DEF AnswersUnderstood, TooBig
  <2>1. CASE d # c \/ ~WritesAnswer(t)
    <3>1. call'[d].res = call[d].res /\ call'[d].req = call[d].req
      BY <1>1, <1>5, <2>1 DEF CallType
    <3>2. QED
      BY <1>5, <3>1 DEF AnswerInv, AnswersUnderstood
  <2>2. CASE d = c /\ WritesAnswer(t)
    <3>1. /\ call'[d].req = r
          /\ r.op # "CLOSE_CONN" /\ "OP_SUCC" \notin reply
          /\ reply \intersect Understood[r.op] = {}
      BY <1>5, <2>2, AnswerBad
    <3>2. thr'[t].pc \in {"idle", "failed"} /\ thr[t].pc # "failed"
      BY <2>2, <3>1 DEF WritesAnswer, At
    <3>3. CASE thr'[t].pc = "failed"
      BY <1>4, <3>1, <3>3, IdleType DEF NoHandlerFails, At
    <3>4. CASE thr[t].pc \in {"close_book", "remove_book"}
      BY <1>6, <3>1, <3>4 DEF AnswerSoFar
    <3>5. CASE thr[t].pc = "release" /\ thr'[t].pc = "idle"
      <4>1. r.size = 0
        BY <1>6, <3>1, <3>5 DEF AnswerSoFar, At
      <4>2. WriteSteps(t)
        BY <1>1, <3>5, WriteAt DEF WritePcs
      <4>3. Release(t)
        BY <3>5, <4>2 DEF WriteSteps, CheckCapacity, Reserve, Apply, At
      <4>4. thr'[t].pc # "idle"
        BY <1>1, <4>1, <4>3, Moved DEF Release, Refuse, Fail, Abort
      <4>5. QED
        BY <3>5, <4>4
    <3>6. CASE /\ thr'[t].pc = "idle"
               /\ thr[t].pc \notin {"failed", "close_book", "remove_book", "release"}
      BY <1>1, <3>1, <3>6, EndUnderstood
    <3>7. QED
      BY <3>2, <3>3, <3>4, <3>5, <3>6
  <2>3. QED
    BY <2>1, <2>2
<1>9. QED
  BY <1>1, <1>7, <1>8 DEF AnswerInv

\* So does every other step.
LEMMA ClientAnswer ==
  ASSUME OneWorker, IInv, GateInv, AnswerInv,
         \/ \E c \in Conns :
               openConnection(c) \/ Return(c) \/ CallFails(c)
         \/ \E t \in Workers, c \in Conns : Serve(t, c) \/ RefuseWrite(t, c)
         \/ UNCHANGED cvars
  PROVE  AnswerInv'
<1>1. call \in [Conns -> CallType] /\ armed \in [Conns -> Names \union {NoName}]
  BY DEF GateInv, ClientTypeOK
<1>2. ASSUME NEW c \in Conns, St(c, "served") => ~ServerAlive, thr' = thr,
             \A d \in Conns : d # c => call'[d] = call[d] /\ armed'[d] = armed[d],
             call'[c].res = "EBADMSG" => LET r == call'[c].req IN
                                         r.op = "WRITE_FILE" /\ armed'[c] # r.name
      PROVE  AnswerInv'
  <2>1. AnswersUnderstood'
    <3> SUFFICES ASSUME NEW d \in Conns, call'[d].res = "EBADMSG"
                 PROVE  LET q == call'[d].req IN
                        \/ TooBig(q)
                        \/ q.op = "WRITE_FILE" /\ q.size = 0
                        \/ q.op = "WRITE_FILE" /\ armed'[d] # q.name
      BY DEF AnswersUnderstood, TooBig
    <3>1. CASE d = c
      BY <1>2, <3>1
    <3>2. CASE d # c
      BY <1>2, <3>2 DEF AnswerInv, AnswersUnderstood
    <3>3. QED
      BY <3>1, <3>2
  <2>2. ASSUME NEW t \in Workers PROVE AnswerSoFar(t)'
    <3>1. CASE thr[t].pc \in {"idle", "failed", "aborted"}
      BY <1>2, <3>1 DEF AnswerSoFar, At
    <3>2. CASE thr[t].pc = "cconn_remove"
      <4>1. Req(t).op = "CLOSE_CONN"
        BY <3>2 DEF GateInv, ClosePath, CloseConnPcs
      <4>2. QED
        BY <1>2, <3>2, <4>1 DEF AnswerSoFar, Req, TakesLock, At
    <3>3. CASE thr[t].pc \notin {"idle", "failed", "aborted", "cconn_remove"}
      <4> ServerAlive
        BY <3>3, OnlyWorker DEF ServerAlive, At
      <4>1. St(Conn(t), "served") /\ Conn(t) \in Conns
        BY <3>3, BusyConn DEF GateInv, Serving, IInv, BaseInv
      <4>2. call'[Conn(t)] = call[Conn(t)] /\ Conn(t)' = Conn(t) /\ Req(t)' = Req(t)
        BY <1>2, <4>1 DEF Conn, Req
      <4>3. QED
        BY <1>2, <4>2 DEF AnswerInv, AnswerSoFar, At
    <3>4. QED
      BY <3>1, <3>2, <3>3
  <2>3. QED
    BY <2>1, <2>2 DEF AnswerInv
<1>3. ASSUME NEW c \in Conns, openConnection(c) \/ CallFails(c)
      PROVE  AnswerInv'
  <2>1. /\ St(c, "served") => ~ServerAlive
        /\ thr' = thr
        /\ \A d \in Conns : d # c => call'[d] = call[d] /\ armed'[d] = armed[d]
        /\ call'[c].res = "none"
    BY <1>1, <1>3 DEF openConnection, AddClient, CallFails, NobodyThere, NoCall, St, vars
  <2>2. QED
    BY <1>2, <2>1
<1>4. ASSUME NEW c \in Conns, Return(c) PROVE AnswerInv'
  <2>1. /\ ~St(c, "served") /\ thr' = thr
        /\ \A d \in Conns : d # c => call'[d] = call[d] /\ armed'[d] = armed[d]
    BY <1>1, <1>4 DEF Return, SetCall, St, vars
  <2>2. call'[c].res \in {"again", "none"}
    BY <1>1, <1>4 DEF Return, SetCall, NoCall, CallType
  <2>3. QED
    BY <1>2, <2>1, <2>2
<1>5. ASSUME NEW t \in Workers, NEW c \in Conns, RefuseWrite(t, c) PROVE AnswerInv'
  <2>1. PICK r \in Requests : /\ r.op = "WRITE_FILE" /\ lastop[c] # r.name
                              /\ call' = [call EXCEPT ![c] = Answer(r, {})]
    BY <1>5 DEF RefuseWrite
  <2>2. /\ ~St(c, "served") /\ thr' = thr /\ armed' = armed
        /\ \A d \in Conns : d # c => call'[d] = call[d]
        /\ call'[c] = Answer(r, {})
    BY <1>1, <1>5, <2>1 DEF RefuseWrite, St, vars
  <2>3. call'[c].res = "EBADMSG" /\ call'[c].req = r
    BY <2>1, <2>2 DEF Answer, Outcome
  <2>4. lastop[c] = armed[c]
    BY <1>5 DEF RefuseWrite, GateInv, GateAgrees, St
  <2>5. QED
    BY <1>2, <2>1, <2>2, <2>3, <2>4
<1>6. ASSUME NEW t \in Workers, NEW c \in Conns, Serve(t, c) PROVE AnswerInv'
  <2>1. /\ Receive(t) /\ thr'[t].conn = c /\ armed' = armed
        /\ \A d \in Conns : d # c => call'[d] = call[d]
        /\ call'[c].reply = {} /\ call'[c].res = "none"
    BY <1>1, <1>6 DEF Serve, NoCall
  <2>2. /\ \A u \in Workers : u = t
        /\ thr'[t].pc \in {"get_file", "readn_wasclosed", "cconn_check"}
    BY <2>1, ReceiveStarts, StartsAccounting DEF IInv, BaseInv, OneWorker
  <2>3. \A u \in Workers : AnswerSoFar(u)'
    BY <2>1, <2>2 DEF AnswerSoFar, Conn, At
  <2>4. AnswersUnderstood'
    BY <2>1 DEF AnswerInv, AnswersUnderstood
  <2>5. QED
    BY <2>3, <2>4 DEF AnswerInv
<1>7. CASE UNCHANGED cvars
  BY <1>7 DEF cvars, vars, clientvars, AnswerInv, AnswersUnderstood, AnswerSoFar, Conn, Req, At
<1>8. QED
  BY <1>3, <1>4, <1>5, <1>6, <1>7

\* What the server knows of the requests, for the clients' server.
LEMMA ServerInvariance ==
  ASSUME OneWorker
  PROVE  ClientSpec => [](IInv /\ GateInv /\ FreshInv /\ StepsFit /\ FoundSlot)
<1>1. ClientInit => Init
  BY DEF ClientInit
<1>2. [ClientNext]_cvars => [Next]_vars
  BY ClientNextRefines
<1>3. QED
  BY <1>1, <1>2, FoundInvariance, GateInvariance, PTL DEF ClientSpec, Spec

\* AnswerInv holds all along.
LEMMA AnswerInvariance ==
  ASSUME OneWorker
  PROVE  ClientSpec => []AnswerInv
<1> DEFINE Known == IInv /\ GateInv /\ FreshInv /\ StepsFit /\ FoundSlot
<1>1. ClientInit => AnswerInv
  BY IdleType DEF ClientInit, Init, AnswerInv, AnswersUnderstood, AnswerSoFar, NoCall, At
<1>2. Known /\ Known' /\ AnswerInv /\ [ClientNext]_cvars => AnswerInv'
  <2> SUFFICES ASSUME Known, Known', AnswerInv, [ClientNext]_cvars PROVE AnswerInv'
    OBVIOUS
  <2>1. ASSUME NEW t \in Workers, Work(t) PROVE AnswerInv'
    BY <2>1, WorkAnswer DEF GateInv, FreshInv
  <2>2. QED
    BY <2>1, ClientAnswer DEF ClientNext
<1>3. QED
  BY <1>1, <1>2, ServerInvariance, PTL DEF ClientSpec

\* The contents of the answers add nothing to the steps.
LEMMA RepliesImplementClients == ReplySpec => ClientSpec
<1>1. ReplyInit => ClientInit
  BY DEF ReplyInit
<1>2. [ReplyNext]_rvars => [ClientNext]_cvars
  BY ReplyNextRefines
<1>3. QED
  BY <1>1, <1>2, PTL DEF ReplySpec, ClientSpec

\* One worker thread: a call that fails learns why from its answer; EBADMSG is
\* left for what the server answers without a flag.
THEOREM AnswersAlwaysUnderstood ==
  ASSUME OneWorker
  PROVE  ReplySpec => []AnswersUnderstood
<1>1. AnswerInv => AnswersUnderstood
  BY DEF AnswerInv
<1>2. QED
  BY <1>1, AnswerInvariance, RepliesImplementClients, PTL

----------------------------------------------------------------------------
(* The locks clients count on: BeliefInv is inductive with one worker.     *)

\* The operations that give up the lock of a file.
GivingPcs == {"close_file", "unlock_file", "remove_file", "readn_close", "cconn_close"}

\* A file a client has locked stays its own but for an eviction, and for the
\* operations of that client that give a lock up.
LEMMA KeepsOwn ==
  ASSUME BaseInv, NEW t \in Workers, HandlerStep(t), thr[t].pc \notin GivingPcs,
         files[thr[t].fex].owner = Conn(t), PlainFlow(t), files' # files
  PROVE  files'[thr[t].fex].owner = Conn(t)
<1> DEFINE i == thr[t].fex
           f == files[i]
           c == Conn(t)
<1>1. /\ i \in Slots /\ f \in FileType /\ fslot(t) = f /\ f.owner = c
      /\ c # OWNER_NULL /\ c # OWNER_NEXIST
      /\ \A g : SetFile(i, g) => files'[i] = g
  BY NextSlot, BusyConn, HandlerBusy, OwnerAssumption
     DEF BaseInv, TypeOK, fslot, SetFile, SpecialOwners
<1> HIDE DEF i, f, c
<1>2. \A w : CanOpen(f, w) => open_file(f, w).owner = c
  BY <1>1 DEF CanOpen, Accessible, open_file, FileType
<1>3. ~FileScan(t)
  BY DEF FileScan, GetFile, CheckName, EmptySlot
<1>4. CASE CreateSteps(t)
  <2>1. ~CreateFile(t)
    BY <1>1 DEF CreateFile, is_existing_file
  <2>2. CreateOpen(t)
    BY <1>4, <2>1 DEF CreateSteps, CountFile
  <2>3. QED
    BY <1>1, <1>2, <2>2 DEF CreateOpen, i, f, c
<1>5. CASE SimpleSteps(t)
  <2>1. OpenFile(t) \/ LockFile(t)
    BY <1>5 DEF SimpleSteps, CloseFile, CloseBook, ReadFile, UnlockFile, GivingPcs, At
  <2>2. CASE OpenFile(t)
    BY <1>1, <1>2, <2>2 DEF OpenFile, i, f, c
  <2>3. CASE LockFile(t)
    BY <1>1, <2>3 DEF LockFile, lock_file, FileType, i, f, c
  <2>4. QED
    BY <2>1, <2>2, <2>3
<1>6. ~RemoveSteps(t)
  BY DEF RemoveSteps, RemoveCheck, RemoveFile, RemoveBook, GivingPcs, At
<1>7. CASE WriteSteps(t)
  <2>1. Apply(t)
    BY <1>7 DEF WriteSteps, CheckCapacity, Reserve, Release, Refuse
  <2>2. Applied(t).owner = c
    BY <1>1 DEF Applied, write_file, append_file, FileType, f, i
  <2>3. QED
    BY <1>1, <2>1, <2>2 DEF Apply, i, f, c
<1>8. CASE ReadNSteps(t)
  <2>1. ReadNOpen(t)
    BY <1>8 DEF ReadNSteps, ReadNWasClosed, ReadNRead, ReadNClose, ReadNBook, ReadNName, GivingPcs, At
  <2>2. QED
    BY <1>1, <1>2, <2>1 DEF ReadNOpen, i, f, c
<1>9. ~CloseConnSteps(t) /\ ~HandlerFailed(t)
  BY DEF CloseConnSteps, CConnCheck, CConnClose, CConnBook, CConnRemove, HandlerFailed,
         GivingPcs, At
<1>10. ~EvictSteps(t)
  BY DEF PlainFlow, EvictingPcs, EvictPickPcs, EvictHoldPcs, EvictSteps, EvictPick, EvictName,
     EvictSize, EvictUsage, EvictChoose, EvictNone, EvictForce, EvictOpen, EvictRemove, EvictBook, At
<1>11. QED
  BY <1>3, <1>4, <1>5, <1>6, <1>7, <1>8, <1>9, <1>10 DEF HandlerStep, i, c

\* What a step of a handler leaves a client of the files it has locked.
LEMMA OwnedSurvives ==
  ASSUME IInv, NEW t \in Workers, HandlerStep(t), NEW c \in Conns, NEW x \in Names, Owned(c, x)
  PROVE  \/ Owned(c, x)'
         \/ At(t, "evict_force") /\ CanForce(vslot(t)) /\ vslot(t).owner = c /\ vslot(t).name = x
         \/ c = Conn(t) /\ thr[t].pc \in GivingPcs /\ fslot(t).name = x
<1>1. /\ BaseInv /\ EvictorExclusive /\ VictimOpen /\ files \in [Slots -> FileType]
      /\ c # OWNER_NULL /\ c # OWNER_NEXIST /\ c # OWNER_ADMIN
  BY OwnerAssumption DEF IInv, BaseInv, TypeOK, SpecialOwners
<1>2. PICK i \in Slots : files[i].owner = c /\ files[i].name = x
  BY DEF Owned
<1>3. CASE files'[i] = files[i]
  BY <1>2, <1>3 DEF Owned
<1>4. CASE files'[i] # files[i] /\ EvictFlow(t)
  <2>1. i = thr[t].victim /\ (ForcesIn(t, i) \/ EvictsIn(t, i))
    BY <1>1, <1>4 DEF EvictFlow, ChangesOnly
  <2>2. QED
    BY <1>1, <1>2, <2>1 DEF ForcesIn, EvictsIn, CanForce, vslot
<1>5. CASE files'[i] # files[i] /\ PlainFlow(t)
  <2>1. i = thr[t].fex /\ c = Conn(t) /\ (CreatesIn(t, i) \/ UsesIn(t, i))
    BY <1>1, <1>2, <1>5, PlainSlots DEF PlainFlow
  <2>2. CASE thr[t].pc \in GivingPcs
    BY <1>2, <2>1, <2>2 DEF fslot
  <2>3. CASE thr[t].pc \notin GivingPcs
    <3>1. files'[i].owner = c
      BY <1>1, <1>2, <1>5, <2>1, <2>3, KeepsOwn
    <3>2. files'[i].name = x
      BY <1>1, <1>2, <3>1, NamesKept DEF is_existing_file, CreatesIn
    <3>3. QED
      BY <3>1, <3>2 DEF Owned
  <2>4. QED
    BY <2>2, <2>3
<1>6. QED
  BY <1>1, <1>3, <1>4, <1>5, HandlerFlows

\* Who is told of success has the lock it asked for.
LEMMA LockGained ==
  ASSUME OneWorker, IInv, FreshInv, StepsFit, FoundSlot, NEW t \in Workers, HandlerStep(t),
         TakesLock(Req(t)), "OP_SUCC" \in FlagsOfStep(t)
  PROVE  \E i \in Slots : files'[i].owner = Conn(t) /\ files'[i].name = Req(t).name
<1> DEFINE i == thr[t].fex
           f == files[i]
           c == Conn(t)
           x == Req(t).name
<1>1. /\ BaseInv /\ EvictorExclusive /\ VictimOpen
      /\ i \in Slots /\ f \in FileType /\ fslot(t) = f /\ f = files[i]
      /\ \A g : SetFile(i, g) => files'[i] = g
      /\ TakesLock(Req(t)) /\ Req(t).op = "OPEN_FILE" => OpenOwner(t) = c
  BY NextSlot DEF IInv, BaseInv, TypeOK, fslot, SetFile, TakesLock, OpenOwner, Wants
<1>2. /\ thr'[t].pc = "idle"
      /\ At(t, "create_open") \/ (thr[t].pc \in {"open_file", "lock_file"} /\ CallSucceeds(t))
  BY LockTold
<1>3. f.name = x
  <2>1. CASE At(t, "create_open")
    BY <2>1, <1>1, ZenonT(30) DEF FreshInv, SlotUndisturbed, create_file_struct, EmptyFile, At
  <2>2. CASE thr[t].pc \in {"open_file", "lock_file"}
    BY <2>2, <1>1 DEF FoundSlot, SimplePcs, check_file_name
  <2>3. QED
    BY <1>2, <2>1, <2>2
<1>4. /\ \A w : open_file(f, w).owner = w /\ open_file(f, w).name = f.name
      /\ \A w : lock_file(f, w).owner = w /\ lock_file(f, w).name = f.name
  BY <1>1 DEF open_file, lock_file, FileType
<1>5. EvictFlow(t) \/ PlainFlow(t)
  BY <1>1, HandlerFlows
<1>6. CASE At(t, "create_open")
  <2>1. CreateOpen(t) /\ Req(t).op = "OPEN_FILE"
    BY <1>1, <1>6, CreateFlowsAt, OpAt DEF CreatePcs, At
  <2>2. SetFile(i, open_file(f, OpenOwner(t)))
    <3>1. Fail(t) => thr'[t].pc = "failed"
      BY <1>1, Moved DEF Fail
    <3>2. QED
      BY <1>1, <1>2, <2>1, <3>1 DEF CreateOpen
  <2>3. QED
    BY <1>1, <1>3, <1>4, <2>1, <2>2
<1>7. CASE thr[t].pc \in {"open_file", "lock_file"}
  <2>1. SimpleSteps(t)
    BY <1>1, <1>7, SimpleAt DEF SimplePcs
  <2>2. CASE At(t, "open_file")
    <3>1. Req(t).op = "OPEN_FILE" /\ CanOpen(f, OpenOwner(t)) /\ OpenFile(t)
      BY <1>1, <1>2, <2>1, <2>2, OpAt DEF CallSucceeds, SimpleSteps, CloseFile, CloseBook, ReadFile,
         LockFile, UnlockFile, At
    <3>2. QED
      BY <1>1, <1>3, <1>4, <3>1 DEF OpenFile
  <2>3. CASE At(t, "lock_file")
    <3>1. CanLock(f, c) /\ LockFile(t)
      BY <1>1, <1>2, <2>1, <2>3 DEF CallSucceeds, SimpleSteps, CloseFile, CloseBook, ReadFile,
         OpenFile, UnlockFile, At
    <3>2. QED
      BY <1>1, <1>3, <1>4, <3>1 DEF LockFile
  <2>4. QED
    BY <1>7, <2>2, <2>3 DEF At
<1>8. QED
  BY <1>2, <1>6, <1>7

\* What an operation gives up, its client does not count on.
LEMMA GivesUpItsOwn ==
  ASSUME IInv, StepsFit, FoundSlot, NEW t \in Workers, GivesUpNothingHeld(t),
         thr[t].pc \in GivingPcs, NEW x \in Names, x = fslot(t).name
  PROVE  belief[Conn(t)][x] # "held"
<1>1. CASE thr[t].pc \in {"close_file", "unlock_file", "remove_file"}
  <2>1. GivesUpLock(Req(t))
    BY <1>1, OpAt DEF GivesUpLock, RemovePcs
  <2>2. x = Req(t).name
    BY <1>1 DEF FoundSlot, SimplePcs, RemovePcs, check_file_name
  <2>3. QED
    BY <2>1, <2>2 DEF GivesUpNothingHeld
<1>2. CASE At(t, "readn_close")
  BY <1>2 DEF GivesUpNothingHeld
<1>3. CASE At(t, "cconn_close")
  <2>1. Req(t).op = "CLOSE_CONN"
    BY <1>3, OpAt DEF ClosingPcs, CloseConnPcs, At
  <2>2. QED
    BY <1>3, <2>1 DEF GivesUpNothingHeld, At
<1>4. QED
  BY <1>1, <1>2, <1>3 DEF GivingPcs, At

\* A step of a handler takes from no client what it counts on.
LEMMA WorkTold ==
  ASSUME OneWorker, IInv, GateInv, FreshInv, StepsFit, FoundSlot, AnswerInv, BeliefInv,
         NEW t \in Workers, Work(t), NEW d \in Conns, NEW x \in Names, Told(d, x)'
  PROVE  Owned(d, x)'
<1> DEFINE c == Conn(t)
           r == Req(t)
           reply == call[c].reply \union FlagsOfStep(t)
<1>1. /\ HandlerStep(t) /\ thr[t].pc # "idle" /\ c \in Conns
      /\ r \in Requests \union {NoRequest} /\ reply \in SUBSET Flags
      /\ call \in [Conns -> CallType]
      /\ belief \in [Conns -> [Names -> {"none", "held", "expelled"}]]
  <2>1. HandlerStep(t)
    BY DEF Work, WorkerStep
  <2>2. thr[t].pc # "idle" /\ c \in Conns
    BY <2>1, HandlerBusy, BusyConn DEF IInv, BaseInv
  <2>3. call \in [Conns -> CallType]
      /\ belief \in [Conns -> [Names -> {"none", "held", "expelled"}]]
    BY DEF GateInv, ClientTypeOK
  <2>4. reply \in SUBSET Flags
    BY <2>2, <2>3, FlagsTyped DEF CallType
  <2>5. QED
    BY <2>1, <2>2, <2>3, <2>4 DEF IInv, TypeOK, ThreadType, Req
<1>2. /\ belief' = Expels(t)
      /\ \A e \in Conns : e # c => call'[e] = call[e]
      /\ call'[c] = IF WritesAnswer(t) THEN Answer(r, reply) ELSE [call[c] EXCEPT !.reply = reply]
  BY <1>1 DEF Work
<1> HIDE DEF c, r, reply
<1>3. belief'[d][x] # "expelled"
  BY DEF Told
<1>4. ~(At(t, "evict_force") /\ CanForce(vslot(t)) /\ vslot(t).owner = d /\ vslot(t).name = x)
  BY <1>1, <1>2, <1>3 DEF Expels
<1>5. belief[d][x] = belief'[d][x]
  BY <1>1, <1>2, <1>3 DEF Expels
<1>6. CASE Told(d, x)
  <2>1. Owned(d, x)
    BY <1>6 DEF BeliefInv
  <2>2. ASSUME d = c, thr[t].pc \in GivingPcs, fslot(t).name = x PROVE FALSE
    <3>1. belief[d][x] # "held"
      BY <1>1, <2>2, GivesUpItsOwn DEF BeliefInv, At, c
    <3>2. Serving(t)
      BY <1>1, <2>2 DEF GateInv, GivingPcs, Work, WorkerStep
    <3>3. St(d, "served")
      BY <2>2, <3>2 DEF Serving, c
    <3>4. QED
      BY <1>6, <3>1, <3>3 DEF Told, St
  <2>3. QED
    BY <1>1, <1>4, <2>1, <2>2, OwnedSurvives DEF c
<1>7. CASE ~Told(d, x)
  <2>1. /\ call'[d].st = "answered" /\ call'[d].res = "ok"
        /\ TakesLock(call'[d].req) /\ call'[d].req.name = x /\ belief'[d][x] = "none"
    BY <1>5, <1>7 DEF Told, St, TakesLock
  <2>2. d = c /\ WritesAnswer(t)
    <3>1. ASSUME d # c \/ ~WritesAnswer(t) PROVE FALSE
      <4>1. call'[d].st = call[d].st /\ call'[d].res = call[d].res /\ call'[d].req = call[d].req
        BY <1>1, <1>2, <3>1 DEF CallType
      <4>2. QED
        BY <1>5, <1>7, <2>1, <4>1 DEF Told, St
    <3>2. QED
      BY <3>1
  <2>3. /\ call'[c] = Answer(r, reply)
        /\ r.op # "CLOSE_CONN" /\ "OP_SUCC" \in reply
        /\ call'[c].req \in {r, NoRequest}
    BY <1>1, <1>2, <2>1, <2>2, AnswerRead
  <2>4. call'[c].req = r
    BY <2>1, <2>2, <2>3 DEF NoRequest, TakesLock
  <2>5. "OP_SUCC" \notin call[c].reply
    <3>1. thr[t].pc \notin {"idle", "failed", "aborted"}
      BY <1>1, <2>2, <2>3 DEF WritesAnswer, Work, WorkerStep, ServerAlive, At, r
    <3>2. AnswerSoFar(t)
      BY DEF AnswerInv
    <3>3. QED
      BY <2>1, <2>2, <2>4, <3>1, <3>2 DEF AnswerSoFar, c, r
  <2>6. \E i \in Slots : files'[i].owner = c /\ files'[i].name = x
    BY <1>1, <2>1, <2>2, <2>3, <2>4, <2>5, LockGained DEF c, r, reply
  <2>7. QED
    BY <2>2, <2>6 DEF Owned
<1>8. QED
  BY <1>6, <1>7

\* The loop of readN up to a closing: a slot found closed is opened, read and
\* closed again.
LEMMA ReadNFound ==
  ASSUME BaseInv, EvictorExclusive, VictimOpen, NEW t \in Workers, HandlerStep(t)
  PROVE  /\ thr'[t].pc = "readn_open" /\ thr'[t].wasclosed =>
               fslot(t)' = fslot(t) /\ ~is_open_file(fslot(t))
         /\ thr'[t].pc = "readn_read" =>
               /\ At(t, "readn_open") /\ thr'[t].wasclosed = thr[t].wasclosed
               /\ is_existing_file(fslot(t)) /\ fslot(t)'.name = fslot(t).name
         /\ thr'[t].pc = "readn_close" =>
               At(t, "readn_read") /\ thr[t].wasclosed /\ fslot(t)' = fslot(t)
<1>1. /\ thr \in [Workers -> ThreadType] /\ files \in [Slots -> FileType]
      /\ thr[t].fex \in Slots /\ fslot(t) = files[thr[t].fex] /\ fslot(t)' = files'[thr'[t].fex]
  BY NextSlot DEF BaseInv, TypeOK, fslot
<1> DEFINE Found == thr'[t].pc \in {"readn_open", "readn_read", "readn_close"}
<1>2. Found => ReadNSteps(t)
  <2>1. EvictFlow(t) => ~Found
    BY DEF EvictFlow, EvictingPcs, EvictPickPcs, EvictHoldPcs
  <2>2. ScanFlow(t) \/ CreateFlow(t) \/ SimpleFlow(t) \/ RemoveFlow(t) \/ WriteFlow(t) => ~Found
    BY IdleType DEF ScanFlow, SlotPcs, SimplePcs, ScanPcs, CreateFlow, SimpleFlow, RemoveFlow,
       WriteFlow, WritePcs
  <2>3. CloseConnFlow(t) => ~Found
    BY IdleType DEF CloseConnFlow
  <2>4. HandlerFailed(t) => ~Found
    BY Moved, IdleType DEF HandlerFailed
  <2>5. QED
    BY <2>1, <2>2, <2>3, <2>4, ScanFlows, CreateFlows, SimpleFlows, RemoveFlows, WriteFlows,
       EvictFlows, CloseConnFlows DEF HandlerStep
<1>3. \A n : ReadNNext(t, n) => ~Found
  BY <1>1, Moved, IdleType DEF ReadNNext
<1>4. CASE ReadNWasClosed(t)
  <2>1. /\ thr'[t].pc = "readn_open" /\ thr'[t].fex = thr[t].fex
        /\ thr'[t].wasclosed = ~is_open_file(fslot(t)) /\ files' = files
    BY <1>1, <1>4 DEF ReadNWasClosed, ThreadType
  <2>2. QED
    BY <1>1, <2>1
<1>5. CASE ReadNOpen(t)
  <2>1. CASE CanOpen(fslot(t), Conn(t))
    <3>1. /\ thr'[t].pc = "readn_read" /\ thr'[t].fex = thr[t].fex
          /\ thr'[t].wasclosed = thr[t].wasclosed
          /\ files' = [files EXCEPT ![thr[t].fex] = open_file(fslot(t), Conn(t))]
      BY <1>1, <1>5, <2>1 DEF ReadNOpen, Goto, SetFile, ThreadType
    <3>2. fslot(t)'.name = fslot(t).name
      BY <1>1, <3>1 DEF open_file, FileType
    <3>3. QED
      BY <1>5, <2>1, <3>1, <3>2 DEF ReadNOpen, CanOpen, Accessible
  <2>2. CASE ~CanOpen(fslot(t), Conn(t))
    BY <1>3, <1>5, <2>2 DEF ReadNOpen
  <2>3. QED
    BY <2>1, <2>2
<1>6. CASE ReadNRead(t)
  <2>1. CASE thr[t].wasclosed
    <3>1. thr'[t].pc = "readn_close" /\ thr'[t].fex = thr[t].fex /\ files' = files
      BY <1>1, <1>6, <2>1 DEF ReadNRead, ThreadType
    <3>2. QED
      BY <1>1, <1>6, <2>1, <3>1 DEF ReadNRead
  <2>2. CASE ~thr[t].wasclosed
    BY <1>3, <1>6, <2>2, Moved DEF ReadNRead, ReadNAfter
  <2>3. QED
    BY <2>1, <2>2
<1>7. CASE ReadNClose(t)
  BY <1>1, <1>7, Moved DEF ReadNClose, CloseSlot
<1>8. CASE ReadNBook(t) \/ ReadNName(t)
  BY <1>3, <1>8, Moved DEF ReadNBook, ReadNName, ReadNAfter, Fail
<1>9. QED
  BY <1>2, <1>4, <1>5, <1>6, <1>7, <1>8 DEF ReadNSteps

\* A step of a handler that goes on still gives up nothing its client counts on.
LEMMA WorkGives ==
  ASSUME OneWorker, IInv, FreshInv, StepsFit, BeliefInv, NEW t \in Workers, Work(t),
         thr'[t].pc # "idle",
         belief \in [Conns -> [Names -> {"none", "held", "expelled"}]]
  PROVE  GivesUpNothingHeld(t)'
<1> DEFINE c == Conn(t)
           r == Req(t)
<1>1. /\ BaseInv /\ EvictorExclusive /\ VictimOpen
      /\ HandlerStep(t) /\ thr[t].pc # "idle" /\ c \in Conns /\ c \notin SpecialOwners
      /\ Conn(t)' = c /\ Req(t)' = r
      /\ fslot(t) = files[thr[t].fex] /\ thr[t].fex \in Slots
  <2>1. HandlerStep(t) /\ BaseInv
    BY DEF Work, WorkerStep, IInv, BaseInv
  <2>2. QED
    BY <2>1, HandlerBusy, BusyConn, OthersKeep, IdleType, NextSlot DEF IInv, BaseInv, fslot
<1>2. \A x \in Names : belief'[c][x] = "held" => belief[c][x] = "held"
  BY <1>1 DEF Work, Expels
<1>3. GivesUpNothingHeld(t)
  BY <1>1 DEF BeliefInv, At
<1> HIDE DEF c, r
<1>4. GivesUpLock(r) => \A x \in Names : x = r.name => belief'[c][x] # "held"
  BY <1>2, <1>3 DEF GivesUpNothingHeld, c, r
<1>5. r.op = "CLOSE_CONN" => \A x \in Names : belief'[c][x] # "held"
  <2>1. ~At(t, "cconn_remove")
    BY <1>1, LastSteps, Moved, IdleType DEF HandlerFailed, CConnRemove, At
  <2>2. QED
    BY <1>2, <1>3, <2>1 DEF GivesUpNothingHeld, c, r
<1>6. thr'[t].pc = "readn_open" /\ thr'[t].wasclosed => ~is_open_file(fslot(t)')
  BY <1>1, ReadNFound
<1>7. ASSUME thr'[t].pc = "readn_read" /\ thr'[t].wasclosed, NEW x \in Names, x = fslot(t)'.name,
             belief'[c][x] = "held"
      PROVE  FALSE
  <2>1. /\ At(t, "readn_open") /\ thr[t].wasclosed
        /\ is_existing_file(fslot(t)) /\ x = fslot(t).name
    BY <1>1, <1>7, ReadNFound
  <2>2. ~is_open_file(fslot(t))
    BY <1>3, <2>1 DEF GivesUpNothingHeld
  <2>3. PICK i \in Slots : files[i].owner = c /\ files[i].name = x
    BY <1>1, <1>2, <1>7 DEF BeliefInv, Told, Owned
  <2>4. i = thr[t].fex
    BY <1>1, <2>1, <2>3, OwnerAssumption
       DEF FreshInv, UniqueNames, Existing, is_existing_file, SpecialOwners
  <2>5. is_open_file(files[i])
    BY <1>1, <2>1, <2>3, LockedOpen DEF At
  <2>6. QED
    BY <1>1, <2>2, <2>4, <2>5
<1>8. thr'[t].pc = "readn_close" => \A x \in Names : x = fslot(t)'.name => belief'[c][x] # "held"
  BY <1>1, <1>2, <1>3, ReadNFound DEF GivesUpNothingHeld, c
<1>9. QED
  BY <1>1, <1>4, <1>5, <1>6, <1>7, <1>8 DEF GivesUpNothingHeld, At

\* Nor does a step of a client, or of a worker that reads a request.
LEMMA ClientBelief ==
  ASSUME OneWorker, IInv, GateInv, FreshInv, BeliefInv,
         \/ \E c \in Conns :
               openConnection(c) \/ Return(c) \/ CallFails(c)
         \/ \E t \in Workers, c \in Conns : Serve(t, c) \/ RefuseWrite(t, c)
         \/ UNCHANGED cvars
  PROVE  BeliefInv'
<1>1. /\ call \in [Conns -> CallType]
      /\ belief \in [Conns -> [Names -> {"none", "held", "expelled"}]]
  BY DEF GateInv, ClientTypeOK
<1>2. ASSUME NEW c \in Conns, St(c, "served") => ~ServerAlive, thr' = thr, files' = files,
             \A d \in Conns : d # c => call'[d] = call[d] /\ belief'[d] = belief[d],
             \A x \in Names : Told(c, x)' => Told(c, x)
      PROVE  BeliefInv'
  <2>1. ASSUME NEW d \in Conns, NEW x \in Names, Told(d, x)' PROVE Owned(d, x)'
    <3>1. Told(d, x)
      <4>1. CASE d = c
        BY <1>2, <2>1, <4>1
      <4>2. CASE d # c
        BY <1>2, <2>1, <4>2 DEF Told, St, TakesLock
      <4>3. QED
        BY <4>1, <4>2
    <3>2. QED
      BY <1>2, <3>1 DEF BeliefInv, Owned
  <2>2. ASSUME NEW t \in Workers, ~At(t, "idle") PROVE GivesUpNothingHeld(t)'
    <3>1. CASE thr[t].pc \in {"failed", "aborted", "cconn_remove"}
      <4>1. ~GivesUpLock(Req(t))
        <5>1. CASE thr[t].pc \in {"failed", "aborted"}
          BY <5>1 DEF FreshInv, NoHandlerFails, PutOps, GivesUpLock, At
        <5>2. CASE At(t, "cconn_remove")
          BY <5>2 DEF GateInv, ClosePath, CloseConnPcs, GivesUpLock, At
        <5>3. QED
          BY <3>1, <5>1, <5>2 DEF At
      <4>2. Req(t).op = "CLOSE_CONN" => At(t, "cconn_remove")
        BY <3>1 DEF FreshInv, NoHandlerFails, PutOps, At
      <4>3. QED
        BY <1>2, <3>1, <4>1, <4>2 DEF GivesUpNothingHeld, GivesUpLock, Req, At
    <3>2. CASE thr[t].pc \notin {"failed", "aborted", "cconn_remove"}
      <4> ServerAlive
        BY <3>2, OnlyWorker DEF ServerAlive, At
      <4>1. Conn(t) \in Conns /\ Conn(t) # c
        <5>1. Serving(t)
          BY <2>2, <3>2 DEF GateInv, At
        <5>2. QED
          BY <1>2, <2>2, <5>1, BusyConn DEF Serving, IInv, BaseInv, At
      <4>2. belief'[Conn(t)] = belief[Conn(t)] /\ Conn(t)' = Conn(t) /\ Req(t)' = Req(t)
            /\ fslot(t)' = fslot(t)
        BY <1>2, <4>1 DEF Conn, Req, fslot
      <4>3. GivesUpNothingHeld(t)
        BY <2>2 DEF BeliefInv
      <4>4. QED
        BY <1>2, <4>2, <4>3 DEF GivesUpNothingHeld, At
    <3>3. QED
      BY <3>1, <3>2
  <2>3. QED
    BY <1>2, <2>1, <2>2 DEF BeliefInv, At
<1>3. ASSUME NEW c \in Conns, openConnection(c) \/ CallFails(c)
      PROVE  BeliefInv'
  <2>1. /\ St(c, "served") => ~ServerAlive
        /\ thr' = thr /\ files' = files
        /\ \A d \in Conns : d # c => call'[d] = call[d] /\ belief'[d] = belief[d]
        /\ \A x \in Names : belief'[c][x] \in {belief[c][x], "none"}
        /\ call'[c].st # "answered"
    BY <1>1, <1>3 DEF openConnection, AddClient, CallFails, NobodyThere, NoCall, St, vars
  <2>2. \A x \in Names : Told(c, x)' => Told(c, x)
    BY <2>1 DEF Told, St
  <2>3. QED
    BY <1>2, <2>1, <2>2
<1>4. ASSUME NEW c \in Conns, Return(c) PROVE BeliefInv'
  <2>1. /\ ~St(c, "served") /\ St(c, "answered") /\ thr' = thr /\ files' = files
        /\ \A d \in Conns : d # c => call'[d] = call[d] /\ belief'[d] = belief[d]
    BY <1>1, <1>4 DEF Return, SetCall, St, vars
  <2>2. call'[c].st # "answered"
    BY <1>1, <1>4 DEF Return, SetCall, NoCall, CallType
  <2>3. ASSUME NEW x \in Names, belief'[c][x] = "held", belief[c][x] # "held" PROVE Told(c, x)
    <3>1. LET r == call[c].req IN
          /\ call[c].res = "ok" /\ TakesLock(r) /\ belief[c][r.name] = "none"
          /\ belief' = [belief EXCEPT ![c][r.name] = "held"]
      BY <1>4, <2>3 DEF Return
    <3>2. x = call[c].req.name
      BY <1>1, <2>3, <3>1
    <3>3. QED
      BY <2>1, <3>1, <3>2 DEF Told
  <2>4. \A x \in Names : Told(c, x)' => Told(c, x)
    BY <2>2, <2>3 DEF Told, St
  <2>5. QED
    BY <1>2, <2>1, <2>4
<1>5. ASSUME NEW t \in Workers, NEW c \in Conns, RefuseWrite(t, c) PROVE BeliefInv'
  <2>1. /\ ~St(c, "served") /\ thr' = thr /\ files' = files /\ belief' = belief
        /\ \A d \in Conns : d # c => call'[d] = call[d]
        /\ call'[c].res # "ok"
    BY <1>1, <1>5 DEF RefuseWrite, Answer, Outcome, St, vars
  <2>2. \A x \in Names : Told(c, x)' => Told(c, x)
    BY <2>1 DEF Told, St
  <2>3. QED
    BY <1>2, <2>1, <2>2
<1>6. ASSUME NEW t \in Workers, NEW c \in Conns, Serve(t, c) PROVE BeliefInv'
  <2>1. PICK d \in clients, r \in Requests :
           ReceiveNamed(t, d, r) \/ ReceiveReadN(t, d, r) \/ ReceiveCloseConn(t, d, r)
    BY <1>6 DEF Serve, Receive
  <2>2. PICK l \in {"get_file", "readn_wasclosed", "cconn_check"} :
           thr' = [thr EXCEPT ![t] = [IdleThread EXCEPT !.pc = l, !.conn = d, !.req = r]]
    BY <2>1 DEF ReceiveNamed, ReceiveReadN, ReceiveCloseConn, Begin
  <2>3. thr'[t].pc = l /\ thr'[t].conn = d /\ thr'[t].req = r /\ files' = files
    BY <2>1, <2>2 DEF IdleThread, IInv, TypeOK, ReceiveNamed, ReceiveReadN, ReceiveCloseConn
  <2>4. /\ d = c /\ belief' = Asks(c, r) /\ call'[c].st = "served"
        /\ \A e \in Conns : e # c => call'[e] = call[e]
    BY <1>1, <1>6, <2>3 DEF Serve, NoCall
  <2>5. /\ \A e \in Conns : e # c => belief'[e] = belief[e]
        /\ \A x \in Names : /\ belief'[c][x] = "held" => belief[c][x] = "held"
                            /\ r.op = "CLOSE_CONN" => belief'[c][x] # "held"
                            /\ GivesUpLock(r) /\ x = r.name => belief'[c][x] # "held"
    BY <1>1, <2>4 DEF Asks
  <2>6. ASSUME NEW e \in Conns, NEW x \in Names, Told(e, x)' PROVE Owned(e, x)'
    <3>1. Told(e, x)
      <4>1. CASE e = c
        BY <2>4, <2>5, <2>6, <4>1 DEF Told, St
      <4>2. CASE e # c
        BY <2>4, <2>5, <2>6, <4>2 DEF Told, St, TakesLock
      <4>3. QED
        BY <4>1, <4>2
    <3>2. QED
      BY <2>3, <3>1 DEF BeliefInv, Owned
  <2>7. GivesUpNothingHeld(t)'
    <3>1. Conn(t)' = c /\ Req(t)' = r
      BY <2>3, <2>4 DEF Conn, Req
    <3>2. QED
      BY <2>3, <2>5, <3>1 DEF GivesUpNothingHeld, At
  <2>8. \A u \in Workers : u = t
    BY DEF OneWorker
  <2>9. QED
    BY <2>6, <2>7, <2>8 DEF BeliefInv
<1>7. CASE UNCHANGED cvars
  BY <1>7 DEF cvars, vars, clientvars, BeliefInv, Told, Owned, St, GivesUpNothingHeld, Conn, Req,
     fslot, At
<1>8. QED
  BY <1>3, <1>4, <1>5, <1>6, <1>7

\* One worker thread: a client that was told it holds a lock, and has not given
\* it up, has it, unless an eviction took the file.
THEOREM LocksAreBelieved ==
  ASSUME OneWorker
  PROVE  ReplySpec => []HeldMeansOwned
<1> DEFINE Known == IInv /\ GateInv /\ FreshInv /\ StepsFit /\ FoundSlot
<1>1. ClientInit => BeliefInv
  BY IdleType DEF ClientInit, Init, BeliefInv, Told, NoCall, St, At
<1>2. Known /\ Known' /\ AnswerInv /\ BeliefInv /\ [ClientNext]_cvars => BeliefInv'
  <2> SUFFICES ASSUME Known, Known', AnswerInv, BeliefInv, [ClientNext]_cvars PROVE BeliefInv'
    OBVIOUS
  <2>1. ASSUME NEW t \in Workers, Work(t) PROVE BeliefInv'
    <3>1. \A d \in Conns, x \in Names : Told(d, x)' => Owned(d, x)'
      BY <2>1, WorkTold
    <3>2. \A u \in Workers : u = t
      BY DEF OneWorker
    <3>3. thr'[t].pc # "idle" => GivesUpNothingHeld(t)'
      BY <2>1, WorkGives DEF GateInv, ClientTypeOK
    <3>4. QED
      BY <3>1, <3>2, <3>3 DEF BeliefInv, At
  <2>2. QED
    BY <2>1, ClientBelief DEF ClientNext
<1>3. BeliefInv => HeldMeansOwned
  BY DEF BeliefInv, HeldMeansOwned, Told
<1>4. QED
  BY <1>1, <1>2, <1>3, RepliesImplementClients, AnswerInvariance, ServerInvariance, PTL
     DEF ClientSpec

----------------------------------------------------------------------------
(* Messages: what is pushed onto a message is what is popped from it, and  *)
(* the checksum stays within its words.                                    *)

\* A reader to whom nothing has been refused.
ReaderAt(buf, v) == [buf |-> buf, val |-> v, ok |-> TRUE]

\* One that was refused no bytes.
Refused(buf) == [Reader(buf) EXCEPT !.ok = FALSE]

\* The last item appended is on top, over what was there.
LEMMA TopOfAppend ==
    ASSUME NEW S, NEW buf \in Seq(S), NEW x \in S
    PROVE  /\ Append(buf, x) # <<>>
           /\ Last(Append(buf, x)) = x
           /\ Front(Append(buf, x)) = buf
  BY DEF Last, Front

\* pop_buf, asked for as many bytes as were last pushed, gives them back and
\* leaves what was below (databuf.c:36, 55).
LEMMA PopAfterPush ==
    ASSUME NEW V, NEW buf \in Seq(Items(V)), NEW n \in Nat \ {0}, NEW v \in V \union Nat, NEW w
    PROVE  /\ push_buf(buf, n, v) \in Seq(Items(V))
           /\ pop_buf(ReaderAt(push_buf(buf, n, v), w), n, Memory) = ReaderAt(buf, v)
<1> DEFINE x == [len |-> n, val |-> v]
<1>1. x \in Items(V)
  BY DEF Items
<1>2. push_buf(buf, n, v) = Append(buf, x)
  BY DEF push_buf
<1> HIDE DEF x
<1>3. /\ Append(buf, x) # <<>>
      /\ Last(Append(buf, x)) = x
      /\ Front(Append(buf, x)) = buf
      /\ Append(buf, x) \in Seq(Items(V))
  BY <1>1, TopOfAppend
<1>4. x.len = n /\ x.val = v
  BY DEF x
<1> DEFINE r == ReaderAt(Append(buf, x), w)
<1>5. r.ok /\ r.buf = Append(buf, x) /\ n # 0
  BY DEF ReaderAt
<1> HIDE DEF r
<1>6. pop_buf(r, n, Memory) = [buf |-> Front(r.buf), val |-> Last(r.buf).val, ok |-> TRUE]
  BY <1>3, <1>4, <1>5 DEF pop_buf, Memory, NULL
<1>7. pop_buf(r, n, Memory) = ReaderAt(buf, v)
  BY <1>3, <1>4, <1>5, <1>6 DEF ReaderAt
<1> QED
  BY <1>2, <1>3, <1>7 DEF r

\* The sizes that are pushed with every piece.
LEMMA PopSizeAfterPush ==
    ASSUME NEW V, NEW buf \in Seq(Items(V)), NEW k \in Nat, NEW w
    PROVE  /\ push_size(buf, k) \in Seq(Items(V))
           /\ pop_size(ReaderAt(push_size(buf, k), w)) = ReaderAt(buf, k)
<1>1. SIZE_T \in Nat \ {0}
  BY DEF SIZE_T
<1>2. push_buf(buf, SIZE_T, k) \in Seq(Items(V))
      /\ pop_buf(ReaderAt(push_buf(buf, SIZE_T, k), w), SIZE_T, Memory) = ReaderAt(buf, k)
  BY <1>1, PopAfterPush
<1> QED
  BY <1>2, Zenon DEF push_size, pop_size

LEMMA RefusedFields == \A buf : ~Refused(buf).ok /\ Refused(buf).buf = buf
  BY DEF Refused, Reader

\* What pop_data leaves as the last value popped.
LastPopped(size, of) == IF size = 0 THEN 0 ELSE of

\* What pop_data makes of data pushed onto buf, when files fs have been read.
DataRead(buf, name, of, size, fs, to) ==
    IF to = NULL /\ size = 0 THEN [r |-> Refused(buf), files |-> fs]
    ELSE [r |-> ReaderAt(buf, LastPopped(size, of)),
          files |-> Append(fs, [name |-> name, of |-> of, size |-> size])]

\* Data of any size is read as it was pushed, but for none at all into a buffer
\* that is NULL.
LEMMA PopDataAfterPush ==
    ASSUME NEW V, NEW buf \in Seq(Items(V)), NEW size \in Nat, NEW of \in V,
           NEW name, size = 0 => of = name, NEW w, NEW fs, NEW to
    PROVE  LET data == push_size(push_buf(buf, size, of), size) IN
           /\ data \in Seq(Items(V))
           /\ pop_data([r |-> ReaderAt(data, w), files |-> fs], name, to)
                = DataRead(buf, name, of, size, fs, to)
<1> DEFINE bytes == push_buf(buf, size, of)
           data == push_size(bytes, size)
           s == [r |-> ReaderAt(data, w), files |-> fs]
           Into(n) == IF n = 0 THEN to ELSE Memory
           popped == pop_buf(ReaderAt(bytes, size), size, Into(size))
<1>1. bytes \in Seq(Items(V))
  <2>1. CASE size = 0
    BY <2>1 DEF push_buf
  <2>2. CASE size # 0
    BY <2>2, PopAfterPush
  <2> QED  BY <2>1, <2>2
<1>2. data \in Seq(Items(V)) /\ pop_size(ReaderAt(data, w)) = ReaderAt(bytes, size)
  BY <1>1, PopSizeAfterPush
<1>3. pop_size(s.r) = ReaderAt(bytes, size)
  BY <1>2
<1>4. popped = IF to = NULL /\ size = 0 THEN Refused(buf) ELSE ReaderAt(buf, LastPopped(size, of))
  <2>1. CASE size = 0
    <3>1. bytes = buf /\ Into(size) = to
      BY <2>1 DEF push_buf
    <3> DEFINE r == Reader(buf)
    <3>2. popped = pop_buf(r, 0, to)
      BY <2>1, <3>1 DEF Reader, ReaderAt
    <3>3. r.ok
      BY DEF Reader
    <3>4. r = ReaderAt(buf, LastPopped(size, of))
      BY <2>1 DEF Reader, ReaderAt, LastPopped
    <3>5. pop_buf(r, 0, to) = IF to = NULL THEN Refused(buf) ELSE r
      BY <3>3, Zenon DEF pop_buf, Refused
    <3> HIDE DEF r
    <3> HIDE DEF popped
    <3> QED
      BY <2>1, <3>2, <3>3, <3>4, <3>5
  <2>2. CASE size # 0
    <3>1. Into(size) = Memory
      BY <2>2
    <3>2. pop_buf(ReaderAt(bytes, size), size, Memory) = ReaderAt(buf, of)
      BY <2>2, PopAfterPush
    <3> HIDE DEF Into, bytes
    <3> QED
      BY <2>2, <3>1, <3>2 DEF LastPopped
  <2> QED  BY <2>1, <2>2
<1>5. ReaderAt(bytes, size).val = size
  BY DEF ReaderAt
<1> HIDE DEF popped
<1>6. pop_data(s, name, to) =
        [r |-> popped,
         files |-> IF to = NULL /\ size = 0 THEN fs
                   ELSE Append(fs, [name |-> name, of |-> of, size |-> size])]
  <2> DEFINE n == pop_size(s.r).val
  <2>1. n = size
    BY <1>3, <1>5
  <2>2. pop_buf(pop_size(s.r), n, IF n = 0 THEN to ELSE Memory) = popped
    BY <1>3, <2>1 DEF popped
  <2>3. s.files = fs
    OBVIOUS
  <2>4. IF to = NULL /\ size = 0 THEN ~popped.ok
        ELSE popped.ok /\ (IF size = 0 THEN name ELSE popped.val) = of
    BY <1>4, RefusedFields DEF ReaderAt, LastPopped
  <2> HIDE DEF s
  <2> QED
    BY <2>1, <2>2, <2>3, <2>4 DEF pop_data
<1>7. pop_data(s, name, to) = DataRead(buf, name, of, size, fs, to)
  BY <1>4, <1>6, Zenon DEF DataRead
<1> QED
  BY <1>2, <1>7

\* What a turn of save_cached_files makes of a file.
FileRead(buf, name, of, size, fs) == DataRead(buf, name, of, size, fs, BufferAfter(fs))

\* A file that readN (worker_read.c:120) or an eviction (worker_cache_miss.c:35)
\* has pushed is read by save_cached_files as it was pushed, whatever lies below,
\* and what lies below is left for the next turn; but an empty file, when no file
\* read before it had data, is refused (client_api.c:494, databuf.c:38).
THEOREM FileReadBack ==
    ASSUME NEW V, NEW buf \in Seq(Items(V)), NEW name \in V, NEW of \in V, NEW size \in Nat,
           size = 0 => of = name, NEW w, NEW fs
    PROVE  /\ push_file(buf, name, of, size) \in Seq(Items(V))
           /\ pop_file([r |-> ReaderAt(push_file(buf, name, of, size), w), files |-> fs])
                = FileRead(buf, name, of, size, fs)
<1> DEFINE data == push_size(push_buf(buf, size, of), size)
           named == push_buf(data, NAME_SIZE, name)
           s == [r |-> ReaderAt(push_size(named, NAME_SIZE), w), files |-> fs]
           popped == FileRead(buf, name, of, size, fs)
<1>1. NAME_SIZE \in Nat \ {0}
  BY DEF NAME_SIZE
<1>2. /\ data \in Seq(Items(V))
      /\ \A v : pop_data([r |-> ReaderAt(data, v), files |-> fs], name, BufferAfter(fs)) = popped
  <2>1. \A to, v : pop_data([r |-> ReaderAt(data, v), files |-> fs], name, to)
                      = DataRead(buf, name, of, size, fs, to)
    BY PopDataAfterPush
  <2>2. data \in Seq(Items(V))
    BY PopDataAfterPush
  <2> QED
    BY <2>1, <2>2, Zenon DEF FileRead
<1> HIDE DEF data, popped
<1>3. /\ named \in Seq(Items(V))
      /\ \A x : pop_buf(ReaderAt(named, x), NAME_SIZE, Memory) = ReaderAt(data, name)
  BY <1>1, <1>2, PopAfterPush
<1>4. pop_size(s.r) = ReaderAt(named, NAME_SIZE)
  BY <1>1, <1>3, PopSizeAfterPush
<1>5. pop_buf(pop_size(s.r), pop_size(s.r).val, Memory) = ReaderAt(data, name)
  <2>1. ReaderAt(named, NAME_SIZE).val = NAME_SIZE
    BY DEF ReaderAt
  <2> HIDE DEF named, s
  <2> QED  BY <1>3, <1>4, <2>1
<1>6. [s EXCEPT !.r = ReaderAt(data, name)] = [r |-> ReaderAt(data, name), files |-> fs]
  OBVIOUS
<1>7. ReaderAt(data, name).val = name /\ s.files = fs
  BY DEF ReaderAt
<1>8. pop_file(s) = pop_data([r |-> ReaderAt(data, name), files |-> fs], name, BufferAfter(fs))
  BY <1>5, <1>6, <1>7 DEF pop_file
<1>9. push_size(named, NAME_SIZE) = push_file(buf, name, of, size)
  BY DEF push_file, data
<1>10. pop_file(s) = popped
  <2> HIDE DEF s
  <2> QED
    BY <1>2, <1>8, Zenon
<1>11. push_size(named, NAME_SIZE) \in Seq(Items(V))
  BY <1>1, <1>3, PopSizeAfterPush
<1> HIDE DEF named
<1> QED
  BY <1>9, <1>10, <1>11 DEF popped

\* Every non-empty set of numbers has a least element: what stands for
\* induction in the lemmas on lists of files of any length.
LEMMA LeastNat ==
    ASSUME NEW T \in SUBSET Nat, T # {}
    PROVE  \E n \in T : \A k \in T : n =< k
<1>1. IsWellFoundedOn(OpToRel(<, Nat), Nat)
  BY NatLessThanWellFounded, Zenon
<1>2. PICK n \in T : \A k \in T : ~(<<k, n>> \in OpToRel(<, Nat))
  BY <1>1, WFMin, Zenon
<1>3. \A k \in T : ~(k < n)
  BY <1>2 DEF OpToRel
<1> QED
  BY <1>3

\* g is what n turns of save_cached_files go through, from s on.
Turns(g, n, s) == g = [k \in 0 .. n |-> IF k = 0 THEN s ELSE pop_file(g[k - 1])]

\* The turns are determined by where they start.
LEMMA TurnsAgree ==
    ASSUME NEW n \in Nat, NEW s, NEW f, NEW g, Turns(f, n, s), Turns(g, n, s)
    PROVE  \A k \in 0 .. n : f[k] = g[k]
<1> DEFINE T == {k \in 0 .. n : f[k] # g[k]}
<1>1. SUFFICES ASSUME T # {} PROVE FALSE
  OBVIOUS
<1>2. PICK k \in T : \A i \in T : k =< i
  <2>1. T \in SUBSET Nat
    OBVIOUS
  <2> HIDE DEF T
  <2> QED
    BY <1>1, <2>1, LeastNat, Zenon
<1>3. /\ f[0] = s /\ g[0] = s
      /\ \A i \in 1 .. n : f[i] = pop_file(f[i - 1]) /\ g[i] = pop_file(g[i - 1])
  BY DEF Turns
<1>4. CASE k = 0
  BY <1>3, <1>4
<1>5. CASE k # 0
  <2>1. k \in 1 .. n /\ k - 1 \in 0 .. n /\ k - 1 \notin T
    BY <1>2, <1>5
  <2>2. f[k - 1] = g[k - 1]
    BY <2>1
  <2> QED
    BY <1>3, <2>1, <2>2
<1> QED
  BY <1>4, <1>5

\* save_cached_files goes through turns, as many as the size on top says.
LEMMA SavedByTurns ==
    ASSUME NEW buf, NEW n \in Nat, NEW pile, pop_size(Reader(buf)) = ReaderAt(pile, n),
           NEW f, Turns(f, n, [r |-> ReaderAt(pile, n), files |-> <<>>])
    PROVE  save_cached_files(buf) = f[n]
<1> DEFINE s == [r |-> ReaderAt(pile, n), files |-> <<>>]
           turn == CHOOSE g : Turns(g, n, s)
<1>1. Turns(turn, n, s)
  BY Zenon
<1>2. save_cached_files(buf) = turn[n]
  <2> DEFINE Times(r) == IF r.ok THEN r.val ELSE 0
             Saved(r, m) == (CHOOSE g : Turns(g, m, [r |-> r, files |-> <<>>]))[m]
  <2>1. save_cached_files(buf) = Saved(pop_size(Reader(buf)), Times(pop_size(Reader(buf))))
    BY Zenon DEF save_cached_files, Turns
  <2>2. Times(ReaderAt(pile, n)) = n
    BY DEF ReaderAt
  <2>3. Saved(ReaderAt(pile, n), n) = turn[n]
    OBVIOUS
  <2> HIDE DEF Times, Saved, turn
  <2> QED
    BY <2>1, <2>2, <2>3, Zenon
<1> HIDE DEF turn, s
<1> QED
  BY <1>1, <1>2, TurnsAgree DEF s

\* The last k files of s, the last one first.
LastFiles(s, k) == [i \in 1 .. k |-> s[Len(s) + 1 - i]]

\* One more of them.
LEMMA OneMoreFile ==
    ASSUME NEW s \in Seq(SentFiles), NEW k \in 1 .. Len(s)
    PROVE  /\ Append(LastFiles(s, k - 1), s[Len(s) + 1 - k]) = LastFiles(s, k)
           /\ s[Len(s) + 1 - k] \in SentFiles
<1> DEFINE x == s[Len(s) + 1 - k]
           fs == LastFiles(s, k - 1)
<1>1. Len(s) \in Nat /\ Len(s) + 1 - k \in 1 .. Len(s) /\ x \in SentFiles
  OBVIOUS
<1>2. \A i \in 1 .. k - 1 : Len(s) + 1 - i \in 1 .. Len(s)
  OBVIOUS
<1>3. fs \in Seq(SentFiles) /\ Len(fs) = k - 1 /\ \A i \in 1 .. k - 1 : fs[i] = s[Len(s) + 1 - i]
  BY <1>1, <1>2 DEF LastFiles
<1> HIDE DEF x, fs
<1>4. /\ Append(fs, x) \in Seq(SentFiles) /\ Len(Append(fs, x)) = k
      /\ \A i \in 1 .. k : Append(fs, x)[i] = IF i = k THEN x ELSE fs[i]
  BY <1>1, <1>3
<1>5. /\ LastFiles(s, k) \in Seq(SentFiles) /\ Len(LastFiles(s, k)) = k
      /\ \A i \in 1 .. k : LastFiles(s, k)[i] = s[Len(s) + 1 - i]
  BY DEF LastFiles
<1>6. ASSUME NEW i \in 1 .. k PROVE Append(fs, x)[i] = LastFiles(s, k)[i]
  <2>1. LastFiles(s, k)[i] = s[Len(s) + 1 - i]
    BY <1>5
  <2>2. CASE i = k
    BY <1>4, <2>1, <2>2 DEF x
  <2>3. CASE i # k
    <3>1. i \in 1 .. k - 1
      BY <2>3
    <3>2. Append(fs, x)[i] = fs[i] /\ fs[i] = s[Len(s) + 1 - i]
      BY <1>3, <1>4, <2>3, <3>1
    <3> QED
      BY <2>1, <3>2
  <2> QED
    BY <2>2, <2>3
<1>7. Append(fs, x) = LastFiles(s, k)
  BY <1>4, <1>5, <1>6, SeqEqual
<1> QED
  BY <1>1, <1>7, Zenon DEF x, fs

\* What was refused stays refused.
LEMMA RefusedStays ==
    ASSUME NEW buf, NEW fs
    PROVE  pop_file([r |-> Refused(buf), files |-> fs]) = [r |-> Refused(buf), files |-> fs]
<1> DEFINE s == [r |-> Refused(buf), files |-> fs]
<1>1. \A m, to : pop_buf(Refused(buf), m, to) = Refused(buf)
  BY RefusedFields DEF pop_buf
<1>2. pop_size(Refused(buf)) = Refused(buf)
  BY <1>1 DEF pop_size
<1>3. [s EXCEPT !.r = Refused(buf)] = s /\ s.r = Refused(buf) /\ s.files = fs
  OBVIOUS
<1> HIDE DEF s
<1>4. \A name, to : pop_data(s, name, to) = [r |-> Refused(buf), files |-> fs]
  <2> SUFFICES ASSUME NEW name, NEW to
               PROVE  pop_data(s, name, to) = [r |-> Refused(buf), files |-> fs]
    OBVIOUS
  <2> DEFINE n == pop_size(s.r).val
  <2>1. pop_buf(pop_size(s.r), n, IF n = 0 THEN to ELSE Memory) = Refused(buf)
    BY <1>1, <1>2, <1>3
  <2>2. ~Refused(buf).ok
    BY RefusedFields
  <2> QED
    BY <1>3, <2>1, <2>2 DEF pop_data
<1>5. \E name, to : pop_file(s) = pop_data(s, name, to)
  BY <1>1, <1>2, <1>3 DEF pop_file
<1> QED
  BY <1>4, <1>5 DEF s

\* What a message made file by file has been pushed into, and the turns that
\* read it.
LEMMA FirstTurn ==
    ASSUME NEW s \in Seq(SentFiles), NEW buf, Complete(buf, s)
    PROVE  \E h \in [0 .. Len(s) -> Seq(Items(Paths))] :
             /\ h[0] = EmptyBuf
             /\ \A i \in 1 .. Len(s) : h[i] = push_file(h[i - 1], s[i].name, s[i].of, s[i].size)
             /\ \A f : Turns(f, Len(s), [r |-> ReaderAt(h[Len(s)], Len(s)), files |-> <<>>])
                      => save_cached_files(buf) = f[Len(s)]
<1> DEFINE n == Len(s)
<1>1. PICK pile \in Seq(Items(Paths)) : Piled(pile, s) /\ buf = push_size(pile, n)
  BY DEF Complete
<1>2. PICK h \in [0 .. n -> Seq(Items(Paths))] :
        /\ h[0] = EmptyBuf /\ h[n] = pile
        /\ \A i \in 1 .. n : h[i] = push_file(h[i - 1], s[i].name, s[i].of, s[i].size)
  BY <1>1 DEF Piled
<1>3. n \in Nat
  OBVIOUS
<1>4. pop_size(Reader(buf)) = ReaderAt(pile, n)
  <2>1. Reader(buf) = ReaderAt(buf, 0)
    BY DEF Reader, ReaderAt
  <2> QED
    BY <1>1, <1>3, <2>1, PopSizeAfterPush
<1>5. ASSUME NEW f, Turns(f, n, [r |-> ReaderAt(pile, n), files |-> <<>>])
      PROVE  save_cached_files(buf) = f[n]
  BY <1>3, <1>4, <1>5, SavedByTurns
<1> DEFINE ReadsOut(g, f) == Turns(f, n, [r |-> ReaderAt(g[n], n), files |-> <<>>])
                           => save_cached_files(buf) = f[n]
<1>6. \A f : ReadsOut(h, f)
  BY <1>2, <1>5
<1> HIDE DEF ReadsOut
<1>7. /\ h[0] = EmptyBuf
      /\ \A i \in 1 .. n : h[i] = push_file(h[i - 1], s[i].name, s[i].of, s[i].size)
      /\ \A f : ReadsOut(h, f)
  BY <1>2, <1>6
<1> QED
  BY <1>7, Zenon DEF ReadsOut

\* FileReadBack of the files that are sent.
LEMMA SentReadBack ==
    ASSUME NEW buf \in Seq(Items(Paths)), NEW x \in SentFiles, NEW w, NEW fs
    PROVE  pop_file([r |-> ReaderAt(push_file(buf, x.name, x.of, x.size), w), files |-> fs])
             = IF BufferAfter(fs) = NULL /\ x.size = 0 THEN [r |-> Refused(buf), files |-> fs]
               ELSE [r |-> ReaderAt(buf, LastPopped(x.size, x.of)), files |-> Append(fs, x)]
<1>1. /\ x.name \in Paths /\ x.of \in Paths /\ x.size \in Nat
      /\ x.size = 0 => x.of = x.name
  BY DEF SentFiles
<1>2. x = [name |-> x.name, of |-> x.of, size |-> x.size]
  BY DEF SentFiles
<1>3. pop_file([r |-> ReaderAt(push_file(buf, x.name, x.of, x.size), w), files |-> fs])
        = FileRead(buf, x.name, x.of, x.size, fs)
  BY <1>1, FileReadBack
<1> QED
  BY <1>2, <1>3, Zenon DEF FileRead, DataRead

\* save_cached_files (client_api.c:470) reads from a message that was made file
\* by file every one of them, however many, the last one first, each under its
\* name and with its size, and leaves nothing; if the last one is empty it reads
\* none (client_api.c:494).
THEOREM FilesReadBack ==
    ASSUME NEW s \in Seq(SentFiles), NEW buf, Complete(buf, s)
    PROVE  LET saved == save_cached_files(buf) IN
           IF s # <<>> /\ Last(s).size = 0 THEN ~saved.r.ok /\ saved.files = <<>>
           ELSE saved.files = Reverse(s) /\ saved.r.ok /\ saved.r.buf = EmptyBuf
<1> DEFINE n == Len(s)
<1>1. PICK h \in [0 .. n -> Seq(Items(Paths))] :
        /\ h[0] = EmptyBuf
        /\ \A i \in 1 .. n : h[i] = push_file(h[i - 1], s[i].name, s[i].of, s[i].size)
        /\ \A f : Turns(f, n, [r |-> ReaderAt(h[n], n), files |-> <<>>])
                 => save_cached_files(buf) = f[n]
  BY FirstTurn
<1>2. n \in Nat
  OBVIOUS
<1> DEFINE first == [r |-> ReaderAt(h[n], n), files |-> <<>>]
<1>3. ASSUME NEW f, f = [k \in 0 .. n |-> f[k]], f[0] = first,
             \A k \in 1 .. n : f[k] = pop_file(f[k - 1])
      PROVE  save_cached_files(buf) = f[n]
  <2>1. \A k \in 0 .. n : k = 0 \/ k \in 1 .. n
    BY <1>2
  <2>2. \A k \in 0 .. n : f[k] = IF k = 0 THEN first ELSE pop_file(f[k - 1])
    BY <1>3, <2>1
  <2>3. Turns(f, n, first)
    BY <1>3, <2>2 DEF Turns
  <2> QED
    BY <1>1, <2>3
<1>4. CASE s # <<>> /\ Last(s).size = 0
  <2> DEFINE refused == [r |-> Refused(h[n - 1]), files |-> <<>>]
             f == [k \in 0 .. n |-> IF k = 0 THEN first ELSE refused]
             x == s[n]
  <2>1. n \in 1 .. n /\ n - 1 \in 0 .. n /\ x \in SentFiles /\ x.size = 0
    BY <1>2, <1>4 DEF Last
  <2>2. x.name \in Paths /\ x.of \in Paths /\ x.of = x.name
    BY <2>1 DEF SentFiles
  <2>3. h[n] = push_file(h[n - 1], x.name, x.of, 0) /\ h[n - 1] \in Seq(Items(Paths))
    BY <1>1, <2>1
  <2>4. BufferAfter(<<>>) = NULL
    BY DEF BufferAfter
  <2>5. pop_file(first) = refused
    <3> DEFINE below == h[n - 1]
    <3>1. below \in Seq(Items(Paths)) /\ x \in SentFiles
      BY <2>1, <2>3
    <3>2. pop_file([r |-> ReaderAt(push_file(below, x.name, x.of, x.size), n), files |-> <<>>])
            = [r |-> Refused(below), files |-> <<>>]
      <4> HIDE DEF below, x, n
      <4> QED
        BY <2>1, <2>4, <3>1, SentReadBack
    <3> QED
      BY <2>1, <2>3, <3>2, Zenon
  <2>6. pop_file(refused) = refused
    BY RefusedStays
  <2> HIDE DEF first, refused
  <2>7. \A k \in 1 .. n : f[k] = pop_file(f[k - 1])
    BY <1>2, <2>5, <2>6
  <2>8. f = [k \in 0 .. n |-> f[k]] /\ f[0] = first /\ f[n] = refused
    BY <2>1
  <2>9. save_cached_files(buf) = refused
    <3> HIDE DEF f
    <3> QED
      BY <1>3, <2>7, <2>8
  <2> QED
    BY <1>4, <2>9, RefusedFields DEF refused
<1>5. CASE ~(s # <<>> /\ Last(s).size = 0)
  <2> DEFINE x(k) == s[n + 1 - k]
             last(k) == IF k = 0 THEN n ELSE LastPopped(x(k).size, x(k).of)
             f == [k \in 0 .. n |->
                     [r |-> ReaderAt(h[n - k], last(k)), files |-> LastFiles(s, k)]]
  <2>1. f[0] = first
    BY <1>2 DEF LastFiles
  <2>2. ASSUME NEW k \in 1 .. n PROVE f[k] = pop_file(f[k - 1])
    <3>1. k \in 0 .. n /\ k - 1 \in 0 .. n /\ n - k \in 0 .. n /\ n + 1 - k \in 1 .. n
      BY <1>2
    <3>2. x(k) \in SentFiles
      BY OneMoreFile
    <3>3. h[n - k] \in Seq(Items(Paths))
      BY <1>1, <3>1
    <3>4. h[n - (k - 1)] = push_file(h[n - k], x(k).name, x(k).of, x(k).size)
      <4>1. n - (k - 1) = n + 1 - k /\ n + 1 - k - 1 = n - k
        BY <1>2
      <4> QED
        BY <1>1, <3>1, <4>1
    <3>5. f[k - 1] = [r |-> ReaderAt(push_file(h[n - k], x(k).name, x(k).of, x(k).size),
                                     last(k - 1)),
                      files |-> LastFiles(s, k - 1)]
      BY <3>1, <3>4
    <3>6. /\ x(k).name \in Paths /\ x(k).of \in Paths /\ x(k).size \in Nat
          /\ x(k).of = x(k).name
          /\ x(k) = [name |-> x(k).name, of |-> x(k).of, size |-> x(k).size]
      BY <3>2 DEF SentFiles
    <3>7. ~(BufferAfter(LastFiles(s, k - 1)) = NULL /\ x(k).size = 0)
      <4>1. s # <<>> /\ Last(s) = s[n] /\ s[n].size # 0
        BY <1>2, <1>5 DEF Last
      <4>2. CASE k = 1
        BY <1>2, <4>1, <4>2
      <4>3. CASE k # 1
        <5>1. 1 \in DOMAIN LastFiles(s, k - 1) /\ LastFiles(s, k - 1)[1] = s[n]
          BY <1>2, <4>3 DEF LastFiles
        <5> QED
          BY <4>1, <5>1 DEF BufferAfter, Memory, NULL
      <4> QED
        BY <4>2, <4>3
    <3> HIDE DEF x
    <3>8. pop_file(f[k - 1]) = [r |-> ReaderAt(h[n - k], LastPopped(x(k).size, x(k).of)),
                               files |-> Append(LastFiles(s, k - 1), x(k))]
      <4> HIDE DEF f, last
      <4> DEFINE below == h[n - k]
                 fs == LastFiles(s, k - 1)
      <4>1. pop_file([r |-> ReaderAt(push_file(below, x(k).name, x(k).of, x(k).size),
                                     last(k - 1)), files |-> fs])
              = [r |-> ReaderAt(below, LastPopped(x(k).size, x(k).of)),
                 files |-> Append(fs, x(k))]
        <5>1. below \in Seq(Items(Paths))
          BY <3>3
        <5>2. ~(BufferAfter(fs) = NULL /\ x(k).size = 0)
          BY <3>7
        <5> HIDE DEF below, fs
        <5> QED
          BY <3>2, <5>1, <5>2, SentReadBack
      <4> QED
        BY <3>5, <4>1, Zenon
    <3>9. Append(LastFiles(s, k - 1), x(k)) = LastFiles(s, k)
      BY OneMoreFile DEF x
    <3>10. f[k] = [r |-> ReaderAt(h[n - k], LastPopped(x(k).size, x(k).of)),
                  files |-> LastFiles(s, k)]
      BY <3>1
    <3> HIDE DEF f
    <3> QED
      BY <3>8, <3>9, <3>10
  <2>3. f = [k \in 0 .. n |-> f[k]]
    OBVIOUS
  <2>4. save_cached_files(buf) = f[n]
    <3> HIDE DEF f, first
    <3> QED
      BY <1>3, <2>1, <2>2, <2>3
  <2>5. f[n].files = Reverse(s) /\ f[n].r.ok /\ f[n].r.buf = h[0]
    <3>1. LastFiles(s, n) = Reverse(s)
      BY <1>2 DEF LastFiles, Reverse
    <3> HIDE DEF last
    <3> QED
      BY <1>2, <3>1 DEF ReaderAt
  <2> HIDE DEF f
  <2> QED
    BY <1>1, <1>5, <2>4, <2>5
<1> QED
  BY <1>4, <1>5

----------------------------------------------------------------------------
(* What the handlers put into an answer: ReplyInv is inductive with one    *)
(* worker.                                                                 *)

\* No files make the empty message, and no other.
LEMMA PiledNone == \A buf : Piled(buf, <<>>) <=> buf = EmptyBuf
<1>1. ASSUME NEW buf, Piled(buf, <<>>) PROVE buf = EmptyBuf
  BY <1>1 DEF Piled
<1>2. Piled(EmptyBuf, <<>>)
  <2> DEFINE h == [i \in 0 .. 0 |-> EmptyBuf]
  <2>1. h \in [0 .. Len(<<>>) -> Seq(Items(Paths))]
    BY DEF EmptyBuf
  <2>2. h[0] = EmptyBuf /\ h[Len(<<>>)] = EmptyBuf
    OBVIOUS
  <2> HIDE DEF h
  <2> QED
    BY <2>1, <2>2 DEF Piled
<1> QED
  BY <1>1, <1>2

\* One more file on the pile.
LEMMA PiledMore ==
    ASSUME NEW s \in Seq(SentFiles), NEW buf, Piled(buf, s), NEW x \in SentFiles
    PROVE  /\ buf \in Seq(Items(Paths))
           /\ push_file(buf, x.name, x.of, x.size) \in Seq(Items(Paths))
           /\ Piled(push_file(buf, x.name, x.of, x.size), Append(s, x))
           /\ Append(s, x) \in Seq(SentFiles) /\ Len(Append(s, x)) = Len(s) + 1
<1> DEFINE n == Len(s)
           more == push_file(buf, x.name, x.of, x.size)
<1>1. PICK h \in [0 .. n -> Seq(Items(Paths))] :
        /\ h[0] = EmptyBuf /\ h[n] = buf
        /\ \A i \in 1 .. n : h[i] = push_file(h[i - 1], s[i].name, s[i].of, s[i].size)
  BY DEF Piled
<1>2. n \in Nat /\ buf \in Seq(Items(Paths))
  BY <1>1
<1>3. more \in Seq(Items(Paths))
  BY <1>2, FileReadBack DEF SentFiles
<1>4. /\ Append(s, x) \in Seq(SentFiles) /\ Len(Append(s, x)) = n + 1
      /\ \A i \in 1 .. n : Append(s, x)[i] = s[i]
      /\ Append(s, x)[n + 1] = x
  OBVIOUS
<1> HIDE DEF more
<1> DEFINE g == [i \in 0 .. n + 1 |-> IF i = n + 1 THEN more ELSE h[i]]
<1>5. /\ g \in [0 .. n + 1 -> Seq(Items(Paths))]
      /\ g[0] = EmptyBuf /\ g[n + 1] = more
      /\ \A i \in 0 .. n : g[i] = h[i]
  BY <1>1, <1>2, <1>3
<1> HIDE DEF g
<1>6. ASSUME NEW i \in 1 .. n + 1
      PROVE  LET y == Append(s, x)[i] IN g[i] = push_file(g[i - 1], y.name, y.of, y.size)
  <2>1. CASE i = n + 1
    <3>1. g[i - 1] = buf
      BY <1>1, <1>2, <1>5, <2>1
    <3> QED
      BY <1>4, <1>5, <2>1, <3>1 DEF more
  <2>2. CASE i # n + 1
    <3>1. i \in 1 .. n /\ i - 1 \in 0 .. n /\ i \in 0 .. n
      BY <1>2, <2>2
    <3> QED
      BY <1>1, <1>4, <1>5, <3>1
  <2> QED
    BY <2>1, <2>2
<1>7. Piled(more, Append(s, x))
  BY <1>2, <1>4, <1>5, <1>6 DEF Piled
<1> QED
  BY <1>2, <1>3, <1>4, <1>7 DEF more

\* The count on top of a pile completes the message.
LEMMA CountOnPile ==
    ASSUME NEW s \in Seq(SentFiles), NEW buf \in Seq(Items(Paths)), Piled(buf, s)
    PROVE  /\ Complete(push_size(buf, Len(s)), s)
           /\ push_size(buf, Len(s)) \in Seq(Items(Paths))
  BY PopSizeAfterPush DEF Complete

\* A call has read what was sent to it and nothing else, or nothing at all.
AsRead(g) == IF EmptyFirst(g) THEN ~g.ok /\ g.files = <<>> ELSE ReadWhole(g)

\* Answer o is as request op expects it when it has succeeded.
Delivers(op, o) ==
    CASE op = "READ_FILE" -> \E x \in SentFiles :
           /\ o.buf = push_size(push_buf(EmptyBuf, x.size, x.of), x.size)
           /\ o.sent = <<x>>
      [] op = "READN_FILE" -> Complete(o.buf, o.sent)
      [] op \in PutOps /\ o.evicted > 0 ->
           Complete(o.buf, o.sent) /\ \A i \in DOMAIN o.sent : o.sent[i].size # 0
      [] OTHER -> o.buf = EmptyBuf /\ o.sent = <<>>

\* What do_read_file has pushed onto an empty message is read as it was.
LEMMA DataReadBack ==
    ASSUME NEW V, NEW name, NEW of \in V, NEW size \in Nat, size = 0 => of = name
    PROVE  LET data == push_size(push_buf(EmptyBuf, size, of), size) IN
           pop_data([r |-> ReaderAt(data, 0), files |-> <<>>], name, Memory)
             = [r |-> ReaderAt(EmptyBuf, LastPopped(size, of)),
                files |-> Append(<<>>, [name |-> name, of |-> of, size |-> size])]
<1> DEFINE Data(buf) == push_size(push_buf(buf, size, of), size)
           x == [name |-> name, of |-> of, size |-> size]
           After(buf, w, fs) == pop_data([r |-> ReaderAt(Data(buf), w), files |-> fs], name, Memory)
           Back(buf, fs) == DataRead(buf, name, of, size, fs, Memory)
<1>1. \A buf \in Seq(Items(V)) : \A w, fs : After(buf, w, fs) = Back(buf, fs)
  BY PopDataAfterPush
<1>2. EmptyBuf \in Seq(Items(V))
  BY DEF EmptyBuf
<1> HIDE DEF After, Back
<1>3. After(EmptyBuf, 0, <<>>) = Back(EmptyBuf, <<>>)
  BY <1>1, <1>2, Zenon
<1>4. Memory # NULL
  BY DEF Memory, NULL
<1> QED
  BY <1>3, <1>4, Zenon DEF After, Back, DataRead

\* Such an answer is read whole, if readN was not sent an empty file last.
LEMMA WholeRead ==
    ASSUME NEW op, NEW o, o.sent \in Seq(SentFiles), Delivers(op, o)
    PROVE  AsRead(Received(op, "ok", o))
<1> DEFINE s == Read(op, o)
           g == Received(op, "ok", o)
           none == op = "READN_FILE" /\ o.sent # <<>> /\ Last(o.sent).size = 0
<1>1. SUFFICES IF none THEN ~s.r.ok /\ s.files = <<>>
               ELSE /\ s.files = Reverse(o.sent)
                    /\ s.r.ok /\ s.r.buf = EmptyBuf
  <2> HIDE DEF s
  <2>0. /\ g.files = s.files /\ g.sent = o.sent /\ g.ok = s.r.ok /\ g.left = Len(s.r.buf)
        /\ EmptyFirst(g) <=> none
    BY DEF Received, EmptyFirst, s
  <2> HIDE DEF g
  <2>1. ASSUME s.files = Reverse(o.sent), s.r.ok, s.r.buf = EmptyBuf PROVE ReadWhole(g)
    <3>2. \A i \in DOMAIN Reverse(o.sent) :
             Reverse(o.sent)[i].of = Reverse(o.sent)[i].name
      <4> SUFFICES ASSUME NEW i \in 1 .. Len(o.sent)
                   PROVE  o.sent[Len(o.sent) - i + 1].of = o.sent[Len(o.sent) - i + 1].name
        BY DEF Reverse
      <4>1. Len(o.sent) - i + 1 \in 1 .. Len(o.sent)
        OBVIOUS
      <4> QED
        BY <4>1 DEF SentFiles
    <3> QED
      BY <2>0, <2>1, <3>2 DEF ReadWhole, EmptyBuf
  <2> QED
    BY <2>0, <2>1 DEF AsRead, g
<1>2. CASE op = "READ_FILE"
  <2>1. PICK x \in SentFiles : /\ o.buf = push_size(push_buf(EmptyBuf, x.size, x.of), x.size)
                               /\ o.sent = <<x>>
    BY <1>2 DEF Delivers, PutOps
  <2>2. /\ x.name \in Paths /\ x.of \in Paths /\ x.size \in Nat /\ x.of = x.name
        /\ x = [name |-> x.name, of |-> x.of, size |-> x.size]
        /\ EmptyBuf \in Seq(Items(Paths))
    BY DEF SentFiles, EmptyBuf
  <2>3. Reading(o.buf) = [r |-> ReaderAt(o.buf, 0), files |-> <<>>]
    BY DEF Reading, Reader, ReaderAt
  <2>4. pop_data(Reading(o.buf), x.name, Memory)
          = [r |-> ReaderAt(EmptyBuf, LastPopped(x.size, x.of)), files |-> Append(<<>>, x)]
    <3> DEFINE data == push_size(push_buf(EmptyBuf, x.size, x.of), x.size)
               y == [name |-> x.name, of |-> x.of, size |-> x.size]
    <3>1. pop_data([r |-> ReaderAt(data, 0), files |-> <<>>], x.name, Memory)
            = [r |-> ReaderAt(EmptyBuf, LastPopped(x.size, x.of)), files |-> Append(<<>>, y)]
      BY <2>2, DataReadBack, ZenonT(30)
    <3>2. o.buf = data /\ y = x
      BY <2>1, <2>2
    <3> HIDE DEF data, y
    <3> QED
      BY <2>3, <3>1, <3>2
  <2>5. s = pop_data(Reading(o.buf), x.name, Memory) /\ ~none
    BY <1>2, <2>1 DEF Read, PutOps
  <2>6. Append(<<>>, x) = Reverse(<<x>>)
    BY DEF Reverse
  <2> HIDE DEF s, none
  <2> QED
    BY <2>1, <2>4, <2>5, <2>6 DEF ReaderAt
<1>3. CASE op = "READN_FILE" \/ (op \in PutOps /\ o.evicted > 0)
  <2>1. Complete(o.buf, o.sent)
    BY <1>3 DEF Delivers, PutOps
  <2>2. s = save_cached_files(o.buf)
    BY <1>3 DEF Read, PutOps
  <2>3. none <=> o.sent # <<>> /\ Last(o.sent).size = 0
    <3>1. ASSUME op \in PutOps, o.evicted > 0, o.sent # <<>> PROVE Last(o.sent).size # 0
      <4>1. Len(o.sent) \in DOMAIN o.sent
        BY <3>1
      <4> QED
        BY <3>1, <4>1 DEF Delivers, PutOps, Last
    <3> QED
      BY <1>3, <3>1 DEF PutOps
  <2> HIDE DEF s, none
  <2> QED
    BY <2>1, <2>2, <2>3, FilesReadBack
<1>4. CASE ~(op = "READ_FILE" \/ op = "READN_FILE" \/ (op \in PutOps /\ o.evicted > 0))
  <2>1. o.buf = EmptyBuf /\ o.sent = <<>>
    BY <1>4 DEF Delivers
  <2>2. s = Reading(o.buf)
    BY <1>4 DEF Read
  <2>3. Reverse(<<>>) = <<>> /\ ~none
    BY <1>4 DEF Reverse
  <2> HIDE DEF s, none
  <2> QED
    BY <2>1, <2>2, <2>3 DEF Reading, Reader
<1> QED
  BY <1>2, <1>3, <1>4

\* The calls that read files are told of success by the last step only.
LEMMA SuccessTold ==
    ASSUME IInv, StepsFit, NEW t \in Workers, HandlerStep(t), Req(t).op \in TellingOps,
           "OP_SUCC" \in FlagsOfStep(t)
    PROVE  /\ thr'[t].pc = "idle"
           /\ Req(t).op = "READ_FILE" => At(t, "read_file") /\ CallSucceeds(t)
           /\ Req(t).op = "READN_FILE" => thr[t].pc \in ReadingPcs
           /\ Req(t).op \in PutOps => At(t, "apply")
<1> DEFINE pc == thr[t].pc
           op == Req(t).op
<1>1. BaseInv /\ EvictorExclusive /\ VictimOpen
  BY DEF IInv, BaseInv
<1>2. /\ pc \in SimplePcs \union {"remove_file", "create_open"} => pc = "read_file"
      /\ pc = "read_file" => op = "READ_FILE"
      /\ pc = "apply" => op \in PutOps
      /\ pc \in ReadingPcs => op = "READN_FILE"
  BY OpAt DEF TellingOps, SimplePcs, PutOps, CreatePcs, RemovePcs, RoomPcs, WritePcs, ReadingPcs
<1>3. \/ pc \in {"read_file", "apply"} /\ CallSucceeds(t)
      \/ pc \in ReadingPcs /\ thr'[t].pc = "idle"
  <2>1. "OP_SUCC" \notin SearchFlags(t) /\ "OP_SUCC" # ErrorFlag(t)
    BY ErrorFlagTyped DEF SearchFlags
  <2>2. \/ pc \in SimplePcs \union {"remove_file", "apply"} /\ CallSucceeds(t)
        \/ pc \in ReadingPcs \union {"create_open"} /\ thr'[t].pc = "idle"
    BY <2>1 DEF FlagsOfStep, HandlerReturns, ReadingPcs
  <2> QED
    BY <1>2, <2>2
<1>4. CASE pc = "read_file"
  <2>1. SimpleSteps(t)
    BY <1>1, <1>4, SimpleAt DEF SimplePcs
  <2>2. thr'[t].pc = "idle"
    BY <1>1, <1>4, <2>1, Moved, IdleType
       DEF SimpleSteps, OpenFile, CloseFile, CloseBook, ReadFile, LockFile, UnlockFile, At
  <2> QED
    BY <1>2, <1>3, <1>4, <2>2 DEF PutOps, ReadingPcs, ReadNPcs, At
<1>5. CASE pc = "apply"
  <2>1. thr'[t].pc = "idle"
    BY <1>3, <1>5, WriteEnds DEF RoomPcs, WritePcs, ReadingPcs, ReadNPcs, At
  <2> QED
    BY <1>2, <1>5, <2>1 DEF PutOps, At
<1>6. CASE pc \in ReadingPcs
  BY <1>2, <1>3, <1>6 DEF PutOps, ReadingPcs, ReadNPcs
<1> QED
  BY <1>3, <1>4, <1>5, <1>6

\* Outside readN and the evictions an answer gets no data, but from read_file.
LEMMA ElsewhereOut ==
    ASSUME IInv, StepsFit, NEW t \in Workers, HandlerStep(t),
           thr[t].pc \notin RoomPcs \union ReadingPcs \union {"aborted"}, out[t] = NoReply
    PROVE  /\ thr'[t].pc \notin ReadingPcs
           /\ thr'[t].pc \in RoomPcs => thr'[t].pc = "check_capacity"
           /\ IF At(t, "read_file") /\ CallSucceeds(t)
              THEN Delivers("READ_FILE", OutAfter(t)) /\ OutAfter(t).sent \in Seq(SentFiles)
              ELSE OutAfter(t) = NoReply
<1> DEFINE pc == thr[t].pc
<1>1. /\ BaseInv /\ EvictorExclusive /\ VictimOpen /\ PlainFlow(t)
      /\ files \in [Slots -> FileType] /\ thr[t].fex \in Slots
  BY HandlerFlows, NextSlot DEF IInv, BaseInv, TypeOK, EvictFlow, EvictingPcs, RoomPcs
<1>2. /\ thr'[t].pc \notin ReadingPcs
      /\ thr'[t].pc \in RoomPcs => thr'[t].pc = "check_capacity"
  BY <1>1, IdleType
     DEF PlainFlow, ScanFlow, CreateFlow, SimpleFlow, RemoveFlow, WriteFlow, ReadNFlow,
         CloseConnFlow, SlotPcs, ScanPcs, CreatePcs, SimplePcs, RemovePcs, WritePcs, RoomPcs,
         EvictPickPcs, EvictHoldPcs, ReadNPcs, ReadingPcs, CloseConnPcs
<1>3. pc \notin {"readn_read", "readn_name", "evict_remove", "evict_book", "check_capacity"}
  BY DEF RoomPcs, WritePcs, EvictPickPcs, EvictHoldPcs, ReadNPcs, ReadingPcs
<1>4. CASE At(t, "read_file") /\ CallSucceeds(t)
  <2> DEFINE f == fslot(t)
             x == FileSent(f.name, FileData(f))
  <2>1. f \in FileType /\ CanRead(f, Conn(t))
    BY <1>1, <1>4 DEF fslot, CallSucceeds, At
  <2>2. f.open_size \in Nat /\ f.name \in Paths
    BY <2>1 DEF FileType, Paths, CanRead, is_open_file
  <2>3. x = [name |-> f.name, of |-> f.name, size |-> f.open_size] /\ x \in SentFiles
    BY <2>2 DEF FileSent, FileData, SentFiles
  <2>4. OutAfter(t) = PushRead(NoReply, f)
    BY <1>4 DEF OutAfter, At
  <2> HIDE DEF f
  <2>5. /\ PushRead(NoReply, f).buf = push_size(push_buf(EmptyBuf, f.open_size, f.name), f.open_size)
        /\ PushRead(NoReply, f).sent = <<x>>
    BY DEF PushRead, NoReply
  <2>6. Delivers("READ_FILE", PushRead(NoReply, f)) /\ <<x>> \in Seq(SentFiles)
    BY <2>3, <2>5 DEF Delivers, PutOps
  <2> QED
    BY <1>2, <1>4, <2>4, <2>5, <2>6
<1>5. CASE ~(At(t, "read_file") /\ CallSucceeds(t))
  <2>1. ~ReadNEnds(t)
    <3>1. pc \notin {"idle", "failed"} => Req(t).op # "READN_FILE"
      BY DEF StepsFit, StepsOf, ReadingPcs
    <3> QED
      BY <3>1, HandlerBusy DEF ReadNEnds, HandlerReturns, At
  <2>2. OutAfter(t) = PushCount(NoReply, t)
    BY <1>3, <1>5 DEF OutAfter, At
  <2> QED
    BY <1>2, <1>5, <2>1, <2>2 DEF PushCount
<1> QED
  BY <1>4, <1>5

\* A file pushed onto an answer, and the count on top of it.
LEMMA PushedOn ==
    ASSUME NEW o \in ReplyType, Piled(o.buf, o.sent)
    PROVE  /\ \A name \in Paths : o.data.of = name =>
                LET p == PushFile(o, name) IN
                /\ p \in ReplyType /\ Piled(p.buf, p.sent)
                /\ p.sent = Append(o.sent, FileSent(name, o.data))
                /\ Len(p.sent) = Len(o.sent) + 1 /\ p.evicted = o.evicted
           /\ \A n : n = Len(o.sent) =>
                LET p == [o EXCEPT !.buf = push_size(@, n)] IN
                /\ p \in ReplyType /\ Complete(p.buf, p.sent)
                /\ p.sent = o.sent /\ p.evicted = o.evicted
<1>1. /\ o.buf \in Seq(Items(Paths)) /\ o.sent \in Seq(SentFiles)
      /\ o.data.of \in Paths /\ o.data.size \in Nat
  BY DEF ReplyType
<1>2. ASSUME NEW name \in Paths, o.data.of = name
      PROVE  LET p == PushFile(o, name) IN
             /\ p \in ReplyType /\ Piled(p.buf, p.sent)
             /\ p.sent = Append(o.sent, FileSent(name, o.data))
             /\ Len(p.sent) = Len(o.sent) + 1 /\ p.evicted = o.evicted
  <2> DEFINE x == FileSent(name, o.data)
             buf == push_file(o.buf, name, o.data.of, o.data.size)
             sent == Append(o.sent, x)
             p == PushFile(o, name)
  <2>1. x \in SentFiles /\ x.name = name /\ x.of = o.data.of /\ x.size = o.data.size
    BY <1>1, <1>2 DEF FileSent, SentFiles
  <2>2. p = [o EXCEPT !.buf = buf, !.sent = sent]
    BY DEF PushFile
  <2> HIDE DEF p, x
  <2>3. /\ buf \in Seq(Items(Paths)) /\ Piled(buf, sent)
        /\ sent \in Seq(SentFiles) /\ Len(sent) = Len(o.sent) + 1
    <3> HIDE DEF buf
    <3>1. buf = push_file(o.buf, x.name, x.of, x.size)
      BY <2>1 DEF buf
    <3> QED
      BY <1>1, <2>1, <3>1, PiledMore
  <2> HIDE DEF buf, sent
  <2>4. p.buf = buf /\ p.sent = sent /\ p.evicted = o.evicted /\ p \in ReplyType
    BY <2>2, <2>3 DEF ReplyType
  <2> QED
    BY <2>3, <2>4 DEF p, sent, x
<1>3. ASSUME NEW n, n = Len(o.sent)
      PROVE  LET p == [o EXCEPT !.buf = push_size(@, n)] IN
             /\ p \in ReplyType /\ Complete(p.buf, p.sent)
             /\ p.sent = o.sent /\ p.evicted = o.evicted
  <2> DEFINE buf == push_size(o.buf, n)
  <2>1. Complete(buf, o.sent) /\ buf \in Seq(Items(Paths))
    BY <1>1, <1>3, CountOnPile
  <2> HIDE DEF buf
  <2> DEFINE p == [o EXCEPT !.buf = buf]
  <2>2. p.buf = buf /\ p.sent = o.sent /\ p.evicted = o.evicted /\ p \in ReplyType
    BY <2>1 DEF ReplyType
  <2> QED
    BY <2>1, <2>2 DEF buf
<1> QED
  BY <1>2, <1>3

\* What a step of do_readn_files has to leave in the answer.
ReadNKept(t, p) ==
    /\ p \in ReplyType
    /\ thr'[t].pc = "idle" => Complete(p.buf, p.sent)
    /\ thr'[t].pc \in ReadingPcs =>
         /\ Piled(p.buf, p.sent) /\ Len(p.sent) = thr'[t].count
         /\ HasRead(t)' => p.data.of = fslot(t)'.name

\* The loop goes on with the next slot, or ends and the files are counted.
LEMMA NextOut ==
    ASSUME TypeOK, NEW t \in Workers, Req(t).op = "READN_FILE", thr[t].pc \in ReadingPcs,
           NEW p \in ReplyType, Piled(p.buf, p.sent), NEW k, k = Len(p.sent),
           Counted(t) = k, ReadNNext(t, k)
    PROVE  ReadNKept(t, PushCount(p, t))
<1>1. k \in Nat /\ thr \in [Workers -> ThreadType]
  BY DEF TypeOK, ReplyType
<1>2. CASE thr' = [thr EXCEPT ![t].pc = "readn_wasclosed", ![t].fex = @ + 1, ![t].count = k]
  <2>1. thr'[t].pc = "readn_wasclosed" /\ thr'[t].count = k
    BY <1>1, <1>2 DEF ThreadType
  <2>2. ~ReadNEnds(t) /\ ~HasRead(t)'
    BY <2>1 DEF ReadNEnds, HandlerReturns, HasRead, At
  <2> QED
    BY <2>1, <2>2 DEF ReadNKept, PushCount
<1>3. CASE Reply(t)
  <2>1. thr'[t].pc = "idle"
    BY <1>1, <1>3, IdleType DEF Reply
  <2>2. ReadNEnds(t)
    BY <2>1 DEF ReadNEnds, HandlerReturns, ReadingPcs, ReadNPcs, At
  <2>3. PushCount(p, t) = [p EXCEPT !.buf = push_size(@, k)]
    BY <2>2 DEF PushCount
  <2> QED
    BY <2>1, <2>3, PushedOn DEF ReadNKept, ReadingPcs, ReadNPcs
<1> QED
  BY <1>2, <1>3 DEF ReadNNext

\* The steps of readN are taken at its labels.
LEMMA ReadNAt ==
    ASSUME BaseInv, EvictorExclusive, VictimOpen, NEW t \in Workers, HandlerStep(t),
           thr[t].pc \in ReadingPcs
    PROVE  ReadNSteps(t)
<1>1. ~FileScan(t) /\ ~CreateSteps(t) /\ ~SimpleSteps(t)
  BY ScanFlows, CreateFlows, SimpleFlows
     DEF ScanFlow, CreateFlow, SimpleFlow, ScanPcs, CreatePcs, SimplePcs, ReadNPcs, ReadingPcs
<1>2. ~RemoveSteps(t) /\ ~WriteSteps(t) /\ ~EvictSteps(t)
  BY RemoveFlows, WriteFlows, EvictFlows
     DEF RemoveFlow, RemovePcs, WriteFlow, WritePcs, EvictFlow, EvictingPcs, EvictPickPcs,
         EvictHoldPcs, ReadNPcs, ReadingPcs
<1>3. ~CloseConnSteps(t) /\ ~HandlerFailed(t)
  BY CloseConnFlows
     DEF CloseConnFlow, ClosingPcs, CloseConnPcs, HandlerFailed, ReadNPcs, ReadingPcs, At
<1> QED
  BY <1>1, <1>2, <1>3 DEF HandlerStep

\* do_readn_files pushes the files it counts, each with its own data, and their
\* number at the end.
LEMMA ReadNOut ==
    ASSUME IInv, StepsFit, SlotUndisturbed, NEW t \in Workers, HandlerStep(t),
           thr[t].pc \in ReadingPcs, out[t] \in ReplyType, ReadNSound(t)
    PROVE  ReadNKept(t, OutAfter(t))
<1> DEFINE o == out[t]
           f == fslot(t)
<1>1. /\ TypeOK /\ thr \in [Workers -> ThreadType] /\ files \in [Slots -> FileType]
      /\ thr[t].fex \in Slots /\ f = files[thr[t].fex] /\ f' = files'[thr'[t].fex]
      /\ f \in FileType /\ ReadNSteps(t) /\ Req(t).op = "READN_FILE"
  BY ReadNAt, NextSlot, OpAt DEF IInv, BaseInv, TypeOK, fslot, ReadingPcs
<1>2. /\ Piled(o.buf, o.sent) /\ Len(o.sent) = thr[t].count /\ thr[t].count \in Nat
      /\ HasRead(t) => o.data.of = f.name
  BY <1>1 DEF ReadNSound, ThreadType
<1> HIDE DEF f, o
<1>3. ASSUME thr[t].pc # "readn_name", thr[t].pc # "readn_read" \/ ~CallSucceeds(t)
      PROVE  /\ OutAfter(t) = PushCount(o, t)
             /\ thr'[t].pc # "idle" => OutAfter(t) = o
             /\ ReadNNext(t, thr[t].count) => ReadNKept(t, OutAfter(t))
  <2>1. OutAfter(t) = PushCount(o, t)
    BY <1>3 DEF OutAfter, ReadingPcs, ReadNPcs, At, o
  <2>2. thr'[t].pc # "idle" => PushCount(o, t) = o
    BY DEF PushCount, ReadNEnds, HandlerReturns
  <2>3. Counted(t) = thr[t].count
    BY <1>2, <1>3 DEF Counted, At
  <2>4. ReadNNext(t, thr[t].count) => ReadNKept(t, PushCount(o, t))
    BY <1>1, <1>2, <2>3, NextOut DEF o
  <2> QED
    BY <2>1, <2>2, <2>4
<1>4. CASE ReadNWasClosed(t)
  <2>1. thr'[t].pc = "readn_open" /\ thr'[t].count = thr[t].count /\ At(t, "readn_wasclosed")
    BY <1>1, <1>4 DEF ReadNWasClosed, ThreadType
  <2> QED
    BY <1>2, <1>3, <2>1 DEF ReadNKept, HasRead, At, o
<1>5. CASE ReadNOpen(t)
  <2>1. CASE CanOpen(f, Conn(t))
    <3>1. thr'[t].pc = "readn_read" /\ thr'[t].count = thr[t].count /\ At(t, "readn_open")
      BY <1>1, <1>5, <2>1 DEF ReadNOpen, Goto, ThreadType, f
    <3> QED
      BY <1>2, <1>3, <3>1 DEF ReadNKept, HasRead, At, o
  <2>2. CASE ~CanOpen(f, Conn(t))
    BY <1>3, <1>5, <2>2 DEF ReadNOpen, At, f
  <2> QED
    BY <2>1, <2>2
<1>6. CASE ReadNRead(t)
  <2>1. At(t, "readn_read") /\ files' = files /\ (CallSucceeds(t) <=> CanRead(f, Conn(t)))
    BY <1>6 DEF ReadNRead, CallSucceeds, At, f
  <2>2. CASE thr[t].wasclosed
    <3>1. /\ thr'[t].pc = "readn_close" /\ thr'[t].count = thr[t].count
          /\ thr'[t].fex = thr[t].fex /\ thr'[t].readok = CanRead(f, Conn(t))
      BY <1>1, <1>6, <2>2 DEF ReadNRead, ThreadType, f
    <3>2. CASE CallSucceeds(t)
      <4> DEFINE p == [o EXCEPT !.data = FileData(f)]
      <4>1. FileData(f).of = f.name /\ FileData(f) \in [of : Paths, size : Nat]
        BY <1>1, <2>1, <3>2 DEF FileData, FileType, Paths, CanRead, is_open_file
      <4>2. /\ p \in ReplyType /\ p.buf = o.buf /\ p.sent = o.sent
            /\ p.data.of = f.name
        BY <4>1 DEF ReplyType, o
      <4>3. OutAfter(t) = p
        <5>1. OutAfter(t) = PushCount(p, t)
          BY <2>1, <3>2 DEF OutAfter, At, o, f
        <5> QED
          BY <3>1, <5>1 DEF PushCount, ReadNEnds, HandlerReturns
      <4>4. f' = f
        BY <1>1, <2>1, <3>1
      <4> HIDE DEF p
      <4> QED
        BY <1>2, <3>1, <4>2, <4>3, <4>4 DEF ReadNKept, f
    <3>3. CASE ~CallSucceeds(t)
      <4>1. OutAfter(t) = o /\ ~HasRead(t)'
        BY <1>3, <2>1, <3>1, <3>3 DEF HasRead, At
      <4> QED
        BY <1>2, <3>1, <4>1 DEF ReadNKept, o
    <3> QED
      BY <3>2, <3>3
  <2>3. CASE ~thr[t].wasclosed /\ CallSucceeds(t)
    <3>1. /\ thr'[t].pc = "readn_name" /\ thr'[t].count = thr[t].count
          /\ thr'[t].fex = thr[t].fex
      BY <1>1, <1>6, <2>1, <2>3 DEF ReadNRead, ReadNAfter, Goto, ThreadType, f
    <3> DEFINE p == [o EXCEPT !.data = FileData(f)]
    <3>2. FileData(f).of = f.name /\ FileData(f) \in [of : Paths, size : Nat]
      BY <1>1, <2>1, <2>3 DEF FileData, FileType, Paths, CanRead, is_open_file
    <3>3. p \in ReplyType /\ p.buf = o.buf /\ p.sent = o.sent /\ p.data.of = f.name
      BY <3>2 DEF ReplyType, o
    <3>4. OutAfter(t) = p
      <4>1. OutAfter(t) = PushCount(p, t)
        BY <2>1, <2>3 DEF OutAfter, At, o, f
      <4> QED
        BY <3>1, <4>1 DEF PushCount, ReadNEnds, HandlerReturns
    <3>5. f' = f
      BY <1>1, <2>1, <3>1
    <3> HIDE DEF p
    <3> QED
      BY <1>2, <3>1, <3>3, <3>4, <3>5 DEF ReadNKept, f
  <2>4. CASE ~thr[t].wasclosed /\ ~CallSucceeds(t)
    BY <1>3, <1>6, <2>1, <2>4 DEF ReadNRead, ReadNAfter, At, f
  <2> QED
    BY <2>2, <2>3, <2>4
<1>7. CASE ReadNClose(t)
  <2>1. /\ thr'[t].pc = "readn_book" /\ thr'[t].count = thr[t].count
        /\ thr'[t].fex = thr[t].fex /\ thr'[t].readok = thr[t].readok /\ At(t, "readn_close")
    BY <1>1, <1>7 DEF ReadNClose, CloseSlot, ThreadType
  <2>2. f'.name = f.name
    <3>1. files' = files \/ files' = [files EXCEPT ![thr[t].fex] = close_file(f)]
      BY <1>7 DEF ReadNClose, CloseSlot, SetFile, f
    <3>2. close_file(f).name = f.name
      BY <1>1 DEF close_file, FileType
    <3> QED
      BY <1>1, <2>1, <3>1, <3>2
  <2>3. OutAfter(t) = o /\ (HasRead(t)' => HasRead(t))
    BY <1>3, <2>1 DEF HasRead, At
  <2> QED
    BY <1>2, <2>1, <2>2, <2>3 DEF ReadNKept, o, f
<1>8. CASE ReadNBook(t)
  <2>1. CASE thr[t].readok
    <3>1. /\ thr'[t].pc = "readn_name" /\ thr'[t].count = thr[t].count
          /\ thr'[t].fex = thr[t].fex /\ At(t, "readn_book") /\ files' = files
      BY <1>1, <1>8, <2>1 DEF ReadNBook, ReadNAfter, Goto, ThreadType
    <3>2. OutAfter(t) = o /\ HasRead(t) /\ f' = f
      BY <1>1, <1>3, <2>1, <3>1 DEF HasRead, At
    <3> QED
      BY <1>2, <3>1, <3>2 DEF ReadNKept, o, f
  <2>2. CASE ~thr[t].readok
    BY <1>3, <1>8, <2>2 DEF ReadNBook, ReadNAfter, At
  <2> QED
    BY <2>1, <2>2
<1>9. CASE ReadNName(t)
  <2>1. At(t, "readn_name") /\ is_existing_file(f) /\ ReadNNext(t, thr[t].count + 1)
    BY <1>9 DEF ReadNName, SlotUndisturbed, At, f
  <2> DEFINE p == PushFile(o, f.name)
  <2>2. f.name \in Paths /\ o.data.of = f.name
    BY <1>1, <1>2, <2>1 DEF HasRead, FileType, Paths
  <2>3. /\ p \in ReplyType /\ Piled(p.buf, p.sent) /\ Len(p.sent) = thr[t].count + 1
    BY <1>2, <2>2, PushedOn DEF o
  <2>4. OutAfter(t) = PushCount(p, t) /\ Counted(t) = thr[t].count + 1
    BY <2>1 DEF OutAfter, Counted, At, o, f
  <2> HIDE DEF p
  <2> QED
    BY <1>1, <1>2, <2>1, <2>3, <2>4, NextOut
<1> QED
  BY <1>1, <1>4, <1>5, <1>6, <1>7, <1>8, <1>9 DEF ReadNSteps

\* What a step on the way from making room to the end of a write has to leave.
RoomKept(t, p) ==
    /\ p \in ReplyType
    /\ thr'[t].pc \in RoomPcs => EvictedSound(p, thr'[t].pc)
    /\ thr'[t].pc = "idle" => EvictedSound(p, "apply")

\* The evictions push the files they count, and their number once there is room.
LEMMA RoomOut ==
    ASSUME IInv, StepsFit, NEW t \in Workers, HandlerStep(t),
           thr[t].pc \in RoomPcs, out[t] \in ReplyType, EvictedSound(out[t], thr[t].pc)
    PROVE  RoomKept(t, OutAfter(t))
<1> DEFINE o == out[t]
           pc == thr[t].pc
           next == thr'[t].pc
<1>1. /\ BaseInv /\ EvictorExclusive /\ VictimOpen
      /\ files \in [Slots -> FileType] /\ thr[t].victim \in Slots /\ Req(t).op \in PutOps
  BY OpAt, NextSlot DEF IInv, BaseInv, TypeOK
<1>2. \A b : PushCount(b, t) = b
  BY <1>1 DEF PushCount, ReadNEnds, PutOps
<1>3. CASE At(t, "check_capacity")
  <2>1. /\ Piled(o.buf, o.sent) /\ Len(o.sent) = o.evicted
        /\ \A i \in DOMAIN o.sent : o.sent[i].size # 0
    BY <1>3 DEF EvictedSound, RoomPcsAfter, At
  <2>2. next \in {"reserve", "evict_pick"}
    <3>1. WriteSteps(t)
      BY <1>1, <1>3, WriteAt DEF WritePcs, At
    <3>2. CheckCapacity(t)
      BY <1>3, <3>1 DEF WriteSteps, Reserve, Apply, Release, Refuse, At
    <3> QED
      BY <1>1, <3>2, Moved DEF CheckCapacity
  <2>3. CASE next = "reserve" /\ o.evicted > 0
    <3>1. OutAfter(t) = [o EXCEPT !.buf = push_size(@, o.evicted)]
      BY <1>3, <2>3 DEF OutAfter, At
    <3> DEFINE p == [o EXCEPT !.buf = push_size(@, o.evicted)]
    <3>2. /\ p \in ReplyType /\ Complete(p.buf, p.sent)
          /\ p.sent = o.sent /\ p.evicted = o.evicted
      BY <2>1, PushedOn
    <3>3. OutAfter(t) = p
      BY <3>1
    <3> HIDE DEF p
    <3> QED
      BY <2>1, <2>3, <3>2, <3>3 DEF RoomKept, EvictedSound, RoomPcsAfter
  <2>4. CASE ~(next = "reserve" /\ o.evicted > 0)
    <3>1. OutAfter(t) = o
      BY <1>2, <1>3, <2>4 DEF OutAfter, At
    <3> QED
      BY <2>1, <2>2, <2>4, <3>1 DEF RoomKept, EvictedSound, RoomPcsAfter
  <2> QED
    BY <2>3, <2>4
<1>4. CASE pc \in {"reserve", "apply", "release"}
  <2>1. OutAfter(t) = o
    BY <1>2, <1>4 DEF OutAfter, At
  <2>2. next \in {"apply", "release", "idle", "failed", "aborted"}
    <3>1. WriteSteps(t)
      BY <1>1, <1>4, WriteAt DEF WritePcs
    <3> QED
      BY <1>1, <1>4, <3>1, Moved, IdleType
         DEF WriteSteps, CheckCapacity, Reserve, Apply, Release, Refuse, Abort, Fail, At
  <2> QED
    BY <1>4, <2>1, <2>2 DEF RoomKept, EvictedSound, RoomPcsAfter, RoomPcs, WritePcs, EvictPickPcs,
       EvictHoldPcs
<1>5. CASE pc \notin WritePcs
  <2>1. /\ Piled(o.buf, o.sent) /\ Len(o.sent) = o.evicted
        /\ \A i \in DOMAIN o.sent : o.sent[i].size # 0
        /\ pc \notin {"read_file", "readn_read", "readn_name", "check_capacity"}
    BY <1>5 DEF EvictedSound, RoomPcsAfter, RoomPcs, WritePcs, EvictPickPcs, EvictHoldPcs
  <2>2. next \in EvictPickPcs \union EvictHoldPcs \union {"evict_book", "check_capacity"}
    BY <1>1, <1>5, HandlerFlows DEF EvictFlow, PlainFlow, EvictingPcs, RoomPcs
  <2>3. SUFFICES /\ OutAfter(t) \in ReplyType
                 /\ Piled(OutAfter(t).buf, OutAfter(t).sent)
                 /\ Len(OutAfter(t).sent) = OutAfter(t).evicted
                 /\ \A i \in DOMAIN OutAfter(t).sent : OutAfter(t).sent[i].size # 0
    BY <2>2 DEF RoomKept, EvictedSound, RoomPcsAfter, EvictPickPcs, EvictHoldPcs
  <2>4. CASE At(t, "evict_remove")
    <3> DEFINE f == vslot(t)
               p == [o EXCEPT !.data = FileData(f)]
    <3>1. f \in FileType /\ is_open_file(f)
      BY <1>1, <2>4 DEF VictimOpen, vslot
    <3>2. FileData(f) \in [of : Paths, size : Nat]
      BY <3>1 DEF FileData, FileType, Paths, is_open_file
    <3>3. OutAfter(t) = p
      BY <2>4 DEF OutAfter, At
    <3> HIDE DEF f
    <3>4. p \in ReplyType /\ p.buf = o.buf /\ p.sent = o.sent /\ p.evicted = o.evicted
      BY <3>2 DEF ReplyType
    <3> QED
      BY <2>1, <3>3, <3>4
  <2>5. CASE At(t, "evict_book") /\ o.data.size # 0
    <3> DEFINE p == PushFile(o, o.data.of)
    <3>1. o.data.of \in Paths /\ o.evicted \in Nat
      BY DEF ReplyType
    <3>2. /\ p \in ReplyType /\ Piled(p.buf, p.sent)
          /\ Len(p.sent) = o.evicted + 1 /\ p.evicted = o.evicted
          /\ p.sent = Append(o.sent, FileSent(o.data.of, o.data))
      BY <2>1, <3>1, PushedOn
    <3>3. OutAfter(t) = [p EXCEPT !.evicted = @ + 1]
      BY <2>5 DEF OutAfter, PushEvicted, At
    <3> HIDE DEF p
    <3>4. OutAfter(t) \in ReplyType /\ OutAfter(t).buf = p.buf
          /\ OutAfter(t).sent = p.sent /\ OutAfter(t).evicted = p.evicted + 1
      <4>1. p \in ReplyType /\ p.evicted + 1 \in Nat
        BY <3>1, <3>2
      <4> QED
        BY <3>3, <4>1 DEF ReplyType
    <3>5. \A i \in DOMAIN p.sent : p.sent[i].size # 0
      <4>1. o.sent \in Seq(SentFiles) /\ FileSent(o.data.of, o.data).size # 0
        BY <2>5 DEF ReplyType, FileSent
      <4> QED
        BY <2>1, <3>2, <4>1
    <3> QED
      BY <3>2, <3>4, <3>5
  <2>6. CASE ~At(t, "evict_remove") /\ ~(At(t, "evict_book") /\ o.data.size # 0)
    <3>1. OutAfter(t) = o
      BY <1>2, <2>1, <2>6 DEF OutAfter, PushEvicted, At
    <3> QED
      BY <2>1, <3>1
  <2> QED
    BY <2>4, <2>5, <2>6
<1> QED
  BY <1>3, <1>4, <1>5 DEF WritePcs, At

\* What the calls have read, in terms of AsRead.
LEMMA RepliesParts ==
    /\ RepliesReadBack <=>
         \A c \in Conns : St(c, "answered") /\ call[c].res = "ok" => AsRead(got[c])
    /\ RepliesReadBack' <=>
         \A c \in Conns : call'[c].st = "answered" /\ call'[c].res = "ok" => AsRead(got'[c])
  BY DEF RepliesReadBack, AsRead, St

\* A step of the handler of c's request keeps ReplyInv: the answer goes on as it
\* should, and what is answered is read whole.
LEMMA WorkReply ==
    ASSUME OneWorker, IInv, IInv', StepsFit, StepsFit', SlotUndisturbed, ClientTypeOK, ReplyInv,
           NEW t \in Workers, ReplyWork(t)
    PROVE  ReplyInv'
<1>1. /\ BaseInv /\ EvictorExclusive /\ VictimOpen /\ Work(t) /\ HandlerStep(t)
      /\ thr[t] \in ThreadType /\ call \in [Conns -> CallType] /\ \A u \in Workers : u = t
      /\ out \in [Workers -> ReplyType] /\ DOMAIN got = Conns /\ ReplySound(t)
      /\ ServerAlive
  BY DEF IInv, BaseInv, TypeOK, ClientTypeOK, ReplyWork, Work, WorkerStep, OneWorker, ReplyInv,
         ReplyTypeOK
<1>2. /\ thr[t].pc # "idle" /\ Conn(t) \in Conns
      /\ thr[t].req \in Requests \union {NoRequest}
  BY <1>1, HandlerBusy, BusyConn DEF ThreadType
<1> PICK c \in Conns : c = Conn(t)
  BY <1>2
<1> PICK r \in Requests \union {NoRequest} : r = Req(t)
  BY <1>2 DEF Req
<1>3. call[c].reply \union FlagsOfStep(t) \in SUBSET Flags
  BY <1>1, FlagsTyped DEF CallType
<1> PICK reply \in SUBSET Flags : reply = call[c].reply \union FlagsOfStep(t)
  BY <1>3
<1>4. thr'[t] = IdleThread \/ (Conn(t)' = c /\ Req(t)' = r)
  BY <1>1, OthersKeep
<1>5. /\ \A d \in Conns : d # c => call'[d] = call[d]
      /\ call'[c] = IF WritesAnswer(t) THEN Answer(r, reply)
                    ELSE [call[c] EXCEPT !.reply = reply]
  BY <1>1, <1>2 DEF Work
<1> DEFINE p == OutAfter(t)
           next == thr'[t].pc
<1>6. /\ WritesAnswer(t) => /\ out' = [out EXCEPT ![t] = NoReply]
                            /\ got' = [got EXCEPT ![c] = Received(r.op, call'[c].res, p)]
      /\ ~WritesAnswer(t) => out' = [out EXCEPT ![t] = p] /\ got' = got
  BY DEF ReplyWork
<1>7. /\ thr[t].pc \in RoomPcs => r.op \in PutOps
      /\ thr[t].pc \in ReadingPcs => r.op = "READN_FILE"
      /\ thr[t].pc = "cconn_remove" => r.op = "CLOSE_CONN"
      /\ next = "cconn_remove" => r.op = "CLOSE_CONN"
  <2>1. Req(t)'.op = r.op \/ next # "cconn_remove"
    BY <1>4, IdleType
  <2>2. next = "cconn_remove" => Req(t)'.op = "CLOSE_CONN"
    <3>1. next \in {"idle", "failed", "aborted"} \union StepsOf[Req(t)'.op]
      BY DEF StepsFit
    <3>2. \A s \in Ops : "cconn_remove" \in StepsOf[s] => s = "CLOSE_CONN"
      BY DEF Ops, NamedOps, StepsOf, Search, ScanPcs, CreatePcs, RemovePcs, RoomPcs, WritePcs,
         EvictPickPcs, EvictHoldPcs, ReadNPcs
    <3>3. next = "cconn_remove" => Req(t)'.op \in Ops
      BY <1>4, RequestAssumption, IdleType DEF NoRequest, Ops, RequestType
    <3> QED
      BY <3>1, <3>2, <3>3
  <2> QED
    BY <2>1, <2>2, OpAt DEF ReadingPcs, ClosingPcs, CloseConnPcs
<1>8. NoReply \in ReplyType
  BY DEF NoReply, NoData, EmptyBuf, ReplyType, Paths
<1> HIDE DEF p, next

\* What the step leaves in the answer.
<1>9. ASSUME thr[t].pc \notin RoomPcs \union ReadingPcs
      PROVE  /\ next \notin ReadingPcs /\ (next \in RoomPcs => next = "check_capacity")
             /\ IF At(t, "read_file") /\ CallSucceeds(t)
                THEN Delivers("READ_FILE", p) /\ p.sent \in Seq(SentFiles)
                ELSE p = NoReply
  <2>1. thr[t].pc # "aborted"
    BY <1>1 DEF ServerAlive, At
  <2> QED
    BY <1>1, <1>9, <2>1, ElsewhereOut DEF ReplySound, p, next
<1>10. ASSUME thr[t].pc \in ReadingPcs PROVE ReadNKept(t, p) /\ next \notin RoomPcs
  <2>1. ReadNKept(t, p)
    BY <1>1, <1>10, ReadNOut DEF ReplySound, p
  <2>2. next \notin RoomPcs
    BY <1>1, <1>10, ReadNAt, ReadNFlows, IdleType
       DEF ReadNFlow, ReadNPcs, RoomPcs, WritePcs, EvictPickPcs, EvictHoldPcs, next
  <2> QED
    BY <2>1, <2>2
<1>11. ASSUME thr[t].pc \in RoomPcs PROVE RoomKept(t, p) /\ next \notin ReadingPcs
  <2>1. RoomKept(t, p)
    BY <1>1, <1>11, RoomOut DEF ReplySound, p
  <2>2. next \notin ReadingPcs
    <3>1. CASE thr[t].pc \in WritePcs
      BY <1>1, <3>1, WriteAt, WriteFlows, IdleType
         DEF WriteFlow, WritePcs, ReadNPcs, ReadingPcs, next
    <3>2. CASE thr[t].pc \notin WritePcs
      BY <1>1, <1>11, <3>2, HandlerFlows
         DEF EvictFlow, PlainFlow, EvictingPcs, EvictPickPcs, EvictHoldPcs, RoomPcs, ReadNPcs,
             ReadingPcs, next
    <3> QED
      BY <3>1, <3>2
  <2> QED
    BY <2>1, <2>2

\* What is answered with success is what the request asks for.
<1>12. ASSUME WritesAnswer(t), r.op # "CLOSE_CONN", "OP_SUCC" \in reply
       PROVE  p.sent \in Seq(SentFiles) /\ Delivers(r.op, p)
  <2>1. thr[t].pc # "failed"
    BY <1>12 DEF WritesAnswer, At
  <2>2. CASE r.op \in TellingOps
    <3>1. "OP_SUCC" \in FlagsOfStep(t)
      BY <1>1, <1>2, <1>12, <2>1, <2>2 DEF ReplySound, ServerAlive, At
    <3>2. /\ next = "idle"
          /\ r.op = "READ_FILE" => At(t, "read_file") /\ CallSucceeds(t)
          /\ r.op = "READN_FILE" => thr[t].pc \in ReadingPcs
          /\ r.op \in PutOps => At(t, "apply")
      BY <1>1, <2>2, <3>1, SuccessTold DEF next
    <3>3. CASE r.op = "READ_FILE"
      BY <1>7, <1>9, <3>2, <3>3 DEF PutOps
    <3>4. CASE r.op = "READN_FILE"
      BY <1>10, <3>2, <3>4 DEF ReadNKept, ReplyType, Delivers, PutOps, next
    <3>5. CASE r.op \in PutOps
      <4>1. EvictedSound(p, "apply") /\ p \in ReplyType
        BY <1>11, <3>2, <3>5 DEF RoomKept, RoomPcs, WritePcs, At, next
      <4>2. p.sent \in Seq(SentFiles) /\ p.evicted \in Nat /\ Len(p.sent) = p.evicted
        BY <4>1 DEF ReplyType, EvictedSound
      <4>3. CASE p.evicted > 0
        BY <3>5, <4>1, <4>2, <4>3 DEF EvictedSound, RoomPcsAfter, Delivers, PutOps
      <4>4. CASE ~(p.evicted > 0)
        <5>1. p.sent = <<>> /\ Piled(p.buf, p.sent)
          BY <4>1, <4>2, <4>4 DEF EvictedSound
        <5>2. p.buf = EmptyBuf
          BY <5>1, PiledNone
        <5> QED
          BY <3>5, <4>2, <4>4, <5>1, <5>2 DEF Delivers, PutOps
      <4> QED
        BY <4>3, <4>4
    <3> QED
      BY <2>2, <3>3, <3>4, <3>5 DEF TellingOps
  <2>3. CASE r.op \notin TellingOps
    <3>1. thr[t].pc \notin RoomPcs \union ReadingPcs /\ ~At(t, "read_file")
      BY <1>7, <2>3, OpAt DEF TellingOps, At
    <3>2. p = NoReply
      BY <1>9, <3>1
    <3> QED
      BY <2>3, <3>2 DEF TellingOps, Delivers, NoReply, EmptyBuf
  <2> QED
    BY <2>2, <2>3
<1>13. RepliesReadBack'
  <2> SUFFICES ASSUME NEW d \in Conns, call'[d].st = "answered", call'[d].res = "ok"
               PROVE  AsRead(got'[d])
    BY RepliesParts
  <2>1. CASE d # c \/ ~WritesAnswer(t)
    <3>1. /\ got'[d] = got[d] /\ call'[d].st = call[d].st /\ call'[d].res = call[d].res
      BY <1>1, <1>5, <1>6, <2>1 DEF CallType
    <3>2. RepliesReadBack
      BY DEF ReplyInv
    <3> QED
      BY <3>1, <3>2, RepliesParts DEF St
  <2>2. CASE d = c /\ WritesAnswer(t)
    <3>1. r.op # "CLOSE_CONN" /\ "OP_SUCC" \in reply
      BY <1>5, <2>2, AnswerRead
    <3>2. AsRead(Received(r.op, "ok", p))
      BY <1>12, <2>2, <3>1, WholeRead
    <3>3. got'[d] = Received(r.op, "ok", p)
      BY <1>1, <1>6, <2>2
    <3> QED
      BY <3>2, <3>3
  <2> QED
    BY <2>1, <2>2

\* What is not answered yet goes on.
<1>14. ReplyTypeOK' /\ ReplySound(t)'
  <2>1. DOMAIN got' = Conns
    BY <1>1, <1>6
  <2>2. CASE WritesAnswer(t)
    <3>1. out'[t] = NoReply /\ out' \in [Workers -> ReplyType]
      BY <1>1, <1>6, <1>8, <2>2
    <3>2. /\ next \in {"idle", "failed", "cconn_remove"}
          /\ next = "cconn_remove" => Req(t)'.op = "CLOSE_CONN"
      BY <1>4, <1>7, <2>2, IdleType DEF WritesAnswer, next
    <3> QED
      BY <2>1, <3>1, <3>2
         DEF ReplyTypeOK, ReplySound, TellingOps, PutOps, RoomPcs, WritePcs, EvictPickPcs,
             EvictHoldPcs, ReadingPcs, ReadNPcs, next
  <2>3. CASE ~WritesAnswer(t)
    <3>1. out' = [out EXCEPT ![t] = p] /\ out'[t] = p
      BY <1>1, <1>6, <2>3
    <3>2. /\ next = "idle" => At(t, "failed") \/ r.op = "CLOSE_CONN"
          /\ next = "failed" => At(t, "failed") \/ r.op = "CLOSE_CONN"
          /\ At(t, "failed") => next = "idle"
      <4>1. At(t, "failed") => next = "idle"
        BY <1>1, LastSteps, Moved, IdleType DEF HandlerFailed, CConnRemove, At, next
      <4> QED
        BY <2>3, <4>1 DEF WritesAnswer, next
    <3>3. Req(t)'.op \in TellingOps /\ next \notin {"idle", "failed", "aborted"}
             => "OP_SUCC" \notin call'[Conn(t)'].reply
      <4> SUFFICES ASSUME Req(t)'.op \in TellingOps, next \notin {"idle", "failed", "aborted"}
                   PROVE  "OP_SUCC" \notin call'[Conn(t)'].reply
        OBVIOUS
      <4>1. Conn(t)' = c /\ r.op \in TellingOps
        BY <1>4, IdleType DEF next
      <4>2. "OP_SUCC" \notin call[c].reply
        BY <1>1, <1>2, <3>2, <4>1 DEF ReplySound, ServerAlive, At
      <4>3. "OP_SUCC" \notin FlagsOfStep(t)
        BY <1>1, <4>1, SuccessTold DEF next
      <4>4. call'[c].reply = reply
        BY <1>1, <1>5, <2>3 DEF CallType
      <4> QED
        BY <4>1, <4>2, <4>3, <4>4
    <3> SUFFICES /\ p \in ReplyType
                 /\ next \notin RoomPcs \union ReadingPcs \union {"aborted"} => p = NoReply
                 /\ next \in ReadingPcs => ReadNSound(t)'
                 /\ next \in RoomPcs => EvictedSound(p, next)
      BY <1>1, <2>1, <3>1, <3>3 DEF ReplyTypeOK, ReplySound, next
    <3>4. CASE thr[t].pc \notin RoomPcs \union ReadingPcs
      <4>1. p = NoReply
        <5>1. ~(At(t, "read_file") /\ CallSucceeds(t))
          <6> SUFFICES ASSUME At(t, "read_file"), CallSucceeds(t) PROVE FALSE
            OBVIOUS
          <6>1. "OP_SUCC" \in FlagsOfStep(t) /\ r.op = "READ_FILE"
            BY OpAt DEF FlagsOfStep, SimplePcs, At
          <6>2. next = "idle" /\ ~At(t, "failed")
            BY <1>1, <6>1, SuccessTold DEF TellingOps, At, next
          <6> QED
            BY <3>2, <6>1, <6>2
        <5> QED
          BY <1>9, <3>4, <5>1
      <4>2. EvictedSound(NoReply, "check_capacity")
        BY PiledNone DEF EvictedSound, NoReply, RoomPcsAfter
      <4> QED
        BY <1>8, <1>9, <3>4, <4>1, <4>2
    <3>5. CASE thr[t].pc \in ReadingPcs
      <4>1. next \in ReadingPcs
        <5>1. next = "idle" \/ next \in ReadNPcs \union {"readn_book", "failed"}
          BY <1>1, <3>5, ReadNAt, ReadNFlows, IdleType DEF ReadNFlow, next
        <5>2. next \notin {"idle", "failed"}
          BY <1>7, <3>2, <3>5 DEF At, ReadingPcs, ReadNPcs
        <5> QED
          BY <5>1, <5>2 DEF ReadingPcs
      <4>2. p \in ReplyType /\ ReadNSound(t)'
        BY <1>10, <3>1, <3>5, <4>1 DEF ReadNKept, ReadNSound, next
      <4> QED
        BY <1>10, <3>5, <4>1, <4>2
    <3>6. CASE thr[t].pc \in RoomPcs
      <4>1. next \notin {"idle", "failed"}
        BY <1>7, <3>2, <3>6
           DEF At, PutOps, RoomPcs, WritePcs, EvictPickPcs, EvictHoldPcs
      <4>2. next \in RoomPcs \union {"aborted"}
        <5>1. CASE thr[t].pc \in WritePcs
          BY <1>1, <4>1, <5>1, WriteAt, WriteFlows, IdleType
             DEF WriteFlow, RoomPcs, EvictPickPcs, next
        <5>2. CASE thr[t].pc \notin WritePcs
          BY <1>1, <3>6, <5>2, HandlerFlows
             DEF EvictFlow, PlainFlow, EvictingPcs, RoomPcs, WritePcs, EvictPickPcs,
                 EvictHoldPcs, next
        <5> QED
          BY <5>1, <5>2
      <4> QED
        BY <1>11, <3>6, <4>2 DEF RoomKept, ReadingPcs, ReadNPcs, RoomPcs, WritePcs, EvictPickPcs,
           EvictHoldPcs, next
    <3> QED
      BY <3>4, <3>5, <3>6
  <2> QED
    BY <2>2, <2>3
<1> QED
  BY <1>1, <1>13, <1>14 DEF ReplyInv

\* A step outside the handlers that ends no call with success, and sets no flag,
\* keeps ReplyInv.
LEMMA ReplyKept ==
    ASSUME IInv, ReplyInv, call \in [Conns -> CallType], thr' = thr, files' = files, out' = out,
           DOMAIN got' = Conns,
           \A d \in Conns : \/ call'[d] = call[d] /\ got'[d] = got[d]
                            \/ /\ call'[d].reply \subseteq call[d].reply
                               /\ call'[d].st # "answered" \/ call'[d].res # "ok"
    PROVE  ReplyInv'
<1>1. RepliesReadBack'
  <2> SUFFICES ASSUME NEW d \in Conns, call'[d].st = "answered", call'[d].res = "ok"
               PROVE  AsRead(got'[d])
    BY RepliesParts
  <2>1. call'[d] = call[d] /\ got'[d] = got[d]
    OBVIOUS
  <2>2. RepliesReadBack
    BY DEF ReplyInv
  <2> QED
    BY <2>1, <2>2, RepliesParts DEF St
<1>2. ASSUME NEW t \in Workers PROVE ReplySound(t)'
  <2>1. ReplySound(t)
    BY DEF ReplyInv
  <2>2. thr'[t] = thr[t] /\ out'[t] = out[t] /\ Conn(t)' = Conn(t) /\ Req(t)' = Req(t)
        /\ (ReadNSound(t)' <=> ReadNSound(t))
    BY DEF Conn, Req, ReadNSound, HasRead, At, fslot
  <2>3. thr[t].pc # "idle" => Conn(t) \in Conns
    BY BusyConn DEF IInv, BaseInv, At
  <2>4. ASSUME Conn(t) \in Conns PROVE call'[Conn(t)].reply \subseteq call[Conn(t)].reply
    BY <2>4 DEF CallType
  <2> QED
    BY <2>1, <2>2, <2>3, <2>4 DEF ReplySound
<1> QED
  BY <1>1, <1>2 DEF ReplyInv, ReplyTypeOK

\* A handler begins with an answer that has nothing in it.
LEMMA ServeReply ==
    ASSUME OneWorker, IInv, ClientTypeOK, ReplyInv, NEW t \in Workers, NEW c \in Conns,
           Serve(t, c), UNCHANGED <<out, got>>
    PROVE  ReplyInv'
<1>1. thr \in [Workers -> ThreadType] /\ call \in [Conns -> CallType] /\ At(t, "idle")
      /\ \A u \in Workers : u = t
  BY DEF IInv, BaseInv, TypeOK, ClientTypeOK, Serve, Receive, OneWorker
<1>2. PICK d \in clients, r \in Requests :
         ReceiveNamed(t, d, r) \/ ReceiveReadN(t, d, r) \/ ReceiveCloseConn(t, d, r)
  BY DEF Serve, Receive
<1>3. PICK l \in {"get_file", "readn_wasclosed", "cconn_check"} :
         thr' = [thr EXCEPT ![t] = [IdleThread EXCEPT !.pc = l, !.conn = d, !.req = r]]
  BY <1>2 DEF ReceiveNamed, ReceiveReadN, ReceiveCloseConn, Begin
<1>4. thr'[t].pc = l /\ thr'[t].conn = c /\ thr'[t].count = 0
  BY <1>1, <1>3 DEF IdleThread, Serve
<1>5. /\ call'[c].st = "served" /\ call'[c].reply = {}
      /\ \A e \in Conns : e # c => call'[e] = call[e]
  BY <1>1 DEF Serve, NoCall
<1>6. out'[t] = NoReply
  BY <1>1 DEF ReplyInv, ReplySound, At, RoomPcs, WritePcs, EvictPickPcs, EvictHoldPcs, ReadingPcs,
     ReadNPcs
<1>7. RepliesReadBack'
  <2> SUFFICES ASSUME NEW e \in Conns, call'[e].st = "answered", call'[e].res = "ok"
               PROVE  AsRead(got'[e])
    BY RepliesParts
  <2>1. call'[e] = call[e] /\ got'[e] = got[e]
    BY <1>5
  <2>2. RepliesReadBack
    BY DEF ReplyInv
  <2> QED
    BY <2>1, <2>2, RepliesParts DEF St
<1>8. ReplySound(t)'
  <2>1. ReadNSound(t)'
    <3>1. Piled(<<>>, <<>>) /\ Len(<<>>) = 0
      BY PiledNone DEF EmptyBuf
    <3>2. ~HasRead(t)'
      BY <1>4 DEF HasRead, At
    <3> QED
      BY <1>4, <1>6, <3>1, <3>2 DEF ReadNSound, NoReply, EmptyBuf
  <2>2. "OP_SUCC" \notin call'[Conn(t)'].reply
    BY <1>4, <1>5 DEF Conn
  <2>3. l \notin RoomPcs
    BY DEF RoomPcs, WritePcs, EvictPickPcs, EvictHoldPcs
  <2> QED
    BY <1>4, <1>6, <2>1, <2>2, <2>3 DEF ReplySound
<1> QED
  BY <1>1, <1>7, <1>8 DEF ReplyInv, ReplyTypeOK

\* What the clients do keeps ReplyInv.
LEMMA ClientReply ==
    ASSUME OneWorker, IInv, ClientTypeOK, ReplyInv,
           \/ \E c \in Conns : ReplyReturn(c)
           \/ /\ \/ \E c \in Conns : openConnection(c) \/ CallFails(c)
                 \/ \E t \in Workers, c \in Conns : Serve(t, c) \/ RefuseWrite(t, c)
              /\ UNCHANGED <<out, got>>
           \/ UNCHANGED rvars
    PROVE  ReplyInv'
<1>1. call \in [Conns -> CallType] /\ DOMAIN got = Conns
  BY DEF ClientTypeOK, ReplyInv, ReplyTypeOK
<1>2. CASE UNCHANGED rvars
  <2>1. thr' = thr /\ files' = files /\ out' = out /\ call' = call /\ got' = got
    BY <1>2 DEF rvars, cvars, vars, clientvars
  <2> QED
    BY <1>1, <2>1, ReplyKept
<1>3. ASSUME NEW c \in Conns, ReplyReturn(c) PROVE ReplyInv'
  <2>1. /\ thr' = thr /\ files' = files /\ out' = out /\ DOMAIN got' = Conns
        /\ \A d \in Conns : d # c => call'[d] = call[d] /\ got'[d] = got[d]
    BY <1>1, <1>3 DEF ReplyReturn, Return, SetCall, vars
  <2>2. call'[c].st # "answered" /\ call'[c].reply \subseteq call[c].reply
    <3>1. CASE call[c].res = "again"
      BY <1>1, <1>3, <3>1 DEF ReplyReturn, Return, SetCall, CallType
    <3>2. CASE call[c].res # "again"
      BY <1>1, <1>3, <3>2 DEF ReplyReturn, Return, NoCall
    <3> QED
      BY <3>1, <3>2
  <2> QED
    BY <1>1, <2>1, <2>2, ReplyKept
<1>4. ASSUME NEW c \in Conns, openConnection(c) \/ CallFails(c),
             UNCHANGED <<out, got>>
      PROVE  ReplyInv'
  <2>1. /\ thr' = thr /\ files' = files
        /\ \A d \in Conns : d # c => call'[d] = call[d]
    BY <1>1, <1>4 DEF openConnection, AddClient, CallFails, vars
  <2>2. call'[c].st # "answered" /\ call'[c].reply = {}
    BY <1>1, <1>4 DEF openConnection, CallFails, NoCall
  <2> QED
    BY <1>1, <1>4, <2>1, <2>2, ReplyKept
<1>5. ASSUME NEW t \in Workers, NEW c \in Conns, RefuseWrite(t, c), UNCHANGED <<out, got>>
      PROVE  ReplyInv'
  <2>1. PICK r \in Requests : /\ r.op = "WRITE_FILE"
                              /\ call' = [call EXCEPT ![c] = Answer(r, {})]
    BY <1>5 DEF RefuseWrite
  <2>2. thr' = thr /\ files' = files /\ \A d \in Conns : d # c => call'[d] = call[d]
    BY <1>1, <1>5, <2>1 DEF RefuseWrite, vars
  <2>3. call'[c].res = "EBADMSG" /\ call'[c].reply = {}
    BY <1>1, <2>1 DEF Answer, Outcome
  <2> QED
    BY <1>1, <1>5, <2>2, <2>3, ReplyKept
<1>6. ASSUME NEW t \in Workers, NEW c \in Conns, Serve(t, c), UNCHANGED <<out, got>>
      PROVE  ReplyInv'
  BY <1>6, ServeReply
<1> QED
  BY <1>2, <1>3, <1>4, <1>5, <1>6

\* One worker thread: a call that succeeds has read every file the server took
\* for it, whatever the number of files readN asks for or an eviction expels.
THEOREM RepliesAlwaysReadBack ==
    ASSUME OneWorker
    PROVE  ReplySpec => []RepliesReadBack
<1> DEFINE Known == IInv /\ GateInv /\ FreshInv /\ StepsFit /\ FoundSlot
<1>1. ReplyInit => ReplyInv
  <2> SUFFICES ASSUME ReplyInit PROVE ReplyInv
    OBVIOUS
  <2>1. /\ \A t \in Workers : thr[t].pc = "idle" /\ out[t] = NoReply
        /\ out \in [Workers -> {NoReply}] /\ DOMAIN got = Conns
        /\ \A c \in Conns : call[c].st = "off"
    BY IdleType DEF ReplyInit, ClientInit, Init, NoCall
  <2>2. NoReply \in ReplyType
    BY DEF NoReply, NoData, EmptyBuf, ReplyType, Paths
  <2> QED
    BY <2>1, <2>2 DEF ReplyInv, ReplyTypeOK, RepliesReadBack, ReplySound, St, RoomPcs, WritePcs,
       EvictPickPcs, EvictHoldPcs, ReadingPcs, ReadNPcs
<1>2. Known /\ Known' /\ ReplyInv /\ [ReplyNext]_rvars => ReplyInv'
  <2> SUFFICES ASSUME Known, Known', ReplyInv, [ReplyNext]_rvars PROVE ReplyInv'
    OBVIOUS
  <2>1. ASSUME NEW t \in Workers, ReplyWork(t) PROVE ReplyInv'
    BY <2>1, WorkReply DEF GateInv, FreshInv
  <2> QED
    BY <2>1, ClientReply DEF ReplyNext, GateInv
<1>3. ReplyInv => RepliesReadBack
  BY DEF ReplyInv
<1> QED
  BY <1>1, <1>2, <1>3, RepliesImplementClients, ServerInvariance, PTL DEF ReplySpec

----------------------------------------------------------------------------
(* The checksum.                                                           *)

\* hash.h:12, "Overflow behavior is implemented since overflow results in C are
\* undefined": of words that hold at least two bytes' worth, neither the
\* multiplication nor the addition leaves the word, and the remainder is never
\* taken by 0, whatever the bytes.
THEOREM HashStaysInWord ==
    ASSUME NEW max \in Nat, max >= 510, NEW h \in 0 .. max, NEW byte \in 0 .. 255
    PROVE  /\ max \div 33 < h => h > 0
           /\ hash_times_33(h, max) \in 0 .. max
           /\ hash_step(h, byte, max) \in 0 .. max
<1>1. max \div 33 \in Nat /\ 33 * (max \div 33) =< max
  OBVIOUS
<1>2. max \div 33 < h => h > 0
  BY <1>1
<1>3. hash_times_33(h, max) \in 0 .. max
  <2>1. CASE max \div 33 < h
    <3>1. h \in Nat \ {0}
      BY <1>1, <2>1
    <3>2. max % h \in 0 .. h - 1
      BY <3>1
    <3> QED  BY <2>1, <3>1, <3>2 DEF hash_times_33
  <2>2. CASE ~(max \div 33 < h)
    <3>1. 33 * h =< max
      BY <1>1, <2>2
    <3> QED  BY <2>2, <3>1 DEF hash_times_33
  <2> QED  BY <2>1, <2>2
<1> DEFINE k == hash_times_33(h, max)
<1>4. k \in 0 .. max
  BY <1>3
<1> HIDE DEF k
<1>5. hash_room(k, byte, max) + byte \in 0 .. max
  BY <1>4 DEF hash_room
<1> QED
  BY <1>2, <1>4, <1>5 DEF k, hash_step
=============================================================================
