------------------------------- MODULE Client -------------------------------
(***************************************************************************)
(* Client processes that call client_api.c, over the server of Storage:    *)
(* the calls, the flags each handler puts in its answer, the errno each    *)
(* call makes of them, and the loop of lockFile.                           *)
(*                                                                         *)
(* A client is named by the descriptor the server knows it by.  Messages   *)
(* travel on a stream socket that neither loses nor reorders them, and a   *)
(* client waits for the answer before its next call, so a connection holds *)
(* one message at most.  Nobody sees a request on its way, so a call       *)
(* begins here when a worker reads its message.                            *)
(***************************************************************************)
EXTENDS Storage

VARIABLES
    call,       \* what client c's API call is doing
    armed,      \* the path writeFile is valid for, as far as client c can tell
    belief      \* for each path, what client c was told of its lock

clientvars == <<call, armed, belief>>
cvars == <<vars, clientvars>>

Flags == {"OP_SUCC", "FILE_EXISTS", "FILE_NEXISTS", "FILE_NLOCK", "FILE_NOWN",
          "FILE_ERRMAXFILES", "FILE_NOPEN"}

\* off: conn is -1; free: between two calls; served: blocked in read_msg;
\* answered: the answer is there to read; backoff: in lockFile's nanosleep, or
\* asking again; closed: conn is as closeConnection leaves it.
CallStates == {"off", "free", "served", "answered", "backoff", "closed"}
\* What a call comes to; its caller sees more errno values than matter here.
Results == {"none", "ok", "closed", "again", "EBADMSG", "error"}

\* reply: the flags so far, while served.  An answered call keeps its request
\* if what it does next depends on it.
CallType ==
    [st : CallStates, req : Requests \union {NoRequest}, reply : SUBSET Flags, res : Results]
NoCall == [st |-> "off", req |-> NoRequest, reply |-> {}, res |-> "none"]

St(c, s) == call[c].st = s
SetCall(c, s) == call' = [call EXCEPT ![c].st = s]

----------------------------------------------------------------------------
(* The flags of the answers: out_msg->type |= ... in the handlers, up to   *)
(* FILE_CHACEMISS, which module Replies has with the data it announces.    *)

\* The errno of an operation of file.c that fails on file f, which it wants
\* to find owned by one of owners.
FileErrno(f, owners) ==
    CASE ~is_existing_file(f) -> "ENOENT"
      [] is_existing_file(f) /\ f.owner \notin owners -> "EAGAIN"
      [] f.owner \in owners /\ ~is_open_file(f) -> "EPERM"
      [] OTHER -> "EEXIST"

\* write_file, unlock_file and remove_file want the lock, the others only that
\* nobody else has it; without O_LOCK do_open_file asks for nobody.
AllowedOwners(t) ==
    CASE Req(t).op \in {"WRITE_FILE", "UNLOCK_FILE", "REMOVE_FILE"} -> {Conn(t)}
      [] Req(t).op = "OPEN_FILE" -> {OWNER_NULL, OpenOwner(t)}
      [] OTHER -> {OWNER_NULL, Conn(t)}

\* Mutant of ErrorFlag: an append says NOWN as the other handlers do.
ErrorFlagOwner(t) ==
    LET e == FileErrno(fslot(t), AllowedOwners(t)) IN
    CASE e = "ENOENT" -> "FILE_NEXISTS"
      [] e = "EPERM" -> "FILE_NOPEN"
      [] e = "EEXIST" -> "FILE_EXISTS"
      [] e = "EAGAIN" -> IF Req(t).op = "WRITE_FILE" THEN "FILE_NLOCK" ELSE "FILE_NOWN"

ErrorFlag(t) ==
    LET e == FileErrno(fslot(t), AllowedOwners(t)) IN
    CASE e = "ENOENT" -> "FILE_NEXISTS"
      [] e = "EPERM" -> "FILE_NOPEN"
      [] e = "EEXIST" -> "FILE_EXISTS"
      [] e = "EAGAIN" -> IF Req(t).op \in PutOps
                         THEN "FILE_NLOCK" ELSE "FILE_NOWN"

\* The search for the path ends the request: the path is there and should not
\* be, or the payload is too big, which sets no flag, or the path is missing.
SearchFlags(t) ==
    IF At(t, "check_name") /\ check_file_name(fslot(t), Req(t).name)
    THEN IF Creates(t) THEN {"FILE_EXISTS"} ELSE {}
    ELSE {"FILE_NEXISTS"}

HandlerReturns(t) == thr'[t].pc = "idle" /\ ~At(t, "failed")

\* What worker t's step adds to the flags of its answer.  An empty payload is
\* EINVAL, for which there is no flag.
FlagsOfStep(t) ==
    CASE thr[t].pc \in SimplePcs \union {"remove_file", "apply"} ->
           IF CallSucceeds(t) THEN {"OP_SUCC"}
           ELSE IF At(t, "apply") /\ Req(t).size = 0 THEN {} ELSE {ErrorFlag(t)}
      [] thr[t].pc \in {"get_file", "check_name"} /\ HandlerReturns(t) -> SearchFlags(t)
      [] At(t, "empty_slot") /\ HandlerReturns(t) -> {"FILE_ERRMAXFILES"}
      [] At(t, "create_file") /\ HandlerReturns(t) -> {"FILE_EXISTS"}
      [] At(t, "remove_check") /\ HandlerReturns(t) -> {"FILE_NLOCK"}
      [] thr[t].pc \in {"create_open", "readn_book"} \union ReadNPcs /\ HandlerReturns(t) ->
           {"OP_SUCC"}
      [] OTHER -> {}

----------------------------------------------------------------------------
(* What the API calls make of the flags.                                   *)

\* The flags each call tests for; an answer has one of the error flags at most.
Understood ==
    [OPEN_FILE   |-> {"FILE_NOWN", "FILE_EXISTS", "FILE_NEXISTS", "FILE_ERRMAXFILES"},
     READ_FILE   |-> {"FILE_NOWN", "FILE_NOPEN", "FILE_NEXISTS"},
     WRITE_FILE  |-> {"FILE_NLOCK", "FILE_EXISTS", "FILE_NEXISTS", "FILE_NOPEN"},
     APPEND_FILE |-> {"FILE_NLOCK", "FILE_NEXISTS", "FILE_NOPEN"},
     LOCK_FILE   |-> {"FILE_NEXISTS", "FILE_NOPEN", "FILE_NOWN"},
     UNLOCK_FILE |-> {"FILE_NOWN", "FILE_NEXISTS", "FILE_NOPEN"},
     CLOSE_FILE  |-> {"FILE_NOWN", "FILE_NEXISTS"},
     REMOVE_FILE |-> {"FILE_NOWN", "FILE_NLOCK", "FILE_NEXISTS", "FILE_NOPEN"},
     READN_FILE  |-> {}]

\* Mutant of Errno: lockFile asks again for a file that is not there.
ErrnoAgainIfAbsent(op, flag) ==
    CASE flag = "FILE_EXISTS" -> "EEXIST"
      [] flag = "FILE_NEXISTS" -> IF op = "LOCK_FILE" THEN "again" ELSE "ENOENT"
      [] flag = "FILE_ERRMAXFILES" -> "ENFILE"
      [] flag = "FILE_NLOCK" -> "EPERM"
      [] flag = "FILE_NOWN" -> IF op = "LOCK_FILE" THEN "again" ELSE "EPERM"
      [] flag = "FILE_NOPEN" -> IF op = "READ_FILE" THEN "EPERM" ELSE "ENOENT"

Errno(op, flag) ==
    CASE flag = "FILE_EXISTS" -> "EEXIST"
      [] flag = "FILE_NEXISTS" -> "ENOENT"
      [] flag = "FILE_ERRMAXFILES" -> "ENFILE"
      [] flag = "FILE_NLOCK" -> "EPERM"
      [] flag = "FILE_NOWN" -> IF op = "LOCK_FILE" THEN "again" ELSE "EPERM"
      [] flag = "FILE_NOPEN" -> IF op = "READ_FILE" THEN "EPERM" ELSE "ENOENT"

\* closeConnection looks at nothing.
Outcome(op, reply) ==
    IF op = "CLOSE_CONN" THEN "closed"
    ELSE IF "OP_SUCC" \in reply THEN "ok"
    ELSE LET known == reply \intersect Understood[op] IN
         IF known = {} THEN "EBADMSG"
         ELSE IF Errno(op, CHOOSE flag \in known : TRUE) = "again" THEN "again" ELSE "error"

----------------------------------------------------------------------------
(* The client's side.                                                      *)

\* openFile as creator and lock holder in one.
CreatesLocked(r) == r.op = "OPEN_FILE" /\ OpenFlags \subseteq r.flags
TakesLock(r) == r.op = "LOCK_FILE" \/ (r.op = "OPEN_FILE" /\ "O_LOCK" \in r.flags)
GivesUpLock(r) == r.op \in {"UNLOCK_FILE", "CLOSE_FILE", "REMOVE_FILE"}

\* connect, accept and the exchange of MESSAGE_OPEN_CONN.
openConnection(c) ==
    /\ St(c, "off")
    /\ AddClient(c)
    /\ call' = [call EXCEPT ![c] = [NoCall EXCEPT !.st = "free"]]
    /\ UNCHANGED <<armed, belief>>

\* The call that asked for r finds reply in the answer.
Answer(r, reply) ==
    LET res == Outcome(r.op, reply) IN
    [st |-> "answered", reply |-> {}, res |-> res,
     req |-> IF res \in {"again", "EBADMSG"} \/ (res = "ok" /\ TakesLock(r))
             THEN r ELSE NoRequest]

\* What writeFile is valid for when the call that has its answer returns.
ArmedAfter(c) ==
    LET r == call[c].req IN
    IF call[c].res = "ok" /\ CreatesLocked(r) THEN r.name
    ELSE IF r.op = "WRITE_FILE" /\ r.name # armed[c] THEN armed[c] ELSE NoName

\* The call returns, except lockFile when the file is somebody else's.
Return(c) ==
    /\ St(c, "answered")
    /\ LET r == call[c].req
           res == call[c].res
       IN /\ IF res = "again" THEN SetCall(c, "backoff")
             ELSE call' = [call EXCEPT ![c] =
                    [NoCall EXCEPT !.st = IF res = "closed" THEN "closed" ELSE "free"]]
          /\ belief' = IF res = "ok" /\ TakesLock(r) /\ belief[c][r.name] = "none"
                       THEN [belief EXCEPT ![c][r.name] = "held"] ELSE belief
    /\ armed' = [armed EXCEPT ![c] = ArmedAfter(c)]
    /\ UNCHANGED vars

\* The socket is at its end: conn is as closeConnection leaves it, the number of
\* a closed descriptor, or the server has aborted.  An answer already sent is
\* still there to read.
NobodyThere(c) == St(c, "closed") \/ (~ServerAlive /\ ~St(c, "answered"))

\* Reading and writing fail, and the call resets conn (CLOSE); openConnection
\* refuses a closed descriptor with EISCONN and finds no aborted server.
CallFails(c) ==
    /\ NobodyThere(c)
    /\ call' = [call EXCEPT ![c] = NoCall]
    /\ armed' = [armed EXCEPT ![c] = NoName]
    /\ belief' = [belief EXCEPT ![c] = [x \in Names |-> "none"]]
    /\ UNCHANGED vars

----------------------------------------------------------------------------
(* The server's side.                                                      *)

\* What the client gives up by request r it no longer counts on; what it asks
\* for it may be told to have.
Asks(c, r) ==
    [belief EXCEPT ![c] =
        [x \in Names |->
           IF r.op = "CLOSE_CONN" THEN "none"
           ELSE IF x # r.name THEN @[x]
           ELSE IF GivesUpLock(r) \/ (TakesLock(r) /\ @[x] = "expelled") THEN "none"
           ELSE @[x]]]

\* A worker reads the message of a call, or the one lockFile sends again.
Serve(t, c) ==
    /\ call[c].st \in {"free", "backoff"}
    /\ Receive(t)
    /\ thr'[t].conn = c
    /\ St(c, "backoff") => thr'[t].req = call[c].req
    /\ call' = [call EXCEPT ![c] = [NoCall EXCEPT !.st = "served", !.req = thr'[t].req]]
    /\ belief' = Asks(c, thr'[t].req)
    /\ UNCHANGED armed

\* do_write_file, when the path is not lastop: no flag, and lastop stays.
RefuseWrite(t, c) ==
    /\ ServerAlive /\ At(t, "idle") /\ St(c, "free")
    /\ \E r \in Requests :
          /\ r.op = "WRITE_FILE" /\ lastop[c] # r.name
          /\ call' = [call EXCEPT ![c] = Answer(r, {})]
    /\ UNCHANGED <<vars, armed, belief>>

\* worker_do writes the answer whatever the handler returned;
\* do_close_connection writes its own, before it drops the client.
WritesAnswer(t) ==
    IF Req(t).op = "CLOSE_CONN"
    THEN thr'[t].pc = "cconn_remove"
    ELSE thr'[t].pc \in {"idle", "failed"} /\ ~At(t, "failed")

\* An eviction takes the file from its owner, who is not told.
Expels(t) ==
    IF At(t, "evict_force") /\ CanForce(vslot(t)) /\ vslot(t).owner \in Conns
    THEN [belief EXCEPT ![vslot(t).owner][vslot(t).name] = "expelled"] ELSE belief

Work(t) ==
    /\ WorkerStep(t)
    /\ LET reply == call[Conn(t)].reply \union FlagsOfStep(t) IN
       call' = [call EXCEPT ![Conn(t)] =
                  IF WritesAnswer(t) THEN Answer(Req(t), reply) ELSE [@ EXCEPT !.reply = reply]]
    /\ belief' = Expels(t)
    /\ UNCHANGED armed

----------------------------------------------------------------------------
ClientInit ==
    /\ Init
    /\ call = [c \in Conns |-> NoCall]
    /\ armed = [c \in Conns |-> NoName]
    /\ belief = [c \in Conns |-> [x \in Names |-> "none"]]

ClientNext ==
    \/ \E c \in Conns :
          openConnection(c) \/ Return(c) \/ CallFails(c)
    \/ \E t \in Workers :
          Work(t) \/ \E c \in Conns : Serve(t, c) \/ RefuseWrite(t, c)

ClientSpec == ClientInit /\ [][ClientNext]_cvars

\* Handlers are scheduled; a call returns when its answer is there, and fails when
\* the server has gone.  The message lockFile sends again is read in the end:
\* the main loop does that for a registered connection (RequestsRead of module
\* Dispatch) unless newcomers wait at a full table or keep coming.
FairClientSpec ==
    /\ ClientSpec
    /\ \A t \in Workers : WF_cvars(Work(t))
    /\ \A c \in Conns :
          /\ WF_cvars(Return(c)) /\ WF_cvars(~ServerAlive /\ CallFails(c))
          /\ WF_cvars(St(c, "backoff") /\ \E t \in Workers : Serve(t, c))
=============================================================================
