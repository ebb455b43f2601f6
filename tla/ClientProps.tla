----------------------------- MODULE ClientProps ----------------------------
(***************************************************************************)
(* What the client interface promises its callers.                         *)
(***************************************************************************)
EXTENDS Client

\* Types of the clients' variables.
ClientTypeOK ==
    /\ call \in [Conns -> CallType]
    /\ armed \in [Conns -> Names \union {NoName}]
    /\ belief \in [Conns -> [Names -> {"none", "held", "expelled"}]]

\* No call ends in EBADMSG but the three the server answers without a flag: a
\* payload larger than the storage, a writeFile of an empty file, and one that
\* does not follow an openFile that created and locked the path.  So the flags
\* every handler sets are flags the call that gets them tests for.
AnswersUnderstood ==
    \A c \in Conns :
        LET r == call[c].req IN
        call[c].res = "EBADMSG"
        => \/ TooBig(r)
           \/ r.op = "WRITE_FILE" /\ r.size = 0
           \/ r.op = "WRITE_FILE" /\ armed[c] # r.name

\* Between two calls the server's lastop is what the client can tell from the
\* results of its own calls (client_api.h:32); so a descriptor that is reused,
\* a failed open or a handler that leaves early do not open the gate.  A
\* writeFile for another path is refused and leaves it open.
GateAgrees ==
    \A c \in Conns : call[c].st \in {"free", "backoff"} => lastop[c] = armed[c]

\* A client that was told it holds a lock, and has not given it up, has it:
\* nobody but an eviction took it, whatever the calls of the others.  With one
\* worker only: with more, the slot get_file found may hold another file when
\* lock_file (worker_lock.c:35) or open_file locks it.
Owned(c, x) == \E i \in Slots : files[i].owner = c /\ files[i].name = x
HeldMeansOwned == \A c \in Conns, x \in Names : belief[c][x] = "held" => Owned(c, x)

Locking(c, x) == call[c].req.op = "LOCK_FILE" /\ call[c].req.name = x
                   /\ call[c].st \in {"served", "answered", "backoff"}
OwnedByOther(c, x) == \E i \in Slots :
    files[i].name = x /\ files[i].owner \in (Conns \union {OWNER_ADMIN}) \ {c}

\* client_api.c:331 asks again until it has the lock.  It asks for ever only
\* if again and again somebody else has the file: not if it is removed, closed
\* or given up for good.
LockWaitJustified ==
    \A c \in Conns, x \in Names :
        <>[]Locking(c, x) => []<>OwnedByOther(c, x)

----------------------------------------------------------------------------
(* The inductive invariant behind GateAgrees.                              *)

\* A request that may create a file stays with the scans and the creation, and
\* only it gets there.
CreatorPath(t) ==
    /\ Creates(t) => thr[t].pc \in ScanPcs \union CreatePcs
    /\ thr[t].pc \in CreatePcs \union {"empty_slot"} => Creates(t)

\* Only closeConnection gets to the steps of do_close_connection.
ClosePath(t) == thr[t].pc \in CloseConnPcs \union {"cconn_book"} => Req(t).op = "CLOSE_CONN"

\* While worker t handles the request of its client, the client waits, lastop
\* is clear, and what would set it again is still ahead; only the request that
\* may set it has not been told of success.
Serving(t) ==
    LET c == Conn(t) IN
    /\ St(c, "served")
    /\ Req(t).op # "CLOSE_CONN" => lastop[c] = NoName
    /\ Req(t).op = "WRITE_FILE" => armed[c] = Req(t).name
    /\ Creates(t) => "OP_SUCC" \notin call[c].reply
    /\ CreatorPath(t)

GateInv ==
    /\ ClientTypeOK /\ GateAgrees
    /\ \A c \in Conns :
          /\ call[c].st \in {"off", "closed"} => armed[c] = NoName
          /\ St(c, "answered") => IF call[c].res = "closed" THEN call[c].req.op = "CLOSE_CONN"
                                 ELSE lastop[c] = ArmedAfter(c)
    /\ \A t \in Workers :
          /\ ServerAlive /\ thr[t].pc \notin {"idle", "failed", "cconn_remove"} => Serving(t)
          /\ ClosePath(t)

----------------------------------------------------------------------------
(* The inductive invariants behind AnswersUnderstood and HeldMeansOwned.   *)

\* What the flags worker t has set so far say of the answer: success before the
\* counters are booked, an error its call tests for before a reservation is
\* given back, and no success for a lock before the last step.
AnswerSoFar(t) ==
    LET r == Req(t)
        reply == call[Conn(t)].reply
    IN /\ thr[t].pc \in {"close_book", "remove_book"} => "OP_SUCC" \in reply
       /\ At(t, "release") => r.size = 0 \/ reply \intersect Understood[r.op] # {}
       /\ TakesLock(r) /\ thr[t].pc \notin {"idle", "failed", "aborted"} => "OP_SUCC" \notin reply
AnswerInv == AnswersUnderstood /\ \A t \in Workers : AnswerSoFar(t)

\* Client c counts on its lock of x, or will when it reads its answer.
Told(c, x) ==
    \/ belief[c][x] = "held"
    \/ /\ St(c, "answered") /\ call[c].res = "ok"
       /\ TakesLock(call[c].req) /\ call[c].req.name = x /\ belief[c][x] = "none"

\* What a request may take the lock of, its client does not count on: the file
\* it names, every file when it leaves, and one that readN has opened itself.
GivesUpNothingHeld(t) ==
    LET c == Conn(t)
        r == Req(t)
    IN /\ GivesUpLock(r) => \A x \in Names : x = r.name => belief[c][x] # "held"
       /\ r.op = "CLOSE_CONN" /\ ~At(t, "cconn_remove") => \A x \in Names : belief[c][x] # "held"
       /\ At(t, "readn_open") /\ thr[t].wasclosed => ~is_open_file(fslot(t))
       /\ At(t, "readn_close") \/ (At(t, "readn_read") /\ thr[t].wasclosed) =>
             \A x \in Names : x = fslot(t).name => belief[c][x] # "held"
BeliefInv ==
    /\ \A c \in Conns, x \in Names : Told(c, x) => Owned(c, x)
    /\ \A t \in Workers : ~At(t, "idle") => GivesUpNothingHeld(t)
=============================================================================
