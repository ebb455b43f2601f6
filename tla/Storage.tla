------------------------------ MODULE Storage -------------------------------
(***************************************************************************)
(* The file table and the worker threads that serve requests on it: the    *)
(* handlers under source/worker/, the slots of file.c and the counters and *)
(* client table of shared_state.c.                                         *)
(*                                                                         *)
(* A worker holds one mutex at a time and only for one call, so a handler  *)
(* is a sequence of critical sections between which every other worker may *)
(* run.  Each action below is one of them; thr[t].pc names the one worker  *)
(* t is about to enter.                                                    *)
(*                                                                         *)
(* Abstracted: contents (sizes only), usage data and the choice the        *)
(* eviction policy makes among the slots it may evict, the reply's flags,  *)
(* logging, and the statistics counter cache_miss_execs, which nothing     *)
(* reads.  That a connection is served by one worker at a time is what the *)
(* main loop provides; Receive assumes it.                                 *)
(***************************************************************************)
EXTENDS FileStruct, FiniteSets, FiniteSetsExt

CONSTANTS
    Workers,        \* the worker threads
    NumFiles,       \* file_num: slots of the file table
    MaxStorage,     \* ro_max_storage, in bytes
    MaxConns,       \* ro_max_conns
    Requests,       \* the requests clients may send
    NoConn          \* in_conn of a worker that serves nobody

ASSUME StorageAssumption ==
    /\ IsFiniteSet(Workers)
    /\ NumFiles \in Nat \ {0}
    /\ MaxStorage \in Nat
    /\ MaxConns \in Nat
    /\ NoConn \notin Owners

Slots == 1 .. NumFiles

OpenFlags == {"O_CREATE", "O_LOCK"}

\* The message types that name one file, and the two that do not.
NamedOps == {"OPEN_FILE", "CLOSE_FILE", "READ_FILE", "WRITE_FILE",
             "APPEND_FILE", "LOCK_FILE", "UNLOCK_FILE", "REMOVE_FILE"}
Ops == NamedOps \union {"READN_FILE", "CLOSE_CONN"}

\* size is the payload of a write or an append, n the limit of a readN.
RequestType ==
    [op : Ops, name : Names \union {NoName}, flags : SUBSET OpenFlags,
     size : Nat, n : Int]

ASSUME RequestAssumption == Requests \subseteq RequestType

NoRequest ==
    [op |-> "CLOSE_CONN", name |-> NoName, flags |-> {}, size |-> 0, n |-> 0]

VARIABLES
    files,                \* the file table
    current_storage, max_reached_storage,
    current_files, max_reached_files,
    clients,              \* descriptors in the client table
    lastop,               \* the client table's lastop path, per descriptor
    thr                   \* what each worker is doing, and its locals

counters == <<current_storage, max_reached_storage, current_files, max_reached_files>>
table == <<clients, lastop>>
vars == <<files, counters, table, thr>>

----------------------------------------------------------------------------
(* Worker threads.                                                         *)

ScanPcs == {"get_file", "check_name", "empty_slot"}
CreatePcs == {"create_file", "count_file", "create_open"}
SimplePcs == {"open_file", "close_file", "read_file", "lock_file", "unlock_file"}
RemovePcs == {"remove_check", "remove_file"}
WritePcs == {"check_capacity", "reserve", "apply", "release"}
EvictPickPcs == {"evict_pick", "evict_name", "evict_size", "evict_usage", "evict_force"}
EvictHoldPcs == {"evict_open", "evict_remove"}
ReadNPcs == {"readn_wasclosed", "readn_open", "readn_read", "readn_close", "readn_name"}
CloseConnPcs == {"cconn_check", "cconn_close", "cconn_remove"}
\* A close or a removal has been done but not yet booked in the counters.
UnbookedClosePcs == {"close_book", "readn_book", "cconn_book"}
UnbookedRemovePcs == {"remove_book", "evict_book"}

Pcs == {"idle", "failed", "aborted"} \union ScanPcs \union CreatePcs \union SimplePcs
         \union RemovePcs \union WritePcs \union EvictPickPcs \union EvictHoldPcs
         \union ReadNPcs \union CloseConnPcs \union UnbookedClosePcs
         \union UnbookedRemovePcs

ThreadType ==
    [pc : Pcs, conn : Conns \union {NoConn}, req : Requests \union {NoRequest},
     fex : Slots,        \* slot of the named file, or the loop index
     victim : Slots,     \* slot looked at, then chosen, for eviction
     kept : Slots \union {0},   \* candidate for eviction so far
     size : Nat,         \* bytes still to be subtracted from current_storage
     wasclosed : BOOLEAN, readok : BOOLEAN, count : Nat]   \* readN's locals

IdleThread ==
    [pc |-> "idle", conn |-> NoConn, req |-> NoRequest, fex |-> 1, victim |-> 1,
     kept |-> 0, size |-> 0, wasclosed |-> FALSE, readok |-> FALSE, count |-> 0]

At(t, label) == thr[t].pc = label
Goto(t, label) == thr' = [thr EXCEPT ![t].pc = label]
GotoSlot(t, label, i) == thr' = [thr EXCEPT ![t].pc = label, ![t].fex = i]

\* The handler returns 0: the reply is written and the locals are gone.
Reply(t) == thr' = [thr EXCEPT ![t] = IdleThread]

Fail(t) == Goto(t, "failed")

\* The C library found the heap corrupt and called abort: the process is gone.
Abort(t) == Goto(t, "aborted")
ServerAlive == \A t \in Workers : ~At(t, "aborted")

\* The file the thread's request is about, and its update.
fslot(t) == files[thr[t].fex]
SetFile(i, f) == files' = [files EXCEPT ![i] = f]

Req(t) == thr[t].req
Conn(t) == thr[t].conn
Wants(t, flag) == flag \in Req(t).flags
OpenOwner(t) == IF Wants(t, "O_LOCK") THEN Conn(t) ELSE OWNER_NULL

----------------------------------------------------------------------------
Init ==
    /\ files = [i \in Slots |-> EmptyFile]
    /\ current_storage = 0 /\ max_reached_storage = 0
    /\ current_files = 0 /\ max_reached_files = 0
    /\ clients = {}
    /\ lastop = [c \in Conns |-> NoName]
    /\ thr = [t \in Workers |-> IdleThread]

----------------------------------------------------------------------------
(* add_client, called by the worker that runs do_acceptor for the          *)
(* listening socket.  It touches nothing else that is shared.              *)
AddClient(c) ==
    /\ ServerAlive
    /\ c \notin clients
    /\ Cardinality(clients) < MaxConns
    /\ clients' = clients \union {c}
    /\ lastop' = [lastop EXCEPT ![c] = NoName]
    /\ UNCHANGED <<files, counters, thr>>

----------------------------------------------------------------------------
(* Receiving a request: worker_do reads the message, fetches lastop and    *)
(* enters the handler, whose first statements clear lastop.  lastop of c   *)
(* is only used by the worker serving c, so this is one step.              *)

Begin(t, c, r, label) ==
    thr' = [thr EXCEPT ![t] = [IdleThread EXCEPT !.pc = label, !.conn = c, !.req = r]]

\* Mutant of ReceiveNamed: a write leaves lastop set.
ReceiveKeepingLastop(t, c, r) ==
    /\ r.op \in NamedOps
    /\ r.op = "WRITE_FILE" => lastop[c] = r.name
    /\ Begin(t, c, r, "get_file")
    /\ UNCHANGED <<files, counters, table>>

\* A write whose path is not lastop is answered without any effect, so only
\* the matching one is a step.
ReceiveNamed(t, c, r) ==
    /\ r.op \in NamedOps
    /\ r.op = "WRITE_FILE" => lastop[c] = r.name
    /\ lastop' = [lastop EXCEPT ![c] = NoName]
    /\ Begin(t, c, r, "get_file")
    /\ UNCHANGED <<files, counters, clients>>

ReceiveReadN(t, c, r) ==
    /\ r.op = "READN_FILE"
    /\ lastop' = [lastop EXCEPT ![c] = NoName]
    /\ Begin(t, c, r, "readn_wasclosed")
    /\ UNCHANGED <<files, counters, clients>>

ReceiveCloseConn(t, c, r) ==
    /\ r.op = "CLOSE_CONN"
    /\ Begin(t, c, r, "cconn_check")
    /\ UNCHANGED <<files, counters, table>>

\* Mutant of Receive: a connection stays in the poll set while a worker serves it.
ReceiveStillPolled(t) ==
    /\ ServerAlive /\ At(t, "idle")
    /\ \E c \in clients, r \in Requests :
          ReceiveNamed(t, c, r) \/ ReceiveReadN(t, c, r) \/ ReceiveCloseConn(t, c, r)

\* The main loop hands a connection to one idle worker at a time.
Receive(t) ==
    /\ ServerAlive /\ At(t, "idle")
    /\ \E c \in clients, r \in Requests :
          /\ \A u \in Workers : Conn(u) # c
          /\ \/ ReceiveNamed(t, c, r)
             \/ ReceiveReadN(t, c, r)
             \/ ReceiveCloseConn(t, c, r)

\* The handler returned -1.  THREAD_ERRCHECK_ADV reports the worker as done
\* and the worker then goes on as after a success, reporting itself done again;
\* what the main loop makes of the second report is outside this module.
HandlerFailed(t) ==
    /\ At(t, "failed")
    /\ Reply(t)
    /\ UNCHANGED <<files, counters, table>>

----------------------------------------------------------------------------
(* get_file and get_empty_slot: slot by slot, each look a critical section *)
(* of its own.                                                             *)

FirstStep ==
    [OPEN_FILE |-> "open_file", CLOSE_FILE |-> "close_file",
     READ_FILE |-> "read_file", WRITE_FILE |-> "check_capacity",
     APPEND_FILE |-> "check_capacity", LOCK_FILE |-> "lock_file",
     UNLOCK_FILE |-> "unlock_file", REMOVE_FILE |-> "remove_check"]

Creates(t) == Req(t).op = "OPEN_FILE" /\ Wants(t, "O_CREATE")

\* The requests that add bytes; get_data answers one of more than the whole
\* storage.
PutOps == {"WRITE_FILE", "APPEND_FILE"}
TooBig(r) == r.op \in PutOps /\ r.size > MaxStorage

\* The caller's branch on a slot found, and on ENOENT.
FileFound(t) ==
    IF Creates(t) \/ TooBig(Req(t)) THEN Reply(t) ELSE Goto(t, FirstStep[Req(t).op])
FileNotFound(t) ==
    IF Creates(t) THEN GotoSlot(t, "empty_slot", 1) ELSE Reply(t)

\* Mutants of GetFileNext: the scan runs past the table, or stops a slot early.
GetFileNextPastEnd(t) ==
    IF thr[t].fex =< NumFiles
    THEN GotoSlot(t, "get_file", thr[t].fex + 1)
    ELSE FileNotFound(t)
GetFileNextNotLast(t) ==
    IF thr[t].fex < NumFiles - 1
    THEN GotoSlot(t, "get_file", thr[t].fex + 1)
    ELSE FileNotFound(t)

GetFileNext(t) ==
    IF thr[t].fex < NumFiles
    THEN GotoSlot(t, "get_file", thr[t].fex + 1)
    ELSE FileNotFound(t)

GetFile(t) ==
    /\ At(t, "get_file")
    /\ IF is_existing_file(fslot(t)) THEN Goto(t, "check_name") ELSE GetFileNext(t)
    /\ UNCHANGED <<files, counters, table>>

\* A file that has gone since is_existing_file makes check_file_name fail with
\* ENOENT, which get_file returns at once: the slots after it are not looked at.
CheckName(t) ==
    /\ At(t, "check_name")
    /\ IF ~is_existing_file(fslot(t)) THEN FileNotFound(t)
       ELSE IF check_file_name(fslot(t), Req(t).name) THEN FileFound(t)
       ELSE GetFileNext(t)
    /\ UNCHANGED <<files, counters, table>>

EmptySlot(t) ==
    /\ At(t, "empty_slot")
    /\ IF ~is_existing_file(fslot(t)) THEN Goto(t, "create_file")
       ELSE IF thr[t].fex < NumFiles THEN GotoSlot(t, "empty_slot", thr[t].fex + 1)
       ELSE Reply(t)
    /\ UNCHANGED <<files, counters, table>>

----------------------------------------------------------------------------
(* _open_file_create: take the slot, count the file, open it.              *)

\* Mutant of CreateFile: the file is locked for the client without O_LOCK.
CreateFileLocked(t) ==
    /\ At(t, "create_file")
    /\ IF is_existing_file(fslot(t))
       THEN Reply(t) /\ UNCHANGED files
       ELSE /\ SetFile(thr[t].fex, create_file_struct(fslot(t), Req(t).name, Conn(t)))
            /\ Goto(t, "count_file")
    /\ UNCHANGED <<counters, table>>

CreateFile(t) ==
    /\ At(t, "create_file")
    /\ IF is_existing_file(fslot(t))
       THEN Reply(t) /\ UNCHANGED files
       ELSE /\ SetFile(thr[t].fex, create_file_struct(fslot(t), Req(t).name, OpenOwner(t)))
            /\ Goto(t, "count_file")
    /\ UNCHANGED <<counters, table>>

CountFile(t) ==
    /\ At(t, "count_file")
    /\ current_files' = current_files + 1
    /\ max_reached_files' = IF current_files' > max_reached_files
                            THEN current_files' ELSE max_reached_files
    /\ Goto(t, "create_open")
    /\ UNCHANGED <<files, current_storage, max_reached_storage, table>>

\* The new file may have been locked by another client or be gone by now:
\* the handler then returns -1.
CreateOpen(t) ==
    /\ At(t, "create_open")
    /\ IF CanOpen(fslot(t), OpenOwner(t))
       THEN /\ SetFile(thr[t].fex, open_file(fslot(t), OpenOwner(t)))
            /\ lastop' = IF Wants(t, "O_LOCK")
                         THEN [lastop EXCEPT ![Conn(t)] = Req(t).name] ELSE lastop
            /\ Reply(t)
       ELSE Fail(t) /\ UNCHANGED <<files, lastop>>
    /\ UNCHANGED <<counters, clients>>

----------------------------------------------------------------------------
(* The handlers that end in one call on the slot get_file returned.        *)

OpenFile(t) ==
    /\ At(t, "open_file")
    /\ IF CanOpen(fslot(t), OpenOwner(t))
       THEN SetFile(thr[t].fex, open_file(fslot(t), OpenOwner(t)))
       ELSE UNCHANGED files
    /\ Reply(t)
    /\ UNCHANGED <<counters, table>>

\* read_file leaves the slot as it is, up to its usage data.
ReadFile(t) ==
    /\ At(t, "read_file")
    /\ Reply(t)
    /\ UNCHANGED <<files, counters, table>>

LockFile(t) ==
    /\ At(t, "lock_file")
    /\ IF CanLock(fslot(t), Conn(t))
       THEN SetFile(thr[t].fex, lock_file(fslot(t), Conn(t)))
       ELSE UNCHANGED files
    /\ Reply(t)
    /\ UNCHANGED <<counters, table>>

UnlockFile(t) ==
    /\ At(t, "unlock_file")
    /\ IF CanUnlock(fslot(t), Conn(t))
       THEN SetFile(thr[t].fex, unlock_file(fslot(t)))
       ELSE UNCHANGED files
    /\ Reply(t)
    /\ UNCHANGED <<counters, table>>

\* close_file on slot i, leaving the difference to be booked at label.
CloseSlot(t, label) ==
    IF CanClose(fslot(t), Conn(t))
    THEN /\ SetFile(thr[t].fex, close_file(fslot(t)))
         /\ thr' = [thr EXCEPT ![t].pc = label, ![t].size = close_difference(fslot(t))]
    ELSE /\ UNCHANGED files
         /\ thr' = [thr EXCEPT ![t].pc = label, ![t].size = 0]

CloseFile(t) ==
    /\ At(t, "close_file")
    /\ IF CanClose(fslot(t), Conn(t))
       THEN CloseSlot(t, "close_book")
       ELSE Reply(t) /\ UNCHANGED files
    /\ UNCHANGED <<counters, table>>

\* Subtract what the last close or removal freed.
BookStorage(t) == current_storage' = current_storage - thr[t].size

CloseBook(t) ==
    /\ At(t, "close_book")
    /\ BookStorage(t)
    /\ Reply(t)
    /\ UNCHANGED <<files, max_reached_storage, current_files, max_reached_files, table>>

----------------------------------------------------------------------------
(* do_remove_file: the owner is read without the slot's mutex, then        *)
(* remove_file, then the counters.  An aligned int is read whole, so the   *)
(* unlocked read returns the owner of the moment.                          *)

RemoveCheck(t) ==
    /\ At(t, "remove_check")
    /\ IF fslot(t).owner = OWNER_NULL THEN Reply(t) ELSE Goto(t, "remove_file")
    /\ UNCHANGED <<files, counters, table>>

RemoveFile(t) ==
    /\ At(t, "remove_file")
    /\ IF CanRemove(fslot(t), Conn(t))
       THEN /\ SetFile(thr[t].fex, EmptyFile)
            /\ thr' = [thr EXCEPT ![t].pc = "remove_book", ![t].size = get_size(fslot(t))]
       ELSE Reply(t) /\ UNCHANGED files
    /\ UNCHANGED <<counters, table>>

RemoveBook(t) ==
    /\ At(t, "remove_book")
    /\ current_files' = current_files - 1
    /\ BookStorage(t)
    /\ Reply(t)
    /\ UNCHANGED <<files, max_reached_storage, max_reached_files, table>>

----------------------------------------------------------------------------
(* do_write_file and do_append_file: make room, reserve, apply, and give   *)
(* the reservation back when the file turned out not to be writable.       *)

\* Mutant of Fits: the test leaves out the bytes about to be added.
FitsNow(n) == current_storage =< MaxStorage

Fits(n) == current_storage + n =< MaxStorage

\* The test and the reservation are two critical sections.
CheckCapacity(t) ==
    /\ At(t, "check_capacity")
    /\ Goto(t, IF Fits(Req(t).size) THEN "reserve" ELSE "evict_pick")
    /\ UNCHANGED <<files, counters, table>>

Reserve(t) ==
    /\ At(t, "reserve")
    /\ current_storage' = current_storage + Req(t).size
    /\ max_reached_storage' = IF current_storage' >= max_reached_storage
                              THEN current_storage' ELSE max_reached_storage
    /\ Goto(t, "apply")
    /\ UNCHANGED <<files, current_files, max_reached_files, table>>

\* write_file or append_file on the slot found before room was made.
CanApply(t) ==
    IF Req(t).op = "WRITE_FILE"
    THEN CanWrite(fslot(t), Conn(t), Req(t).size)
    ELSE CanAppend(fslot(t), Conn(t), Req(t).size)
Applied(t) ==
    IF Req(t).op = "WRITE_FILE"
    THEN write_file(fslot(t), Req(t).size)
    ELSE append_file(fslot(t), Req(t).size)

Apply(t) ==
    /\ At(t, "apply")
    /\ IF CanApply(t)
       THEN SetFile(thr[t].fex, Applied(t)) /\ Reply(t)
       ELSE Goto(t, "release") /\ UNCHANGED files
    /\ UNCHANGED <<counters, table>>

\* An empty payload is EINVAL, none of the errors the handlers answer: a write
\* then returns -1, an append frees its buffer for the second time.
Refuse(t) ==
    IF Req(t).size > 0 THEN Reply(t)
    ELSE IF Req(t).op = "APPEND_FILE" THEN Abort(t)
    ELSE Fail(t)

\* Mutant of Release: the reservation of a failed write is not given back.
ReleaseNothing(t) ==
    /\ At(t, "release")
    /\ Refuse(t)
    /\ UNCHANGED <<files, counters, table>>

Release(t) ==
    /\ At(t, "release")
    /\ current_storage' = current_storage - Req(t).size
    /\ Refuse(t)
    /\ UNCHANGED <<files, max_reached_storage, current_files, max_reached_files, table>>

----------------------------------------------------------------------------
(* cache_miss: the policy scans the slots with loop_check, keeps one        *)
(* candidate or none, and delete_evicted takes it.  In which order the     *)
(* slots are looked at and which of those that pass is kept is the         *)
(* policy's business (module Eviction) and left open here.                 *)

\* The scan goes on to another slot, with k its candidate.
EvictNext(t, k) ==
    thr' = [thr EXCEPT ![t].pc = "evict_pick", ![t].victim = 1, ![t].kept = k]

\* cache_miss returns: its locals are gone.
EvictLeave(t) ==
    thr' = [thr EXCEPT ![t].pc = "check_capacity", ![t].victim = 1, ![t].kept = 0, ![t].size = 0]

EvictPick(t) ==
    /\ At(t, "evict_pick")
    /\ \E i \in Slots :
          /\ ~is_locked_file(files[i], OWNER_ADMIN)
          /\ thr' = [thr EXCEPT ![t].pc = "evict_name", ![t].victim = i]
    /\ UNCHANGED <<files, counters, table>>

vslot(t) == files[thr[t].victim]

EvictName(t) ==
    /\ At(t, "evict_name")
    /\ IF check_file_name(vslot(t), Req(t).name)
       THEN EvictNext(t, thr[t].kept) ELSE Goto(t, "evict_size")
    /\ UNCHANGED <<files, counters, table>>

EvictSize(t) ==
    /\ At(t, "evict_size")
    /\ IF is_existing_file(vslot(t)) /\ get_size(vslot(t)) > 0
       THEN Goto(t, "evict_usage") ELSE EvictNext(t, thr[t].kept)
    /\ UNCHANGED <<files, counters, table>>

\* get_usage_data, which finds the file or no longer does, and the policy's
\* comparison of it with the candidate it has.
EvictUsage(t) ==
    /\ At(t, "evict_usage")
    /\ \/ EvictNext(t, thr[t].kept)
       \/ is_existing_file(vslot(t)) /\ EvictNext(t, thr[t].victim)
    /\ UNCHANGED <<files, counters, table>>

\* The end of the scan: its candidate goes to delete_evicted, or there is none
\* and cache_miss returns ECANCELED.
EvictChoose(t) ==
    /\ At(t, "evict_pick")
    /\ thr[t].kept \in Slots
    /\ thr' = [thr EXCEPT ![t].pc = "evict_force", ![t].victim = thr[t].kept, ![t].kept = 0]
    /\ UNCHANGED <<files, counters, table>>

EvictNone(t) ==
    /\ At(t, "evict_pick")
    /\ thr[t].kept = 0
    /\ EvictLeave(t)
    /\ UNCHANGED <<files, counters, table>>

\* force_open_file takes the file from whoever holds it, then opens it.
EvictForce(t) ==
    /\ At(t, "evict_force")
    /\ IF CanForce(vslot(t))
       THEN SetFile(thr[t].victim, force_owner(vslot(t))) /\ Goto(t, "evict_open")
       ELSE EvictLeave(t) /\ UNCHANGED files
    /\ UNCHANGED <<counters, table>>

EvictOpen(t) ==
    /\ At(t, "evict_open")
    /\ IF CanOpen(vslot(t), OWNER_ADMIN)
       THEN SetFile(thr[t].victim, open_file(vslot(t), OWNER_ADMIN)) /\ Goto(t, "evict_remove")
       ELSE EvictLeave(t) /\ UNCHANGED files
    /\ UNCHANGED <<counters, table>>

\* force_read_file, get_file_name and force_remove_file: no other worker can
\* change the slot while ADMIN owns it, so the two reads go with the removal.
EvictRemove(t) ==
    /\ At(t, "evict_remove")
    /\ IF CanRead(vslot(t), OWNER_ADMIN) /\ CanRemove(vslot(t), OWNER_ADMIN)
       THEN /\ SetFile(thr[t].victim, EmptyFile)
            /\ thr' = [thr EXCEPT ![t].pc = "evict_book", ![t].size = get_size(vslot(t))]
       ELSE Fail(t) /\ UNCHANGED files
    /\ UNCHANGED <<counters, table>>

\* Mutant of EvictBook: the evicted file stays counted.
EvictBookBytesOnly(t) ==
    /\ At(t, "evict_book")
    /\ BookStorage(t)
    /\ EvictLeave(t)
    /\ UNCHANGED <<files, max_reached_storage, current_files, max_reached_files, table>>

EvictBook(t) ==
    /\ At(t, "evict_book")
    /\ BookStorage(t)
    /\ current_files' = current_files - 1
    /\ EvictLeave(t)
    /\ UNCHANGED <<files, max_reached_storage, max_reached_files, table>>

----------------------------------------------------------------------------
(* do_readn_files: every slot is opened for the caller, read, and closed   *)
(* again if it was closed before.                                          *)

\* Mutant of ReadNNext: a slot that yields no file is looked at again.
ReadNNextRetry(t, cnt) ==
    IF cnt = thr[t].count THEN Goto(t, "readn_wasclosed")
    ELSE IF thr[t].fex < NumFiles /\ (Req(t).n =< 0 \/ cnt < Req(t).n)
    THEN thr' = [thr EXCEPT ![t].pc = "readn_wasclosed", ![t].fex = @ + 1, ![t].count = cnt]
    ELSE Reply(t)

\* The loop's next slot, or the end of the request.
ReadNNext(t, cnt) ==
    IF thr[t].fex < NumFiles /\ (Req(t).n =< 0 \/ cnt < Req(t).n)
    THEN thr' = [thr EXCEPT ![t].pc = "readn_wasclosed", ![t].fex = @ + 1, ![t].count = cnt]
    ELSE Reply(t)

ReadNWasClosed(t) ==
    /\ At(t, "readn_wasclosed")
    /\ thr' = [thr EXCEPT ![t].pc = "readn_open", ![t].wasclosed = ~is_open_file(fslot(t))]
    /\ UNCHANGED <<files, counters, table>>

ReadNOpen(t) ==
    /\ At(t, "readn_open")
    /\ IF CanOpen(fslot(t), Conn(t))
       THEN SetFile(thr[t].fex, open_file(fslot(t), Conn(t))) /\ Goto(t, "readn_read")
       ELSE ReadNNext(t, thr[t].count) /\ UNCHANGED files
    /\ UNCHANGED <<counters, table>>

\* After the read, or after the closing that follows it.
ReadNAfter(t, ok) ==
    IF ok THEN Goto(t, "readn_name") ELSE ReadNNext(t, thr[t].count)

ReadNRead(t) ==
    /\ At(t, "readn_read")
    /\ LET ok == CanRead(fslot(t), Conn(t)) IN
       IF thr[t].wasclosed
       THEN thr' = [thr EXCEPT ![t].pc = "readn_close", ![t].readok = ok]
       ELSE ReadNAfter(t, ok)
    /\ UNCHANGED <<files, counters, table>>

ReadNClose(t) ==
    /\ At(t, "readn_close")
    /\ CloseSlot(t, "readn_book")
    /\ UNCHANGED <<counters, table>>

\* Skipped by the code when the difference is 0, where it changes nothing.
ReadNBook(t) ==
    /\ At(t, "readn_book")
    /\ BookStorage(t)
    /\ ReadNAfter(t, thr[t].readok)
    /\ UNCHANGED <<files, max_reached_storage, current_files, max_reached_files, table>>

\* When the file has gone the code tests an errno saved before the call, left
\* by whichever call of this thread failed last: it goes on or returns -1.
ReadNName(t) ==
    /\ At(t, "readn_name")
    /\ \/ /\ is_existing_file(fslot(t))
          /\ ReadNNext(t, thr[t].count + 1)
       \/ /\ ~is_existing_file(fslot(t))
          /\ ReadNNext(t, thr[t].count) \/ Fail(t)
    /\ UNCHANGED <<files, counters, table>>

----------------------------------------------------------------------------
(* do_close_connection: close every file the client has locked, answer,    *)
(* then drop the client; its descriptor may then be given to a new client. *)

\* Mutant of CConnNext: the last slot is not closed.
CConnNextNotLast(t) ==
    IF thr[t].fex < NumFiles - 1
    THEN GotoSlot(t, "cconn_check", thr[t].fex + 1)
    ELSE Goto(t, "cconn_remove")

CConnNext(t) ==
    IF thr[t].fex < NumFiles
    THEN GotoSlot(t, "cconn_check", thr[t].fex + 1)
    ELSE Goto(t, "cconn_remove")

CConnCheck(t) ==
    /\ At(t, "cconn_check")
    /\ IF is_locked_file(fslot(t), Conn(t)) THEN Goto(t, "cconn_close") ELSE CConnNext(t)
    /\ UNCHANGED <<files, counters, table>>

CConnClose(t) ==
    /\ At(t, "cconn_close")
    /\ CloseSlot(t, "cconn_book")
    /\ UNCHANGED <<counters, table>>

CConnBook(t) ==
    /\ At(t, "cconn_book")
    /\ BookStorage(t)
    /\ CConnNext(t)
    /\ UNCHANGED <<files, max_reached_storage, current_files, max_reached_files, table>>

CConnRemove(t) ==
    /\ At(t, "cconn_remove")
    /\ clients' = clients \ {Conn(t)}
    /\ Reply(t)
    /\ UNCHANGED <<files, counters, lastop>>

----------------------------------------------------------------------------
\* The operation of file.c that worker t's next step is succeeds on its slot.
CallSucceeds(t) ==
    LET f == fslot(t)
        c == Conn(t)
        pc == thr[t].pc
    IN \/ pc \in {"create_open", "open_file"} /\ CanOpen(f, OpenOwner(t))
       \/ pc = "readn_open" /\ CanOpen(f, c)
       \/ pc \in {"close_file", "readn_close", "cconn_close"} /\ CanClose(f, c)
       \/ pc \in {"read_file", "readn_read"} /\ CanRead(f, c)
       \/ pc = "lock_file" /\ CanLock(f, c)
       \/ pc = "unlock_file" /\ CanUnlock(f, c)
       \/ pc = "remove_file" /\ CanRemove(f, c)
       \/ pc = "apply" /\ CanApply(t)

----------------------------------------------------------------------------
FileScan(t) == GetFile(t) \/ CheckName(t) \/ EmptySlot(t)
CreateSteps(t) == CreateFile(t) \/ CountFile(t) \/ CreateOpen(t)
SimpleSteps(t) ==
    OpenFile(t) \/ CloseFile(t) \/ CloseBook(t) \/ ReadFile(t) \/ LockFile(t) \/ UnlockFile(t)
RemoveSteps(t) == RemoveCheck(t) \/ RemoveFile(t) \/ RemoveBook(t)
WriteSteps(t) == CheckCapacity(t) \/ Reserve(t) \/ Apply(t) \/ Release(t)
EvictSteps(t) ==
    \/ EvictPick(t) \/ EvictName(t) \/ EvictSize(t) \/ EvictUsage(t)
    \/ EvictChoose(t) \/ EvictNone(t)
    \/ EvictForce(t) \/ EvictOpen(t) \/ EvictRemove(t) \/ EvictBook(t)
ReadNSteps(t) ==
    \/ ReadNWasClosed(t) \/ ReadNOpen(t) \/ ReadNRead(t)
    \/ ReadNClose(t) \/ ReadNBook(t) \/ ReadNName(t)
CloseConnSteps(t) == CConnCheck(t) \/ CConnClose(t) \/ CConnBook(t) \/ CConnRemove(t)

\* A step of a handler that has begun.
HandlerStep(t) ==
    \/ FileScan(t) \/ CreateSteps(t) \/ SimpleSteps(t) \/ RemoveSteps(t) \/ WriteSteps(t)
    \/ EvictSteps(t) \/ ReadNSteps(t) \/ CloseConnSteps(t) \/ HandlerFailed(t)

\* Every worker is a thread of the one process.
WorkerStep(t) == ServerAlive /\ HandlerStep(t)

Next ==
    \/ \E c \in Conns : AddClient(c)
    \/ \E t \in Workers : Receive(t) \/ WorkerStep(t)

Spec == Init /\ [][Next]_vars

\* A worker thread is scheduled again and again: mutexes are held for one call
\* only, so a worker that has a step to make gets to make it.
FairSpec == Spec /\ \A t \in Workers : WF_vars(WorkerStep(t))
=============================================================================
