---------------------------- MODULE StorageProps ----------------------------
(***************************************************************************)
(* What the file table promises, over the handlers of Storage.             *)
(***************************************************************************)
EXTENDS Storage

\* Types of every variable of the table, the counters and the workers.
TypeOK ==
    /\ files \in [Slots -> FileType]
    /\ current_storage \in Int /\ max_reached_storage \in Int
    /\ current_files \in Int /\ max_reached_files \in Int
    /\ clients \subseteq Conns
    /\ lastop \in [Conns -> Names \union {NoName}]
    /\ thr \in [Workers -> ThreadType]

----------------------------------------------------------------------------
(* Accounting: hazards of the check-then-act kind on the counters.         *)

Existing == {i \in Slots : is_existing_file(files[i])}

\* Bytes current_storage counts and no file holds: a reservation not yet
\* applied, and what was freed but not yet subtracted.
InFlight(t) ==
    IF thr[t].pc \in {"apply", "release"} THEN Req(t).size
    ELSE IF thr[t].pc \in UnbookedClosePcs \union UnbookedRemovePcs THEN thr[t].size
    ELSE 0

\* current_storage is exactly the bytes of the files plus what the workers
\* have in flight: no path of the handlers, failing ones included, loses or
\* double-counts a byte.
FileBytes == [i \in Slots |-> get_size(files[i])]
InFlightBytes == [t \in Workers |-> InFlight(t)]
StorageAccounting == current_storage = SumFunction(FileBytes) + SumFunction(InFlightBytes)

\* current_files is the number of files, up to creations not yet counted and
\* removals not yet subtracted.
Counting == {t \in Workers : At(t, "count_file")}
Uncounting == {t \in Workers : thr[t].pc \in UnbookedRemovePcs}
FileAccounting ==
    current_files = Cardinality(Existing) + Cardinality(Uncounting) - Cardinality(Counting)

\* The counters never exceed the configured storage (worker_write.c:194 makes
\* room before reserving).  With one worker only.
StorageWithinCapacity == current_storage =< MaxStorage

\* With several workers the check and the reservation interleave, but at most
\* one unchecked request per other worker gets in.
PutSizes == {r.size : r \in {q \in Requests : q.op \in PutOps /\ ~TooBig(q)}}
MaxRequest == Max(PutSizes \union {0})
BoundedOvershoot ==
    current_storage =< MaxStorage + (Cardinality(Workers) - 1) * MaxRequest

----------------------------------------------------------------------------
(* Files: the invariants file.c relies on between two calls.               *)

\* An open file's working copy is its stored bytes plus those added since it
\* was opened, a closed file has none; so closing frees no bytes it should
\* not, and get_size is what the file will take when closed.
SizesConsistent ==
    \A i \in Slots :
        LET f == files[i] IN
        /\ is_open_file(f) => f.open_size = get_size(f)
        /\ ~is_open_file(f) => f.new_size = 0
        /\ ~is_existing_file(f) => f = EmptyFile

\* No two slots hold the same path.  With one worker only.
UniqueNames ==
    \A i, j \in Existing : files[i].name = files[j].name => i = j

----------------------------------------------------------------------------
(* Locks.                                                                  *)

\* Worker t has put a locked file in slot i and is about to open it.
Creating(t, i) == thr[t].pc \in {"count_file", "create_open"} /\ thr[t].fex = i

\* A file is locked only while it is open and its client connected; the only
\* closed locked file is the one its creator is about to open.
LockedFilesOpen ==
    \A i \in Slots : files[i].owner \in Conns =>
        /\ files[i].owner \in clients
        /\ \/ is_open_file(files[i])
           \/ \E t \in Workers : Creating(t, i) /\ OpenOwner(t) = files[i].owner

\* The eviction steps during which a worker owns its victim.
Holds(t, i) == thr[t].pc \in EvictHoldPcs /\ thr[t].victim = i

\* A file owned by ADMIN is being evicted by exactly one worker, and a worker
\* that evicts owns its victim, whatever the others do meanwhile.
EvictorExclusive ==
    \A i \in Slots :
        /\ files[i].owner = OWNER_ADMIN <=> \E t \in Workers : Holds(t, i)
        /\ \A t, u \in Workers : Holds(t, i) /\ Holds(u, i) => t = u

\* Between get_file and the use of its slot the file may be replaced, but a
\* slot the client owns then still holds the named file: write, unlock and
\* remove never reach another file.
OwnerPcs == {"unlock_file", "remove_check", "remove_file"}
StaleSlotHarmless ==
    \A t \in Workers :
        /\ \/ thr[t].pc \in OwnerPcs \union WritePcs \union EvictPickPcs \union EvictHoldPcs
           \/ At(t, "evict_book")
        /\ fslot(t).owner = Conn(t)
        => fslot(t).name = Req(t).name

\* The lock is never stolen: a file a client has locked changes only by the
\* step of the worker serving that client, or by an eviction taking it whole;
\* and a file being evicted changes only by its evictor.
OwnershipRespected ==
    [][\A i \in Slots :
          LET f == files[i] IN
          files'[i] # f =>
            /\ f.owner \in Conns =>
                 \/ files'[i] = force_owner(f)
                 \/ \E t \in Workers : Conn(t) = f.owner /\ thr'[t] # thr[t]
            /\ f.owner = OWNER_ADMIN =>
                 \E t \in Workers : Holds(t, i) /\ thr'[t] # thr[t]]_vars

\* The gate on lastop does its work: a write that finds its slot still locked
\* by the client finds it open and empty.  With one worker only.
WriteFindsFreshFile ==
    \A t \in Workers :
        /\ At(t, "apply") /\ Req(t).op = "WRITE_FILE"
        /\ fslot(t).owner = Conn(t)
        => fslot(t).open_size = 0

\* No handler returns -1 but that of a write of nothing, and none brings the
\* server down but that of an append of nothing, which frees its buffer twice
\* (worker_write.c:146, :173): file.c:317 and :339 refuse an empty payload with
\* an errno no branch of theirs answers.  With one worker only.
NoHandlerFails ==
    \A t \in Workers :
        /\ At(t, "failed") => Req(t).op = "WRITE_FILE" /\ Req(t).size = 0
        /\ At(t, "aborted") => Req(t).op = "APPEND_FILE" /\ Req(t).size = 0

\* Every request is answered: a worker that serves one is free again later,
\* unless another one has brought the server down.
HandlersTerminate == \A t \in Workers : []<>(At(t, "idle") \/ ~ServerAlive)

\* The labels of cache_miss and delete_evicted, from the first scan to the
\* booking.
EvictingPcs == EvictPickPcs \union EvictHoldPcs \union {"evict_book"}

\* At most how many steps, evictions apart, a worker needs from label pc on to
\* answer its request, its loop having left slots to see after this one.
StepsFrom(pc, left) ==
    CASE pc = "get_file" -> NumFiles + 2 * left + 7
      [] pc = "check_name" -> NumFiles + 2 * left + 6
      [] pc = "empty_slot" -> left + 5
      [] pc = "readn_wasclosed" -> 6 * left + 7
      [] pc = "readn_open" -> 6 * left + 6
      [] pc = "readn_read" -> 6 * left + 5
      [] pc = "readn_close" -> 6 * left + 4
      [] pc = "readn_book" -> 6 * left + 3
      [] pc = "readn_name" -> 6 * left + 2
      [] pc = "cconn_check" -> 3 * left + 4
      [] pc = "cconn_close" -> 3 * left + 3
      [] pc = "cconn_book" -> 3 * left + 2
      [] pc = "check_capacity" -> 5
      [] pc \in {"create_file", "reserve"} -> 4
      [] pc \in {"count_file", "remove_check", "apply"} -> 3
      [] pc \in {"create_open", "close_file", "remove_file", "release"} -> 2
      [] pc = "idle" -> 0
      [] OTHER -> 1
StepsToGo(t) == StepsFrom(thr[t].pc, NumFiles - thr[t].fex)

\* The loops of get_file, readN and closeConnection end whatever the other
\* workers do to the table between two of their steps: a handler starts with
\* a few steps per slot to go, and every step of its own that is not part of an
\* eviction leaves it fewer.
StepsRunOut ==
    [][\A t \in Workers :
          /\ At(t, "idle") => StepsToGo(t)' =< 6 * NumFiles + 2
          /\ /\ thr'[t] # thr[t]
             /\ ~At(t, "idle")
             /\ {thr[t].pc, thr'[t].pc} \intersect EvictingPcs = {}
             => StepsToGo(t)' \in 0 .. StepsToGo(t) - 1]_vars

----------------------------------------------------------------------------
(* The inductive invariant behind the theorems of StorageProofs.           *)

\* A worker serves nobody when idle, else a registered client of its own.
ConnExclusive ==
    \A t \in Workers :
        /\ Conn(t) = NoConn <=> At(t, "idle")
        /\ ~At(t, "idle") => Conn(t) \in clients
        /\ \A u \in Workers : Conn(t) = Conn(u) /\ ~At(t, "idle") => t = u

\* get_file and get_empty_slot run for the requests that name a file.
ScanNamed == \A t \in Workers : thr[t].pc \in ScanPcs => Req(t).op \in NamedOps

\* The slots a closing connection has been through no longer belong to it.
CloseConnProgress ==
    \A t \in Workers, i \in Slots :
        /\ thr[t].pc \in CloseConnPcs \union {"cconn_book"}
        /\ \/ i < thr[t].fex
           \/ i = thr[t].fex /\ thr[t].pc \in {"cconn_book", "cconn_remove"}
        => files[i].owner # Conn(t)

\* cconn_remove is reached from the last slot.
CloseConnAll == \A t \in Workers : At(t, "cconn_remove") => thr[t].fex = NumFiles

\* The eviction has opened its victim before it reads it.
VictimOpen == \A t \in Workers : At(t, "evict_remove") => is_open_file(vslot(t))

IInv ==
    /\ TypeOK /\ SizesConsistent /\ ConnExclusive /\ ScanNamed /\ EvictorExclusive
    /\ StaleSlotHarmless /\ LockedFilesOpen /\ CloseConnProgress /\ CloseConnAll /\ VictimOpen

\* The labels between making room for a payload and reserving, applying or
\* giving up on it.
RoomPcs == WritePcs \union EvictPickPcs \union EvictHoldPcs \union {"evict_book"}

\* A worker makes room and reserves only for a payload the storage can hold.
RoomWanted ==
    \A t \in Workers :
        thr[t].pc \in RoomPcs => Req(t).op \in PutOps /\ ~TooBig(Req(t))

\* The bytes a worker has found room for and not reserved yet: with those,
\* BoundedOvershoot is inductive.
Pending(t) == IF At(t, "reserve") THEN Req(t).size ELSE 0
PendingBytes == [t \in Workers |-> Pending(t)]
PendingBounded ==
    current_storage + SumFunction(PendingBytes)
        =< MaxStorage + (Cardinality(Workers) - 1) * MaxRequest

\* With one worker nothing comes between two steps of a handler.  The slots
\* get_file has passed do not hold the path; a file it has found is there; a
\* path about to be created is nowhere, and its slot is free.
ScanFresh ==
    \A t \in Workers :
        /\ thr[t].pc \in {"get_file", "check_name"} =>
             \A i \in Slots : i < thr[t].fex => ~check_file_name(files[i], Req(t).name)
        /\ At(t, "check_name") => is_existing_file(fslot(t))
        /\ thr[t].pc \in {"empty_slot", "create_file"} =>
             \A i \in Slots : ~check_file_name(files[i], Req(t).name)
        /\ At(t, "create_file") => ~is_existing_file(fslot(t))

\* The slot is as create_file_struct left it until it is opened, and as open_file
\* or close_file left it until readN has sent its name.
SlotUndisturbed ==
    \A t \in Workers :
        /\ thr[t].pc \in {"count_file", "create_open"} =>
             fslot(t) = create_file_struct(EmptyFile, Req(t).name, OpenOwner(t))
        /\ thr[t].pc \in {"readn_read", "readn_close", "readn_book", "readn_name"} =>
             is_existing_file(fslot(t))

\* Each request has its steps, and keeps to them.
Search(pcs) == {"get_file", "check_name"} \union pcs
StepsOf ==
    [OPEN_FILE |-> ScanPcs \union CreatePcs \union {"open_file"},
     CLOSE_FILE |-> Search({"close_file", "close_book"}), READ_FILE |-> Search({"read_file"}),
     WRITE_FILE |-> Search(RoomPcs), APPEND_FILE |-> Search(RoomPcs),
     LOCK_FILE |-> Search({"lock_file"}), UNLOCK_FILE |-> Search({"unlock_file"}),
     REMOVE_FILE |-> Search(RemovePcs \union {"remove_book"}),
     READN_FILE |-> ReadNPcs \union {"readn_book"},
     CLOSE_CONN |-> CloseConnPcs \union {"cconn_book"}]
StepsFit == \A t \in Workers : thr[t].pc \in {"idle", "failed", "aborted"} \union StepsOf[Req(t).op]

\* With one worker the slot get_file returned still holds the path it looked for.
FoundSlot ==
    \A t \in Workers :
        thr[t].pc \in SimplePcs \union RemovePcs => check_file_name(fslot(t), Req(t).name)

\* A worker that serves a client has cleared its lastop, unless the client is
\* leaving.
GateCleared ==
    \A t \in Workers :
        ~At(t, "idle") /\ lastop[Conn(t)] # NoName
        => thr[t].pc \in CloseConnPcs \union {"cconn_book"}

\* A path in lastop is that of a file just created: if the client still has it
\* locked it is open and empty, until its write has been applied.
OwnedIsEmpty(c, x) ==
    \A i \in Slots : files[i].owner = c /\ files[i].name = x => files[i].open_size = 0
GateFresh ==
    /\ \A c \in Conns : lastop[c] # NoName => OwnedIsEmpty(c, lastop[c])
    /\ \A t \in Workers :
          /\ Req(t).op = "WRITE_FILE"
          /\ thr[t].pc \in ScanPcs \union RoomPcs
          => OwnedIsEmpty(Conn(t), Req(t).name)

----------------------------------------------------------------------------
(* What the documentation promises and the handlers do not deliver.        *)

\* worker_generics.h:28, "if error and errno == ENOENT, there was not file":
\* when get_file is about to give up on a slot emptied under it, no slot holds
\* the path.
NotFoundMeansAbsent ==
    \A t \in Workers :
        At(t, "check_name") /\ ~is_existing_file(fslot(t))
        => \A i \in Slots : ~check_file_name(files[i], Req(t).name)
=============================================================================
