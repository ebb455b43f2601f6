# Verification of the file storage server

TLA+ models of the multi-threaded file storage server under `src/src/`: modules,
TLC configurations that check them on small instances, and theorems checked by
TLAPS for every instance. The code is the reference; paths below are relative to
`src/src/source/` unless they start with `exec/` or `tests/` (under `src/src/`).

## 1. The system

One server process keeps a table of files in memory and serves clients over a
UNIX socket. The main thread polls the listening socket, the idle client
connections and a signal descriptor; each request is handed to one of
`worker_threads` worker threads, which reads one message, runs one handler on the
table and answers. Clients are single-threaded and send one request at a time.

| Component | State | Operations | Interacts through |
|---|---|---|---|
| File slot (`file.c`, `file.h`) | owner, name, stored data, open copy, `new_size`, usage data | create, open, close, read, write, append, lock, unlock, remove, force_open, force_remove, small queries | each call is one critical section of the slot's mutex |
| Request handlers (`worker/*.c`) | locals only: slot index, sizes, the request | `get_file`, `get_empty_slot` and the ten `do_*` handlers | calls on slots and counters, one mutex at a time |
| Eviction (`worker_cache_miss.c`) | scan position and candidate, `lru_clock_pos` | `cache_miss`, FIFO, LRU and LFU scans, `delete_evicted` | called by write and append; takes files from any owner |
| Shared state (`shared_state.c`) | storage and file counters with their maxima, client table with `lastop` | add/remove client, `lastop` lookup | `state_mux` |
| Connections (`worker_connection.c`) | none | acceptor handshake, `do_close_connection` | client table, slots |
| Worker thread (`worker.c`) | `do_work`, `exit`, `in_conn`, `add_conn` | wait, serve, report done | `thread_mux`, condition variable, SIGUSR1 |
| Main loop (`server/server_loop.c`, `server_subcalls.c`, `exec/server.c`) | poll array, `working_threads`, `exit`, `sighup` | poll, assign, collect, stop | worker mutexes, signals |
| Start-up (`server_parsing.c`, `server_socket.c`, `server_files.c`, `config.c`) | configuration | parse, bind, allocate | sequential |
| Client interface (`client_api.c`) | one socket, byte counters | one call per request, `lockFile` retries | messages |
| Client command line (`client/`, `request.c`) | list of requests | parse options into requests, run them | client interface |
| Messages (`net_msg.c`, `databuf.c`, `message_type.h`, `hash.h`) | a stack of values, type, checksum | push, pop, read, write | socket |
| Log (`log.c`, `exec/statistiche.sh`) | log file | append a line | its own mutex |

What makes it hard:

* **Interleaving.** A handler takes one mutex at a time and only for one call. It
  finds a file by scanning the table, releases everything, and uses the slot index
  later; the file may have been removed, evicted or replaced. Bytes are tested,
  reserved, applied, freed and subtracted in separate critical sections.
* **Partial failure.** A reservation has to be given back when the write is refused;
  a creation may fail after the slot was taken; evicted data goes to a reply that
  may not be sent; one request (an append of nothing) brings the whole server down.
* **Disconnection.** Locks must not outlive the connection: descriptors are reused.
* **Termination.** Every handler is a loop over a table that changes under it, and
  the eviction loop has no bound of its own.
* **Broken conversations.** A connection carries one call at a time, but what a call
  means depends on the ones before it (`lastop`), and what it brings back is a stack
  of values without types or ends.
* **Hand-over.** Workers and main loop meet through flags, a condition variable and
  a signal that is not queued.

What makes each component correct:

* slots: an open file's size is what its data and the added bytes make; only the
  lock holder (or an eviction) changes a locked file;
* handlers: every path accounts for every byte and file; no lock is stolen or left
  behind; a stale index never lets an owner touch the wrong file; every request is
  answered;
* eviction: one evictor per victim; it ends;
* client table and acceptor: at most `max_connections` clients, no leaked mutex;
* main loop: a connection is with one worker or in the poll array, never both,
  never neither;
* client interface: no answer is misunderstood; what a client was told of its locks
  and of `writeFile` holds until it is told otherwise;
* messages: replies are read back as they were written;
* command line: each call on a file is made while the client has it open.

The hazards behind these, each with its line and the property that covers it, are
listed in `PROJECT.json`.

## 2. Modules

| Module | What it is |
|---|---|
| `FileStruct` | `file_t` and the operations of `file.c` as operators on one record: `CanX`, the condition under which X returns 0, and the record X leaves |
| `Storage` | extends it: the table, the counters, the client table and the workers; one action per critical section of every handler |
| `StorageProps`, `MCStorage` | type invariant, properties, the inductive invariant `IInv`; request sets, symmetry |
| `StorageProofs` | each operation keeps a slot consistent; how a handler step changes its worker and the table; `IInv` and the theorems that follow from it |
| `StorageAccountingProofs` | sums over slots and workers; the counters account for every byte and file |
| `OneWorkerProofs` | what holds with one worker: capacity, unique paths, fresh files, no handler fails |
| `Eviction` | extends `Storage`: FIFO, LRU and LFU over the usage data, where `Storage` leaves the choice open |
| `EvictionProps`, `MCEviction`, `EvictionProofs` | its properties; its instance; it implements `Storage`, and its victims are the policy's |
| `Client` | extends `Storage`: the calls of `client_api.c`, the flags of the answers, the loop of `lockFile` |
| `Messages` | the stack of values of `databuf.c` and one step of the hash, as operators |
| `Replies` | extends `Client` and `Messages`: what the handlers push and the calls pop |
| `ClientProps`, `ReplyProps`, `MCClient`, `MCReplies` | properties, the inductive invariants `GateInv`, `AnswerInv`, `BeliefInv` and `ReplyInv`, and instances of the two |
| `ClientProofs` | clients implement `Storage`; the four invariants; what is pushed on a message is popped from it; the hash |
| `Commands` | the client program: options, the two passes that make requests of them, the sending loop |
| `CommandsProps`, `MCCommands`, `CommandsProofs` | its properties and the inductive invariant `CommandsInv`; its options; the proof of all five properties |
| `Dispatch` | the main loop, the workers' loop and their hand-over, the acceptor, signals, clients as the other end of a socket |
| `Connections` | what the handlers need from the dispatching: a connection is polled, with one server, or closed |
| `DispatchProps` | type invariant, properties, the refinement of `Connections`, the inductive invariants `DispatchInv` and `HandOverInv` |
| `DispatchProofs`, `HandOverProofs` | whatever fails: types, wake-ups and descriptors; where nothing fails: exclusive service and the refinement |

`Storage` and `Dispatch` are the two halves of the server, each with the other
reduced to what it needs: a request is one step of `Dispatch` that takes `state_mux`
and may fail; the main loop is the guard of `Receive` in `Storage`. The other modules
stand on `Storage` and only restrict it or add variables: every step of `Eviction`,
`Client` and `Replies` is a step of `Storage` or leaves its variables alone
(`PolicyImplementsStorage`, `ClientsImplementStorage`), so what is proved of `Storage`
holds for them. `Commands` stands alone: a call is answered in any way `Storage` allows.

### How state and actions correspond to the code

`files[i]` is `files[i-1]` of the C table. A slot's contents are abstracted to
lengths: `data_size`, `open_size` (-1 when closed) and `new_size` are the fields of
that name. Compression is the copy it is in this build (`server_compression.c`), so
closing never changes a size; the model still follows the `difference` it reports.

`thr[t]` is worker `t`: `pc` names the critical section it is about to enter, `conn`
and `req` its connection and message, and the rest the handler's locals (`fex`, the
slot index or the loop variable, `victim`, `size` still to be subtracted,
`wasclosed`, `readok` and `count` of readN). A label and its code:

| Labels | Code |
|---|---|
| `get_file`, `check_name`, `empty_slot` | the two looks of `get_file` per slot; `get_empty_slot` |
| `create_file`, `count_file`, `create_open` | `_open_file_create` |
| `open_file`, `read_file`, `lock_file`, `unlock_file` | the call that ends each handler |
| `close_file`, `close_book` | `do_close_file`: the close, and the subtraction |
| `remove_check`, `remove_file`, `remove_book` | `do_remove_file`: unlocked look at the owner, removal, subtraction |
| `check_capacity`, `reserve`, `apply`, `release` | `do_cache_miss`, `reserve_storage`, `write_file`/`append_file`, the failing branch |
| `evict_*` | `cache_miss`: three looks of `loop_check`, `force_open_file` (owner, then open), removal, subtraction |
| `readn_*`, `cconn_*` | `do_readn_files`, `do_close_connection` |
| `failed` | the handler returned -1 |
| `aborted` | the C library called `abort` (an append of nothing frees its buffer at `worker_write.c:146` and at `:173`) |

Several code steps become one action only when no other worker can see the
difference: `lastop` belongs to the connection the worker serves; reading an
evicted file and its name happens while ADMIN owns it. A write that fails the
`lastop` test changes nothing and is no step.

The reserved owners -1, 0 and 1024 and `NoConn` are constants different from every
descriptor (`OwnerAssumption`, `StorageAssumption`): descriptors 0 and 1024 never
belong to a client, since 0 is standard input and at most 50 connections exist.

Workers are threads of one process, so nothing is received and no worker steps once one
has aborted (`ServerAlive`, `WorkerStep`).

`Receive` lets a worker take a connection no other worker has. `Dispatch` implements
this: `ServedByOneWorker` says that it refines `Connections`, whose `place` is the
worker that holds or reports a registered connection. It holds as long as no handler
fails; after a failure the code reports the worker done twice (`worker.c:26-32`),
and run `FailedHandler` shows what becomes of it. Exclusive service after a failed
handler is therefore an assumption of `Storage`.

**`Dispatch`.** `mpc` says where the main thread is; `poll_array`, `working_threads`
and `sighup` are the variables of `main`, the listening socket's entry being
`acc_polled`. `wd[w]` is `worker_data`, `thr[w]` the worker's position and its locals
`conn`, `newconn` and the handler's result. `state_mux` names its holder only for the
acceptor, who keeps it across `accept`; elsewhere it is held for one step, which needs
it free. `pending` is the set of signals not yet read: a signal is not queued, so
SIGUSR1 is there or not, however many workers have finished. A connection is a state of
`sock`: which message is under way on it. `Fds` are the numbers `accept` may return,
the lowest free one first, so that a closed descriptor is reused at once.

| Steps | Code |
|---|---|
| `GetCurrentConnections`, `PollSignal`, `PollAcceptor`, `PollConnection`, `PollInvalid` | one turn of the loop of `main` with `poll_call` and `after_poll_*`; `PollInvalid` is a closed descriptor in the array |
| `AssignWork`, `ThreadHasFinished` | one step per worker whose `thread_mux` is taken |
| `ReadSignal`, `CloseAcceptor`, `StopAllThreads`, `JoinAllThreads` | `after_poll_signal`, `sighup_do`, `sighup_handler`, termination |
| `WaitForWork`, `FailDone`, `FailKill`, `Done`, `Kill` | `worker_routine`: waiting, the two reports of a failure, the ordinary report |
| `Read`, `Handle`, `Reply`, `CConnReply`, `CConnRemove` | `worker_do` on a connection |
| `AccTest` ... `AccReply` | `do_acceptor`, one step per critical section or blocking call |
| `Connect`, `Hello`, `Request`, `Bye`, `Die`, `SendSignal` | `client_api.c`; a process that ends; `kill` |

**`Eviction`.** `mark[i]` is the one usage field of slot `i` that the configured
policy reads: creation time, number of uses or reference bit. `scan[t]` holds the
locals of `evict_FIFO`, `evict_LRU` or `evict_LFU`: the slot to be looked at, how many
are left, and the best value so far. `ScanLook`, `ScanCheck` and `ScanUsage` are the
critical sections of `loop_check` and `*_loop_do`, `ScanClear` is `update_lru(file, 0)`,
which comes after the bit was read and in a section of its own, `ScanDelete`
is `delete_evicted`, and `MoveHand` the assignment of `lru_clock_pos` after it.
`MarkStep` goes with every other step, since every successful operation of `file.c`
updates the usage data.

**`Client` and `Replies`.** A client is named by its descriptor. `call[c]` is the API
call it is in, with the flags its answer has so far and, once it is there, what the
call makes of it (`Outcome`). `armed[c]` and `belief[c]` are no variables of the code:
they are what a caller can conclude from the results of its own calls about
`writeFile` and about each lock, and the properties compare them with the server.
`Work(t)` is a step of a handler with the flag it adds (`FlagsOfStep`), which for a failing
one depends on whom it asked for (`AllowedOwners`: an open without `O_LOCK` asks for nobody,
so the client's own lock refuses it as any other does, EPERM and not EEXIST); `Serve` is the
reading of a request, `RefuseWrite` the answer to a `writeFile` for which `lastop` is
another path, `Return` the return of the call or, in `lockFile`, another turn of its
loop. `CallFails` is a call with nobody at the other end (`NobodyThere`): after
closeConnection, or of a client whose server has aborted, an answer already sent excepted.
In `Replies`, `out[t]` is the answer being made and `got[c]` what the call has popped from
it. Popping needs memory to put the bytes in (`pop_buf`): `save_cached_files` starts with
none for the data (`BufferAfter`), so a readNFiles whose answer ends with an empty file
fails. Data are named by the path they were written to, so that data under another file's
name can be told. A worker never sees a request before it reads it, so a call begins when
its message is read.

**`Commands`.** `phase` follows `main`; a command line is a sequence of at most
`MaxOptions` options, parsed one per step; `expand` and `insert` are the two passes of
`client_parser_2.c` (`Listings` are the files `-w` may send; none of them when its limit is
negative); in `send`, each call may be answered in every way the server may
answer it given what the client has of the file (`hold`).

A message to a peer who has gone raises SIGPIPE, which the server neither blocks nor
handles: the process is `killed`.

## 3. Properties and runs

**Storage, Client, Replies.** Two connections, two paths (one in `TwoLive`), two slots,
a capacity of one byte (of two in `TwoLock`), client table of 2.

| Run | Module | Workers | Requests | Checks |
|---|---|---|---|---|
| `OneWorker` | `Replies` | 1 | every call; payloads 0, 1 and 2 | `TypeOK`, `StorageWithinCapacity`, `UniqueNames`, `WriteFindsFreshFile`, `NoHandlerFails`, `AnswersUnderstood`, `GateAgrees`, `HeldMeansOwned`, `RepliesReadBack` |
| `TwoLock` | `Storage` | 2 | opens with every flag, read, lock, unlock, remove, readN, disconnect | `LockedFilesOpen`, `StaleSlotHarmless`, `OwnershipRespected`, `StepsRunOut` |
| `TwoWrite` | `Storage` | 2 | create-and-lock, write, append, close, remove; payload 1 | `StorageAccounting`, `FileAccounting`, `BoundedOvershoot`, `SizesConsistent`, `EvictorExclusive` |
| `TwoLive` | `Client` | 2 | create-and-lock, lock, remove, readN, a write too big for the storage, disconnect | `HandlersTerminate`, `LockWaitJustified` under `FairClientSpec` |
| `EvictPolicies` | `Eviction` | 1 | create-and-lock, write, append, read; three slots and paths, capacity 3, one client | `PolicyTypeOK`, `VictimFollowsPolicy`; `StuckOnlyIfNothingEvictable` under `FairPolicySpec` |

`OneWorker` shows what the server promises its clients when nothing interleaves
(`worker_threads=1`, as in `tests/test1/test1.cfg`): two clients still take turns, lock
and expel each other's files, disconnect and come back under the same descriptor. Most
of its properties fail with a second worker (`GateAgrees` does not, see section 4), so
they say nothing about races: what interleaving can do is the subject of the next three runs.
Its properties name their exceptions: a write of nothing makes its handler fail, an append of
nothing ends the server (`NoHandlerFails`), a readNFiles whose last file is empty fails with
nothing read (`RepliesReadBack`). `TwoLock` and `TwoWrite` show what survives interleaving (loops that end among it), `TwoLive` that every request
in it is answered, and that `lockFile` asks for ever only as long as others take the
file again and again. `EvictPolicies` shows that each policy evicts the file its name
promises, and when the loop of `do_cache_miss` (`worker_write.c:194`) may turn for
ever: when, in the end, there is nothing the policy may evict, as when the only bytes
are those of the file being appended to or, under FIFO, of files created in the
current second.

**Bounds.** Two workers give every pair of critical sections in both orders; three
slots or paths add no new pair, since a scan treats all slots alike and no code
compares more than two. Two slots are needed for a scan to have a "later" slot, for
an eviction to have a victim other than the file written (`nodel_file`), and for a
slot to be replaced by another path. A capacity of one byte makes every payload of 1
fill the storage, so that a second one evicts the first or, on the same file, finds
nothing to evict, and two workers together overshoot by one; a payload of 2 is more
than the storage, one of 0 is `EINVAL`, which ends a write's handler and, for an append,
the server; two files with different contents are one with
the byte and one without.
`NumFiles = 2` reaches the full table. With two slots one request evicts at most one
file, so the loop of `save_cached_files` turns twice only for readN. The policies need
three slots, so that two candidates are compared and the hand of the clock has
somewhere to pass; `MaxTime = 2` (seconds that pass) gives a file older than another
and one of the current second, `MaxUses = 5` (uses LFU counts) more than it takes
to order two files in either way.
Nothing else is bounded: counters are bounded by the slots and the capacity, and the
number of requests is not limited. The theorems of section 4 hold for every value of
these constants.

**Commands.** `RequestList` takes every command line of up to five options, of which
four can be requests: enough for a file to be opened, used, removed and used again, or
for two paths to be mixed, with `-f` before them. It checks `CommandsTypeOK`,
`DirectoryFits`, `UsesOpenedFiles`, `NothingLeftOpen` and `HeldUntilLastUse`: the
openings and closings the program puts in are where they have to be. Limits of `-w` are
zero (all files), one and negative (no file).

**Dispatch.** Two workers; `MaxConns` and `NumClients` as listed; `Events` says what
may happen beside clients that follow the protocol.

| Run | Conns, clients | Events | Checks |
|---|---|---|---|
| `DispatchFaults` | 1, 2 | dying clients, whose connections fail at every step, SIGINT at any time | `NoLostWakeup`, `RegisteredStayOpen` |
| `DispatchStop` | 1, 2 | one signal while nobody is connecting, strangers | `DispatchTypeOK`, `ServerKeepsRunning`, `OnlyClientsPolled`; `ServedByOneWorker` (refinement of `Connections`); `SighupStops`, `SigintStops`, `RequestsRead` under `FairSpec` |
| `DispatchLive` | 2, 2 | none | `InOnePlace`; `CompletionsCollected`, `RequestsRead` under `FairSpec` |

Two workers let a connection come back while another is handed out, and one be idle
while the other reports; the client table of one or two entries is full or not, and
one client more than the table holds waits in the listen queue: `RequestsRead` is checked
with that newcomer (`DispatchStop`), where it needs its exception, and with a place for
everybody (`DispatchLive`), where the exception cannot apply. The queue, the number
of signals (one) and, in `DispatchFaults`, `working_threads` (not below zero, named
`LostWorkersBound`, since every connection that fails lowers it) are bounded.

**Symmetry** over workers, connections and paths is used in `Storage`'s safety runs,
over connections in `OneWorker`; runs with a temporal property under fairness use none.

**Deadlock** is checked in every passing run but two: an idle server with a free
client entry, or a client, can always step (a client of an aborted server by calling
`openConnection` in vain). `DispatchFaults` does not check it,
because there the server really comes to a halt: a failed `accept`, or
one that waits for a client who has gone, holds `state_mux`. In `RequestList` the
client program ends.

**Fairness.** `FairSpec` asks that each worker whose handler has a step to make
eventually makes it. The code justifies it: workers are threads of their own, every
mutex is held for one short call, and no handler waits for another one. Nothing is
assumed of clients there. `FairPolicySpec` asks the same of the workers' steps with a
policy, and nothing of the clock. `FairClientSpec` adds that a call whose answer is
there returns, that one to a server that has gone fails, and that the message `lockFile`
sends again is read in the end. The last is what `RequestsRead` says of the main loop as
long as others do not keep asking and no newcomer waits at a full table: `LockWaitJustified`
is about such a server. `Dispatch` asks the same of the main thread and the workers, and
that a connected client says hello, which `openConnection` does at once; without it
one silent client keeps a worker and the acceptor for ever, as the comment at
`worker_connection.c:39` admits. `SighupStops` has the clients' leaving as a premise,
and `RequestsRead` excuses a server whose other clients keep asking, because the main
loop takes the first ready connection, and one at whose full table a newcomer waits, because
it prefers the listening socket.

The only writes of `TwoLive` are refused before the eviction loop, because a request in
that loop need not be answered; `EvictPolicies` says when. `TwoLive` has no append of
nothing either, so there every request is answered without the exception
`HandlersTerminate` makes for an aborted server.

**Disagreements with the documentation**, each a run that ends in a counterexample
(`LateSighup` and `FailedHandler` add one event to the instances above):

| Run | What happens |
|---|---|
| `MissedFile` | a slot emptied between the two looks of `get_file` ends the search with ENOENT although a later slot has the path (`worker_generics.c:18`) |
| `LateSighup` | SIGHUP closes the listening socket under a worker about to accept; `accept` fails with `state_mux` held and the server never stops (`worker_connection.c:35`, `exec/server.c:68`) |
| `FailedHandler` | the connection of a failed handler is polled while a worker still has it, after the first of two reports (`worker.c:28`, `:103`) |

The same models show more that is not among the runs, because no line of the
repository rules it out or another run shows worse:

* with two workers the storage exceeds `storage_capacity`: two writers pass the test
  at `worker_write.c:194` before either reserves, and `StorageWithinCapacity` fails.
  `BoundedOvershoot` says by how much at most: one request per other worker;
* with two workers, two clients creating one path both get a file
  (`worker_openfile.c:39`, `:74`, where `UniqueNames` fails); an append to an unlocked
  file goes to the path that has replaced it (`worker_write.c:145`); `lock_file` locks
  the file that has replaced the one found (`worker_lock.c:35`, where `HeldMeansOwned`
  fails); readN sends the data of one file under the name of another
  (`worker_read.c:112`, where `RepliesReadBack` fails);
* readN leaves its client owning the files it found open (`worker_read.c:104`);
* an append of no bytes aborts the server: `append_file` refuses it with EINVAL, and the
  branch for that errno frees the buffer that was freed at once after the call
  (`worker_write.c:146`, `:173`). `NoHandlerFails` names it as an exception;
* a readNFiles fails, although the server said OP_SUCC, if the file sent last is empty, for
  example one just created: it is popped first, into a buffer `save_cached_files` has not
  allocated, and `pop_buf` refuses NULL even for no bytes (`client_api.c:473`, `:494`,
  `databuf.c:38`). Evictions send no empty files, so writes and appends are not concerned;
* a client that has a file locked is refused an `openFile` of it without `O_LOCK` with EPERM,
  as if somebody else had it: `open_file` is called for nobody (`worker_openfile.c:134`,
  `file.c:204`);
* a write that makes room and then fails loses the evicted files: they are in the
  answer, which the client reads only after a success (`client_api.h:31`, `:36` say that
  what a write expels is returned to the caller). `RepliesReadBack` speaks of calls that
  succeed;
* an evicted file without data would not be sent, since `cache_miss` counts only those
  whose buffer is not NULL; `loop_check` never chooses one with one worker;
* a refused `writeFile` leaves `lastop` set, so the next one may go through although
  the previous call was not `openFile` (`client_api.h:32`); `GateAgrees` states the
  rule the code follows;
* `closeConnection` leaves `conn` set (`client_api.c:110`): `openConnection` then
  refuses with EISCONN until another call has failed on the closed descriptor;
* in the client program a refused opening still counts as an opening, and a file whose
  removal was refused stays open (`UsesOpenedFiles` and `NothingLeftOpen` excuse both);
* a client who goes away before its first message is polled instead of dropped
  (`worker_connection.c:41`, where `OnlyClientsPolled` fails with `client_dies`, and the
  main loop with it, `ServerKeepsRunning`);
* while a newcomer waits at a full client table, requests may never be read, with any number
  of workers: the acceptor's handler returns at once (`worker_connection.c:28`), the listening
  socket is still readable, and the main loop looks at it first (`exec/server.c:86`).
  `RequestsRead` names that case; without the exception TLC finds it violated in
  `DispatchStop`.

Every property of a passing run has a mutant in `PROJECT.json`: a plausible bug in a
mapped definition (a loop that stops one slot early, a reservation not given back, a
connection left in the poll set...) under which TLC finds the property violated.

## 4. Proofs

**Storage.** For any finite set of workers, any connections, paths and requests and any number
of slots, capacity and client entries that satisfy the named assumptions (the set of workers
is finite because the server makes `threads_count` of them at start-up):

| Theorem | States |
|---|---|
| `TypeCorrect` | `Spec => []TypeOK` |
| `SizesAlwaysConsistent` | `Spec => []SizesConsistent` |
| `EvictionExclusive` | `Spec => []EvictorExclusive` |
| `LocksNeverDangle` | `Spec => []LockedFilesOpen` |
| `StaleSlotsHarmless` | `Spec => []StaleSlotHarmless` |
| `LocksRespected` | `Spec => OwnershipRespected` |
| `LoopsRunOut` | `Spec => StepsRunOut` |
| `StorageAccounted`, `FilesAccounted` | `Spec => []StorageAccounting`, `Spec => []FileAccounting` |
| `OvershootBounded` | `Spec => []BoundedOvershoot` |
| `SingleWorkerCapacity` | `Spec => []StorageWithinCapacity`, if `OneWorker` |
| `PathsUnique`, `HandlersNeverFail` | `Spec => []UniqueNames`, `Spec => []NoHandlerFails`, if `OneWorker` |
| `WritesFindFreshFiles` | `Spec => []WriteFindsFreshFile`, if `OneWorker` and `NamedWrites` |

**Eviction, Client, Replies.** Under the same assumptions, for any policy and any bounds:

| Theorem | States |
|---|---|
| `PolicyImplementsStorage` | `PolicySpec => Spec` |
| `PolicyEvictsAlone`, `PolicyRespectsLocks` | `EvictorExclusive` and `OwnershipRespected` under every policy |
| `PolicyTyped` | `PolicySpec => []PolicyTypeOK`, for any number of workers |
| `VictimsFollowPolicy` | `PolicySpec => []VictimFollowsPolicy`, if `OneWorker` |
| `ClientsImplementStorage` | `ReplySpec => Spec` |
| `ClientLocksNeverDangle`, `ClientTableTyped` | `LockedFilesOpen` and `TypeOK` whatever calls clients make |
| `GateAlwaysAgrees` | `ReplySpec => []GateAgrees`, for any number of workers and clients |
| `AnswersAlwaysUnderstood` | `ReplySpec => []AnswersUnderstood`, if `OneWorker` |
| `LocksAreBelieved` | `ReplySpec => []HeldMeansOwned`, if `OneWorker` |
| `RepliesAlwaysReadBack` | `ReplySpec => []RepliesReadBack`, if `OneWorker` |

**Messages.** For any names and sizes:

| Theorem | States |
|---|---|
| `FileReadBack` | a file pushed onto any stack by `push_file` is popped by one turn of `save_cached_files` as it was pushed, and what was below is left, if it is not empty or one popped before was not; otherwise the turn fails and nothing is added to what was read |
| `FilesReadBack` | a message made by any number of `push_file` and the count of them is read by `save_cached_files` as those files, the last one first, and nothing is left, if the last one is not empty; otherwise nothing of it is read |
| `HashStaysInWord` | one step of the checksum (`hash.h`) stays within the word, for every word of two bytes or more |

**Dispatch.** For any numbers of workers, table entries and clients, and any events:

| Theorem | States |
|---|---|
| `DispatchTypeCorrect` | `Spec => []DispatchTypeOK` |
| `WakeupsArrive` | `Spec => []NoLostWakeup` |
| `RegisteredDescriptorsOpen` | `Spec => []RegisteredStayOpen` |
| `NeverLost`, `OneWorkerServes` | `Spec => []InOnePlace`, `Spec => ServedByOneWorker`, if `Orderly` |
| `MainNeverFails`, `PolledAreClients` | `Spec => []` of `ServerKeepsRunning`, `OnlyClientsPolled`, if `Orderly` |
| `BusyCounted` | `Spec => []WorkersCounted`, if `Orderly`: `working_threads` counts the workers that are not idle |

**Commands.** For any paths, any directory, and command lines of any length made of options
that `parse_args` can read (`OptionsAssumption`):

| Theorem | States |
|---|---|
| `CommandsTypeCorrect` | `CommandsSpec => []CommandsTypeOK` |
| `DirectoriesFit` | `CommandsSpec => []DirectoryFits` |
| `CallsFindFilesOpen` | `CommandsSpec => []UsesOpenedFiles` |
| `NothingStaysOpen` | `CommandsSpec => []NothingLeftOpen` |
| `FilesHeldUntilLastUse` | `CommandsSpec => HeldUntilLastUse` |

Some theorems have a hypothesis besides the assumptions on the constants. `OneWorker` is
`worker_threads=1`; without it each property it is used for is false, as section 3 lists.
`NamedWrites` says that no `writeFile` comes without a path: the client opens the file at
that path before it sends anything (`client_api.c:231`). `Orderly` leaves out the events
`handler_fails`, `client_dies` and `late_signal`, with which the properties are false
(runs `FailedHandler` and `LateSighup`); it allows strangers and one SIGHUP or SIGINT.

**The invariant of Storage.** `IInv` (in `StorageProps`) strengthens these properties by what
they rest on:

* `ConnExclusive`: a busy worker serves a registered connection no other worker
  serves. Without it two workers could act for one owner, and a lock could be
  released under its holder's other request.
* `ScanNamed`: only requests that name a file scan the table.
* `VictimOpen`: the file an eviction is about to remove is open, so its read cannot
  fail and leave the file with ADMIN for ever.
* `CloseConnProgress` and `CloseConnAll`: the slots a closing connection has passed
  are not its own any more, and it is removed after the last one. This is the loop
  invariant of `do_close_connection`, and it holds although other workers change the
  table meanwhile: only the connection's own worker could make it an owner again.

**The argument.** `StorageProofs` shows that every operation of `file.c` keeps one
slot consistent; that a handler step changes its own worker only (`Frame`) and at most
one slot, in one of four ways (`FileFrame`): it creates a file in an unused slot, uses a
file nobody else owns, forces one from its owner, or evicts one it has forced; and where
each handler can go next (`*Flow`). Each part of `IInv` follows from the frame and the
flow without looking at the forty actions again.

**Loops that end.** `StepsToGo(t)` bounds what worker `t` has still to do, from its label and
the slots its loop has not seen: two steps a slot for `get_file`, one for
`get_empty_slot`, six for readN, three for `do_close_connection`, and at most five behind a
scan. `LoopsRunOut` says that each of its steps outside an eviction lowers it, and a step of
another worker cannot raise it, since it leaves the label and the index alone. So a request that evicts nothing
is answered after at most `6 * NumFiles + 2` steps of its worker. With `FairSpec` that is
`HandlersTerminate` for such requests; the last inference is about fairness and stays
with TLC (`TwoLive`). Evictions are left out: their loop may turn for ever
(`StuckOnlyIfNothingEvictable` says when).

**Sums.** `StorageAccounting` compares `current_storage` with a sum over slots and workers,
and a step changes one slot and one worker. That a sum changes by what one of its terms
changes by is proved without induction over an operator: a smallest set for which it were
false would have an element to take away (`NatLessThanWellFounded`,
`FS_StrictSubsetOrderingWellFounded`). `BoundedOvershoot` needs one more invariant,
`PendingBounded`: what is stored, and what the writers that passed the test at
`worker_write.c:194` will still reserve, exceed the capacity by at most one request for
each worker but one. With one worker nothing comes between test and reservation, which is
`SingleWorkerCapacity`.

**One worker.** With one worker the table a handler sees changes by its own steps only, and
what is needed is the memory of its scan:

* `ScanFresh`: no slot the scan has passed has the path it looks for, and the free slot
  found is still free. A path is created only after a whole scan, so no second slot gets it
  (`PathsUnique`).
* `SlotUndisturbed`: a slot just taken is as the creation left it until it is opened, and a
  file readN has opened is there until its name has been read, so neither step can fail
  (`HandlersNeverFail`).
* `GateCleared` and `GateFresh`: the path in `lastop` is that of a file just created; if the
  client still has it locked it is open and empty, until its write has been applied. An
  eviction may take the file, but then no slot of that name is the client's. So a write
  finds what `openFile` left (`WritesFindFreshFiles`).
* `StepsFit` and `FoundSlot`: a request takes only the steps of its handler, and the slot it
  was led to has its name. The first needs no hypothesis on the workers.

TLC finds no violation of any of them in the instance of run `OneWorker` (2,252,268 states).

**The invariant of Eviction.** `ScanInStep` ties the locals of a scan to the worker's
position, for any number of workers: `left` is not negative, `pos` is a slot. With one
worker `LookHolds` says that what `loop_check` saw is still so, `BestKept` that the
candidate is the least, and the first among equals, of the slots the scan has passed, and
`HandPassed` that LRU has cleared every bit between the hand and its place. A second
that passes during the scan only makes more files older than its start. The slots behind
the hand are numbered by their distance from it, since the remainder in the code hides
their order.

**The invariant of Client.** `GateInv` (in `ClientProps`) says why `lastop` and what the
client knows agree between calls: while a worker of a server that runs serves a client, the
client waits for it, `lastop` is clear and, if the request is a creation, it has not been told of
success and is still on the path that ends in `create_open` (`Serving`, `CreatorPath`);
when the answer is there, `lastop` is what the call will conclude from it
(`ArmedAfter`). `ClientProofs` follows the two ends of that path: `HandlerLastop`, only
the last step of a creation sets `lastop`; `CreatorTold`, only that step puts OP_SUCC
into a creation's answer; `AnswerArms`, the client concludes from just that answer.
Exclusive service comes from `IInv`, which `ClientsImplementStorage` carries over: with
two workers serving one client the gate could be set by the one and cleared by the other.

`AnswerInv` follows the flags of an answer to the step that decides it (`AnswerSoFar`): a
call that fails gets a flag it tests for, because the handler adds one on each way to the
end: each operation of `file.c` fails for a reason its handler has a flag for, and the call
tests it. One way needs the server's state: a refused `writeFile` is one the client knew to
be out of turn (`GateAgrees`). A handler that fails answers what it has,
a worker that aborts nothing; `NoHandlerFails` says that this is after empty payloads only.

`BeliefInv` says of each client and path that a lock it was told of is its own, the answer
not yet read included (`Told`). A lock is lost only to an eviction or to the owner's own
close, unlock, removal, readN or disconnection (`OwnedSurvives`), and what those may give
up the client does not count on while the call is under way (`GivesUpNothingHeld`): readN
closes only the files it found closed, and one that is counted on is not closed
(`LockedFilesOpen`, `UniqueNames`). Conversely a successful lock or open is one of the file
at that path (`FoundSlot`, `SlotUndisturbed`), which fails with a second worker.

**The invariant of Replies.** A message is a stack that only its ends know how to read, so
`ReplyInv` describes it by how it came about. `Piled(buf, s)` says that there is a list `h`
of messages, the first one empty and the last one `buf`, each with one more file of `s`
pushed on the one before; `Complete` adds the count on top. `EvictedSound` and `ReadNSound`
follow the two loops that make such messages: what has been pushed is what has been taken
from the storage, and as many files as the loop has counted, and an eviction has counted
only files with data; between the two critical
sections of readN the data at hand is that of the file in its slot, whose name is asked for
next (`SlotUndisturbed`: with a second worker it need not be). No other handler leaves
anything in an answer, and none of those that send files says OP_SUCC before its last
step, so an answer with OP_SUCC is complete. On the client's side `save_cached_files` is a
recursive function of the turns it takes, and `FilesReadBack` shows that, unless the last
file is empty, turn `k` leaves the message as it was `k` files earlier, with a buffer for the
data from the first turn on (`BufferAfter`): not by induction, which would need an operator as
parameter, but because otherwise there would be a first turn at which it does not
(`LeastNat`). TLC checked `ReplyInv` on `OneWorker`, the lists `h` being taken from the beginnings of
the message, since TLC cannot range over all sequences; each push only adds to the end, so
nothing is lost by that.

**The invariant of Dispatch.** `DispatchInv` adds `NewcomersApart` to the three: a
connection being greeted is open, not in the table, and one worker's only. Without it
a stranger's descriptor that is dropped could be a registered one. `DispatchProofs`
shows that every step but `accept`, the drop of a newcomer, registration and the final
closing is `Quiet` (it starts no greeting, registers nobody, and closes only what it
removes), which keeps both conditions, and looks at the other four.

**Where nothing fails.** `HandOverInv` adds what makes a connection change hands once:

* `OnlyPresent` and `OneHand`: only clients and the listening socket are anywhere, and each
  in one place;
* `WorkersOrderly`: what a worker's position says of its task, its locals and its report;
* `SocketsOrderly`: each end of a connection knows how far the other is, so nobody reads
  what is not there and nobody writes to a socket that is closed;
* `WorkersCounted` and `AssignFindsIdle`: `working_threads` counts the busy workers, so the
  loop of `assign_work` finds the idle one it looks for;
* `SignalsOrderly`: the listening socket is closed once.

None is inductive without the others: a descriptor is handed out because it is polled, it
is polled because its worker reported it, and that report is right because the message was
there. TLC finds no violation of the conjunction with SIGHUP, SIGINT and strangers, for two
workers, two clients and one or two table entries. `OneWorkerServes` then maps each step to a move of
`Connections` or to none.

**The invariant of Commands.** `Planned` is about the list `add_open_create_requests` makes:
each request finds its path opened in front of it (`OpenedBefore`), a closing is the last
request on its path, and behind each request comes a closing or a removal, or a request on
the path is still to be looked at. The pass keeps it (`PlanGrows`), because it looks back
for an opening without a removal after it, and no closing is in front of a request.
`SessionInv` then says what the requests that were sent have made of each file: one opened
and not released since is held or excused, and one held has its release ahead. Each call
changes one path, in a way its type limits (`CallOnPath`), readNFiles all of them
(`CallEffect`). TLC finds no violation of `CommandsInv` on the command
lines of `RequestList` (5,938,796 states).

**Only model-checked.** Liveness under fairness: `HandlersTerminate`, `LockWaitJustified`,
`StuckOnlyIfNothingEvictable`, `CompletionsCollected`, `RequestsRead`, `SighupStops` and
`SigintStops`. Neither liveness, `ENABLED`, induction with operator parameters nor
recursive operators are within reach of the prover used here. Every other property of a
passing run is a theorem.

## 5. Not modelled

* **Start-up** (`server_parsing.c`, `server_socket.c`, `server_files.c`, `config.c`):
  sequential, before any thread runs; its result is the initial state of the models.
* **Log** (`log.c`, `exec/statistiche.sh`): output that nothing reads back while the
  server runs.
* **Messages**: how the buffer grows, partial reads and writes, checksums that do not
  match. A stream socket does not change, lose or reorder what it carries, and whole
  messages and the end of a connection are in `Dispatch`. A message that comes whole but is
  none of the protocol's (`worker.c:120`) is no case of its own after the first one: the
  calls of `client_api.c` send none; of a stranger's first message `Dispatch` has it.
* **Client interface**: the retries of `connect`, lengths of paths, the local files
  read and written (and names that collide there when flattened), calls with `dirname`
  NULL, which leave the data in the message.
* **Command line**: characters of paths, printing, the wait between requests.
* **Server**: contents of files beyond their sizes and origin; failures of mutexes and
  memory; descriptors used for anything but clients; several signals in one run;
  SIGQUIT, which is treated as SIGINT; the statistics and frees at the end.

`PROJECT.json` gives each component's status.

## 6. Plan

All components with state the program's behaviour depends on are modelled, and every safety
property a run checks is proved. What is left, in order of importance:

1. exclusive service after a failed handler: how long the connection is in two places, and
   what a second worker can do to it then, as a theorem of `Dispatch` without `Orderly`;
2. the eviction loop of a write: what lowers with each file evicted, when the others do not
   add files meanwhile;
3. several signals in one run of `Dispatch`.
