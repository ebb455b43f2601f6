------------------------------- MODULE Replies ------------------------------
(***************************************************************************)
(* The files that travel in answers, over Client: the data read, and what  *)
(* an eviction expels, pushed by the handlers as they go and saved by the  *)
(* call that gets the answer.                                              *)
(*                                                                         *)
(* A file's data is named by the path it was written to, so that data      *)
(* under another file's name can be told.  Clients ask for what they get   *)
(* to be saved (dirname # NULL); otherwise nothing is popped.              *)
(***************************************************************************)
EXTENDS Client, Messages

VARIABLES
    out,    \* the answer worker t is making: its data, and the locals behind it
    got     \* what client c's call has read from its answer

rvars == <<cvars, out, got>>

\* A file is a name, the path its data belongs to, and the size.  sent is what
\* the handler has taken from the storage for the client, in that order.
NoData == [of |-> NoName, size |-> 0]
NoReply == [buf |-> EmptyBuf, data |-> NoData, evicted |-> 0, sent |-> <<>>]
NothingGot == [files |-> <<>>, sent |-> <<>>, ok |-> TRUE, left |-> 0, byte_read |-> 0,
               readn |-> FALSE]

FileData(f) == [of |-> f.name, size |-> f.open_size]
FileSent(name, d) == [name |-> name, of |-> d.of, size |-> d.size]

----------------------------------------------------------------------------
(* The handlers.                                                           *)

\* A file read by readN, or evicted, and its name.
PushFile(o, name) ==
    [o EXCEPT !.buf = push_file(@, name, o.data.of, o.data.size),
              !.sent = Append(@, FileSent(name, o.data))]

\* do_read_file.
PushRead(o, f) ==
    [o EXCEPT !.buf = push_size(push_buf(@, f.open_size, f.name), f.open_size),
              !.sent = <<FileSent(f.name, FileData(f))>>]

\* The files readN has counted after worker t's step.
Counted(t) == thr[t].count + (IF At(t, "readn_name") /\ is_existing_file(fslot(t)) THEN 1 ELSE 0)
ReadNEnds(t) == Req(t).op = "READN_FILE" /\ HandlerReturns(t)
PushCount(o, t) == IF ReadNEnds(t) THEN [o EXCEPT !.buf = push_size(@, Counted(t))] ELSE o

\* Mutant of PushEvicted: the evicted file is not counted.
PushEvictedUncounted(o) == IF o.data.size = 0 THEN o ELSE PushFile(o, o.data.of)

\* cache_miss: a file without data leaves buf NULL, and is not sent.
PushEvicted(o) ==
    IF o.data.size = 0 THEN o
    ELSE [PushFile(o, o.data.of) EXCEPT !.evicted = @ + 1]

\* What worker t's step adds to the answer.
OutAfter(t) ==
    LET o == out[t] IN
    CASE At(t, "read_file") /\ CallSucceeds(t) -> PushRead(o, fslot(t))
      [] At(t, "readn_read") /\ CallSucceeds(t) -> PushCount([o EXCEPT !.data = FileData(fslot(t))], t)
      [] At(t, "readn_name") /\ is_existing_file(fslot(t)) -> PushCount(PushFile(o, fslot(t).name), t)
      [] At(t, "evict_remove") -> [o EXCEPT !.data = FileData(vslot(t))]
      [] At(t, "evict_book") -> PushEvicted(o)
      [] At(t, "check_capacity") /\ thr'[t].pc = "reserve" /\ o.evicted > 0 ->
           [o EXCEPT !.buf = push_size(@, o.evicted)]
      [] OTHER -> PushCount(o, t)

----------------------------------------------------------------------------
(* The calls.                                                              *)

\* What a call that succeeded reads from answer o.  MESSAGE_FILE_CHACEMISS is
\* set when anything was evicted.
Read(op, o) ==
    CASE op = "READ_FILE" -> pop_data(Reading(o.buf), o.sent[1].name, Memory)
      [] op = "READN_FILE" -> save_cached_files(o.buf)
      [] op \in PutOps /\ o.evicted > 0 -> save_cached_files(o.buf)
      [] OTHER -> Reading(o.buf)

\* What save_cached_files and do_read_file count in byte_read.
BytesRead(fs) == FoldLeft(LAMBDA n, f : n + f.size, 0, fs)

\* A call that fails reads nothing.
Received(op, res, o) ==
    LET s == IF res = "ok" THEN Read(op, o) ELSE Reading(o.buf) IN
    [files |-> s.files, sent |-> o.sent, ok |-> s.r.ok, left |-> Len(s.r.buf),
     byte_read |-> BytesRead(s.files), readn |-> op = "READN_FILE"]

----------------------------------------------------------------------------
ReplyInit ==
    /\ ClientInit
    /\ out = [t \in Workers |-> NoReply]
    /\ got = [c \in Conns |-> NothingGot]

ReplyWork(t) ==
    /\ Work(t)
    /\ IF WritesAnswer(t)
       THEN LET c == Conn(t) IN
            /\ got' = [got EXCEPT ![c] = Received(Req(t).op, call'[c].res, OutAfter(t))]
            /\ out' = [out EXCEPT ![t] = NoReply]
       ELSE out' = [out EXCEPT ![t] = OutAfter(t)] /\ UNCHANGED got

\* The next call sets byte_read to 0 and has a message of its own.
ReplyReturn(c) == Return(c) /\ got' = [got EXCEPT ![c] = NothingGot] /\ UNCHANGED out

ReplyNext ==
    \/ \E t \in Workers : ReplyWork(t)
    \/ \E c \in Conns : ReplyReturn(c)
    \/ /\ \/ \E c \in Conns : openConnection(c) \/ CallFails(c)
          \/ \E t \in Workers, c \in Conns : Serve(t, c) \/ RefuseWrite(t, c)
       /\ UNCHANGED <<out, got>>

ReplySpec == ReplyInit /\ [][ReplyNext]_rvars
=============================================================================
