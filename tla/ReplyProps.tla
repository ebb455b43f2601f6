----------------------------- MODULE ReplyProps -----------------------------
(***************************************************************************)
(* What answers bring to the client.                                       *)
(***************************************************************************)
EXTENDS Replies, ClientProps, StorageProps

\* The answer was read to its end, and brought every file the server has taken
\* for the call, the last one first, with the data and the size it had and under
\* its own name.
ReadWhole(g) ==
    /\ g.files = Reverse(g.sent)
    /\ \A i \in DOMAIN g.files : g.files[i].of = g.files[i].name
    /\ g.ok /\ g.left = 0

\* readNFiles is sent an empty file last: it is the first one popped, and
\* client_api.c:494 has no buffer for it yet.
EmptyFirst(g) == g.readn /\ g.sent # <<>> /\ Last(g.sent).size = 0

\* A call the server answers with success reads its answer whole
\* (client_api.h:31, 36), but for readNFiles if the last file sent is empty:
\* then it fails, all or nothing.  The handlers push piece by piece, in loops
\* the data does not show the ends of.  With one worker only: with more, the
\* slot readN has read may hold another file when its name is asked for
\* (worker_read.c:112).
RepliesReadBack ==
    \A c \in Conns :
        St(c, "answered") /\ call[c].res = "ok" =>
            IF EmptyFirst(got[c]) THEN ~got[c].ok /\ got[c].files = <<>> ELSE ReadWhole(got[c])

----------------------------------------------------------------------------
(* The inductive invariant behind RepliesReadBack.                         *)

Paths == Names \union {NoName}

\* The items of messages whose values are in V, besides sizes.
Items(V) == [len : Nat, val : V \union Nat]

\* What the handlers send: no file's data under another file's name.
SentFiles == {f \in [name : Paths, of : Paths, size : Nat] : f.of = f.name}

\* The files of s, pushed one after the other, make message buf: h[i] is the
\* message with i of them in it.
Piled(buf, s) ==
    \E h \in [0 .. Len(s) -> Seq(Items(Paths))] :
        /\ h[0] = EmptyBuf /\ h[Len(s)] = buf
        /\ \A i \in 1 .. Len(s) : h[i] = push_file(h[i - 1], s[i].name, s[i].of, s[i].size)

\* The files of s and, on top of them, how many they are.
Complete(buf, s) ==
    \E pile \in Seq(Items(Paths)) : Piled(pile, s) /\ buf = push_size(pile, Len(s))

ReplyType ==
    [buf : Seq(Items(Paths)), data : [of : Paths, size : Nat], evicted : Nat,
     sent : Seq(SentFiles)]
ReplyTypeOK == out \in [Workers -> ReplyType] /\ DOMAIN got = Conns

\* The labels of do_readn_files, and those at which it has read a file whose
\* name it has not asked for yet.
ReadingPcs == ReadNPcs \union {"readn_book"}
HasRead(t) == At(t, "readn_name") \/ (thr[t].pc \in {"readn_close", "readn_book"} /\ thr[t].readok)

\* The files readN has pushed are those it counts, and the data it is about to
\* push belongs to the file in its slot.
ReadNSound(t) ==
    /\ Piled(out[t].buf, out[t].sent) /\ Len(out[t].sent) = thr[t].count
    /\ HasRead(t) => out[t].data.of = fslot(t).name

\* The files an eviction has pushed are those it counts, none of them empty; once
\* there is room the count is in the message, if there is one.
RoomPcsAfter == {"reserve", "apply", "release"}
EvictedSound(o, label) ==
    /\ Len(o.sent) = o.evicted /\ \A i \in DOMAIN o.sent : o.sent[i].size # 0
    /\ IF label \in RoomPcsAfter /\ o.evicted > 0
       THEN Complete(o.buf, o.sent) ELSE Piled(o.buf, o.sent)

\* Only readN and the evictions leave something in an answer between two steps,
\* and the calls that read files are told of success by the last step only.
TellingOps == {"READ_FILE", "READN_FILE"} \union PutOps
ReplySound(t) ==
    /\ thr[t].pc \notin RoomPcs \union ReadingPcs \union {"aborted"} => out[t] = NoReply
    /\ thr[t].pc \in ReadingPcs => ReadNSound(t)
    /\ thr[t].pc \in RoomPcs => EvictedSound(out[t], thr[t].pc)
    /\ Req(t).op \in TellingOps /\ thr[t].pc \notin {"idle", "failed", "aborted"}
         => "OP_SUCC" \notin call[Conn(t)].reply

ReplyInv == ReplyTypeOK /\ RepliesReadBack /\ \A t \in Workers : ReplySound(t)
=============================================================================
