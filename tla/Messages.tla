------------------------------ MODULE Messages ------------------------------
(***************************************************************************)
(* The data of a message (databuf.c): a stack of bytes onto which one side *)
(* pushes values and from which the other pops them, each value knowing    *)
(* neither its type nor its length.  net_msg.c sends it whole.             *)
(*                                                                         *)
(* A value is an item of the stack; a pop that does not ask for the length *)
(* of the item on top would read parts of values, and counts as failed.    *)
(***************************************************************************)
EXTENDS Integers, Sequences, SequencesExt

SIZE_T == 8         \* sizeof(size_t)
NAME_SIZE == 9      \* strlen(name) + 1: all paths are as long as each other

EmptyBuf == <<>>

\* Pushing no bytes leaves the stack as it is.
push_buf(buf, n, v) == IF n = 0 THEN buf ELSE Append(buf, [len |-> n, val |-> v])

push_size(buf, k) == push_buf(buf, SIZE_T, k)

\* A file as readN and the eviction send it: the data, then the name, each
\* followed by its size.
push_file(buf, name, of, size) ==
    push_size(push_buf(push_size(push_buf(buf, size, of), size), NAME_SIZE, name), NAME_SIZE)

\* Popping goes on only as long as it succeeds.
Reader(buf) == [buf |-> buf, val |-> 0, ok |-> TRUE]

\* n bytes into read_data, memory of that size; NULL is refused even no bytes.
NULL == "NULL"
Memory == "memory"
pop_buf(r, n, read_data) ==
    IF ~r.ok \/ (n = 0 /\ read_data # NULL) THEN r
    ELSE IF read_data # NULL /\ r.buf # <<>> /\ Last(r.buf).len = n
    THEN [buf |-> Front(r.buf), val |-> Last(r.buf).val, ok |-> TRUE]
    ELSE [r EXCEPT !.ok = FALSE]

pop_size(r) == pop_buf(r, SIZE_T, Memory)

\* The client's loops: a reader, and the files it has read.
Reading(buf) == [r |-> Reader(buf), files |-> <<>>]

\* The size on top, and as many bytes of data into buf, enlarged when it is too
\* small.  Of no bytes there is nothing to say whose they are.
pop_data(s, name, buf) ==
    LET size == pop_size(s.r)
        data == pop_buf(size, size.val, IF size.val = 0 THEN buf ELSE Memory)
        of == IF size.val = 0 THEN name ELSE data.val
    IN [r |-> data,
        files |-> IF data.ok THEN Append(s.files, [name |-> name, of |-> of, size |-> size.val])
                  ELSE s.files]

\* save_cached_files starts with no buffer for the data, and enlarges it.
BufferAfter(files) == IF \A i \in DOMAIN files : files[i].size = 0 THEN NULL ELSE Memory

\* One turn of it; names are never empty.
pop_file(s) ==
    LET size == pop_size(s.r)
        name == pop_buf(size, size.val, Memory)
    IN pop_data([s EXCEPT !.r = name], name.val, BufferAfter(s.files))

\* As many turns as the size on top says.
save_cached_files(buf) ==
    LET count == pop_size(Reader(buf))
        n == IF count.ok THEN count.val ELSE 0
        turn[k \in 0 .. n] ==
            IF k = 0 THEN [r |-> count, files |-> <<>>] ELSE pop_file(turn[k - 1])
    IN turn[n]

----------------------------------------------------------------------------
(* The checksum (hash.h), one byte of the data at a time, in words whose   *)
(* largest value is max (UINT64_MAX).                                      *)

\* The multiplication, or what stands for it when it would overflow.
hash_times_33(h, max) == IF max \div 33 < h THEN max % h ELSE 32 * h + h
\* The same for the addition.
hash_room(h, byte, max) == IF max - h < byte THEN max - h ELSE h

hash_step(h, byte, max) ==
    hash_room(hash_times_33(h, max), byte, max) + byte
=============================================================================
