----------------------------- MODULE FileStruct -----------------------------
(***************************************************************************)
(* One slot of the file table: the struct file_t of file.h and the         *)
(* operations of file.c on it.  Every function of file.c is one critical   *)
(* section under the slot's own mutex, so each is one value-level operator *)
(* here: a condition under which it succeeds and the record it leaves.     *)
(* Contents are abstracted to their length; the usage data of the eviction *)
(* policies (fifo time, lfu frequency, lru bit) is left out.               *)
(***************************************************************************)
EXTENDS Integers

CONSTANTS
    Conns,          \* file descriptors of client connections
    Names,          \* path names clients use
    NoName,         \* the empty string left in an unused name field
    OWNER_NEXIST,   \* owner of a slot that holds no file   (-1 in file.h)
    OWNER_NULL,     \* owner of a file nobody has locked    (0)
    OWNER_ADMIN     \* owner of a file that is being evicted (1024)

SpecialOwners == {OWNER_NEXIST, OWNER_NULL, OWNER_ADMIN}
Owners == Conns \union SpecialOwners

\* A descriptor is never one of the reserved owner values, and those differ.
ASSUME OwnerAssumption ==
    /\ OWNER_NEXIST # OWNER_NULL
    /\ OWNER_NEXIST # OWNER_ADMIN
    /\ OWNER_NULL # OWNER_ADMIN
    /\ SpecialOwners \intersect Conns = {}
    /\ NoName \notin Names

\* open_size = -1 marks a closed file; new_size counts the bytes added since
\* the file was opened.
FileType ==
    [owner : Owners, name : Names \union {NoName},
     data_size : Nat, open_size : Nat \union {-1}, new_size : Nat]

\* The struct init_file_struct and reset_file_struct leave behind.
EmptyFile ==
    [owner |-> OWNER_NEXIST, name |-> NoName,
     data_size |-> 0, open_size |-> -1, new_size |-> 0]

----------------------------------------------------------------------------
(* The checks of file.c: existence, open state, ownership, size.           *)

is_existing_file(f) == f.owner # OWNER_NEXIST

is_open_file(f) == f.open_size # -1

is_locked_file(f, who) == is_existing_file(f) /\ f.owner = who

check_file_name(f, name) == is_existing_file(f) /\ f.name = name

get_size(f) == f.data_size + f.new_size

\* Mutant of Accessible: the owner is not looked at.
AccessibleToAll(f, who) == is_existing_file(f)

\* The owner test shared by open, close, read, append and lock: EAGAIN unless
\* the file is unlocked or locked by the caller.
Accessible(f, who) == is_existing_file(f) /\ f.owner \in {OWNER_NULL, who}

----------------------------------------------------------------------------
(* Compression is a copy in this build: server_compression.c, clone_data.  *)

compress_data(n) == n
decompress_data(n) == n

----------------------------------------------------------------------------
(* For each operation: CanX, the condition for returning 0, and the struct *)
(* it leaves.                                                              *)

create_file_struct(f, name, who) == [f EXCEPT !.owner = who, !.name = name]

CanOpen(f, who) == Accessible(f, who)
open_file(f, who) ==
    [f EXCEPT !.owner = who,
              !.open_size = IF is_open_file(f) THEN @ ELSE decompress_data(f.data_size)]

\* Closing an already closed file succeeds and changes nothing.
CanClose(f, who) == Accessible(f, who)
RecompressedSize(f) ==
    IF f.open_size > 0 THEN compress_data(f.open_size) ELSE f.data_size
\* Mutant of close_file: the bytes added since the file was opened stay counted.
close_file_keeping_new_size(f) ==
    IF is_open_file(f)
    THEN [f EXCEPT !.owner = OWNER_NULL, !.open_size = -1, !.data_size = RecompressedSize(f)]
    ELSE f
close_file(f) ==
    IF is_open_file(f)
    THEN [f EXCEPT !.owner = OWNER_NULL, !.open_size = -1, !.new_size = 0,
                   !.data_size = RecompressedSize(f)]
    ELSE f

\* The *difference out-parameter of close_file: the bytes compression saved.
close_difference(f) ==
    IF f.open_size > 0 THEN get_size(f) - RecompressedSize(f) ELSE 0

CanRead(f, who) == Accessible(f, who) /\ is_open_file(f)

\* A write needs the lock, an open file and an empty one; size 0 is EINVAL.
CanWrite(f, who, n) ==
    /\ n # 0
    /\ is_locked_file(f, who)
    /\ f.open_size = 0
write_file(f, n) == [f EXCEPT !.open_size = n, !.new_size = n]

CanAppend(f, who, n) ==
    /\ n # 0
    /\ Accessible(f, who)
    /\ is_open_file(f)
append_file(f, n) == [f EXCEPT !.open_size = @ + n, !.new_size = @ + n]

CanLock(f, who) == Accessible(f, who) /\ is_open_file(f)
lock_file(f, who) == [f EXCEPT !.owner = who]

CanUnlock(f, who) == is_locked_file(f, who) /\ is_open_file(f)
unlock_file(f) == [f EXCEPT !.owner = OWNER_NULL]

\* Only the lock holder removes a file, open or not.
CanRemove(f, who) == is_locked_file(f, who) /\ f.owner # OWNER_NULL

\* Mutant of CanForce: a victim another eviction holds may be taken too.
CanForceTwice(f) == is_existing_file(f)

\* The first critical section of force_open_file: it takes the file whoever
\* holds it, unless another eviction already has.
CanForce(f) == is_existing_file(f) /\ f.owner # OWNER_ADMIN
force_owner(f) == [f EXCEPT !.owner = OWNER_ADMIN]
=============================================================================
