---------------------------- MODULE StorageProofs ---------------------------
(***************************************************************************)
(* Storage for any number of workers, clients, slots, names and requests:  *)
(* the operations of file.c keep a slot consistent; a handler's step moves *)
(* its worker and changes one slot at most; so IInv is inductive, and the  *)
(* theorems at the end follow from it: typing, consistent sizes, exclusive *)
(* eviction, locks that are never stolen and never outlive their client,   *)
(* loops that end.                                                         *)
(***************************************************************************)
EXTENDS StorageProps, TLAPS

----------------------------------------------------------------------------
(* The operations of file.c on one slot.                                   *)

\* A slot as file.c leaves it between two calls: typed, the working copy of an
\* open file as long as get_size says, a closed file without new bytes, and an
\* unused slot empty.
Consistent(f) ==
    /\ f \in FileType
    /\ is_open_file(f) => f.open_size = get_size(f)
    /\ ~is_open_file(f) => f.new_size = 0
    /\ ~is_existing_file(f) => f = EmptyFile

\* init_file_struct and reset_file_struct leave a consistent slot of size 0.
LEMMA EmptyConsistent == Consistent(EmptyFile) /\ get_size(EmptyFile) = 0
  BY OwnerAssumption
     DEF Consistent, EmptyFile, FileType, Owners, SpecialOwners, is_open_file,
         is_existing_file, get_size

\* create_file_struct on an unused slot leaves an empty, closed file.
LEMMA CreateConsistent ==
  ASSUME NEW f, Consistent(f), ~is_existing_file(f),
         NEW x \in Names \union {NoName}, NEW w \in Owners, w # OWNER_NEXIST
  PROVE  /\ Consistent(create_file_struct(f, x, w))
         /\ create_file_struct(f, x, w).owner = w
         /\ create_file_struct(f, x, w).name = x
         /\ ~is_open_file(create_file_struct(f, x, w))
<1> DEFINE g == create_file_struct(f, x, w)
<1>1. f \in FileType /\ f.open_size = -1 /\ f.new_size = 0
  BY DEF Consistent, EmptyFile
<1>2. /\ g \in FileType /\ g.owner = w /\ g.name = x
      /\ g.open_size = f.open_size /\ g.new_size = f.new_size
  BY <1>1 DEF FileType, create_file_struct
<1> HIDE DEF g
<1>3. g \in FileType /\ g.owner = w /\ g.name = x /\ g.open_size = -1 /\ g.new_size = 0
  BY <1>1, <1>2
<1>4. QED
  BY <1>3 DEF g, Consistent, is_open_file, is_existing_file

\* open_file gives the file to the opener, open, name and size unchanged.
LEMMA OpenConsistent ==
  ASSUME NEW f, Consistent(f), is_existing_file(f),
         NEW w \in Owners, w # OWNER_NEXIST
  PROVE  /\ Consistent(open_file(f, w))
         /\ open_file(f, w).owner = w
         /\ open_file(f, w).name = f.name
         /\ is_open_file(open_file(f, w))
<1> DEFINE g == open_file(f, w)
<1>1. /\ f \in FileType
      /\ is_open_file(f) => f.open_size = f.data_size + f.new_size
      /\ ~is_open_file(f) => f.new_size = 0
  BY DEF Consistent, get_size
<1>2. /\ g.owner = w /\ g.name = f.name /\ g.data_size = f.data_size
      /\ g.new_size = f.new_size
      /\ g.open_size = IF is_open_file(f) THEN f.open_size ELSE f.data_size
      /\ g \in FileType
  BY <1>1 DEF FileType, open_file, decompress_data
<1> HIDE DEF g
<1>3. g.open_size = g.data_size + g.new_size /\ g.open_size # -1
  BY <1>1, <1>2 DEF FileType, is_open_file
<1>4. QED
  BY <1>2, <1>3 DEF g, Consistent, is_open_file, is_existing_file, get_size

\* close_file frees no byte: what was read in or added is what is stored.
LEMMA CloseConsistent ==
  ASSUME NEW f, Consistent(f), is_existing_file(f)
  PROVE  /\ Consistent(close_file(f))
         /\ close_difference(f) = 0
         /\ get_size(close_file(f)) = get_size(f)
         /\ close_file(f).name = f.name
         /\ ~is_open_file(close_file(f))
         /\ close_file(f).owner = IF is_open_file(f) THEN OWNER_NULL ELSE f.owner
<1> DEFINE g == close_file(f)
<1>1. /\ f \in FileType /\ OWNER_NULL \in Owners /\ OWNER_NULL # OWNER_NEXIST
      /\ is_open_file(f) => f.open_size = f.data_size + f.new_size
      /\ ~is_open_file(f) => f.new_size = 0
  BY OwnerAssumption DEF Consistent, get_size, Owners, SpecialOwners
<1>2. CASE is_open_file(f)
  <2>1. f.open_size = f.data_size + f.new_size /\ f.open_size \in Nat
    BY <1>1, <1>2 DEF FileType
  <2>2. RecompressedSize(f) = f.open_size
    BY <2>1, <1>1 DEF RecompressedSize, compress_data, FileType
  <2>3. /\ g \in FileType /\ g.owner = OWNER_NULL /\ g.name = f.name
        /\ g.data_size = f.open_size /\ g.open_size = -1 /\ g.new_size = 0
    BY <1>1, <1>2, <2>1, <2>2 DEF FileType, close_file
  <2>4. close_difference(f) = 0
    BY <1>1, <2>1, <2>2 DEF close_difference, get_size, FileType
  <2> HIDE DEF g
  <2>5. g.data_size + g.new_size = f.data_size + f.new_size
    BY <1>1, <2>1, <2>3 DEF FileType
  <2>6. QED
    BY <1>1, <1>2, <2>3, <2>4, <2>5 DEF g, Consistent, is_open_file, is_existing_file, get_size
<1>3. CASE ~is_open_file(f)
  <2>1. g = f
    BY <1>3 DEF close_file
  <2>2. close_difference(f) = 0
    BY <1>1, <1>3 DEF close_difference, is_open_file
  <2>3. QED
    BY <1>3, <2>1, <2>2
<1>4. QED
  BY <1>2, <1>3

\* write_file on the empty open file leaves it with the n bytes written.
LEMMA WriteConsistent ==
  ASSUME NEW f, Consistent(f), is_existing_file(f), f.open_size = 0, NEW n \in Nat
  PROVE  /\ Consistent(write_file(f, n))
         /\ get_size(write_file(f, n)) = get_size(f) + n
         /\ write_file(f, n).owner = f.owner /\ write_file(f, n).name = f.name
         /\ is_open_file(write_file(f, n))
<1> DEFINE g == write_file(f, n)
<1>1. f \in FileType /\ f.open_size = f.data_size + f.new_size
  BY DEF Consistent, FileType, get_size, is_open_file
<1>2. /\ g \in FileType /\ g.owner = f.owner /\ g.name = f.name
      /\ g.data_size = f.data_size
      /\ g.open_size = n /\ g.new_size = n
  BY <1>1 DEF FileType, write_file, is_open_file
<1> HIDE DEF g
<1>3. g.open_size = g.data_size + g.new_size /\ g.open_size # -1
  BY <1>1, <1>2 DEF FileType
<1>4. g.data_size + g.new_size = f.data_size + f.new_size + n
  BY <1>1, <1>2 DEF FileType
<1>5. QED
  BY <1>2, <1>3, <1>4 DEF g, Consistent, is_open_file, is_existing_file, get_size

\* append_file adds n bytes to the open file.
LEMMA AppendConsistent ==
  ASSUME NEW f, Consistent(f), is_existing_file(f), is_open_file(f), NEW n \in Nat
  PROVE  /\ Consistent(append_file(f, n))
         /\ get_size(append_file(f, n)) = get_size(f) + n
         /\ append_file(f, n).owner = f.owner /\ append_file(f, n).name = f.name
         /\ is_open_file(append_file(f, n))
<1> DEFINE g == append_file(f, n)
<1>1. f \in FileType /\ f.open_size = f.data_size + f.new_size
  BY DEF Consistent, FileType, get_size, is_open_file
<1>1a. f.open_size + n \in Nat /\ f.new_size + n \in Nat
  BY <1>1 DEF FileType
<1>2. /\ g \in FileType /\ g.owner = f.owner /\ g.name = f.name
      /\ g.data_size = f.data_size
      /\ g.open_size = f.open_size + n /\ g.new_size = f.new_size + n
  BY <1>1, <1>1a DEF FileType, append_file
<1> HIDE DEF g
<1>3. g.open_size = g.data_size + g.new_size /\ g.open_size # -1
  BY <1>1, <1>2 DEF FileType
<1>4. g.data_size + g.new_size = f.data_size + f.new_size + n
  BY <1>1, <1>2 DEF FileType
<1>5. QED
  BY <1>2, <1>3, <1>4 DEF g, Consistent, is_open_file, is_existing_file, get_size

\* lock_file, unlock_file and force_open_file change the owner and nothing else.
LEMMA OwnerConsistent ==
  ASSUME NEW f, Consistent(f), is_existing_file(f),
         NEW w \in Owners, w # OWNER_NEXIST
  PROVE  /\ Consistent([f EXCEPT !.owner = w])
         /\ [f EXCEPT !.owner = w].owner = w
         /\ [f EXCEPT !.owner = w].name = f.name
         /\ is_open_file([f EXCEPT !.owner = w]) <=> is_open_file(f)
<1> DEFINE g == [f EXCEPT !.owner = w]
<1>1. f \in FileType
  BY DEF Consistent
<1>2. /\ g \in FileType /\ g.owner = w /\ g.name = f.name /\ g.data_size = f.data_size
      /\ g.open_size = f.open_size /\ g.new_size = f.new_size
  BY <1>1 DEF FileType
<1> HIDE DEF g
<1>3. QED
  BY <1>2 DEF g, Consistent, is_open_file, is_existing_file, get_size

----------------------------------------------------------------------------
(* The table.                                                              *)

\* Every slot is typed and consistent: TypeOK's first conjunct with
\* SizesConsistent, slot by slot.
AllConsistent ==
    /\ files \in [Slots -> FileType]
    /\ \A i \in Slots : Consistent(files[i])

\* SizesConsistent, slot by slot.
LEMMA ConsistentEquiv ==
  files \in [Slots -> FileType] => (SizesConsistent <=> \A i \in Slots : Consistent(files[i]))
  BY DEF SizesConsistent, Consistent

\* The invariant that does not speak of who owns what.
BaseInv == TypeOK /\ SizesConsistent /\ ConnExclusive /\ ScanNamed

\* Under the base invariant every slot of the table is consistent.
LEMMA BaseConsistent == BaseInv => AllConsistent
  BY ConsistentEquiv DEF BaseInv, TypeOK, AllConsistent

----------------------------------------------------------------------------
(* How one worker's step changes thr: its own entry only, which is reset   *)
(* or keeps its connection and request.                                    *)

Frame(t) ==
    /\ thr' = [thr EXCEPT ![t] = thr'[t]]
    /\ thr'[t] \in ThreadType
    /\ \/ thr'[t] = IdleThread
       \/ /\ thr'[t].conn = thr[t].conn
          /\ thr'[t].req = thr[t].req
          /\ thr'[t].pc # "idle"
    /\ thr'[t].pc \in ScanPcs => thr[t].pc \in ScanPcs

BusyPcs == Pcs \ {"idle"}

\* Moving to another label is framed.
LEMMA GotoFrame ==
  ASSUME TypeOK, NEW t \in Workers, NEW l \in BusyPcs, Goto(t, l),
         l \in ScanPcs => thr[t].pc \in ScanPcs
  PROVE  Frame(t)
  BY DEF TypeOK, Goto, ThreadType, Frame, BusyPcs

\* Moving to another label and another slot is framed.
LEMMA GotoSlotFrame ==
  ASSUME TypeOK, NEW t \in Workers, NEW l \in BusyPcs, NEW i \in Slots, GotoSlot(t, l, i),
         l \in ScanPcs => thr[t].pc \in ScanPcs
  PROVE  Frame(t)
  BY ZenonT(30) DEF TypeOK, GotoSlot, ThreadType, Frame, BusyPcs

\* The locals of a worker that serves nobody are well typed.
LEMMA IdleType == IdleThread \in ThreadType /\ IdleThread.pc = "idle" /\ IdleThread.conn = NoConn
  BY StorageAssumption DEF IdleThread, ThreadType, Pcs, Slots

\* Answering the client is framed.
LEMMA ReplyFrame ==
  ASSUME TypeOK, NEW t \in Workers, Reply(t)
  PROVE  Frame(t)
  BY IdleType DEF TypeOK, Reply, Frame, ScanPcs

\* Leaving a number of bytes to be booked is framed.
LEMMA BookFrame ==
  ASSUME TypeOK, NEW t \in Workers, NEW l \in BusyPcs, l \notin ScanPcs, NEW n \in Nat,
         thr' = [thr EXCEPT ![t].pc = l, ![t].size = n]
  PROVE  Frame(t)
  BY ZenonT(30) DEF TypeOK, ThreadType, Frame, BusyPcs

\* Choosing a victim is framed.
LEMMA VictimFrame ==
  ASSUME TypeOK, NEW t \in Workers, NEW l \in BusyPcs, l \notin ScanPcs, NEW i \in Slots,
         thr' = [thr EXCEPT ![t].pc = l, ![t].victim = i]
  PROVE  Frame(t)
  BY ZenonT(30) DEF TypeOK, ThreadType, Frame, BusyPcs

\* Moving the candidate of a scan is framed.
LEMMA KeptFrame ==
  ASSUME TypeOK, NEW t \in Workers, NEW l \in BusyPcs, l \notin ScanPcs,
         NEW i \in Slots, NEW k \in Slots \union {0},
         thr' = [thr EXCEPT ![t].pc = l, ![t].victim = i, ![t].kept = k]
  PROVE  Frame(t)
  BY ZenonT(30) DEF TypeOK, ThreadType, Frame, BusyPcs

\* Going on with the scan, ending it and leaving cache_miss are framed.
LEMMA EvictScanFrame ==
  ASSUME TypeOK, NEW t \in Workers
  PROVE  /\ \A k \in Slots \union {0} : EvictNext(t, k) => Frame(t)
         /\ EvictChoose(t) => Frame(t)
         /\ EvictLeave(t) => Frame(t)
<1>1. 1 \in Slots
  BY StorageAssumption DEF Slots
<1>2. /\ "evict_pick" \in BusyPcs /\ "evict_pick" \notin ScanPcs
      /\ "evict_force" \in BusyPcs /\ "evict_force" \notin ScanPcs
      /\ "check_capacity" \in BusyPcs /\ "check_capacity" \notin ScanPcs
  BY DEF BusyPcs, Pcs, ScanPcs, WritePcs, EvictPickPcs
<1>3. ASSUME NEW k \in Slots \union {0}, EvictNext(t, k) PROVE Frame(t)
  BY <1>1, <1>2, <1>3, KeptFrame DEF EvictNext
<1>4. ASSUME EvictChoose(t) PROVE Frame(t)
  BY <1>2, <1>4, KeptFrame DEF EvictChoose
<1>5. ASSUME EvictLeave(t) PROVE Frame(t)
  <2> DEFINE l == "check_capacity"
  <2>1. l \in BusyPcs /\ l \notin ScanPcs
    BY <1>2
  <2>2. thr' = [thr EXCEPT ![t].pc = l, ![t].victim = 1, ![t].kept = 0, ![t].size = 0]
    BY <1>5 DEF EvictLeave
  <2> HIDE DEF l
  <2>3. QED
    BY <1>1, <2>1, <2>2, ZenonT(30) DEF TypeOK, ThreadType, Frame, BusyPcs
<1>6. QED
  BY <1>3, <1>4, <1>5

\* No label of a handler is the idle one.
LEMMA PcNames ==
  /\ ScanPcs \subseteq BusyPcs /\ CreatePcs \subseteq BusyPcs /\ SimplePcs \subseteq BusyPcs
  /\ RemovePcs \subseteq BusyPcs /\ WritePcs \subseteq BusyPcs /\ EvictPickPcs \subseteq BusyPcs
  /\ EvictHoldPcs \subseteq BusyPcs /\ ReadNPcs \subseteq BusyPcs
  /\ CloseConnPcs \subseteq BusyPcs /\ UnbookedClosePcs \subseteq BusyPcs
  /\ UnbookedRemovePcs \subseteq BusyPcs /\ {"failed", "aborted"} \subseteq BusyPcs
  BY DEF BusyPcs, Pcs, ScanPcs, CreatePcs, SimplePcs, RemovePcs, WritePcs, EvictPickPcs,
         EvictHoldPcs, ReadNPcs, CloseConnPcs, UnbookedClosePcs, UnbookedRemovePcs

\* The slots the loops go on to exist.
LEMMA NextSlot ==
  ASSUME TypeOK, NEW t \in Workers
  PROVE  /\ thr[t].fex \in Slots /\ thr[t].victim \in Slots /\ 1 \in Slots
         /\ thr[t].kept \in Slots \union {0}
         /\ thr[t].fex < NumFiles => thr[t].fex + 1 \in Slots
  BY StorageAssumption DEF TypeOK, ThreadType, Slots

----------------------------------------------------------------------------
(* Every handler step is framed.                                           *)

\* A slot has a natural size, and closing its file saves no bytes: compression
\* is a copy.
LEMMA SizeOfSlot ==
  ASSUME BaseInv, NEW i \in Slots
  PROVE  /\ get_size(files[i]) \in Nat
         /\ is_existing_file(files[i]) => close_difference(files[i]) = 0
  BY BaseConsistent, CloseConsistent
     DEF AllConsistent, Consistent, FileType, get_size

\* get_file and get_empty_slot change nothing but their own worker.
LEMMA ScanFrame ==
  ASSUME BaseInv, NEW t \in Workers, FileScan(t)
  PROVE  Frame(t)
<1> USE DEF BaseInv
<1>1. /\ "get_file" \in BusyPcs \intersect ScanPcs /\ "check_name" \in BusyPcs \intersect ScanPcs
      /\ "empty_slot" \in BusyPcs \intersect ScanPcs /\ "create_file" \in BusyPcs \ ScanPcs
  BY PcNames DEF ScanPcs, CreatePcs
<1>2. thr[t].pc \in ScanPcs
  BY <1>1 DEF FileScan, GetFile, CheckName, EmptySlot, At
<1>3. FileNotFound(t) => Frame(t)
  BY <1>1, <1>2, ReplyFrame, GotoSlotFrame, NextSlot DEF FileNotFound
<1>4. GetFileNext(t) => Frame(t)
  BY <1>1, <1>2, <1>3, GotoSlotFrame, NextSlot DEF GetFileNext
<1>5. FileFound(t) => Frame(t)
  <2>1. Req(t).op \in NamedOps
    BY <1>2 DEF ScanNamed
  <2>2. FirstStep[Req(t).op] \in BusyPcs \ ScanPcs
    BY <2>1 DEF FirstStep, NamedOps, BusyPcs, Pcs, ScanPcs, SimplePcs, RemovePcs, WritePcs
  <2>3. QED
    BY <2>2, ReplyFrame, GotoFrame DEF FileFound
<1>6. CASE GetFile(t)
  BY <1>1, <1>2, <1>4, <1>6, GotoFrame DEF GetFile
<1>7. CASE CheckName(t)
  BY <1>3, <1>4, <1>5, <1>7 DEF CheckName
<1>8. CASE EmptySlot(t)
  BY <1>1, <1>2, <1>8, ReplyFrame, GotoFrame, GotoSlotFrame, NextSlot DEF EmptySlot
<1>9. QED
  BY <1>6, <1>7, <1>8 DEF FileScan

\* The steps of _open_file_create are framed.
LEMMA CreateFrame ==
  ASSUME BaseInv, NEW t \in Workers, CreateSteps(t)
  PROVE  Frame(t)
<1> USE DEF BaseInv
<1>1. /\ "count_file" \in BusyPcs \ ScanPcs /\ "create_open" \in BusyPcs \ ScanPcs
      /\ "failed" \in BusyPcs \ ScanPcs
  BY PcNames DEF ScanPcs, CreatePcs
<1>2. QED
  BY <1>1, ReplyFrame, GotoFrame DEF CreateSteps, CreateFile, CountFile, CreateOpen, Fail

\* close_file leaves a natural number to book, whichever way it goes.
LEMMA CloseSlotFrame ==
  ASSUME BaseInv, NEW t \in Workers, NEW l \in UnbookedClosePcs, CloseSlot(t, l)
  PROVE  Frame(t)
<1>1. l \in BusyPcs \ ScanPcs
  BY PcNames DEF ScanPcs, UnbookedClosePcs
<1>2. CanClose(fslot(t), Conn(t)) => close_difference(fslot(t)) \in Nat
  BY SizeOfSlot, NextSlot DEF CanClose, Accessible, fslot, BaseInv
<1>3. QED
  BY <1>1, <1>2, BookFrame DEF CloseSlot, BaseInv

\* So are the handlers that end in one call on the slot.
LEMMA SimpleFrame ==
  ASSUME BaseInv, NEW t \in Workers, SimpleSteps(t)
  PROVE  Frame(t)
<1>1. "close_book" \in UnbookedClosePcs
  BY DEF UnbookedClosePcs
<1>2. QED
  BY <1>1, ReplyFrame, CloseSlotFrame
     DEF SimpleSteps, OpenFile, CloseFile, CloseBook, ReadFile, LockFile, UnlockFile, BaseInv

\* So are the steps of do_remove_file.
LEMMA RemoveFrame ==
  ASSUME BaseInv, NEW t \in Workers, RemoveSteps(t)
  PROVE  Frame(t)
<1> USE DEF BaseInv
<1>1. "remove_file" \in BusyPcs \ ScanPcs /\ "remove_book" \in BusyPcs \ ScanPcs
  BY PcNames DEF ScanPcs, RemovePcs, UnbookedRemovePcs
<1>2. get_size(fslot(t)) \in Nat
  BY SizeOfSlot, NextSlot DEF fslot
<1>3. QED
  BY <1>1, <1>2, ReplyFrame, GotoFrame, BookFrame
     DEF RemoveSteps, RemoveCheck, RemoveFile, RemoveBook

\* So are the steps of do_write_file and do_append_file.
LEMMA WriteFrame ==
  ASSUME BaseInv, NEW t \in Workers, WriteSteps(t)
  PROVE  Frame(t)
<1> USE DEF BaseInv
<1>1. /\ "reserve" \in BusyPcs \ ScanPcs /\ "evict_pick" \in BusyPcs \ ScanPcs
      /\ "apply" \in BusyPcs \ ScanPcs /\ "release" \in BusyPcs \ ScanPcs
      /\ "failed" \in BusyPcs \ ScanPcs /\ "aborted" \in BusyPcs \ ScanPcs
  BY PcNames DEF ScanPcs, WritePcs, EvictPickPcs
<1>2. QED
  BY <1>1, ReplyFrame, GotoFrame
     DEF WriteSteps, CheckCapacity, Reserve, Apply, Release, Refuse, Abort, Fail

\* So are the steps of cache_miss and delete_evicted.
LEMMA EvictFrame ==
  ASSUME BaseInv, NEW t \in Workers, EvictSteps(t)
  PROVE  Frame(t)
<1> USE DEF BaseInv
<1>1. /\ "evict_pick" \in BusyPcs \ ScanPcs /\ "evict_name" \in BusyPcs \ ScanPcs
      /\ "evict_size" \in BusyPcs \ ScanPcs /\ "evict_usage" \in BusyPcs \ ScanPcs
      /\ "evict_force" \in BusyPcs \ ScanPcs /\ "evict_open" \in BusyPcs \ ScanPcs
      /\ "evict_remove" \in BusyPcs \ ScanPcs
      /\ "evict_book" \in BusyPcs \ ScanPcs /\ "check_capacity" \in BusyPcs \ ScanPcs
      /\ "failed" \in BusyPcs \ ScanPcs
  BY PcNames DEF ScanPcs, WritePcs, EvictPickPcs, EvictHoldPcs, UnbookedRemovePcs
<1>2. get_size(vslot(t)) \in Nat
  BY SizeOfSlot, NextSlot DEF vslot
<1>3. CASE EvictPick(t)
  <2>1. PICK i \in Slots : thr' = [thr EXCEPT ![t].pc = "evict_name", ![t].victim = i]
    BY <1>3 DEF EvictPick
  <2>2. QED
    BY <1>1, <2>1, VictimFrame
<1>4. CASE EvictRemove(t)
  BY <1>1, <1>2, <1>4, GotoFrame, BookFrame DEF EvictRemove, Fail
<1>5. CASE EvictName(t) \/ EvictSize(t) \/ EvictUsage(t) \/ EvictChoose(t) \/ EvictNone(t)
  BY <1>1, <1>5, GotoFrame, EvictScanFrame, NextSlot DEF EvictName, EvictSize, EvictUsage,
     EvictNone
<1>6. CASE EvictForce(t) \/ EvictOpen(t) \/ EvictBook(t)
  BY <1>1, <1>6, GotoFrame, EvictScanFrame DEF EvictForce, EvictOpen, EvictBook
<1>7. QED
  BY <1>3, <1>4, <1>5, <1>6 DEF EvictSteps

\* The loop step of do_readn_files is framed.
LEMMA ReadNNextFrame ==
  ASSUME BaseInv, NEW t \in Workers, NEW k \in Nat, ReadNNext(t, k)
  PROVE  Frame(t)
<1>1. "readn_wasclosed" \in BusyPcs \ ScanPcs
  BY PcNames DEF ScanPcs, ReadNPcs
<1>2. CASE Reply(t)
  BY <1>2, ReplyFrame DEF BaseInv
<1>3. CASE /\ thr[t].fex < NumFiles
           /\ thr' = [thr EXCEPT ![t].pc = "readn_wasclosed", ![t].fex = @ + 1, ![t].count = k]
  <2>1. thr[t].fex + 1 \in Slots
    BY <1>3, NextSlot DEF BaseInv
  <2>2. QED
    BY <1>1, <1>3, <2>1, ZenonT(30) DEF BaseInv, TypeOK, ThreadType, Frame, BusyPcs
<1>4. QED
  BY <1>2, <1>3 DEF ReadNNext

\* So are the steps of do_readn_files.
LEMMA ReadNFrame ==
  ASSUME BaseInv, NEW t \in Workers, ReadNSteps(t)
  PROVE  Frame(t)
<1> USE DEF BaseInv
<1>1. /\ "readn_open" \in BusyPcs \ ScanPcs /\ "readn_read" \in BusyPcs \ ScanPcs
      /\ "readn_close" \in BusyPcs \ ScanPcs /\ "readn_name" \in BusyPcs \ ScanPcs
      /\ "failed" \in BusyPcs \ ScanPcs /\ "readn_book" \in UnbookedClosePcs
  BY PcNames DEF ScanPcs, ReadNPcs, UnbookedClosePcs
<1>2. thr[t].count \in Nat
  BY DEF TypeOK, ThreadType
<1>3. ASSUME NEW ok \in BOOLEAN, ReadNAfter(t, ok) PROVE Frame(t)
  BY <1>1, <1>2, <1>3, GotoFrame, ReadNNextFrame DEF ReadNAfter
<1>4. CASE ReadNWasClosed(t)
  BY <1>1, <1>4, ZenonT(30) DEF ReadNWasClosed, TypeOK, ThreadType, Frame, BusyPcs, is_open_file
<1>5. CASE ReadNOpen(t)
  BY <1>1, <1>2, <1>5, GotoFrame, ReadNNextFrame DEF ReadNOpen
<1>6. CASE ReadNRead(t)
  <2> DEFINE ok == CanRead(fslot(t), Conn(t))
  <2>1. ok \in BOOLEAN
    BY DEF CanRead, Accessible, is_open_file
  <2>2. CASE thr' = [thr EXCEPT ![t].pc = "readn_close", ![t].readok = ok]
    BY <1>1, <2>1, <2>2, ZenonT(30) DEF TypeOK, ThreadType, Frame, BusyPcs
  <2>3. QED
    BY <1>3, <1>6, <2>1, <2>2 DEF ReadNRead
<1>7. CASE ReadNClose(t)
  BY <1>1, <1>7, CloseSlotFrame DEF ReadNClose
<1>8. CASE ReadNBook(t)
  BY <1>3, <1>8 DEF ReadNBook, TypeOK, ThreadType
<1>9. CASE ReadNName(t)
  BY <1>1, <1>2, <1>9, GotoFrame, ReadNNextFrame DEF ReadNName, Fail
<1>10. QED
  BY <1>4, <1>5, <1>6, <1>7, <1>8, <1>9 DEF ReadNSteps

\* So are the steps of do_close_connection.
LEMMA CloseConnFrame ==
  ASSUME BaseInv, NEW t \in Workers, CloseConnSteps(t)
  PROVE  Frame(t)
<1> USE DEF BaseInv
<1>1. /\ "cconn_check" \in BusyPcs \ ScanPcs /\ "cconn_close" \in BusyPcs \ ScanPcs
      /\ "cconn_remove" \in BusyPcs \ ScanPcs /\ "cconn_book" \in UnbookedClosePcs
  BY PcNames DEF ScanPcs, CloseConnPcs, UnbookedClosePcs
<1>2. CConnNext(t) => Frame(t)
  BY <1>1, GotoFrame, GotoSlotFrame, NextSlot DEF CConnNext
<1>3. QED
  BY <1>1, <1>2, GotoFrame, ReplyFrame, CloseSlotFrame
     DEF CloseConnSteps, CConnCheck, CConnClose, CConnBook, CConnRemove

\* Every step of a handler is framed.
LEMMA HandlerFrame ==
  ASSUME BaseInv, NEW t \in Workers, HandlerStep(t)
  PROVE  Frame(t)
<1>1. HandlerFailed(t) => Frame(t)
  BY ReplyFrame DEF HandlerFailed, BaseInv
<1>2. QED
  BY <1>1, ScanFrame, CreateFrame, SimpleFrame, RemoveFrame, WriteFrame, EvictFrame,
     ReadNFrame, CloseConnFrame DEF HandlerStep

----------------------------------------------------------------------------
(* How one worker's step changes the file table: at most one slot, in one  *)
(* of four ways.                                                           *)

ChangesOnly(i) == files' = [files EXCEPT ![i] = files'[i]] /\ Consistent(files'[i])

\* An unused slot gets the new file of the worker's request.
CreatesIn(t, i) ==
    /\ At(t, "create_file") /\ i = thr[t].fex
    /\ ~is_existing_file(files[i])
    /\ files'[i].owner = OpenOwner(t) /\ files'[i].name = Req(t).name
    /\ thr' = [thr EXCEPT ![t].pc = "count_file"]

\* A file that is unlocked or locked by the client is used on its behalf; if
\* it ends up locked by the client it is open, and it keeps its name.
UsesIn(t, i) ==
    /\ i = thr[t].fex /\ thr[t].pc \notin EvictHoldPcs
    /\ is_existing_file(files[i])
    /\ files[i].owner \in {OWNER_NULL, Conn(t)}
    /\ \/ /\ files'[i].owner \in {OWNER_NULL, Conn(t)}
          /\ files'[i].name = files[i].name
          /\ files'[i].owner = Conn(t) => is_open_file(files'[i])
       \/ /\ files[i].owner = Conn(t) /\ At(t, "remove_file")
          /\ files'[i] = EmptyFile

\* An eviction takes the file whoever has it.
ForcesIn(t, i) ==
    /\ At(t, "evict_force") /\ i = thr[t].victim
    /\ is_existing_file(files[i]) /\ files[i].owner # OWNER_ADMIN
    /\ files'[i] = force_owner(files[i])
    /\ thr' = [thr EXCEPT ![t].pc = "evict_open"]

\* An eviction opens or removes the file it has taken.
EvictsIn(t, i) ==
    /\ Holds(t, i) /\ files[i].owner = OWNER_ADMIN
    /\ \/ /\ files'[i].owner = OWNER_ADMIN /\ is_open_file(files'[i])
          /\ files'[i].name = files[i].name
          /\ thr' = [thr EXCEPT ![t].pc = "evict_remove"]
       \/ /\ files'[i] = EmptyFile
          /\ thr'[t].pc = "evict_book"

FileFrame(t) ==
    \/ files' = files
    \/ \E i \in Slots :
          ChangesOnly(i) /\ (CreatesIn(t, i) \/ UsesIn(t, i) \/ ForcesIn(t, i) \/ EvictsIn(t, i))

\* A worker that runs a handler acts for a client.
LEMMA BusyConn ==
  ASSUME BaseInv, NEW t \in Workers, thr[t].pc # "idle"
  PROVE  /\ Conn(t) \in Conns /\ Conn(t) \in Owners
         /\ Conn(t) \notin SpecialOwners
         /\ OpenOwner(t) \in {OWNER_NULL, Conn(t)}
         /\ OWNER_NULL \in Owners /\ OWNER_ADMIN \in Owners
         /\ Req(t).name \in Names \union {NoName} /\ Req(t).size \in Nat
<1>1. Conn(t) \in clients /\ clients \subseteq Conns
  BY DEF BaseInv, ConnExclusive, At, TypeOK
<1>2. Req(t) \in Requests \union {NoRequest}
  BY DEF BaseInv, TypeOK, ThreadType, Req
<1>3. Req(t).name \in Names \union {NoName} /\ Req(t).size \in Nat
  BY <1>2, RequestAssumption DEF RequestType, NoRequest
<1>4. QED
  BY <1>1, <1>3, OwnerAssumption DEF Owners, SpecialOwners, OpenOwner

\* Writing a consistent struct to a slot is a change of that slot.
LEMMA SetFileChanges ==
  ASSUME BaseInv, NEW i \in Slots, NEW g, Consistent(g), SetFile(i, g)
  PROVE  ChangesOnly(i) /\ files'[i] = g
  BY DEF BaseInv, TypeOK, SetFile, ChangesOnly

\* A slot a worker looks at is consistent.
LEMMA SlotConsistent ==
  ASSUME BaseInv, NEW t \in Workers
  PROVE  /\ thr[t].fex \in Slots /\ Consistent(fslot(t))
         /\ thr[t].victim \in Slots /\ Consistent(vslot(t))
  BY BaseConsistent, NextSlot DEF AllConsistent, fslot, vslot, BaseInv

\* close_file on behalf of the client.
LEMMA CloseSlotFile ==
  ASSUME BaseInv, NEW t \in Workers, thr[t].pc \notin EvictHoldPcs \union {"idle"},
         NEW l, CloseSlot(t, l)
  PROVE  FileFrame(t)
<1> DEFINE f == fslot(t)
<1>1. CASE ~CanClose(f, Conn(t))
  BY <1>1 DEF CloseSlot, FileFrame
<1>2. CASE CanClose(f, Conn(t)) /\ ~is_open_file(f)
  <2>1. files' = [files EXCEPT ![thr[t].fex] = files[thr[t].fex]]
    BY <1>2 DEF CloseSlot, SetFile, close_file, fslot
  <2>2. QED
    BY <2>1 DEF FileFrame, BaseInv, TypeOK
<1>3. CASE CanClose(f, Conn(t)) /\ is_open_file(f)
  <2>1. /\ Consistent(f) /\ is_existing_file(f) /\ thr[t].fex \in Slots
        /\ f.owner \in {OWNER_NULL, Conn(t)} /\ SetFile(thr[t].fex, close_file(f))
    BY <1>3, SlotConsistent DEF CanClose, Accessible, CloseSlot
  <2>2. /\ Consistent(close_file(f)) /\ close_file(f).owner = OWNER_NULL
        /\ close_file(f).name = f.name
    BY <1>3, <2>1, CloseConsistent
  <2>3. OWNER_NULL # Conn(t)
    BY BusyConn DEF SpecialOwners
  <2>4. ChangesOnly(thr[t].fex) /\ UsesIn(t, thr[t].fex)
    BY <2>1, <2>2, <2>3, SetFileChanges DEF UsesIn, fslot
  <2>5. QED
    BY <2>1, <2>4 DEF FileFrame
<1>4. QED
  BY <1>1, <1>2, <1>3

\* open_file on behalf of the client, with or without the lock.
LEMMA OpenSlotFile ==
  ASSUME BaseInv, NEW t \in Workers, thr[t].pc \notin EvictHoldPcs \union {"idle"},
         NEW w \in {OWNER_NULL, Conn(t)},
         CanOpen(fslot(t), w), SetFile(thr[t].fex, open_file(fslot(t), w))
  PROVE  FileFrame(t)
<1> DEFINE f == fslot(t)
<1>1. /\ Consistent(f) /\ is_existing_file(f) /\ thr[t].fex \in Slots
      /\ f.owner \in {OWNER_NULL, Conn(t)}
  BY SlotConsistent DEF CanOpen, Accessible
<1>2. w \in Owners /\ w # OWNER_NEXIST
  BY BusyConn, OwnerAssumption DEF SpecialOwners
<1>3. /\ Consistent(open_file(f, w)) /\ open_file(f, w).owner = w
      /\ open_file(f, w).name = f.name /\ is_open_file(open_file(f, w))
  BY <1>1, <1>2, OpenConsistent
<1>4. ChangesOnly(thr[t].fex) /\ UsesIn(t, thr[t].fex)
  BY <1>1, <1>3, SetFileChanges DEF UsesIn, fslot
<1>5. QED
  BY <1>1, <1>4 DEF FileFrame

\* What _open_file_create does to the table.
LEMMA CreateFileFrame ==
  ASSUME BaseInv, NEW t \in Workers, CreateSteps(t)
  PROVE  FileFrame(t)
<1>1. CASE CreateFile(t)
  <2> DEFINE f == fslot(t)
             g == create_file_struct(f, Req(t).name, OpenOwner(t))
  <2>1. thr[t].pc # "idle"
    BY <1>1 DEF CreateFile, At
  <2>2. CASE is_existing_file(f)
    BY <1>1, <2>2 DEF CreateFile, FileFrame
  <2>3. CASE ~is_existing_file(f)
    <3>1. Consistent(f) /\ thr[t].fex \in Slots
      BY SlotConsistent
    <3>2. Consistent(g) /\ g.owner = OpenOwner(t) /\ g.name = Req(t).name
      <4>1. OpenOwner(t) \in Owners /\ OpenOwner(t) # OWNER_NEXIST
        BY <2>1, BusyConn, OwnerAssumption DEF SpecialOwners
      <4>2. Req(t).name \in Names \union {NoName}
        BY <2>1, BusyConn
      <4>3. QED
        BY <2>3, <3>1, <4>1, <4>2, CreateConsistent
    <3>3. SetFile(thr[t].fex, g) /\ thr' = [thr EXCEPT ![t].pc = "count_file"]
      BY <1>1, <2>3 DEF CreateFile, Goto
    <3>4. ChangesOnly(thr[t].fex) /\ files'[thr[t].fex] = g
      BY <3>1, <3>2, <3>3, SetFileChanges
    <3>5. CreatesIn(t, thr[t].fex)
      BY <1>1, <2>3, <3>2, <3>3, <3>4 DEF CreatesIn, CreateFile, fslot
    <3>6. QED
      BY <3>1, <3>4, <3>5 DEF FileFrame
  <2>4. QED
    BY <2>2, <2>3
<1>2. CASE CountFile(t)
  BY <1>2 DEF CountFile, FileFrame
<1>3. CASE CreateOpen(t)
  <2>1. thr[t].pc = "create_open" /\ thr[t].pc \notin EvictHoldPcs \union {"idle"}
    BY <1>3 DEF CreateOpen, At, EvictHoldPcs
  <2>2. OpenOwner(t) \in {OWNER_NULL, Conn(t)}
    BY <2>1, BusyConn
  <2>3. QED
    BY <1>3, <2>1, <2>2, OpenSlotFile DEF CreateOpen, FileFrame
<1>4. QED
  BY <1>1, <1>2, <1>3 DEF CreateSteps

\* What opening, closing, reading, locking and unlocking do to the table.
LEMMA SimpleFileFrame ==
  ASSUME BaseInv, NEW t \in Workers, SimpleSteps(t)
  PROVE  FileFrame(t)
<1>1. CASE ReadFile(t) \/ CloseBook(t)
  BY <1>1 DEF ReadFile, CloseBook, FileFrame
<1>2. CASE OpenFile(t)
  <2>1. thr[t].pc \notin EvictHoldPcs \union {"idle"}
    BY <1>2 DEF OpenFile, At, EvictHoldPcs
  <2>2. OpenOwner(t) \in {OWNER_NULL, Conn(t)}
    BY <2>1, BusyConn
  <2>3. QED
    BY <1>2, <2>1, <2>2, OpenSlotFile DEF OpenFile, FileFrame
<1>3. CASE CloseFile(t)
  <2>1. thr[t].pc \notin EvictHoldPcs \union {"idle"}
    BY <1>3 DEF CloseFile, At, EvictHoldPcs
  <2>2. QED
    BY <1>3, <2>1, CloseSlotFile DEF CloseFile, FileFrame
<1>4. CASE LockFile(t)
  <2>1. thr[t].pc \notin EvictHoldPcs \union {"idle"}
    BY <1>4 DEF LockFile, At, EvictHoldPcs
  <2>2. CASE CanLock(fslot(t), Conn(t))
    <3>1. /\ Consistent(fslot(t)) /\ is_existing_file(fslot(t)) /\ thr[t].fex \in Slots
          /\ is_open_file(fslot(t)) /\ fslot(t).owner \in {OWNER_NULL, Conn(t)}
      BY <2>2, SlotConsistent DEF CanLock, Accessible
    <3>2. Conn(t) \in Owners /\ Conn(t) # OWNER_NEXIST
      BY <2>1, BusyConn DEF SpecialOwners
    <3> DEFINE g == lock_file(fslot(t), Conn(t))
    <3>3. /\ Consistent(g) /\ g.owner = Conn(t) /\ g.name = fslot(t).name
          /\ is_open_file(g)
      BY <3>1, <3>2, OwnerConsistent DEF lock_file
    <3>4. ChangesOnly(thr[t].fex) /\ files'[thr[t].fex] = g
      BY <1>4, <2>2, <3>1, <3>3, SetFileChanges DEF LockFile
    <3>5. UsesIn(t, thr[t].fex)
      BY <2>1, <3>1, <3>3, <3>4 DEF UsesIn, fslot
    <3>6. QED
      BY <3>1, <3>4, <3>5 DEF FileFrame
  <2>3. QED
    BY <1>4, <2>2 DEF LockFile, FileFrame
<1>5. CASE UnlockFile(t)
  <2>1. thr[t].pc \notin EvictHoldPcs \union {"idle"}
    BY <1>5 DEF UnlockFile, At, EvictHoldPcs
  <2>2. CASE CanUnlock(fslot(t), Conn(t))
    <3>1. /\ Consistent(fslot(t)) /\ is_existing_file(fslot(t)) /\ thr[t].fex \in Slots
          /\ fslot(t).owner = Conn(t)
      BY <2>2, SlotConsistent DEF CanUnlock, is_locked_file
    <3>2. OWNER_NULL \in Owners /\ OWNER_NULL # OWNER_NEXIST /\ OWNER_NULL # Conn(t)
      BY <2>1, BusyConn, OwnerAssumption DEF SpecialOwners
    <3> DEFINE g == unlock_file(fslot(t))
    <3>3. Consistent(g) /\ g.owner = OWNER_NULL /\ g.name = fslot(t).name
      BY <3>1, <3>2, OwnerConsistent DEF unlock_file
    <3>4. ChangesOnly(thr[t].fex) /\ files'[thr[t].fex] = g
      BY <1>5, <2>2, <3>1, <3>3, SetFileChanges DEF UnlockFile
    <3>5. UsesIn(t, thr[t].fex)
      BY <2>1, <3>1, <3>2, <3>3, <3>4 DEF UsesIn, fslot
    <3>6. QED
      BY <3>1, <3>4, <3>5 DEF FileFrame
  <2>3. QED
    BY <1>5, <2>2 DEF UnlockFile, FileFrame
<1>6. QED
  BY <1>1, <1>2, <1>3, <1>4, <1>5 DEF SimpleSteps

\* What do_remove_file does to the table.
LEMMA RemoveFileFrame ==
  ASSUME BaseInv, NEW t \in Workers, RemoveSteps(t)
  PROVE  FileFrame(t)
<1>1. CASE RemoveCheck(t) \/ RemoveBook(t)
  BY <1>1 DEF RemoveCheck, RemoveBook, FileFrame
<1>2. CASE RemoveFile(t) /\ ~CanRemove(fslot(t), Conn(t))
  BY <1>2 DEF RemoveFile, FileFrame
<1>3. CASE RemoveFile(t) /\ CanRemove(fslot(t), Conn(t))
  <2>1. /\ is_existing_file(fslot(t)) /\ fslot(t).owner = Conn(t) /\ At(t, "remove_file")
        /\ SetFile(thr[t].fex, EmptyFile) /\ thr[t].pc \notin EvictHoldPcs
    BY <1>3 DEF RemoveFile, CanRemove, is_locked_file, At, EvictHoldPcs
  <2>2. thr[t].fex \in Slots
    BY SlotConsistent
  <2>3. ChangesOnly(thr[t].fex) /\ files'[thr[t].fex] = EmptyFile
    BY <2>1, <2>2, EmptyConsistent, SetFileChanges
  <2>4. UsesIn(t, thr[t].fex)
    BY <2>1, <2>3 DEF UsesIn, fslot
  <2>5. QED
    BY <2>2, <2>3, <2>4 DEF FileFrame
<1>4. QED
  BY <1>1, <1>2, <1>3 DEF RemoveSteps

\* What do_write_file and do_append_file do to the table.
LEMMA WriteFileFrame ==
  ASSUME BaseInv, NEW t \in Workers, WriteSteps(t)
  PROVE  FileFrame(t)
<1>1. CASE CheckCapacity(t) \/ Reserve(t) \/ Release(t)
  BY <1>1 DEF CheckCapacity, Reserve, Release, Refuse, FileFrame
<1>2. CASE Apply(t) /\ ~CanApply(t)
  BY <1>2 DEF Apply, FileFrame
<1>3. CASE Apply(t) /\ CanApply(t)
  <2> DEFINE f == fslot(t)
             n == Req(t).size
  <2>1. /\ thr[t].pc \notin EvictHoldPcs \union {"idle"}
        /\ SetFile(thr[t].fex, Applied(t))
    BY <1>3 DEF Apply, At, EvictHoldPcs
  <2>2. Consistent(f) /\ thr[t].fex \in Slots /\ n \in Nat
    BY <2>1, SlotConsistent, BusyConn
  <2>3. is_existing_file(f) /\ f.owner \in {OWNER_NULL, Conn(t)}
    BY <1>3 DEF CanApply, CanWrite, CanAppend, Accessible, is_locked_file
  <2>4. /\ Consistent(Applied(t)) /\ Applied(t).owner = f.owner
        /\ Applied(t).name = f.name /\ is_open_file(Applied(t))
    <3>1. CASE Req(t).op = "WRITE_FILE"
      <4>1. f.open_size = 0
        BY <1>3, <3>1 DEF CanApply, CanWrite
      <4>2. QED
        BY <2>2, <2>3, <3>1, <4>1, WriteConsistent DEF Applied
    <3>2. CASE Req(t).op # "WRITE_FILE"
      <4>1. is_open_file(f)
        BY <1>3, <3>2 DEF CanApply, CanAppend
      <4>2. QED
        BY <2>2, <2>3, <3>2, <4>1, AppendConsistent DEF Applied
    <3>3. QED
      BY <3>1, <3>2
  <2>5. ChangesOnly(thr[t].fex) /\ files'[thr[t].fex] = Applied(t)
    BY <2>1, <2>2, <2>4, SetFileChanges
  <2>6. UsesIn(t, thr[t].fex)
    BY <2>1, <2>3, <2>4, <2>5 DEF UsesIn, fslot
  <2>7. QED
    BY <2>2, <2>5, <2>6 DEF FileFrame
<1>4. QED
  BY <1>1, <1>2, <1>3 DEF WriteSteps

\* What delete_evicted does to the table.
LEMMA EvictFileFrame ==
  ASSUME BaseInv, NEW t \in Workers, EvictSteps(t),
         At(t, "evict_open") => vslot(t).owner = OWNER_ADMIN
  PROVE  FileFrame(t)
<1> DEFINE f == vslot(t)
           i == thr[t].victim
<1>1. CASE \/ EvictPick(t) \/ EvictName(t) \/ EvictSize(t) \/ EvictUsage(t)
           \/ EvictChoose(t) \/ EvictNone(t) \/ EvictBook(t)
  BY <1>1 DEF EvictPick, EvictChoose, EvictNone, EvictName, EvictSize, EvictUsage,
     EvictBook, FileFrame
<1>2. CASE EvictForce(t)
  <2>1. CASE ~CanForce(f)
    BY <1>2, <2>1 DEF EvictForce, FileFrame
  <2>2. CASE CanForce(f)
    <3>1. /\ SetFile(i, force_owner(f)) /\ thr' = [thr EXCEPT ![t].pc = "evict_open"]
          /\ is_existing_file(f) /\ f.owner # OWNER_ADMIN /\ At(t, "evict_force")
      BY <1>2, <2>2 DEF EvictForce, CanForce, Goto
    <3>2. i \in Slots /\ Consistent(force_owner(f))
      BY <3>1, SlotConsistent, OwnerConsistent, OwnerAssumption
         DEF force_owner, Owners, SpecialOwners
    <3>3. ChangesOnly(i) /\ files'[i] = force_owner(f)
      BY <3>1, <3>2, SetFileChanges
    <3>4. ForcesIn(t, i)
      BY <3>1, <3>3 DEF ForcesIn, vslot
    <3>5. QED
      BY <3>2, <3>3, <3>4 DEF FileFrame
  <2>3. QED
    BY <2>1, <2>2
<1>3. CASE EvictOpen(t)
  <2>1. CASE ~CanOpen(f, OWNER_ADMIN)
    BY <1>3, <2>1 DEF EvictOpen, FileFrame
  <2>2. CASE CanOpen(f, OWNER_ADMIN)
    <3>1. /\ SetFile(i, open_file(f, OWNER_ADMIN)) /\ thr' = [thr EXCEPT ![t].pc = "evict_remove"]
          /\ is_existing_file(f) /\ Holds(t, i) /\ f.owner = OWNER_ADMIN
      BY <1>3, <2>2 DEF EvictOpen, CanOpen, Accessible, Goto, Holds, EvictHoldPcs, At
    <3>2. OWNER_ADMIN \in Owners /\ OWNER_ADMIN # OWNER_NEXIST
      BY OwnerAssumption DEF Owners, SpecialOwners
    <3>3. /\ i \in Slots /\ Consistent(open_file(f, OWNER_ADMIN))
          /\ open_file(f, OWNER_ADMIN).owner = OWNER_ADMIN
          /\ is_open_file(open_file(f, OWNER_ADMIN))
          /\ open_file(f, OWNER_ADMIN).name = f.name
      BY <3>1, <3>2, SlotConsistent, OpenConsistent
    <3>4. ChangesOnly(i) /\ files'[i] = open_file(f, OWNER_ADMIN)
      BY <3>1, <3>3, SetFileChanges
    <3>5. EvictsIn(t, i)
      BY <3>1, <3>3, <3>4 DEF EvictsIn, vslot
    <3>6. QED
      BY <3>3, <3>4, <3>5 DEF FileFrame
  <2>3. QED
    BY <2>1, <2>2
<1>4. CASE EvictRemove(t)
  <2>1. CASE ~(CanRead(f, OWNER_ADMIN) /\ CanRemove(f, OWNER_ADMIN))
    BY <1>4, <2>1 DEF EvictRemove, FileFrame
  <2>2. CASE CanRead(f, OWNER_ADMIN) /\ CanRemove(f, OWNER_ADMIN)
    <3>1. /\ SetFile(i, EmptyFile) /\ f.owner = OWNER_ADMIN /\ Holds(t, i)
          /\ thr' = [thr EXCEPT ![t].pc = "evict_book", ![t].size = get_size(f)]
      BY <1>4, <2>2
         DEF EvictRemove, CanRemove, is_locked_file, Holds, EvictHoldPcs, At
    <3>2. i \in Slots
      BY SlotConsistent
    <3>3. ChangesOnly(i) /\ files'[i] = EmptyFile
      BY <3>1, <3>2, EmptyConsistent, SetFileChanges
    <3>4. thr'[t].pc = "evict_book"
      BY <3>1 DEF BaseInv, TypeOK, ThreadType
    <3>5. EvictsIn(t, i)
      BY <3>1, <3>3, <3>4 DEF EvictsIn, vslot
    <3>6. QED
      BY <3>2, <3>3, <3>5 DEF FileFrame
  <2>3. QED
    BY <2>1, <2>2
<1>5. QED
  BY <1>1, <1>2, <1>3, <1>4 DEF EvictSteps

\* What do_readn_files does to the table.
LEMMA ReadNFileFrame ==
  ASSUME BaseInv, NEW t \in Workers, ReadNSteps(t)
  PROVE  FileFrame(t)
<1>1. CASE ReadNWasClosed(t) \/ ReadNRead(t) \/ ReadNBook(t) \/ ReadNName(t)
  BY <1>1 DEF ReadNWasClosed, ReadNRead, ReadNBook, ReadNName, FileFrame
<1>2. CASE ReadNOpen(t)
  <2>1. thr[t].pc \notin EvictHoldPcs \union {"idle"}
    BY <1>2 DEF ReadNOpen, At, EvictHoldPcs
  <2>2. QED
    BY <1>2, <2>1, OpenSlotFile DEF ReadNOpen, FileFrame
<1>3. CASE ReadNClose(t)
  <2>1. thr[t].pc \notin EvictHoldPcs \union {"idle"}
    BY <1>3 DEF ReadNClose, At, EvictHoldPcs
  <2>2. QED
    BY <1>3, <2>1, CloseSlotFile DEF ReadNClose
<1>4. QED
  BY <1>1, <1>2, <1>3 DEF ReadNSteps

\* What do_close_connection does to the table.
LEMMA CloseConnFileFrame ==
  ASSUME BaseInv, NEW t \in Workers, CloseConnSteps(t)
  PROVE  FileFrame(t)
<1>1. CASE CConnCheck(t) \/ CConnBook(t) \/ CConnRemove(t)
  BY <1>1 DEF CConnCheck, CConnBook, CConnRemove, FileFrame
<1>2. CASE CConnClose(t)
  <2>1. thr[t].pc \notin EvictHoldPcs \union {"idle"}
    BY <1>2 DEF CConnClose, At, EvictHoldPcs
  <2>2. QED
    BY <1>2, <2>1, CloseSlotFile DEF CConnClose
<1>3. QED
  BY <1>1, <1>2 DEF CloseConnSteps

\* Every handler step leaves the table framed.
LEMMA HandlerFileFrame ==
  ASSUME BaseInv, EvictorExclusive, NEW t \in Workers, HandlerStep(t)
  PROVE  FileFrame(t)
<1>1. At(t, "evict_open") => vslot(t).owner = OWNER_ADMIN
  BY SlotConsistent DEF EvictorExclusive, Holds, EvictHoldPcs, At, vslot
<1>2. FileScan(t) => FileFrame(t)
  BY DEF FileScan, GetFile, CheckName, EmptySlot, FileFrame
<1>3. HandlerFailed(t) => FileFrame(t)
  BY DEF HandlerFailed, FileFrame
<1>4. QED
  BY <1>1, <1>2, <1>3, CreateFileFrame, SimpleFileFrame, RemoveFileFrame, WriteFileFrame,
     EvictFileFrame, ReadNFileFrame, CloseConnFileFrame DEF HandlerStep

----------------------------------------------------------------------------
(* The counters, the client table and the base invariant.                  *)

Typed == /\ current_storage' \in Int /\ max_reached_storage' \in Int
         /\ current_files' \in Int /\ max_reached_files' \in Int
         /\ lastop' \in [Conns -> Names \union {NoName}]

\* A handler step leaves the counters integers and lastop a path per descriptor.
LEMMA HandlerTyped ==
  ASSUME BaseInv, NEW t \in Workers, HandlerStep(t)
  PROVE  Typed
<1> USE DEF counters, table, Typed
<1>1. /\ current_storage \in Int /\ max_reached_storage \in Int
      /\ current_files \in Int /\ max_reached_files \in Int
      /\ lastop \in [Conns -> Names \union {NoName}] /\ thr[t].size \in Nat
  BY DEF BaseInv, TypeOK, ThreadType
<1>2. FileScan(t) => Typed
  BY <1>1 DEF FileScan, GetFile, CheckName, EmptySlot
<1>3. CreateSteps(t) => Typed
  <2>1. CreateFile(t) \/ CountFile(t) => Typed
    BY <1>1 DEF CreateFile, CountFile
  <2>2. CASE CreateOpen(t)
    <3>1. Req(t).name \in Names \union {NoName}
      BY <2>2, BusyConn DEF CreateOpen, At
    <3>2. QED
      BY <1>1, <2>2, <3>1 DEF CreateOpen
  <2>3. QED
    BY <2>1, <2>2 DEF CreateSteps
<1>4. SimpleSteps(t) => Typed
  BY <1>1 DEF SimpleSteps, OpenFile, CloseFile, CloseBook, ReadFile, LockFile, UnlockFile,
              BookStorage
<1>5. RemoveSteps(t) => Typed
  BY <1>1 DEF RemoveSteps, RemoveCheck, RemoveFile, RemoveBook, BookStorage
<1>6. CASE WriteSteps(t)
  <2>1. thr[t].pc # "idle"
    BY <1>6 DEF WriteSteps, CheckCapacity, Reserve, Apply, Release, Refuse, At
  <2>2. Req(t).size \in Nat
    BY <2>1, BusyConn
  <2>3. QED
    BY <1>1, <1>6, <2>2 DEF WriteSteps, CheckCapacity, Reserve, Apply, Release, Refuse
<1>7. EvictSteps(t) => Typed
  BY <1>1 DEF EvictSteps, EvictPick, EvictChoose, EvictNone, EvictName, EvictSize,
     EvictUsage, EvictForce, EvictOpen,
              EvictRemove, EvictBook, BookStorage
<1>8. ReadNSteps(t) => Typed
  BY <1>1 DEF ReadNSteps, ReadNWasClosed, ReadNOpen, ReadNRead, ReadNClose, ReadNBook, ReadNName,
              BookStorage
<1>9. CloseConnSteps(t) \/ HandlerFailed(t) => Typed
  BY <1>1 DEF CloseConnSteps, CConnCheck, CConnClose, CConnBook, CConnRemove, BookStorage,
              HandlerFailed
<1>10. QED
  BY <1>2, <1>3, <1>4, <1>5, <1>6, <1>7, <1>8, <1>9 DEF HandlerStep

\* Only the last step of do_close_connection changes the client table.
LEMMA HandlerClients ==
  ASSUME NEW t \in Workers, HandlerStep(t)
  PROVE  UNCHANGED clients \/ CConnRemove(t)
<1> USE DEF table
<1>1. FileScan(t) \/ CreateSteps(t) => UNCHANGED clients
  BY DEF FileScan, GetFile, CheckName, EmptySlot, CreateSteps, CreateFile, CountFile, CreateOpen
<1>2. SimpleSteps(t) \/ RemoveSteps(t) \/ WriteSteps(t) => UNCHANGED clients
  BY DEF SimpleSteps, OpenFile, CloseFile, CloseBook, ReadFile, LockFile, UnlockFile,
         RemoveSteps, RemoveCheck, RemoveFile, RemoveBook,
         WriteSteps, CheckCapacity, Reserve, Apply, Release, Refuse
<1>3. EvictSteps(t) => UNCHANGED clients
  BY DEF EvictSteps, EvictPick, EvictChoose, EvictNone, EvictName, EvictSize, EvictUsage,
     EvictForce, EvictOpen,
         EvictRemove, EvictBook
<1>4. ReadNSteps(t) \/ HandlerFailed(t) => UNCHANGED clients
  BY DEF ReadNSteps, ReadNWasClosed, ReadNOpen, ReadNRead, ReadNClose, ReadNBook, ReadNName,
         HandlerFailed
<1>5. CloseConnSteps(t) => UNCHANGED clients \/ CConnRemove(t)
  BY DEF CloseConnSteps, CConnCheck, CConnClose, CConnBook
<1>6. QED
  BY <1>1, <1>2, <1>3, <1>4, <1>5 DEF HandlerStep

\* A framed change keeps the table typed and its sizes consistent.
LEMMA FrameFiles ==
  ASSUME BaseInv, NEW t \in Workers, FileFrame(t)
  PROVE  files' \in [Slots -> FileType] /\ SizesConsistent'
<1>1. files' \in [Slots -> FileType] /\ \A i \in Slots : Consistent(files'[i])
  BY BaseConsistent DEF FileFrame, ChangesOnly, AllConsistent, Consistent
<1>2. QED
  BY <1>1 DEF SizesConsistent, Consistent

\* A worker that takes a handler step is not idle.
LEMMA HandlerBusy ==
  ASSUME NEW t \in Workers, HandlerStep(t)
  PROVE  thr[t].pc # "idle"
  BY DEF HandlerStep, FileScan, GetFile, CheckName, EmptySlot, CreateSteps, CreateFile, CountFile,
         CreateOpen, SimpleSteps, OpenFile, CloseFile, CloseBook, ReadFile, LockFile, UnlockFile,
         RemoveSteps, RemoveCheck, RemoveFile, RemoveBook, WriteSteps, CheckCapacity, Reserve,
         Apply, Release, Refuse, EvictSteps, EvictPick, EvictChoose, EvictNone, EvictName,
         EvictSize, EvictUsage, EvictForce,
         EvictOpen, EvictRemove, EvictBook, ReadNSteps, ReadNWasClosed, ReadNOpen, ReadNRead,
         ReadNClose, ReadNBook, ReadNName, CloseConnSteps, CConnCheck, CConnClose, CConnBook,
         CConnRemove, HandlerFailed, At

\* A handler step keeps the base invariant.
LEMMA HandlerBase ==
  ASSUME BaseInv, EvictorExclusive, NEW t \in Workers, HandlerStep(t)
  PROVE  BaseInv'
<1>1. Frame(t) /\ Typed /\ (UNCHANGED clients \/ CConnRemove(t))
  BY HandlerFrame, HandlerTyped, HandlerClients
<1>2. files' \in [Slots -> FileType] /\ SizesConsistent'
  BY HandlerFileFrame, FrameFiles
<1>3. thr[t].pc # "idle"
  BY HandlerBusy
<1>4. \/ clients' = clients
      \/ clients' = clients \ {Conn(t)} /\ thr'[t] = IdleThread
  BY <1>1 DEF CConnRemove, Reply, BaseInv, TypeOK
<1>5. thr' \in [Workers -> ThreadType] /\ clients' \subseteq Conns
  BY <1>1, <1>4 DEF Frame, BaseInv, TypeOK
<1>6. ConnExclusive'
  <2>1. Conn(t) # NoConn /\ Conn(t) \in clients
    BY <1>3 DEF BaseInv, ConnExclusive, At
  <2>2. \A u \in Workers : u # t => thr'[u] = thr[u]
    BY <1>1 DEF Frame, BaseInv, TypeOK
  <2>3. thr'[t] = IdleThread \/ (thr'[t].conn = thr[t].conn /\ thr'[t].pc # "idle")
    BY <1>1 DEF Frame
  <2>4. QED
    BY <1>4, <2>1, <2>2, <2>3, IdleType DEF BaseInv, ConnExclusive, At, Conn
<1>7. ScanNamed'
  <2>1. \A u \in Workers : u # t => thr'[u] = thr[u]
    BY <1>1 DEF Frame, BaseInv, TypeOK
  <2>2. thr'[t].pc \in ScanPcs => thr[t].pc \in ScanPcs /\ thr'[t].req = thr[t].req
    BY <1>1, IdleType DEF Frame, ScanPcs
  <2>3. QED
    BY <2>1, <2>2 DEF BaseInv, ScanNamed, Req
<1>8. QED
  BY <1>1, <1>2, <1>5, <1>6, <1>7 DEF BaseInv, TypeOK, Typed

----------------------------------------------------------------------------
(* The base invariant holds at the start and is kept by the steps that are *)
(* not a handler's.                                                        *)

\* The invariant holds of the empty table and the idle workers.
LEMMA InitInv == Init => IInv
<1> SUFFICES ASSUME Init PROVE IInv
  OBVIOUS
<1>1. \A t \in Workers : thr[t] = IdleThread
  BY DEF Init
<1>2. \A i \in Slots : files[i] = EmptyFile
  BY DEF Init
<1>3. TypeOK
  BY IdleType, EmptyConsistent DEF Init, TypeOK, Consistent
<1>4. SizesConsistent
  BY <1>2, EmptyConsistent DEF SizesConsistent, Consistent
<1>5. ConnExclusive
  BY <1>1, IdleType DEF ConnExclusive, At, Conn
<1>6. /\ ScanNamed /\ CloseConnProgress /\ CloseConnAll /\ VictimOpen
  BY <1>1, IdleType DEF ScanNamed, CloseConnProgress, CloseConnAll, VictimOpen, At,
     ScanPcs, CloseConnPcs
<1>7. EvictorExclusive
  BY <1>1, <1>2, IdleType, OwnerAssumption DEF EvictorExclusive, Holds, EvictHoldPcs, EmptyFile
<1>8. StaleSlotHarmless
  BY <1>1, IdleType DEF StaleSlotHarmless, OwnerPcs, WritePcs, EvictPickPcs, EvictHoldPcs, At
<1>9. LockedFilesOpen
  BY <1>2, OwnerAssumption DEF LockedFilesOpen, EmptyFile, SpecialOwners
<1>10. QED
  BY <1>3, <1>4, <1>5, <1>6, <1>7, <1>8, <1>9 DEF IInv

\* What AddClient leaves alone.
LEMMA AddClientBase ==
  ASSUME BaseInv, NEW c \in Conns, AddClient(c)
  PROVE  BaseInv'
<1>1. /\ UNCHANGED <<files, thr>> /\ clients' = clients \union {c}
      /\ UNCHANGED <<current_storage, max_reached_storage, current_files, max_reached_files>>
      /\ lastop' = [lastop EXCEPT ![c] = NoName]
  BY DEF AddClient, counters
<1>2. TypeOK'
  BY <1>1 DEF BaseInv, TypeOK
<1>3. SizesConsistent' /\ ConnExclusive' /\ ScanNamed'
  BY <1>1 DEF BaseInv, SizesConsistent, ConnExclusive, ScanNamed, At, Conn, Req
<1>4. QED
  BY <1>2, <1>3 DEF BaseInv

\* A worker that receives a request was idle and starts, with fresh locals,
\* at the request's first step.
Starts(t) ==
    /\ At(t, "idle") /\ UNCHANGED <<files, counters, clients>>
    /\ lastop' \in [Conns -> Names \union {NoName}]
    /\ \E c \in clients, r \in Requests, l \in {"get_file", "readn_wasclosed", "cconn_check"} :
          /\ \A u \in Workers : Conn(u) # c
          /\ l = "get_file" => r.op \in NamedOps
          /\ thr' = [thr EXCEPT ![t] = [IdleThread EXCEPT !.pc = l, !.conn = c, !.req = r]]

\* Receiving a request is such a start.
LEMMA ReceiveStarts ==
  ASSUME BaseInv, NEW t \in Workers, Receive(t)
  PROVE  Starts(t)
<1>1. PICK c \in clients, r \in Requests :
         /\ \A u \in Workers : Conn(u) # c
         /\ ReceiveNamed(t, c, r) \/ ReceiveReadN(t, c, r) \/ ReceiveCloseConn(t, c, r)
  BY DEF Receive
<1>2. At(t, "idle")
  BY DEF Receive
<1>3. c \in Conns /\ lastop \in [Conns -> Names \union {NoName}]
  BY DEF BaseInv, TypeOK
<1>4. CASE ReceiveNamed(t, c, r)
  BY <1>1, <1>2, <1>3, <1>4 DEF ReceiveNamed, Begin, Starts
<1>5. CASE ReceiveReadN(t, c, r)
  BY <1>1, <1>2, <1>3, <1>5 DEF ReceiveReadN, Begin, Starts
<1>6. CASE ReceiveCloseConn(t, c, r)
  BY <1>1, <1>2, <1>3, <1>6 DEF ReceiveCloseConn, Begin, Starts, table
<1>7. QED
  BY <1>1, <1>4, <1>5, <1>6

\* A start keeps the base invariant: the connection was nobody else's.
LEMMA ReceiveBase ==
  ASSUME BaseInv, NEW t \in Workers, Starts(t)
  PROVE  BaseInv'
<1>1. PICK c \in clients, r \in Requests, l \in {"get_file", "readn_wasclosed", "cconn_check"} :
         /\ \A u \in Workers : Conn(u) # c
         /\ l = "get_file" => r.op \in NamedOps
         /\ thr' = [thr EXCEPT ![t] = [IdleThread EXCEPT !.pc = l, !.conn = c, !.req = r]]
  BY DEF Starts
<1> DEFINE s == [IdleThread EXCEPT !.pc = l, !.conn = c, !.req = r]
<1>2. s \in ThreadType /\ s.pc = l /\ s.conn = c /\ s.req = r
  <2>1. l \in Pcs
    BY DEF Pcs, ScanPcs, ReadNPcs, CloseConnPcs
  <2>2. c \in Conns
    BY DEF BaseInv, TypeOK
  <2>3. QED
    BY <2>1, <2>2, IdleType DEF IdleThread, ThreadType
<1>3. thr'[t] = s /\ \A u \in Workers : u # t => thr'[u] = thr[u]
  BY <1>1 DEF BaseInv, TypeOK
<1>4. TypeOK'
  BY <1>1, <1>2, <1>3 DEF Starts, BaseInv, TypeOK, counters
<1>5. SizesConsistent'
  BY DEF Starts, BaseInv, SizesConsistent
<1>6. ConnExclusive'
  <2>1. c # NoConn /\ l # "idle"
    BY StorageAssumption DEF BaseInv, TypeOK, Owners
  <2>2. clients' = clients
    BY DEF Starts
  <2>3. QED
    BY <1>1, <1>2, <1>3, <2>1, <2>2 DEF BaseInv, ConnExclusive, At, Conn
<1>7. ScanNamed'
  BY <1>1, <1>2, <1>3 DEF BaseInv, ScanNamed, Req, ScanPcs
<1>8. QED
  BY <1>4, <1>5, <1>6, <1>7 DEF BaseInv

----------------------------------------------------------------------------
(* Where a handler step takes its worker: the program counters of each     *)
(* family of steps, and what the step tells of the slot it looked at.      *)

\* What the ways of moving on do to the worker's own record.
LEMMA Moved ==
  ASSUME BaseInv, NEW t \in Workers
  PROVE  /\ \A l : Goto(t, l) =>
              /\ thr'[t].pc = l /\ thr'[t].fex = thr[t].fex /\ thr'[t].victim = thr[t].victim
              /\ thr'[t].req = thr[t].req /\ thr'[t].conn = thr[t].conn
         /\ \A l, i : GotoSlot(t, l, i) => thr'[t].pc = l /\ thr'[t].fex = i
         /\ Reply(t) => thr'[t] = IdleThread
         /\ \A l, n : thr' = [thr EXCEPT ![t].pc = l, ![t].size = n] =>
              thr'[t].pc = l /\ thr'[t].fex = thr[t].fex /\ thr'[t].victim = thr[t].victim
  BY DEF BaseInv, TypeOK, ThreadType, Goto, GotoSlot, Reply

SlotPcs == SimplePcs \union {"remove_check", "check_capacity"}

\* A scan goes on, ends, or hands the slot of the named file to the handler.
ScanFlow(t) ==
    /\ thr[t].pc \in ScanPcs /\ files' = files
    /\ \/ thr'[t] = IdleThread
       \/ thr'[t].pc \in ScanPcs \union {"create_file"}
       \/ thr'[t].pc \in SlotPcs /\ thr'[t].fex = thr[t].fex /\ fslot(t).name = Req(t).name

\* get_file and get_empty_slot flow as described.
LEMMA ScanFlows ==
  ASSUME BaseInv, NEW t \in Workers, FileScan(t)
  PROVE  ScanFlow(t)
<1>1. thr[t].pc \in ScanPcs /\ files' = files
  BY DEF FileScan, GetFile, CheckName, EmptySlot, At, ScanPcs
<1>2. FileNotFound(t) => thr'[t] = IdleThread \/ thr'[t].pc \in ScanPcs
  BY Moved DEF FileNotFound, ScanPcs
<1>3. GetFileNext(t) => thr'[t] = IdleThread \/ thr'[t].pc \in ScanPcs
  BY <1>2, Moved DEF GetFileNext, ScanPcs
<1>4. CASE GetFile(t)
  BY <1>1, <1>3, <1>4, Moved DEF GetFile, ScanFlow, ScanPcs
<1>5. CASE EmptySlot(t)
  BY <1>1, <1>5, Moved DEF EmptySlot, ScanFlow, ScanPcs
<1>6. CASE CheckName(t)
  <2>1. CASE FileFound(t) /\ check_file_name(fslot(t), Req(t).name)
    <3>1. Req(t).op \in NamedOps
      BY <1>1 DEF BaseInv, ScanNamed
    <3>2. FirstStep[Req(t).op] \in SlotPcs
      BY <3>1 DEF FirstStep, NamedOps, SlotPcs, SimplePcs
    <3>3. QED
      BY <1>1, <2>1, <3>2, Moved DEF FileFound, check_file_name, ScanFlow
  <2>2. CASE FileNotFound(t) \/ GetFileNext(t)
    BY <1>1, <1>2, <1>3, <2>2 DEF ScanFlow
  <2>3. QED
    BY <1>6, <2>1, <2>2 DEF CheckName
<1>7. QED
  BY <1>4, <1>5, <1>6 DEF FileScan

\* The steps of a creation, of the one-call handlers and of a removal.
CreateFlow(t) ==
    /\ thr[t].pc \in CreatePcs /\ thr'[t].pc # thr[t].pc
    /\ \/ thr'[t] = IdleThread
       \/ thr'[t].pc \in {"count_file", "create_open", "failed"} /\ thr'[t].fex = thr[t].fex
    /\ At(t, "create_open") => CreateOpen(t)
    /\ At(t, "count_file") => files' = files /\ thr'[t].pc = "create_open"

\* _open_file_create flows as described.
LEMMA CreateFlows ==
  ASSUME BaseInv, NEW t \in Workers, CreateSteps(t)
  PROVE  CreateFlow(t)
<1>1. CASE CreateFile(t)
  BY <1>1, Moved, IdleType DEF CreateFile, CreateFlow, CreatePcs, At
<1>2. CASE CountFile(t)
  BY <1>2, Moved DEF CountFile, CreateFlow, CreatePcs, At
<1>3. CASE CreateOpen(t)
  <2>1. At(t, "create_open") /\ (Reply(t) \/ Fail(t))
    BY <1>3 DEF CreateOpen
  <2>2. QED
    BY <1>3, <2>1, Moved, IdleType DEF Fail, CreateFlow, CreatePcs, At
<1>4. QED
  BY <1>1, <1>2, <1>3 DEF CreateSteps

SimpleFlow(t) ==
    /\ thr[t].pc \in SimplePcs \union {"close_book"} /\ thr'[t].pc # thr[t].pc
    /\ thr'[t] = IdleThread \/ thr'[t].pc = "close_book"

\* The one-call handlers flow as described.
LEMMA SimpleFlows ==
  ASSUME BaseInv, NEW t \in Workers, SimpleSteps(t)
  PROVE  SimpleFlow(t)
<1>1. CASE CloseFile(t)
  BY <1>1, Moved, IdleType DEF CloseFile, CloseSlot, SimpleFlow, SimplePcs, At
<1>2. CASE OpenFile(t) \/ CloseBook(t) \/ ReadFile(t) \/ LockFile(t) \/ UnlockFile(t)
  BY <1>2, Moved, IdleType
     DEF OpenFile, CloseBook, ReadFile, LockFile, UnlockFile, SimpleFlow, SimplePcs, At
<1>3. QED
  BY <1>1, <1>2 DEF SimpleSteps

RemoveFlow(t) ==
    /\ thr[t].pc \in RemovePcs \union {"remove_book"} /\ thr'[t].pc # thr[t].pc
    /\ \/ thr'[t] = IdleThread
       \/ thr'[t].pc = "remove_book"
       \/ /\ At(t, "remove_check") /\ files' = files
          /\ thr'[t].pc = "remove_file" /\ thr'[t].fex = thr[t].fex

\* do_remove_file flows as described.
LEMMA RemoveFlows ==
  ASSUME BaseInv, NEW t \in Workers, RemoveSteps(t)
  PROVE  RemoveFlow(t)
<1>1. CASE RemoveCheck(t)
  BY <1>1, Moved, IdleType DEF RemoveCheck, RemoveFlow, RemovePcs, At
<1>2. CASE RemoveFile(t)
  BY <1>2, Moved, IdleType DEF RemoveFile, RemoveFlow, RemovePcs, At
<1>3. CASE RemoveBook(t)
  BY <1>3, Moved, IdleType DEF RemoveBook, RemoveFlow, RemovePcs, At
<1>4. QED
  BY <1>1, <1>2, <1>3 DEF RemoveSteps

\* The steps of a write, which keep to their slot, and of the evictions in it.
WriteFlow(t) ==
    /\ thr[t].pc \in WritePcs /\ thr'[t].pc # thr[t].pc
    /\ \/ thr'[t] = IdleThread
       \/ thr'[t].pc \in {"failed", "aborted"}
       \/ /\ thr'[t].pc \in WritePcs \union {"evict_pick"}
          /\ thr'[t].fex = thr[t].fex /\ files' = files

\* do_write_file and do_append_file flow as described.
LEMMA WriteFlows ==
  ASSUME BaseInv, NEW t \in Workers, WriteSteps(t)
  PROVE  WriteFlow(t)
<1>1. CASE CheckCapacity(t) \/ Reserve(t)
  BY <1>1, Moved DEF CheckCapacity, Reserve, WriteFlow, WritePcs, At
<1>2. CASE Apply(t)
  BY <1>2, Moved, IdleType DEF Apply, WriteFlow, WritePcs, At
<1>3. CASE Release(t)
  BY <1>3, Moved, IdleType DEF Release, Refuse, Abort, Fail, WriteFlow, WritePcs, At
<1>4. QED
  BY <1>1, <1>2, <1>3 DEF WriteSteps

\* While it holds its victim the worker opens it, then removes it: neither can
\* fail.
EvictFlow(t) ==
    /\ thr[t].pc \in EvictingPcs /\ thr'[t].pc # thr[t].pc
    /\ thr'[t].pc \in EvictingPcs \union {"check_capacity"} /\ thr'[t].fex = thr[t].fex
    /\ \/ files' = files /\ thr[t].pc \notin EvictHoldPcs /\ thr'[t].pc \notin EvictHoldPcs
       \/ /\ thr'[t].victim = thr[t].victim /\ ChangesOnly(thr[t].victim)
          /\ \/ ForcesIn(t, thr[t].victim) /\ thr'[t].pc = "evict_open"
             \/ EvictsIn(t, thr[t].victim)

\* The scan and the end of cache_miss keep the slot of the named file.
LEMMA EvictLeft ==
  ASSUME BaseInv, NEW t \in Workers
  PROVE  /\ \A k : EvictNext(t, k) => thr'[t].pc = "evict_pick" /\ thr'[t].fex = thr[t].fex
         /\ EvictLeave(t) => thr'[t].pc = "check_capacity" /\ thr'[t].fex = thr[t].fex
         /\ EvictChoose(t) => thr'[t].pc = "evict_force" /\ thr'[t].fex = thr[t].fex
  BY DEF BaseInv, TypeOK, ThreadType, EvictNext, EvictLeave, EvictChoose

\* cache_miss and delete_evicted flow as described.
LEMMA EvictFlows ==
  ASSUME BaseInv, EvictorExclusive, VictimOpen, NEW t \in Workers, EvictSteps(t)
  PROVE  EvictFlow(t)
<1> DEFINE f == vslot(t)
           i == thr[t].victim
<1> USE DEF EvictPickPcs, EvictHoldPcs
<1>1. CASE EvictPick(t)
  <2>1. PICK j \in Slots : thr' = [thr EXCEPT ![t].pc = "evict_name", ![t].victim = j]
    BY <1>1 DEF EvictPick
  <2>2. thr'[t].pc = "evict_name" /\ thr'[t].fex = thr[t].fex
    BY <2>1 DEF BaseInv, TypeOK, ThreadType
  <2>3. QED
    BY <1>1, <2>2 DEF EvictPick, EvictFlow, EvictingPcs, At
<1>2. CASE EvictName(t) \/ EvictSize(t) \/ EvictUsage(t) \/ EvictChoose(t)
           \/ EvictNone(t) \/ EvictBook(t)
  <2>1. files' = files /\ thr[t].pc \in EvictingPcs \ EvictHoldPcs
    BY <1>2 DEF EvictName, EvictSize, EvictUsage, EvictChoose, EvictNone, EvictBook, EvictingPcs, At
  <2>2. CASE EvictName(t) \/ EvictSize(t) \/ EvictUsage(t)
    BY <2>1, <2>2, Moved, EvictLeft DEF EvictName, EvictSize, EvictUsage, EvictFlow, EvictingPcs, At
  <2>3. CASE EvictNone(t) \/ EvictBook(t)
    BY <2>1, <2>3, EvictLeft DEF EvictNone, EvictBook, EvictFlow, EvictingPcs, At
  <2>4. CASE EvictChoose(t)
    <3>1. thr[t].pc = "evict_pick"
      BY <2>4 DEF EvictChoose, At
    <3>2. QED
      BY <2>1, <2>4, <3>1, EvictLeft DEF EvictFlow, EvictingPcs
  <2>5. QED
    BY <1>2, <2>2, <2>3, <2>4
<1>3. CASE EvictForce(t)
  <2>1. CASE ~CanForce(f)
    BY <1>3, <2>1, EvictLeft DEF EvictForce, EvictFlow, EvictingPcs, At
  <2>2. CASE CanForce(f)
    <3>1. /\ SetFile(i, force_owner(f)) /\ thr' = [thr EXCEPT ![t].pc = "evict_open"]
          /\ is_existing_file(f) /\ f.owner # OWNER_ADMIN /\ At(t, "evict_force")
      BY <1>3, <2>2 DEF EvictForce, CanForce, Goto
    <3>2. i \in Slots /\ Consistent(force_owner(f))
      BY <3>1, SlotConsistent, OwnerConsistent, OwnerAssumption
         DEF force_owner, Owners, SpecialOwners
    <3>3. ChangesOnly(i) /\ ForcesIn(t, i)
      BY <3>1, <3>2, SetFileChanges DEF ForcesIn, vslot
    <3>4. Goto(t, "evict_open")
      BY <3>1 DEF Goto
    <3>5. QED
      BY <3>1, <3>3, <3>4, Moved DEF EvictFlow, EvictingPcs, At
  <2>3. QED
    BY <2>1, <2>2
<1>4. CASE EvictOpen(t)
  <2>1. Holds(t, i) /\ i \in Slots /\ Consistent(f)
    BY <1>4, SlotConsistent DEF EvictOpen, Holds, At
  <2>2. f.owner = OWNER_ADMIN /\ is_existing_file(f)
    BY <2>1, OwnerAssumption DEF EvictorExclusive, vslot, is_existing_file
  <2>3. CanOpen(f, OWNER_ADMIN)
    BY <2>2 DEF CanOpen, Accessible
  <2>4. SetFile(i, open_file(f, OWNER_ADMIN)) /\ Goto(t, "evict_remove")
    BY <1>4, <2>3 DEF EvictOpen
  <2>5. /\ Consistent(open_file(f, OWNER_ADMIN))
        /\ open_file(f, OWNER_ADMIN).owner = OWNER_ADMIN
        /\ is_open_file(open_file(f, OWNER_ADMIN))
        /\ open_file(f, OWNER_ADMIN).name = f.name
    BY <2>1, <2>2, OpenConsistent, OwnerAssumption DEF Owners, SpecialOwners
  <2>6. ChangesOnly(i) /\ EvictsIn(t, i)
    BY <2>1, <2>2, <2>4, <2>5, SetFileChanges DEF EvictsIn, vslot, Goto
  <2>7. QED
    BY <1>4, <2>4, <2>6, Moved DEF EvictOpen, EvictFlow, EvictingPcs, At
<1>5. CASE EvictRemove(t)
  <2>1. Holds(t, i) /\ i \in Slots /\ is_open_file(f)
    BY <1>5, SlotConsistent DEF EvictRemove, Holds, At, VictimOpen
  <2>2. f.owner = OWNER_ADMIN /\ is_existing_file(f)
    BY <2>1, OwnerAssumption DEF EvictorExclusive, vslot, is_existing_file
  <2>3. CanRead(f, OWNER_ADMIN) /\ CanRemove(f, OWNER_ADMIN)
    BY <2>1, <2>2, OwnerAssumption DEF CanRead, CanRemove, Accessible, is_locked_file
  <2>4. /\ SetFile(i, EmptyFile)
        /\ thr' = [thr EXCEPT ![t].pc = "evict_book", ![t].size = get_size(f)]
    BY <1>5, <2>3 DEF EvictRemove
  <2>5. ChangesOnly(i) /\ EvictsIn(t, i)
    BY <2>1, <2>2, <2>4, EmptyConsistent, SetFileChanges, Moved DEF EvictsIn, vslot
  <2>6. thr'[t].pc = "evict_book" /\ thr'[t].fex = thr[t].fex /\ thr'[t].victim = thr[t].victim
    BY <2>4 DEF BaseInv, TypeOK, ThreadType
  <2>7. QED
    BY <1>5, <2>5, <2>6 DEF EvictRemove, EvictFlow, EvictingPcs, At
<1>6. QED
  BY <1>1, <1>2, <1>3, <1>4, <1>5 DEF EvictSteps

\* The steps of readN.
ReadNFlow(t) ==
    /\ thr[t].pc \in ReadNPcs \union {"readn_book"} /\ thr'[t].pc # thr[t].pc
    /\ \/ thr'[t] = IdleThread
       \/ thr'[t].pc \in ReadNPcs \union {"readn_book", "failed"}

\* do_readn_files flows as described.
LEMMA ReadNFlows ==
  ASSUME BaseInv, NEW t \in Workers, ReadNSteps(t)
  PROVE  ReadNFlow(t)
<1> USE DEF ReadNPcs
<1>1. \A k : ReadNNext(t, k) => thr'[t] = IdleThread \/ thr'[t].pc = "readn_wasclosed"
  BY Moved DEF ReadNNext, BaseInv, TypeOK, ThreadType
<1>2. \A ok : ReadNAfter(t, ok) =>
         thr'[t] = IdleThread \/ thr'[t].pc \in {"readn_name", "readn_wasclosed"}
  BY <1>1, Moved DEF ReadNAfter
<1>3. CASE ReadNWasClosed(t)
  BY <1>3 DEF ReadNWasClosed, ReadNFlow, At, BaseInv, TypeOK, ThreadType
<1>4. CASE ReadNOpen(t)
  BY <1>1, <1>4, Moved, IdleType DEF ReadNOpen, ReadNFlow, At
<1>5. CASE ReadNRead(t)
  <2>1. thr'[t] = IdleThread \/ thr'[t].pc \in {"readn_close", "readn_name", "readn_wasclosed"}
    BY <1>2, <1>5 DEF ReadNRead, BaseInv, TypeOK, ThreadType
  <2>2. QED
    BY <1>5, <2>1, IdleType DEF ReadNRead, ReadNFlow, At
<1>6. CASE ReadNClose(t)
  BY <1>6, Moved DEF ReadNClose, CloseSlot, ReadNFlow, At
<1>7. CASE ReadNBook(t)
  BY <1>2, <1>7, IdleType DEF ReadNBook, ReadNFlow, At
<1>8. CASE ReadNName(t)
  BY <1>1, <1>8, Moved, IdleType DEF ReadNName, Fail, ReadNFlow, At
<1>9. QED
  BY <1>3, <1>4, <1>5, <1>6, <1>7, <1>8 DEF ReadNSteps

\* The steps of a closing connection: a slot is left once it is not, or no
\* longer, the client's.
ClosingPcs == CloseConnPcs \union {"cconn_book"}
CloseConnFlow(t) ==
    /\ thr[t].pc \in ClosingPcs
    /\ thr'[t].pc # thr[t].pc \/ files' = files
    /\ \/ thr'[t] = IdleThread /\ CConnRemove(t)
       \/ CConnClose(t) /\ thr'[t].pc = "cconn_book" /\ thr'[t].fex = thr[t].fex
       \/ /\ At(t, "cconn_check") /\ files' = files
          /\ thr'[t].pc = "cconn_close" /\ thr'[t].fex = thr[t].fex
       \/ /\ At(t, "cconn_check") => ~is_locked_file(fslot(t), Conn(t))
          /\ thr[t].pc \in {"cconn_check", "cconn_book"}
          /\ files' = files
          /\ \/ thr'[t].pc = "cconn_check" /\ thr'[t].fex = thr[t].fex + 1
             \/ /\ thr'[t].pc = "cconn_remove" /\ thr'[t].fex = thr[t].fex
                /\ thr[t].fex = NumFiles

\* do_close_connection flows as described.
LEMMA CloseConnFlows ==
  ASSUME BaseInv, NEW t \in Workers, CloseConnSteps(t)
  PROVE  CloseConnFlow(t)
<1> USE DEF CloseConnPcs, ClosingPcs
<1>1. CConnNext(t) =>
         \/ thr'[t].pc = "cconn_check" /\ thr'[t].fex = thr[t].fex + 1
         \/ /\ thr'[t].pc = "cconn_remove" /\ thr'[t].fex = thr[t].fex
            /\ thr[t].fex = NumFiles
  BY Moved, NextSlot, StorageAssumption DEF CConnNext, Slots, BaseInv
<1>2. thr[t].fex \in Int
  BY NextSlot DEF Slots, BaseInv
<1>3. CASE CConnCheck(t)
  BY <1>1, <1>2, <1>3, Moved DEF CConnCheck, CloseConnFlow, At
<1>4. CASE CConnClose(t)
  <2>1. thr'[t].pc = "cconn_book" /\ thr'[t].fex = thr[t].fex
    BY <1>4 DEF CConnClose, CloseSlot, BaseInv, TypeOK, ThreadType
  <2>2. QED
    BY <1>4, <2>1 DEF CConnClose, CloseConnFlow, At
<1>5. CASE CConnBook(t)
  BY <1>1, <1>2, <1>5 DEF CConnBook, CloseConnFlow, At
<1>6. CASE CConnRemove(t)
  BY <1>6, Moved, IdleType DEF CConnRemove, CloseConnFlow, At
<1>7. QED
  BY <1>3, <1>4, <1>5, <1>6 DEF CloseConnSteps

----------------------------------------------------------------------------
(* A handler step belongs to one family; all but the evicting ones change  *)
(* at most a slot the client may use.                                      *)

PlainFiles(t) ==
    \/ files' = files
    \/ \E i \in Slots : ChangesOnly(i) /\ (CreatesIn(t, i) \/ UsesIn(t, i))

PlainFlow(t) ==
    /\ thr[t].pc \notin EvictingPcs /\ thr'[t].pc \notin EvictHoldPcs
    /\ PlainFiles(t)
    /\ \/ ScanFlow(t) \/ CreateFlow(t) \/ SimpleFlow(t) \/ RemoveFlow(t) \/ WriteFlow(t)
       \/ ReadNFlow(t) \/ CloseConnFlow(t)
       \/ thr'[t] = IdleThread /\ files' = files /\ At(t, "failed")

\* A handler step is one of an eviction or a plain one.
LEMMA HandlerFlows ==
  ASSUME BaseInv, EvictorExclusive, VictimOpen, NEW t \in Workers, HandlerStep(t)
  PROVE  EvictFlow(t) \/ PlainFlow(t)
<1> SUFFICES ASSUME ~EvictSteps(t) PROVE PlainFlow(t)
  BY EvictFlows
<1> DEFINE Families ==
             \/ ScanFlow(t) \/ CreateFlow(t) \/ SimpleFlow(t) \/ RemoveFlow(t) \/ WriteFlow(t)
             \/ ReadNFlow(t) \/ CloseConnFlow(t)
             \/ thr'[t] = IdleThread /\ files' = files /\ At(t, "failed")
<1>1. Families
  <2>1. HandlerFailed(t) => thr'[t] = IdleThread /\ files' = files /\ At(t, "failed")
    BY Moved DEF HandlerFailed
  <2>2. QED
    BY <2>1, ScanFlows, CreateFlows, SimpleFlows, RemoveFlows, WriteFlows, ReadNFlows,
       CloseConnFlows DEF HandlerStep
<1>2. thr[t].pc \notin EvictingPcs
  BY <1>1 DEF ScanFlow, CreateFlow, SimpleFlow, RemoveFlow, WriteFlow, ReadNFlow, CloseConnFlow,
     EvictingPcs, EvictPickPcs, EvictHoldPcs, ScanPcs, CreatePcs, SimplePcs, RemovePcs, WritePcs,
     ReadNPcs, ClosingPcs, CloseConnPcs, At
<1>3. thr'[t].pc \notin EvictHoldPcs
  BY <1>1, IdleType DEF ScanFlow, CreateFlow, SimpleFlow, RemoveFlow, WriteFlow, ReadNFlow,
     CloseConnFlow, EvictHoldPcs, ScanPcs, SlotPcs, SimplePcs, WritePcs, ReadNPcs
<1>4. PlainFiles(t)
  <2>1. FileFrame(t)
    BY HandlerFileFrame
  <2>2. \A i : ~ForcesIn(t, i) /\ ~EvictsIn(t, i)
    BY <1>2 DEF ForcesIn, EvictsIn, Holds, EvictingPcs, EvictPickPcs, At
  <2>3. QED
    BY <2>1, <2>2 DEF FileFrame, PlainFiles
<1>5. QED
  BY <1>1, <1>2, <1>3, <1>4 DEF PlainFlow

\* A handler step leaves the other workers alone, and its own worker keeps its
\* client and request or goes idle.
LEMMA OthersKeep ==
  ASSUME BaseInv, NEW t \in Workers, HandlerStep(t)
  PROVE  /\ \A u \in Workers : u # t => thr'[u] = thr[u]
         /\ thr'[t] = IdleThread \/ (Conn(t)' = Conn(t) /\ Req(t)' = Req(t))
  BY HandlerFrame DEF Frame, BaseInv, TypeOK, Conn, Req

\* What happens to the slots a plain step changes.
LEMMA PlainSlots ==
  ASSUME BaseInv, NEW t \in Workers, HandlerStep(t), PlainFiles(t), NEW i \in Slots,
         files'[i] # files[i]
  PROVE  /\ CreatesIn(t, i) \/ UsesIn(t, i)
         /\ i = thr[t].fex
         /\ Conn(t) \in Conns /\ Conn(t) \notin SpecialOwners
         /\ files[i].owner \in {OWNER_NEXIST, OWNER_NULL, Conn(t)}
         /\ files'[i].owner \in {OWNER_NEXIST, OWNER_NULL, Conn(t)}
<1>1. PICK j \in Slots : ChangesOnly(j) /\ (CreatesIn(t, j) \/ UsesIn(t, j))
  BY DEF PlainFiles
<1>2. j = i
  BY <1>1 DEF ChangesOnly, BaseInv, TypeOK
<1>3. thr[t].pc # "idle"
  BY HandlerBusy
<1>4. Conn(t) \in Conns /\ Conn(t) \notin SpecialOwners /\ OpenOwner(t) \in {OWNER_NULL, Conn(t)}
  BY <1>3, BusyConn
<1>5. QED
  BY <1>1, <1>2, <1>4 DEF CreatesIn, UsesIn, is_existing_file, EmptyFile

----------------------------------------------------------------------------
(* Exclusive eviction.                                                     *)

\* A handler step keeps a victim with the one worker that evicts it.
LEMMA EvictorStep ==
  ASSUME BaseInv, EvictorExclusive, VictimOpen, NEW t \in Workers, HandlerStep(t)
  PROVE  EvictorExclusive' /\ VictimOpen'
<1>1. \A u \in Workers : u # t => thr'[u] = thr[u]
  BY OthersKeep
<1>2. \A u \in Workers : u # t => \A i \in Slots : Holds(u, i)' <=> Holds(u, i)
  BY <1>1 DEF Holds
<1>3. CASE PlainFlow(t)
  <2>1. \A i \in Slots : ~Holds(t, i) /\ ~Holds(t, i)'
    BY <1>3 DEF PlainFlow, Holds, EvictingPcs
  <2>2. \A i \in Slots : files'[i].owner = OWNER_ADMIN <=> files[i].owner = OWNER_ADMIN
    BY <1>3, PlainSlots, OwnerAssumption DEF PlainFlow, SpecialOwners
  <2>3. EvictorExclusive'
    BY <1>2, <2>1, <2>2 DEF EvictorExclusive
  <2>4. ASSUME NEW u \in Workers, At(u, "evict_remove")' PROVE is_open_file(vslot(u)')
    <3>1. u # t /\ thr'[u] = thr[u] /\ At(u, "evict_remove") /\ Holds(u, thr[u].victim)
      BY <1>1, <1>3, <2>4 DEF PlainFlow, At, EvictHoldPcs, Holds
    <3>2. thr[u].victim \in Slots /\ files[thr[u].victim].owner = OWNER_ADMIN
      BY <3>1, NextSlot DEF EvictorExclusive, BaseInv
    <3>3. files'[thr[u].victim] = files[thr[u].victim]
      BY <1>3, <3>2, PlainSlots, OwnerAssumption DEF PlainFlow, SpecialOwners
    <3>4. QED
      BY <3>1, <3>3 DEF VictimOpen, vslot
  <2>5. QED
    BY <2>3, <2>4 DEF VictimOpen
<1>4. CASE EvictFlow(t)
  <2> DEFINE v == thr[t].victim
  <2>1. v \in Slots
    BY NextSlot DEF BaseInv
  <2>2. CASE files' = files /\ thr[t].pc \notin EvictHoldPcs /\ thr'[t].pc \notin EvictHoldPcs
    <3>1. \A i \in Slots : ~Holds(t, i) /\ ~Holds(t, i)'
      BY <2>2 DEF Holds
    <3>2. QED
      BY <1>1, <1>2, <2>2, <3>1 DEF EvictorExclusive, VictimOpen, vslot, At, EvictHoldPcs
  <2>3. CASE thr'[t].victim = v /\ ChangesOnly(v) /\ ForcesIn(t, v) /\ thr'[t].pc = "evict_open"
    <3>1. files'[v].owner = OWNER_ADMIN /\ \A i \in Slots : i # v => files'[i] = files[i]
      BY <2>1, <2>3 DEF ChangesOnly, ForcesIn, force_owner, BaseInv, TypeOK, FileType
    <3>2. \A i \in Slots : ~Holds(t, i) /\ (Holds(t, i)' <=> i = v)
      BY <2>3 DEF Holds, EvictHoldPcs, ForcesIn, At
    <3>3. \A u \in Workers : ~Holds(u, v)
      BY <2>1, <2>3 DEF EvictorExclusive, ForcesIn
    <3>4. EvictorExclusive'
      BY <1>2, <2>1, <3>1, <3>2, <3>3 DEF EvictorExclusive
    <3>5. \A u \in Workers : At(u, "evict_remove")' =>
             u # t /\ At(u, "evict_remove") /\ thr[u].victim # v /\ thr[u].victim \in Slots
      BY <1>1, <2>3, <3>3, NextSlot DEF At, Holds, EvictHoldPcs, BaseInv
    <3>6. QED
      BY <1>1, <3>1, <3>4, <3>5 DEF VictimOpen, vslot
  <2>4. CASE thr'[t].victim = v /\ ChangesOnly(v) /\ EvictsIn(t, v)
    <3>1. \A i \in Slots : i # v => files'[i] = files[i]
      BY <2>1, <2>4 DEF ChangesOnly, BaseInv, TypeOK
    <3>2. Holds(t, v) /\ \A i \in Slots : Holds(t, i) <=> i = v
      BY <2>4 DEF EvictsIn, Holds
    <3>3. \A u \in Workers : Holds(u, v) => u = t
      BY <2>1, <3>2 DEF EvictorExclusive
    <3>4. \/ /\ files'[v].owner = OWNER_ADMIN /\ is_open_file(files'[v])
             /\ \A i \in Slots : Holds(t, i)' <=> i = v
          \/ /\ files'[v].owner # OWNER_ADMIN
             /\ \A i \in Slots : ~Holds(t, i)'
      BY <2>4, OwnerAssumption
         DEF EvictsIn, Holds, EvictHoldPcs, EmptyFile, BaseInv, TypeOK, ThreadType
    <3>5. EvictorExclusive'
      BY <1>2, <2>1, <3>1, <3>2, <3>3, <3>4 DEF EvictorExclusive
    <3>6. \A u \in Workers : u # t /\ At(u, "evict_remove")' =>
             At(u, "evict_remove") /\ thr[u].victim # v /\ thr[u].victim \in Slots
      BY <1>1, <3>3, NextSlot DEF At, Holds, EvictHoldPcs, BaseInv
    <3>7. At(t, "evict_remove")' => is_open_file(files'[v]) /\ thr'[t].victim = v
      BY <2>4 DEF EvictsIn, At
    <3>8. QED
      BY <1>1, <3>1, <3>5, <3>6, <3>7 DEF VictimOpen, vslot
  <2>5. QED
    BY <1>4, <2>2, <2>3, <2>4 DEF EvictFlow
<1>5. QED
  BY <1>3, <1>4, HandlerFlows

----------------------------------------------------------------------------
(* Locks: no step gives or keeps a slot for a client but the steps of the  *)
(* worker that serves it.                                                  *)

\* A slot a client owns after a step was its own before and is unchanged, or
\* the step was its own worker's.
LEMMA OwnedAfter ==
  ASSUME BaseInv, EvictorExclusive, VictimOpen, NEW t \in Workers, HandlerStep(t),
         NEW i \in Slots, files'[i].owner \in Conns
  PROVE  \/ files'[i] = files[i]
         \/ /\ PlainFlow(t) /\ i = thr[t].fex /\ files'[i].owner = Conn(t)
            /\ CreatesIn(t, i) \/ UsesIn(t, i)
<1>1. SUFFICES ASSUME files'[i] # files[i]
               PROVE  /\ PlainFlow(t) /\ i = thr[t].fex /\ files'[i].owner = Conn(t)
                      /\ CreatesIn(t, i) \/ UsesIn(t, i)
  OBVIOUS
<1>2. files'[i].owner \notin SpecialOwners
  BY OwnerAssumption
<1>3. CASE EvictFlow(t)
  <2> DEFINE v == thr[t].victim
  <2>1. v \in Slots /\ ChangesOnly(v) /\ (ForcesIn(t, v) \/ EvictsIn(t, v))
    BY <1>1, <1>3, NextSlot DEF EvictFlow, BaseInv
  <2>2. i = v
    BY <1>1, <2>1 DEF ChangesOnly, BaseInv, TypeOK
  <2>3. files'[v].owner \in {OWNER_ADMIN, OWNER_NEXIST}
    BY <2>1 DEF ForcesIn, EvictsIn, force_owner, EmptyFile, BaseInv, TypeOK, FileType
  <2>4. QED
    BY <1>2, <2>2, <2>3 DEF SpecialOwners
<1>4. CASE PlainFlow(t)
  BY <1>1, <1>2, <1>4, PlainSlots DEF PlainFlow, SpecialOwners
<1>5. QED
  BY <1>3, <1>4, HandlerFlows

\* A creation that finds its file still its own opens it.
LEMMA CreateOpens ==
  ASSUME BaseInv, NEW t \in Workers, CreateOpen(t), NEW i \in Slots, i = thr[t].fex,
         files[i].owner = OpenOwner(t)
  PROVE  is_open_file(files'[i])
<1>1. At(t, "create_open") /\ thr[t].pc # "idle"
  BY DEF CreateOpen, At
<1>2. OpenOwner(t) \in {OWNER_NULL, Conn(t)} /\ Conn(t) \notin SpecialOwners /\ Conn(t) \in Owners
      /\ OWNER_NULL \in Owners
  BY <1>1, BusyConn
<1>3. OpenOwner(t) # OWNER_NEXIST
  BY <1>2, OwnerAssumption DEF SpecialOwners
<1>4. CanOpen(files[i], OpenOwner(t)) /\ is_existing_file(files[i])
  BY <1>3 DEF CanOpen, Accessible, is_existing_file
<1>5. files' = [files EXCEPT ![i] = open_file(files[i], OpenOwner(t))]
  BY <1>4 DEF CreateOpen, fslot, SetFile
<1>6. Consistent(files[i])
  BY BaseConsistent DEF AllConsistent
<1>7. is_open_file(open_file(files[i], OpenOwner(t)))
  BY <1>2, <1>3, <1>4, <1>6, OpenConsistent
<1>8. QED
  BY <1>5, <1>7 DEF BaseInv, TypeOK

\* After a handler step a locked file is still open, and its client connected.
LEMMA LockedStep ==
  ASSUME BaseInv, EvictorExclusive, VictimOpen, LockedFilesOpen, CloseConnProgress,
         CloseConnAll, NEW t \in Workers, HandlerStep(t)
  PROVE  LockedFilesOpen'
<1> SUFFICES ASSUME NEW i \in Slots, files'[i].owner \in Conns
             PROVE  /\ files'[i].owner \in clients'
                    /\ \/ is_open_file(files'[i])
                       \/ \E u \in Workers : Creating(u, i)' /\ OpenOwner(u)' = files'[i].owner
  BY DEF LockedFilesOpen
<1> DEFINE o == files'[i].owner
<1>1. \A u \in Workers : u # t =>
         thr'[u] = thr[u] /\ (Creating(u, i)' <=> Creating(u, i)) /\ OpenOwner(u)' = OpenOwner(u)
  BY OthersKeep DEF Creating, OpenOwner, Wants, Req, Conn
<1>2. thr[t].pc # "idle" /\ Conn(t) \in clients
  BY HandlerBusy DEF BaseInv, ConnExclusive, At
<1>3. o \in clients'
  <2>1. CASE CConnRemove(t)
    <3>1. /\ clients' = clients \ {Conn(t)} /\ files' = files /\ thr[t].fex = NumFiles
          /\ At(t, "cconn_remove")
      BY <2>1 DEF CConnRemove, CloseConnAll
    <3>2. i =< NumFiles /\ i \in Int /\ NumFiles \in Int
      BY StorageAssumption DEF Slots
    <3>3. files[i].owner # Conn(t)
      BY <3>1, <3>2 DEF CloseConnProgress, CloseConnPcs, At
    <3>4. QED
      BY <3>1, <3>3 DEF LockedFilesOpen
  <2>2. CASE clients' = clients
    BY <1>2, <2>2, OwnedAfter DEF LockedFilesOpen
  <2>3. QED
    BY <2>1, <2>2, HandlerClients
<1>4. CASE files'[i] = files[i]
  <2>1. is_open_file(files[i]) \/ \E u \in Workers : Creating(u, i) /\ OpenOwner(u) = o
    BY <1>4 DEF LockedFilesOpen
  <2>2. CASE Creating(t, i) /\ OpenOwner(t) = o
    <3>1. PlainFlow(t) /\ thr[t].fex = i
      BY <2>2, HandlerFlows DEF Creating, EvictFlow, EvictingPcs, EvictPickPcs, EvictHoldPcs
    <3>2. CreateFlow(t)
      BY <2>2, <3>1 DEF Creating, PlainFlow, ScanFlow, SimpleFlow, RemoveFlow, WriteFlow,
         ReadNFlow, CloseConnFlow, ScanPcs, SimplePcs, RemovePcs, WritePcs, ReadNPcs, ClosingPcs,
         CloseConnPcs, At
    <3>3. CASE At(t, "create_open")
      BY <1>3, <1>4, <2>2, <3>1, <3>2, <3>3, CreateOpens DEF CreateFlow
    <3>4. CASE At(t, "count_file")
      <4>1. thr'[t].pc = "create_open" /\ thr'[t].fex = i /\ thr'[t] # IdleThread
        BY <3>1, <3>2, <3>4, IdleType DEF CreateFlow
      <4>2. Creating(t, i)' /\ OpenOwner(t)' = OpenOwner(t)
        BY <4>1, OthersKeep DEF Creating, OpenOwner, Wants
      <4>3. QED
        BY <1>3, <1>4, <2>2, <4>2
    <3>5. QED
      BY <2>2, <3>3, <3>4 DEF Creating, At
  <2>3. QED
    BY <1>1, <1>3, <1>4, <2>1, <2>2
<1>5. CASE files'[i] # files[i]
  <2>1. i = thr[t].fex /\ o = Conn(t) /\ (CreatesIn(t, i) \/ UsesIn(t, i))
    BY <1>5, OwnedAfter
  <2>2. CASE UsesIn(t, i)
    BY <1>3, <2>1, <2>2, OwnerAssumption DEF UsesIn, EmptyFile, SpecialOwners
  <2>3. CASE CreatesIn(t, i)
    <3>1. thr'[t].pc = "count_file" /\ thr'[t].fex = i /\ thr'[t].req = thr[t].req
          /\ thr'[t].conn = thr[t].conn
      BY <2>1, <2>3 DEF CreatesIn, BaseInv, TypeOK, ThreadType
    <3>2. Creating(t, i)' /\ OpenOwner(t)' = o
      BY <2>3, <3>1 DEF CreatesIn, Creating, OpenOwner, Wants, Req, Conn
    <3>3. QED
      BY <1>3, <3>2
  <2>4. QED
    BY <2>1, <2>2, <2>3
<1>6. QED
  BY <1>4, <1>5

\* A worker that is closing its client's connection stays ahead of its locks.
LEMMA ClosingStep ==
  ASSUME BaseInv, EvictorExclusive, VictimOpen, LockedFilesOpen, CloseConnProgress,
         CloseConnAll, NEW t \in Workers, HandlerStep(t)
  PROVE  CloseConnProgress' /\ CloseConnAll'
<1> DEFINE Past(u, i) == \/ i < thr[u].fex
                         \/ i = thr[u].fex /\ thr[u].pc \in {"cconn_book", "cconn_remove"}
<1>1. \A u \in Workers : u # t => thr'[u] = thr[u] /\ Conn(u)' = Conn(u)
  BY OthersKeep DEF Conn
<1>2. thr'[t].pc \in ClosingPcs => PlainFlow(t) /\ CloseConnFlow(t) /\ Conn(t)' = Conn(t)
  <2>1. ~EvictFlow(t) \/ thr'[t].pc \notin ClosingPcs
    BY DEF EvictFlow, EvictingPcs, EvictPickPcs, EvictHoldPcs, ClosingPcs, CloseConnPcs
  <2>2. PlainFlow(t) /\ thr'[t].pc \in ClosingPcs => CloseConnFlow(t) /\ thr'[t] # IdleThread
    BY IdleType DEF PlainFlow, ScanFlow, CreateFlow, SimpleFlow, RemoveFlow, WriteFlow,
       ReadNFlow, ScanPcs, SlotPcs, SimplePcs, WritePcs, ReadNPcs, ClosingPcs, CloseConnPcs
  <2>3. QED
    BY <2>1, <2>2, HandlerFlows, OthersKeep
<1>3. CloseConnAll'
  <2>1. At(t, "cconn_remove")' => thr'[t].fex = NumFiles
    BY <1>2, IdleType DEF CloseConnFlow, ClosingPcs, CloseConnPcs, At
  <2>2. QED
    BY <1>1, <2>1 DEF CloseConnAll, At
<1>4. ASSUME NEW u \in Workers, u # t, NEW i \in Slots, thr[u].pc \in ClosingPcs, Past(u, i)
      PROVE  files'[i].owner # Conn(u)
  <2>1. Conn(u) \in Conns /\ Conn(u) # Conn(t)
    BY <1>4, BusyConn DEF ClosingPcs, CloseConnPcs, BaseInv, ConnExclusive, At
  <2>2. files[i].owner # Conn(u)
    BY <1>4 DEF CloseConnProgress, ClosingPcs
  <2>3. QED
    BY <2>1, <2>2, OwnedAfter
<1>5. ASSUME NEW i \in Slots, thr'[t].pc \in ClosingPcs, Past(t, i)'
      PROVE  files'[i].owner # Conn(t)
  <2>1. CloseConnFlow(t) /\ thr'[t].pc # "idle"
    BY <1>2, <1>5 DEF ClosingPcs, CloseConnPcs
  <2>2. thr[t].fex \in Int /\ i \in Int /\ thr[t].fex \in Slots
    BY NextSlot DEF Slots, BaseInv
  <2>3. \A j \in Slots : j < thr[t].fex => files[j].owner # Conn(t)
    BY <2>1 DEF CloseConnProgress, CloseConnFlow, ClosingPcs
  <2>4. CASE CConnClose(t) /\ thr'[t].pc = "cconn_book" /\ thr'[t].fex = thr[t].fex
    <3>1. i < thr[t].fex \/ i = thr[t].fex
      BY <1>5, <2>4
    <3>2. At(t, "cconn_close") /\ Conn(t) \in Conns /\ Conn(t) # OWNER_NULL
      BY <2>4, BusyConn DEF CConnClose, At, SpecialOwners
    <3>3. CASE i < thr[t].fex
      <4>1. files[i].owner # Conn(t) /\ i # thr[t].fex
        BY <2>2, <2>3, <3>3
      <4>2. files'[i] = files[i]
        BY <2>4, <4>1 DEF CConnClose, CloseSlot, SetFile, BaseInv, TypeOK
      <4>3. QED
        BY <4>1, <4>2
    <3>4. CASE i = thr[t].fex /\ ~CanClose(files[i], Conn(t))
      <4>1. files' = files
        BY <2>4, <3>4 DEF CConnClose, CloseSlot, fslot
      <4>2. files[i].owner # Conn(t)
        BY <3>2, <3>4, OwnerAssumption DEF CanClose, Accessible, is_existing_file, SpecialOwners
      <4>3. QED
        BY <4>1, <4>2
    <3>5. CASE i = thr[t].fex /\ CanClose(files[i], Conn(t))
      <4>1. files'[i] = close_file(files[i])
        BY <2>4, <3>5 DEF CConnClose, CloseSlot, SetFile, fslot, BaseInv, TypeOK
      <4>2. CASE is_open_file(files[i])
        <5>1. files'[i].owner = OWNER_NULL
          BY <4>1, <4>2 DEF close_file, BaseInv, TypeOK, FileType
        <5>2. QED
          BY <3>2, <5>1
      <4>3. CASE ~is_open_file(files[i])
        <5>1. files'[i] = files[i]
          BY <4>1, <4>3 DEF close_file
        <5>2. SUFFICES ASSUME files[i].owner = Conn(t) PROVE FALSE
          BY <5>1
        <5>3. PICK u \in Workers : Creating(u, i) /\ OpenOwner(u) = Conn(t)
          BY <3>2, <4>3, <5>2 DEF LockedFilesOpen
        <5>4. OpenOwner(u) = Conn(u) /\ thr[u].pc # "idle"
          BY <3>2, <5>3 DEF OpenOwner, Creating
        <5>5. u = t
          BY <5>3, <5>4 DEF BaseInv, ConnExclusive, At
        <5>6. QED
          BY <3>2, <5>3, <5>5 DEF Creating, At
      <4>4. QED
        BY <4>2, <4>3
    <3>6. QED
      BY <3>1, <3>3, <3>4, <3>5 DEF CanClose
  <2>5. CASE files' = files /\ thr[t].pc \in {"cconn_check", "cconn_book"}
    <3>1. CASE i < thr[t].fex
      BY <2>3, <2>5, <3>1
    <3>2. CASE i = thr[t].fex
      <4>1. CASE At(t, "cconn_book")
        BY <2>5, <3>2, <4>1 DEF CloseConnProgress, At
      <4>2. CASE At(t, "cconn_check") /\ ~is_locked_file(fslot(t), Conn(t))
        <5>1. Conn(t) # OWNER_NEXIST
          BY <4>2, BusyConn DEF At, SpecialOwners
        <5>2. QED
          BY <2>5, <3>2, <4>2, <5>1 DEF is_locked_file, is_existing_file, fslot
      <4>3. CASE At(t, "cconn_check") /\ is_locked_file(fslot(t), Conn(t))
        <5>1. thr'[t].pc = "cconn_close" /\ thr'[t].fex = thr[t].fex
          BY <1>5, <2>1, <4>3 DEF CloseConnFlow, CConnClose, CConnRemove, At
        <5>2. QED
          BY <1>5, <2>2, <3>2, <5>1
      <4>4. QED
        BY <2>5, <4>1, <4>2, <4>3 DEF At
    <3>3. i =< thr[t].fex
      BY <1>5, <2>1, <2>2, <2>5, IdleType DEF CloseConnFlow, CConnClose, CConnRemove, At
    <3>4. QED
      BY <2>2, <3>1, <3>2, <3>3
  <2>6. QED
    BY <2>1, <2>4, <2>5, IdleType DEF CloseConnFlow, At
<1>6. CloseConnProgress'
  <2>1. SUFFICES ASSUME NEW u \in Workers, NEW i \in Slots,
                        thr'[u].pc \in ClosingPcs, Past(u, i)'
                 PROVE  files'[i].owner # Conn(u)'
    BY DEF CloseConnProgress, ClosingPcs
  <2>2. CASE u = t
    BY <1>2, <1>5, <2>1, <2>2
  <2>3. CASE u # t
    BY <1>1, <1>4, <2>1, <2>3
  <2>4. QED
    BY <2>2, <2>3
<1>7. QED
  BY <1>3, <1>6

----------------------------------------------------------------------------
(* A slot index kept across steps.                                         *)

\* The program counters at which a handler still holds the slot get_file gave
\* it, for a use that only the file's owner is granted.
KeepPcs == OwnerPcs \union WritePcs \union EvictingPcs

\* StaleSlotHarmless with its labels gathered.
LEMMA StaleEquiv ==
  StaleSlotHarmless <=>
    \A t \in Workers : thr[t].pc \in KeepPcs /\ fslot(t).owner = Conn(t)
                         => fslot(t).name = Req(t).name
  BY DEF StaleSlotHarmless, KeepPcs, EvictingPcs, At

\* A handler step leaves every slot a client owns with the file it named.
LEMMA StaleStep ==
  ASSUME BaseInv, EvictorExclusive, VictimOpen, StaleSlotHarmless,
         NEW t \in Workers, HandlerStep(t)
  PROVE  StaleSlotHarmless'
<1> SUFFICES ASSUME NEW u \in Workers, thr'[u].pc \in KeepPcs, fslot(u)'.owner = Conn(u)'
             PROVE  fslot(u)'.name = Req(u)'.name
  BY DEF StaleSlotHarmless, KeepPcs, EvictingPcs, At
<1> DEFINE i == thr[u].fex
<1>1. i \in Slots
  BY NextSlot DEF BaseInv
<1>2. CASE u # t
  <2>1. thr'[u] = thr[u] /\ Conn(u)' = Conn(u) /\ Req(u)' = Req(u) /\ fslot(u)' = files'[i]
    BY <1>2, OthersKeep DEF Conn, Req, fslot
  <2>2. Conn(u) \in Conns /\ Conn(u) # Conn(t)
    BY <1>2, <2>1, BusyConn
       DEF KeepPcs, OwnerPcs, WritePcs, EvictingPcs, EvictPickPcs, EvictHoldPcs,
           BaseInv, ConnExclusive, At
  <2>3. files'[i] = files[i]
    BY <1>1, <2>1, <2>2, OwnedAfter
  <2>4. QED
    BY <2>1, <2>3, StaleEquiv DEF fslot
<1>3. CASE u = t
  <2>1. thr'[t] # IdleThread /\ thr'[t].pc # "failed"
    BY <1>3, IdleType
       DEF KeepPcs, OwnerPcs, WritePcs, EvictingPcs, EvictPickPcs, EvictHoldPcs
  <2>2. Conn(t)' = Conn(t) /\ Req(t)' = Req(t)
    BY <2>1, OthersKeep
  <2>3. Conn(t) \in Conns
    BY HandlerBusy, BusyConn
  <2>4. CASE EvictFlow(t)
    <3>1. thr'[t].fex = i /\ thr[t].pc \in KeepPcs /\ files'[i].owner = Conn(t)
      BY <1>3, <2>2, <2>4 DEF EvictFlow, KeepPcs, fslot
    <3>2. files'[i] = files[i]
      <4>1. ~PlainFlow(t)
        BY <2>4 DEF PlainFlow, EvictFlow
      <4>2. QED
        BY <1>1, <2>3, <3>1, <4>1, OwnedAfter
    <3>3. QED
      BY <1>3, <2>2, <3>1, <3>2, StaleEquiv DEF fslot
  <2>5. CASE PlainFlow(t)
    <3>1. ScanFlow(t) \/ RemoveFlow(t) \/ WriteFlow(t)
      BY <1>3, <2>1, <2>5
         DEF PlainFlow, CreateFlow, SimpleFlow, ReadNFlow, CloseConnFlow, KeepPcs, OwnerPcs,
             WritePcs, EvictingPcs, EvictPickPcs, EvictHoldPcs, ReadNPcs
    <3>2. /\ files' = files /\ thr'[t].fex = i
          /\ thr[t].pc \in KeepPcs \/ fslot(t).name = Req(t).name
      BY <1>3, <2>1, <3>1
         DEF ScanFlow, RemoveFlow, WriteFlow, KeepPcs, OwnerPcs, WritePcs, EvictingPcs,
             EvictPickPcs, EvictHoldPcs, ScanPcs, At
    <3>3. QED
      BY <1>3, <2>2, <3>2, StaleEquiv DEF fslot
  <2>6. QED
    BY <2>4, <2>5, HandlerFlows
<1>4. QED
  BY <1>2, <1>3

----------------------------------------------------------------------------
(* The inductive invariant is inductive.                                   *)

\* A handler step keeps the invariant.
LEMMA HandlerInv ==
  ASSUME IInv, NEW t \in Workers, HandlerStep(t)
  PROVE  IInv'
<1>1. BaseInv
  BY DEF IInv, BaseInv
<1>2. BaseInv'
  BY <1>1, HandlerBase DEF IInv
<1>3. EvictorExclusive' /\ VictimOpen'
  BY <1>1, EvictorStep DEF IInv
<1>4. LockedFilesOpen' /\ CloseConnProgress' /\ CloseConnAll'
  BY <1>1, LockedStep, ClosingStep DEF IInv
<1>5. StaleSlotHarmless'
  BY <1>1, StaleStep DEF IInv
<1>6. QED
  BY <1>2, <1>3, <1>4, <1>5 DEF BaseInv, IInv

\* A request starts with no slot, no victim and no lock of its client's behind
\* it.
LEMMA ReceiveInv ==
  ASSUME IInv, NEW t \in Workers, Receive(t)
  PROVE  IInv'
<1>1. BaseInv
  BY DEF IInv, BaseInv
<1>2. Starts(t)
  BY <1>1, ReceiveStarts
<1>3. BaseInv'
  BY <1>1, <1>2, ReceiveBase
<1>4. files' = files /\ clients' = clients /\ thr[t].pc = "idle"
  BY <1>2 DEF Starts, At
<1>5. \A u \in Workers : u # t => thr'[u] = thr[u]
  BY <1>1, <1>2 DEF Starts, BaseInv, TypeOK
<1>6. thr'[t].pc \in {"get_file", "readn_wasclosed", "cconn_check"} /\ thr'[t].fex = 1
  <2>1. PICK c \in clients, r \in Requests,
             l \in {"get_file", "readn_wasclosed", "cconn_check"} :
                thr' = [thr EXCEPT ![t] = [IdleThread EXCEPT !.pc = l, !.conn = c, !.req = r]]
    BY <1>2 DEF Starts
  <2> DEFINE s == [IdleThread EXCEPT !.pc = l, !.conn = c, !.req = r]
  <2>2. s.pc = l /\ s.fex = 1
    BY DEF IdleThread
  <2>3. thr'[t] = s
    BY <1>1, <2>1 DEF BaseInv, TypeOK
  <2>4. QED
    BY <2>2, <2>3
<1>7. EvictorExclusive'
  <2>1. \A u \in Workers, i \in Slots : Holds(u, i)' <=> Holds(u, i)
    BY <1>4, <1>5, <1>6 DEF Holds, EvictHoldPcs
  <2>2. QED
    BY <1>4, <2>1 DEF IInv, EvictorExclusive
<1>8. VictimOpen' /\ CloseConnAll'
  BY <1>4, <1>5, <1>6 DEF IInv, VictimOpen, CloseConnAll, At, vslot
<1>9. StaleSlotHarmless'
  BY <1>4, <1>5, <1>6
     DEF IInv, StaleSlotHarmless, OwnerPcs, WritePcs, EvictPickPcs, EvictHoldPcs, At, fslot,
         Conn, Req
<1>10. LockedFilesOpen'
  <2>1. \A u \in Workers, i \in Slots :
           Creating(u, i) => Creating(u, i)' /\ OpenOwner(u)' = OpenOwner(u)
    BY <1>4, <1>5 DEF Creating, OpenOwner, Wants, Req, Conn
  <2>2. QED
    BY <1>4, <2>1 DEF IInv, LockedFilesOpen
<1>11. CloseConnProgress'
  <2>1. ASSUME NEW i \in Slots
        PROVE  ~(\/ i < thr'[t].fex
                 \/ i = thr'[t].fex /\ thr'[t].pc \in {"cconn_book", "cconn_remove"})
    BY <1>6 DEF Slots
  <2>2. QED
    BY <1>4, <1>5, <2>1 DEF IInv, CloseConnProgress, Conn
<1>12. QED
  BY <1>3, <1>7, <1>8, <1>9, <1>10, <1>11 DEF BaseInv, IInv

\* A new client keeps the invariant.
LEMMA AddClientInv ==
  ASSUME IInv, NEW c \in Conns, AddClient(c)
  PROVE  IInv'
<1>1. BaseInv'
  BY AddClientBase DEF IInv, BaseInv
<1>2. UNCHANGED <<files, thr>> /\ clients \subseteq clients'
  BY DEF AddClient
<1>3. EvictorExclusive' /\ VictimOpen' /\ StaleSlotHarmless'
  BY <1>2 DEF IInv, EvictorExclusive, Holds, VictimOpen, StaleSlotHarmless, At, vslot, fslot,
     Conn, Req
<1>4. LockedFilesOpen' /\ CloseConnProgress' /\ CloseConnAll'
  BY <1>2 DEF IInv, LockedFilesOpen, Creating, OpenOwner, Wants, CloseConnProgress, CloseConnAll,
     At, Conn, Req
<1>5. QED
  BY <1>1, <1>3, <1>4 DEF BaseInv, IInv

\* A stuttering step keeps the invariant.
LEMMA StutterInv ==
  ASSUME IInv, UNCHANGED vars
  PROVE  IInv'
<1>1. UNCHANGED <<files, thr, clients, lastop, current_storage, max_reached_storage,
                  current_files, max_reached_files>>
  BY DEF vars, counters, table
<1>2. TypeOK' /\ SizesConsistent' /\ ConnExclusive' /\ ScanNamed'
  BY <1>1 DEF IInv, TypeOK, SizesConsistent, ConnExclusive, ScanNamed, At, Conn, Req
<1>3. EvictorExclusive' /\ VictimOpen' /\ StaleSlotHarmless'
  BY <1>1 DEF IInv, EvictorExclusive, Holds, VictimOpen, StaleSlotHarmless, At, vslot, fslot,
     Conn, Req
<1>4. LockedFilesOpen' /\ CloseConnProgress' /\ CloseConnAll'
  BY <1>1 DEF IInv, LockedFilesOpen, Creating, OpenOwner, Wants, CloseConnProgress, CloseConnAll,
     At, Conn, Req
<1>5. QED
  BY <1>2, <1>3, <1>4 DEF IInv

\* The inductive invariant: the worker threads, however many, keep the types,
\* the sizes of the files, the evictors' and the clients' locks in order.
THEOREM Invariance == Spec => []IInv
<1>1. Init => IInv
  BY InitInv
<1>2. IInv /\ [Next]_vars => IInv'
  BY HandlerInv, ReceiveInv, AddClientInv, StutterInv DEF Next, WorkerStep
<1>3. QED
  BY <1>1, <1>2, PTL DEF Spec

----------------------------------------------------------------------------
(* What the invariant gives.                                               *)

\* Type correctness of the table, the counters and the workers.
THEOREM TypeCorrect == Spec => []TypeOK
  BY Invariance, PTL DEF IInv

\* Whatever the interleaving, open sizes and stored sizes agree, which is what
\* close_file and the counters rely on.
THEOREM SizesAlwaysConsistent == Spec => []SizesConsistent
  BY Invariance, PTL DEF IInv

\* A victim belongs to exactly one evicting worker until it is gone.
THEOREM EvictionExclusive == Spec => []EvictorExclusive
  BY Invariance, PTL DEF IInv

\* No lock outlives the file's being open or its client's connection, but for
\* the file a creator is about to open.
THEOREM LocksNeverDangle == Spec => []LockedFilesOpen
  BY Invariance, PTL DEF IInv

\* A slot index get_file returned long ago never makes write, unlock or remove
\* touch another file.
THEOREM StaleSlotsHarmless == Spec => []StaleSlotHarmless
  BY Invariance, PTL DEF IInv

\* A locked file changes only by its owner's worker or by eviction.
THEOREM LocksRespected == Spec => OwnershipRespected
<1> DEFINE A == \A i \in Slots :
                  LET f == files[i] IN
                  files'[i] # f =>
                    /\ f.owner \in Conns =>
                         \/ files'[i] = force_owner(f)
                         \/ \E t \in Workers : Conn(t) = f.owner /\ thr'[t] # thr[t]
                    /\ f.owner = OWNER_ADMIN =>
                         \E t \in Workers : Holds(t, i) /\ thr'[t] # thr[t]
<1>1. IInv /\ [Next]_vars => [A]_vars
  <2> SUFFICES ASSUME IInv, Next, NEW i \in Slots, files'[i] # files[i]
               PROVE  /\ files[i].owner \in Conns =>
                           \/ files'[i] = force_owner(files[i])
                           \/ \E t \in Workers : Conn(t) = files[i].owner /\ thr'[t] # thr[t]
                      /\ files[i].owner = OWNER_ADMIN =>
                           \E t \in Workers : Holds(t, i) /\ thr'[t] # thr[t]
    OBVIOUS
  <2>1. BaseInv
    BY DEF IInv, BaseInv
  <2>2. PICK t \in Workers : HandlerStep(t)
    <3>1. \A c \in Conns : AddClient(c) => files' = files
      BY DEF AddClient
    <3>2. \A t \in Workers : Receive(t) => files' = files
      BY <2>1, ReceiveStarts DEF Starts
    <3>3. QED
      BY <3>1, <3>2 DEF Next, WorkerStep
  <2>3. EvictFlow(t) \/ PlainFlow(t)
    BY <2>1, <2>2, HandlerFlows DEF IInv
  <2>4. CASE EvictFlow(t)
    <3> DEFINE v == thr[t].victim
    <3>1. v \in Slots /\ ChangesOnly(v) /\ (ForcesIn(t, v) \/ EvictsIn(t, v))
      BY <2>1, <2>4, NextSlot DEF EvictFlow, BaseInv
    <3>2. i = v
      BY <2>1, <3>1 DEF ChangesOnly, BaseInv, TypeOK
    <3>3. thr'[t] # thr[t]
      BY <2>4 DEF EvictFlow
    <3>4. CASE ForcesIn(t, v)
      BY <3>2, <3>4 DEF ForcesIn
    <3>5. CASE EvictsIn(t, v)
      BY <3>2, <3>3, <3>5, OwnerAssumption DEF EvictsIn, SpecialOwners
    <3>6. QED
      BY <3>1, <3>4, <3>5
  <2>5. CASE PlainFlow(t)
    <3>1. /\ Conn(t) \in Conns /\ Conn(t) \notin SpecialOwners
          /\ files[i].owner \in {OWNER_NEXIST, OWNER_NULL, Conn(t)}
      BY <2>1, <2>2, <2>5, PlainSlots DEF PlainFlow
    <3>2. thr'[t].pc # thr[t].pc
      BY <2>5, HandlerBusy, <2>2, IdleType
         DEF PlainFlow, ScanFlow, CreateFlow, SimpleFlow, RemoveFlow, WriteFlow, ReadNFlow,
             CloseConnFlow
    <3>3. QED
      BY <3>1, <3>2, OwnerAssumption DEF SpecialOwners
  <2>6. QED
    BY <2>3, <2>4, <2>5
<1>2. QED
  BY <1>1, Invariance, PTL DEF Spec, OwnershipRespected

----------------------------------------------------------------------------
(* The loops of the handlers run out: StepsToGo goes down.                 *)

\* A step of t leaves it fewer steps to go, or is part of an eviction.
Evicting(t) == {thr[t].pc, thr'[t].pc} \intersect EvictingPcs # {}
RunsDown(t) == Evicting(t) \/ StepsToGo(t)' \in 0 .. StepsToGo(t) - 1

\* The slots a loop has still to see are fewer than the table has.
LEMMA SlotsLeft ==
  ASSUME TypeOK, NEW t \in Workers
  PROVE  /\ NumFiles \in Nat \ {0} /\ thr[t].fex \in 1 .. NumFiles
         /\ NumFiles - thr[t].fex \in 0 .. NumFiles - 1
  BY NextSlot, StorageAssumption DEF Slots

\* StepsFrom, label by label.
LEMMA StepTable ==
  ASSUME NEW left
  PROVE  /\ StepsFrom("get_file", left) = NumFiles + 2 * left + 7
         /\ StepsFrom("check_name", left) = NumFiles + 2 * left + 6
         /\ StepsFrom("empty_slot", left) = left + 5
         /\ StepsFrom("readn_wasclosed", left) = 6 * left + 7
         /\ StepsFrom("readn_open", left) = 6 * left + 6
         /\ StepsFrom("readn_read", left) = 6 * left + 5
         /\ StepsFrom("readn_close", left) = 6 * left + 4
         /\ StepsFrom("readn_book", left) = 6 * left + 3
         /\ StepsFrom("readn_name", left) = 6 * left + 2
         /\ StepsFrom("cconn_check", left) = 3 * left + 4
         /\ StepsFrom("cconn_close", left) = 3 * left + 3
         /\ StepsFrom("cconn_book", left) = 3 * left + 2
         /\ StepsFrom("check_capacity", left) = 5
         /\ \A l \in {"create_file", "reserve"} : StepsFrom(l, left) = 4
         /\ \A l \in {"count_file", "remove_check", "apply"} : StepsFrom(l, left) = 3
         /\ \A l \in {"create_open", "close_file", "remove_file", "release"} :
               StepsFrom(l, left) = 2
         /\ \A l \in {"open_file", "read_file", "lock_file", "unlock_file", "close_book",
                     "remove_book", "cconn_remove", "failed", "aborted"} : StepsFrom(l, left) = 1
         /\ StepsFrom("idle", left) = 0
  BY DEF StepsFrom

\* The answer leaves nothing to do, the error return one step, and every step
\* but these leaves something to do.
LEMMA StepsAtEnd ==
  ASSUME BaseInv, NEW t \in Workers
  PROVE  /\ ~At(t, "idle") => StepsToGo(t) \in Nat \ {0}
         /\ Reply(t) => StepsToGo(t)' = 0
         /\ Fail(t) => StepsToGo(t)' = 1
<1>1. ASSUME ~At(t, "idle") PROVE StepsToGo(t) \in Nat \ {0}
  BY <1>1, SlotsLeft DEF BaseInv, StepsToGo, StepsFrom, At
<1>2. ASSUME Reply(t) PROVE StepsToGo(t)' = 0
  <2>1. thr'[t].pc = "idle"
    BY <1>2, Moved, IdleType
  <2>2. QED
    BY <2>1, StepTable DEF StepsToGo
<1>3. ASSUME Fail(t) PROVE StepsToGo(t)' = 1
  <2>1. thr'[t].pc = "failed"
    BY <1>3, Moved DEF Fail
  <2>2. QED
    BY <2>1, StepTable DEF StepsToGo
<1>4. QED
  BY <1>1, <1>2, <1>3

\* Answering always runs down.
LEMMA ReplyRunsDown ==
  ASSUME BaseInv, NEW t \in Workers, ~At(t, "idle"), Reply(t)
  PROVE  RunsDown(t)
  BY StepsAtEnd DEF RunsDown

\* get_file and get_empty_slot take two steps and one step a slot, and the
\* handler they lead to at most five.
LEMMA ScanRunsDown ==
  ASSUME BaseInv, NEW t \in Workers, FileScan(t)
  PROVE  RunsDown(t)
<1> DEFINE k == thr[t].fex
<1>1. NumFiles \in Nat \ {0} /\ k \in 1 .. NumFiles /\ ~At(t, "idle")
  BY SlotsLeft, HandlerBusy DEF BaseInv, HandlerStep, At
<1>2. ASSUME FileNotFound(t), ~Reply(t) PROVE StepsToGo(t)' = NumFiles + 4
  <2>1. thr'[t].pc = "empty_slot" /\ thr'[t].fex = 1
    BY <1>2, Moved DEF FileNotFound
  <2>2. QED
    BY <2>1, <1>1, StepTable DEF StepsToGo
<1>3. ASSUME GetFileNext(t), ~Reply(t), ~FileNotFound(t)
      PROVE  StepsToGo(t)' = NumFiles + 2 * (NumFiles - k) + 5
  <2>1. thr'[t].pc = "get_file" /\ thr'[t].fex = k + 1
    BY <1>3, Moved DEF GetFileNext
  <2>2. QED
    BY <2>1, <1>1, StepTable DEF StepsToGo
<1>4. CASE GetFile(t)
  <2>1. StepsToGo(t) = NumFiles + 2 * (NumFiles - k) + 7
    BY <1>4, StepTable DEF GetFile, At, StepsToGo
  <2>2. CASE Goto(t, "check_name")
    <3>1. thr'[t].pc = "check_name" /\ thr'[t].fex = k
      BY <2>2, Moved
    <3>2. StepsToGo(t)' = NumFiles + 2 * (NumFiles - k) + 6
      BY <3>1, StepTable DEF StepsToGo
    <3>3. QED
      BY <1>1, <2>1, <3>2 DEF RunsDown
  <2>3. CASE GetFileNext(t)
    BY <1>1, <1>2, <1>3, <2>1, <2>3, ReplyRunsDown DEF RunsDown
  <2>4. QED
    BY <1>4, <2>2, <2>3 DEF GetFile
<1>5. CASE CheckName(t)
  <2>1. StepsToGo(t) = NumFiles + 2 * (NumFiles - k) + 6
    BY <1>5, StepTable DEF CheckName, At, StepsToGo
  <2>2. CASE FileNotFound(t) \/ GetFileNext(t)
    BY <1>1, <1>2, <1>3, <2>1, <2>2, ReplyRunsDown DEF RunsDown
  <2>3. CASE FileFound(t) /\ ~Reply(t)
    <3>1. Req(t).op \in NamedOps
      BY <1>5 DEF BaseInv, ScanNamed, CheckName, At, ScanPcs
    <3>2. FirstStep[Req(t).op] \in SlotPcs
      BY <3>1 DEF FirstStep, NamedOps, SlotPcs, SimplePcs
    <3>3. thr'[t].pc \in SlotPcs
      BY <2>3, <3>2, Moved DEF FileFound
    <3>4. StepsToGo(t)' \in 0 .. 5
      BY <3>3, StepTable DEF StepsToGo, SlotPcs, SimplePcs
    <3>5. QED
      BY <1>1, <2>1, <3>4 DEF RunsDown
  <2>4. QED
    BY <1>1, <1>5, <2>2, <2>3, ReplyRunsDown DEF CheckName
<1>6. CASE EmptySlot(t)
  <2>1. StepsToGo(t) = NumFiles - k + 5
    BY <1>6, StepTable DEF EmptySlot, At, StepsToGo
  <2>2. CASE Goto(t, "create_file")
    <3>1. thr'[t].pc = "create_file"
      BY <2>2, Moved
    <3>2. StepsToGo(t)' = 4
      BY <3>1, StepTable DEF StepsToGo
    <3>3. QED
      BY <1>1, <2>1, <3>2 DEF RunsDown
  <2>3. CASE k < NumFiles /\ GotoSlot(t, "empty_slot", k + 1)
    <3>1. thr'[t].pc = "empty_slot" /\ thr'[t].fex = k + 1
      BY <2>3, Moved
    <3>2. StepsToGo(t)' = NumFiles - k + 4
      BY <1>1, <3>1, StepTable DEF StepsToGo
    <3>3. QED
      BY <1>1, <2>1, <2>3, <3>2 DEF RunsDown
  <2>4. QED
    BY <1>1, <1>6, <2>2, <2>3, ReplyRunsDown DEF EmptySlot
<1>7. QED
  BY <1>4, <1>5, <1>6 DEF FileScan

\* The handlers that do not loop.
LEMMA StraightRunsDown ==
  ASSUME BaseInv, NEW t \in Workers,
         CreateSteps(t) \/ SimpleSteps(t) \/ RemoveSteps(t) \/ WriteSteps(t)
  PROVE  RunsDown(t)
<1>1. ~At(t, "idle")
  BY HandlerBusy DEF HandlerStep, At
<1>2. ASSUME ~Reply(t)
      PROVE  \/ thr[t].pc = "create_file" /\ thr'[t].pc = "count_file"
             \/ thr[t].pc = "count_file" /\ thr'[t].pc = "create_open"
             \/ thr[t].pc = "create_open" /\ thr'[t].pc = "failed"
             \/ thr[t].pc = "close_file" /\ thr'[t].pc = "close_book"
             \/ thr[t].pc = "remove_check" /\ thr'[t].pc = "remove_file"
             \/ thr[t].pc = "remove_file" /\ thr'[t].pc = "remove_book"
             \/ thr[t].pc = "check_capacity" /\ thr'[t].pc \in {"reserve", "evict_pick"}
             \/ thr[t].pc = "reserve" /\ thr'[t].pc = "apply"
             \/ thr[t].pc = "apply" /\ thr'[t].pc = "release"
             \/ thr[t].pc = "release" /\ thr'[t].pc \in {"failed", "aborted"}
  <2>1. CASE CreateSteps(t)
    BY <1>2, <2>1, Moved DEF CreateSteps, CreateFile, CountFile, CreateOpen, Fail, At
  <2>2. CASE SimpleSteps(t)
    BY <1>2, <2>2, Moved
       DEF SimpleSteps, OpenFile, CloseFile, CloseSlot, CloseBook, ReadFile, LockFile, UnlockFile, At
  <2>3. CASE RemoveSteps(t)
    BY <1>2, <2>3, Moved DEF RemoveSteps, RemoveCheck, RemoveFile, RemoveBook, At
  <2>4. CASE WriteSteps(t)
    BY <1>2, <2>4, Moved
       DEF WriteSteps, CheckCapacity, Reserve, Apply, Release, Refuse, Abort, Fail, At
  <2>5. QED
    BY <2>1, <2>2, <2>3, <2>4
<1>3. CASE thr'[t].pc = "evict_pick"
  BY <1>3 DEF RunsDown, Evicting, EvictingPcs, EvictPickPcs
<1>4. CASE ~Reply(t) /\ thr'[t].pc # "evict_pick"
  BY <1>2, <1>4, StepTable DEF RunsDown, StepsToGo
<1>5. QED
  BY <1>1, <1>3, <1>4, ReplyRunsDown

\* A step of an eviction is one.
LEMMA EvictRunsDown ==
  ASSUME BaseInv, NEW t \in Workers, EvictSteps(t)
  PROVE  RunsDown(t)
  BY DEF EvictSteps, EvictPick, EvictName, EvictSize, EvictUsage, EvictChoose, EvictNone, EvictForce,
         EvictOpen, EvictRemove, EvictBook, At, RunsDown, Evicting, EvictingPcs, EvictPickPcs,
         EvictHoldPcs

\* readN takes at most six steps a slot.
LEMMA ReadNRunsDown ==
  ASSUME BaseInv, NEW t \in Workers, ReadNSteps(t)
  PROVE  RunsDown(t)
<1> DEFINE k == thr[t].fex
<1>1. NumFiles \in Nat \ {0} /\ k \in 1 .. NumFiles /\ ~At(t, "idle")
  BY SlotsLeft, HandlerBusy DEF BaseInv, HandlerStep, At
<1>2. \A cnt : ReadNNext(t, cnt) =>
         \/ Reply(t)
         \/ thr'[t].pc = "readn_wasclosed" /\ thr'[t].fex = k + 1 /\ k < NumFiles
  BY DEF ReadNNext, BaseInv, TypeOK, ThreadType
<1>3. \A ok : ReadNAfter(t, ok) =>
         \/ Reply(t)
         \/ thr'[t].pc = "readn_wasclosed" /\ thr'[t].fex = k + 1 /\ k < NumFiles
         \/ thr'[t].pc = "readn_name" /\ thr'[t].fex = k
  BY <1>2, Moved DEF ReadNAfter
<1>4. ASSUME ~Reply(t)
      PROVE  \/ /\ thr'[t].fex = k
                /\ \/ thr[t].pc = "readn_wasclosed" /\ thr'[t].pc = "readn_open"
                   \/ thr[t].pc = "readn_open" /\ thr'[t].pc = "readn_read"
                   \/ thr[t].pc = "readn_read" /\ thr'[t].pc \in {"readn_close", "readn_name"}
                   \/ thr[t].pc = "readn_close" /\ thr'[t].pc = "readn_book"
                   \/ thr[t].pc = "readn_book" /\ thr'[t].pc = "readn_name"
             \/ /\ thr'[t].fex = k + 1 /\ k < NumFiles /\ thr'[t].pc = "readn_wasclosed"
                /\ thr[t].pc \in {"readn_open", "readn_read", "readn_book", "readn_name"}
             \/ thr[t].pc = "readn_name" /\ thr'[t].pc = "failed"
  <2>1. CASE ReadNWasClosed(t)
    BY <2>1 DEF ReadNWasClosed, At, BaseInv, TypeOK, ThreadType
  <2>2. CASE ReadNOpen(t)
    BY <1>2, <1>4, <2>2, Moved DEF ReadNOpen, At
  <2>3. CASE ReadNRead(t)
    <3>1. At(t, "readn_read")
      BY <2>3 DEF ReadNRead
    <3>2. CASE \E ok : ReadNAfter(t, ok)
      BY <1>3, <1>4, <3>1, <3>2 DEF At
    <3>3. CASE \E ok : thr' = [thr EXCEPT ![t].pc = "readn_close", ![t].readok = ok]
      BY <3>1, <3>3 DEF At, BaseInv, TypeOK, ThreadType
    <3>4. QED
      BY <2>3, <3>2, <3>3 DEF ReadNRead
  <2>4. CASE ReadNClose(t)
    BY <2>4, Moved DEF ReadNClose, CloseSlot, At
  <2>5. CASE ReadNBook(t)
    BY <1>3, <1>4, <2>5 DEF ReadNBook, At
  <2>6. CASE ReadNName(t)
    BY <1>2, <1>4, <2>6, Moved DEF ReadNName, Fail, At
  <2>7. QED
    BY <2>1, <2>2, <2>3, <2>4, <2>5, <2>6 DEF ReadNSteps
<1>5. CASE ~Reply(t)
  <2> DEFINE left == NumFiles - k
  <2>1. left \in Nat /\ StepsToGo(t) = StepsFrom(thr[t].pc, left)
    BY <1>1 DEF StepsToGo
  <2>2. CASE thr'[t].pc = "failed"
    BY <1>4, <1>5, <2>1, <2>2, StepTable DEF RunsDown, StepsToGo
  <2>3. CASE thr'[t].pc # "failed" /\ thr'[t].fex = k
    <3>1. StepsToGo(t)' = StepsFrom(thr'[t].pc, left)
      BY <2>3 DEF StepsToGo
    <3> HIDE DEF left
    <3>2. QED
      BY <1>1, <1>4, <1>5, <2>1, <2>3, <3>1, StepTable DEF RunsDown
  <2>4. CASE thr'[t].fex = k + 1 /\ k < NumFiles /\ thr'[t].pc = "readn_wasclosed"
    <3>1. StepsToGo(t)' = 6 * left + 1 /\ left \in Nat \ {0}
      BY <1>1, <2>4, StepTable DEF StepsToGo
    <3> HIDE DEF left
    <3>2. thr[t].pc \in {"readn_open", "readn_read", "readn_book", "readn_name"}
      BY <1>4, <1>5, <2>4
    <3>3. StepsToGo(t) \in {6 * left + 6, 6 * left + 5, 6 * left + 3, 6 * left + 2}
      BY <2>1, <3>2, StepTable
    <3>4. QED
      BY <3>1, <3>3 DEF RunsDown
  <2>5. QED
    BY <1>4, <1>5, <2>2, <2>3, <2>4
<1>6. QED
  BY <1>1, <1>5, ReplyRunsDown

\* do_close_connection takes at most three steps a slot, and one to drop the
\* client.
LEMMA CloseConnRunsDown ==
  ASSUME BaseInv, NEW t \in Workers, CloseConnSteps(t)
  PROVE  RunsDown(t)
<1> DEFINE k == thr[t].fex
<1>1. NumFiles \in Nat \ {0} /\ k \in 1 .. NumFiles /\ ~At(t, "idle")
  BY SlotsLeft, HandlerBusy DEF BaseInv, HandlerStep, At
<1>2. CConnNext(t) =>
         \/ thr'[t].pc = "cconn_check" /\ thr'[t].fex = k + 1 /\ k < NumFiles
         \/ thr'[t].pc = "cconn_remove"
  BY Moved DEF CConnNext
<1>3. ASSUME ~Reply(t)
      PROVE  \/ thr[t].pc = "cconn_check" /\ thr'[t].pc = "cconn_close" /\ thr'[t].fex = k
             \/ thr[t].pc = "cconn_close" /\ thr'[t].pc = "cconn_book" /\ thr'[t].fex = k
             \/ /\ thr[t].pc \in {"cconn_check", "cconn_book"}
                /\ \/ thr'[t].pc = "cconn_check" /\ thr'[t].fex = k + 1 /\ k < NumFiles
                   \/ thr'[t].pc = "cconn_remove"
  <2>1. CASE CConnCheck(t) \/ CConnBook(t)
    BY <1>2, <2>1, Moved DEF CConnCheck, CConnBook, At
  <2>2. CASE CConnClose(t)
    BY <2>2, Moved DEF CConnClose, CloseSlot, At
  <2>3. QED
    BY <1>3, <2>1, <2>2 DEF CloseConnSteps, CConnRemove
<1>4. CASE ~Reply(t)
  BY <1>1, <1>3, <1>4, StepTable DEF RunsDown, StepsToGo
<1>5. QED
  BY <1>1, <1>4, ReplyRunsDown

\* Every step of a handler runs down.
LEMMA HandlerRunsDown ==
  ASSUME BaseInv, NEW t \in Workers, HandlerStep(t)
  PROVE  RunsDown(t)
<1>1. CASE HandlerFailed(t)
  BY <1>1, ReplyRunsDown DEF HandlerFailed, At
<1>2. QED
  BY <1>1, ScanRunsDown, StraightRunsDown, EvictRunsDown, ReadNRunsDown, CloseConnRunsDown
     DEF HandlerStep

\* A request starts with a few steps per slot.
LEMMA ReceiveSteps ==
  ASSUME BaseInv, NEW t \in Workers, Receive(t)
  PROVE  StepsToGo(t)' =< 6 * NumFiles + 2
<1>1. PICK c \in clients, r \in Requests,
           l \in {"get_file", "readn_wasclosed", "cconn_check"} :
              thr' = [thr EXCEPT ![t] = [IdleThread EXCEPT !.pc = l, !.conn = c, !.req = r]]
  <2>1. Starts(t)
    BY ReceiveStarts
  <2>2. QED
    BY <2>1 DEF Starts
<1> DEFINE s == [IdleThread EXCEPT !.pc = l, !.conn = c, !.req = r]
<1>2. s.pc = l /\ s.fex = 1
  BY DEF IdleThread
<1>3. thr'[t] = s
  BY <1>1 DEF BaseInv, TypeOK
<1> HIDE DEF s
<1>4. thr'[t].pc \in {"get_file", "readn_wasclosed", "cconn_check"} /\ thr'[t].fex = 1
  BY <1>2, <1>3
<1>5. QED
  BY <1>4, StorageAssumption, StepTable DEF StepsToGo

\* Whatever the other workers do, the loops of a handler run out: outside
\* evictions it takes no more steps than it started with.
THEOREM LoopsRunOut == Spec => StepsRunOut
<1> DEFINE A == \A t \in Workers :
                  /\ At(t, "idle") => StepsToGo(t)' =< 6 * NumFiles + 2
                  /\ /\ thr'[t] # thr[t]
                     /\ ~At(t, "idle")
                     /\ {thr[t].pc, thr'[t].pc} \intersect EvictingPcs = {}
                     => StepsToGo(t)' \in 0 .. StepsToGo(t) - 1
<1>1. IInv /\ [Next]_vars => [A]_vars
  <2> SUFFICES ASSUME IInv, Next, NEW t \in Workers
               PROVE  /\ At(t, "idle") => StepsToGo(t)' =< 6 * NumFiles + 2
                      /\ thr'[t] # thr[t] /\ ~At(t, "idle") => RunsDown(t)
    BY DEF RunsDown, Evicting
  <2>1. BaseInv
    BY DEF IInv, BaseInv
  <2>2. CASE thr'[t] = thr[t]
    <3>1. At(t, "idle") => StepsToGo(t)' = 0
      BY <2>2, StepTable DEF At, StepsToGo
    <3>2. QED
      BY <2>2, <3>1, StorageAssumption
  <2>3. CASE thr'[t] # thr[t]
    <3>1. Receive(t) \/ HandlerStep(t)
      <4>1. \A c \in Conns : ~AddClient(c)
        BY <2>3 DEF AddClient
      <4>2. PICK u \in Workers : Receive(u) \/ HandlerStep(u)
        BY <4>1 DEF Next, WorkerStep
      <4>3. CASE Receive(u)
        BY <2>1, <2>3, <4>3, ReceiveStarts DEF Starts, BaseInv, TypeOK
      <4>4. CASE HandlerStep(u)
        BY <2>1, <2>3, <4>4, HandlerFrame, OthersKeep
      <4>5. QED
        BY <4>2, <4>3, <4>4
    <3>2. CASE Receive(t)
      BY <2>1, <3>2, ReceiveSteps DEF Receive
    <3>3. CASE HandlerStep(t)
      BY <2>1, <3>3, HandlerRunsDown, HandlerBusy DEF At
    <3>4. QED
      BY <3>1, <3>2, <3>3
  <2>4. QED
    BY <2>2, <2>3
<1>2. QED
  BY <1>1, Invariance, PTL DEF Spec, StepsRunOut
=============================================================================
