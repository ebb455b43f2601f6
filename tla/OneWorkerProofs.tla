--------------------------- MODULE OneWorkerProofs ---------------------------
(***************************************************************************)
(* What holds with a single worker thread, when nothing comes between two  *)
(* steps of a handler: the configured storage is never exceeded, no path   *)
(* is in two slots, no handler fails but that of an empty write, and a     *)
(* write finds its file open and empty.  With two workers none of these    *)
(* does.  The connections still interleave request by request, and every   *)
(* request may come at any time.  That a request only takes the steps of   *)
(* its handler (StepsFit) holds for any number of workers.                 *)
(***************************************************************************)
EXTENDS StorageAccountingProofs

OneWorker == \A t, u \in Workers : t = u

----------------------------------------------------------------------------
(* The storage.                                                            *)

\* One worker thread: what the server stores never exceeds its capacity.
THEOREM SingleWorkerCapacity ==
  ASSUME OneWorker
  PROVE  Spec => []StorageWithinCapacity
<1> DEFINE n == Cardinality(Workers)
<1>1. n = 0 \/ n = 1
  <2>1. CASE Workers = {}
    BY <2>1, FS_EmptySet
  <2>2. CASE Workers # {}
    <3>1. PICK t \in Workers : TRUE
      BY <2>2
    <3>2. Workers = {t}
      BY <3>1 DEF OneWorker
    <3>3. QED
      BY <3>2, FS_Singleton
  <2>3. QED
    BY <2>1, <2>2
<1>2. MaxStorage + (n - 1) * MaxRequest =< MaxStorage
  <2> HIDE DEF n
  <2>1. MaxStorage \in Nat /\ MaxRequest \in Nat
    BY StorageAssumption, MaxRequestBounds
  <2>2. CASE n = 0
    BY <2>1, <2>2
  <2>3. CASE n = 1
    BY <2>1, <2>3
  <2>4. QED
    BY <1>1, <2>2, <2>3
<1>3. TypeOK /\ BoundedOvershoot => StorageWithinCapacity
  <2>1. MaxStorage \in Nat /\ MaxStorage + (n - 1) * MaxRequest \in Nat
    BY StorageAssumption, OvershootNat
  <2> DEFINE b == MaxStorage + (n - 1) * MaxRequest
  <2>2. BoundedOvershoot <=> current_storage =< b
    BY DEF BoundedOvershoot
  <2> HIDE DEF b, n
  <2>3. b \in Nat /\ b =< MaxStorage
    BY <1>2, <2>1 DEF b
  <2>4. QED
    BY <2>1, <2>2, <2>3 DEF TypeOK, StorageWithinCapacity
<1>4. QED
  BY <1>3, TypeCorrect, OvershootBounded, PTL

----------------------------------------------------------------------------
(* Paths, and the slots a handler has looked at.                           *)

\* A handler step puts no path in a slot but in a creation.
LEMMA NamesKept ==
  ASSUME BaseInv, EvictorExclusive, NEW t \in Workers, HandlerStep(t), NEW i \in Slots,
         is_existing_file(files'[i])
  PROVE  \/ is_existing_file(files[i]) /\ files'[i].name = files[i].name
         \/ CreatesIn(t, i) /\ files'[i].name = Req(t).name
<1>1. CASE files'[i] = files[i]
  BY <1>1
<1>2. CASE files'[i] # files[i]
  <2>1. PICK j \in Slots :
          /\ ChangesOnly(j)
          /\ CreatesIn(t, j) \/ UsesIn(t, j) \/ ForcesIn(t, j) \/ EvictsIn(t, j)
    BY <1>2, HandlerFileFrame DEF FileFrame
  <2>2. i = j
    BY <1>2, <2>1 DEF ChangesOnly, BaseInv, TypeOK
  <2>3. files'[i] # EmptyFile
    BY DEF is_existing_file, EmptyFile
  <2>4. CASE CreatesIn(t, i)
    BY <2>4 DEF CreatesIn
  <2>5. CASE UsesIn(t, i)
    BY <2>3, <2>5 DEF UsesIn
  <2>6. CASE ForcesIn(t, i)
    BY <2>6 DEF ForcesIn, force_owner, BaseInv, TypeOK, FileType
  <2>7. CASE EvictsIn(t, i)
    BY <2>3, <2>7, OwnerAssumption DEF EvictsIn, is_existing_file
  <2>8. QED
    BY <2>1, <2>2, <2>4, <2>5, <2>6, <2>7
<1>3. QED
  BY <1>1, <1>2

\* A path is created once.
LEMMA UniqueStep ==
  ASSUME IInv, UniqueNames, ScanFresh, NEW t \in Workers, HandlerStep(t)
  PROVE  UniqueNames'
<1>1. BaseInv /\ EvictorExclusive
  BY DEF IInv, BaseInv
<1>2. SUFFICES ASSUME NEW i \in Slots, NEW j \in Slots, is_existing_file(files'[i]),
                      is_existing_file(files'[j]), files'[i].name = files'[j].name
               PROVE  i = j
  BY DEF UniqueNames, Existing
<1>3. /\ \/ is_existing_file(files[i]) /\ files'[i].name = files[i].name
         \/ CreatesIn(t, i) /\ files'[i].name = Req(t).name
      /\ \/ is_existing_file(files[j]) /\ files'[j].name = files[j].name
         \/ CreatesIn(t, j) /\ files'[j].name = Req(t).name
  BY <1>1, <1>2, NamesKept
<1>4. At(t, "create_file") =>
         \A k \in Slots : is_existing_file(files[k]) => files[k].name # Req(t).name
  BY DEF ScanFresh, check_file_name, At
<1>5. CASE CreatesIn(t, i)
  BY <1>2, <1>3, <1>4, <1>5 DEF CreatesIn
<1>6. CASE CreatesIn(t, j)
  BY <1>2, <1>3, <1>4, <1>6 DEF CreatesIn
<1>7. CASE ~CreatesIn(t, i) /\ ~CreatesIn(t, j)
  BY <1>2, <1>3, <1>7 DEF UniqueNames, Existing
<1>8. QED
  BY <1>5, <1>6, <1>7

\* The path has not been met up to the slot the scan is at.
Passed(t) == \A i \in Slots : i =< thr[t].fex => ~check_file_name(files[i], Req(t).name)

\* A scan that goes on takes what it knows along.
LEMMA NextFresh ==
  ASSUME OneWorker, BaseInv, NEW t \in Workers, files' = files, Passed(t),
         GetFileNext(t)
  PROVE  ScanFresh'
<1>1. /\ \A u \in Workers : u = t
      /\ thr[t].fex \in Int /\ NumFiles \in Int /\ thr[t].fex =< NumFiles
      /\ \A i \in Slots : i \in Int /\ i =< NumFiles
  BY StorageAssumption, NextSlot DEF OneWorker, Slots, BaseInv
<1>2. ASSUME NEW i, GotoSlot(t, "get_file", i) \/ GotoSlot(t, "empty_slot", i)
      PROVE  Req(t)' = Req(t)
  BY <1>2 DEF GotoSlot, Req, BaseInv, TypeOK, ThreadType
<1>3. CASE thr[t].fex < NumFiles
  <2>1. thr'[t].pc = "get_file" /\ thr'[t].fex = thr[t].fex + 1 /\ Req(t)' = Req(t)
    BY <1>2, <1>3, Moved DEF GetFileNext
  <2>2. \A i \in Slots : i < thr[t].fex + 1 => i =< thr[t].fex
    BY <1>1
  <2>3. QED
    BY <1>1, <2>1, <2>2 DEF ScanFresh, Passed, At
<1>4. CASE FileNotFound(t) /\ ~(thr[t].fex < NumFiles)
  <2>1. \A i \in Slots : ~check_file_name(files[i], Req(t).name)
    BY <1>1, <1>4 DEF Passed
  <2>2. CASE Creates(t)
    <3>1. thr'[t].pc = "empty_slot" /\ Req(t)' = Req(t)
      BY <1>2, <1>4, <2>2, Moved DEF FileNotFound
    <3>2. QED
      BY <1>1, <2>1, <3>1 DEF ScanFresh, At
  <2>3. CASE ~Creates(t)
    BY <1>1, <1>4, <2>3, Moved, IdleType DEF FileNotFound, ScanFresh, At
  <2>4. QED
    BY <2>2, <2>3
<1>5. QED
  BY <1>3, <1>4 DEF GetFileNext

\* get_file and get_empty_slot know what they say they know.
LEMMA ScanFreshScan ==
  ASSUME OneWorker, BaseInv, ScanFresh, NEW t \in Workers, FileScan(t)
  PROVE  ScanFresh'
<1>1. /\ \A u \in Workers : u = t
      /\ \A i \in Slots : i \in Int
      /\ thr[t].fex \in Slots /\ fslot(t) = files[thr[t].fex]
  BY NextSlot DEF OneWorker, Slots, BaseInv, fslot
<1>2. files' = files
  BY DEF FileScan, GetFile, CheckName, EmptySlot
<1>3. \A l : Goto(t, l) =>
         /\ thr'[t].pc = l /\ thr'[t].fex = thr[t].fex /\ Req(t)' = Req(t)
         /\ fslot(t)' = fslot(t)
  BY <1>2, Moved DEF Req, fslot
<1>4. thr'[t] = IdleThread => ScanFresh'
  BY <1>1, IdleType DEF ScanFresh, At
<1>5. CASE GetFile(t) \/ CheckName(t)
  <2>1. \A i \in Slots : i < thr[t].fex => ~check_file_name(files[i], Req(t).name)
    BY <1>5 DEF GetFile, CheckName, ScanFresh, At
  <2>2. ~check_file_name(fslot(t), Req(t).name) => Passed(t)
    BY <1>1, <2>1 DEF Passed
  <2>3. CASE GetFile(t) /\ is_existing_file(fslot(t))
    <3>1. Goto(t, "check_name")
      BY <2>3 DEF GetFile
    <3>2. QED
      BY <1>1, <1>2, <1>3, <2>1, <2>3, <3>1 DEF ScanFresh, At
  <2>4. CASE GetFile(t) /\ ~is_existing_file(fslot(t))
    BY <1>2, <2>2, <2>4, NextFresh DEF GetFile, check_file_name
  <2>5. CASE CheckName(t) /\ check_file_name(fslot(t), Req(t).name)
    <3>1. FileFound(t) /\ Req(t).op \in NamedOps
      BY <2>5 DEF CheckName, check_file_name, BaseInv, ScanNamed, ScanPcs, At
    <3>2. FirstStep[Req(t).op] \notin ScanPcs \union {"create_file"}
      BY <3>1 DEF FirstStep, NamedOps, ScanPcs
    <3>3. CASE Reply(t)
      BY <1>4, <3>3, Moved
    <3>4. CASE Goto(t, FirstStep[Req(t).op])
      BY <1>1, <1>3, <3>2, <3>4 DEF ScanFresh, ScanPcs, At
    <3>5. QED
      BY <3>1, <3>3, <3>4 DEF FileFound
  <2>6. CASE CheckName(t) /\ ~check_file_name(fslot(t), Req(t).name)
    <3>1. is_existing_file(fslot(t))
      BY <2>6 DEF CheckName, ScanFresh
    <3>2. QED
      BY <1>2, <2>2, <2>6, <3>1, NextFresh DEF CheckName
  <2>7. QED
    BY <1>5, <2>3, <2>4, <2>5, <2>6
<1>6. CASE EmptySlot(t)
  <2>1. \A i \in Slots : ~check_file_name(files[i], Req(t).name)
    BY <1>6 DEF EmptySlot, ScanFresh, At
  <2>2. CASE ~is_existing_file(fslot(t))
    <3>1. Goto(t, "create_file")
      BY <1>6, <2>2 DEF EmptySlot
    <3>2. QED
      BY <1>1, <1>2, <1>3, <2>1, <2>2, <3>1 DEF ScanFresh, At
  <2>3. CASE GotoSlot(t, "empty_slot", thr[t].fex + 1)
    <3>1. thr'[t].pc = "empty_slot" /\ Req(t)' = Req(t)
      BY <2>3 DEF GotoSlot, Req, BaseInv, TypeOK, ThreadType
    <3>2. QED
      BY <1>1, <1>2, <2>1, <3>1 DEF ScanFresh, At
  <2>4. QED
    BY <1>4, <1>6, <2>2, <2>3, Moved DEF EmptySlot
<1>7. QED
  BY <1>5, <1>6 DEF FileScan

\* No other step is a step of theirs.
LEMMA ScanFreshStep ==
  ASSUME OneWorker, IInv, ScanFresh, NEW t \in Workers, HandlerStep(t)
  PROVE  ScanFresh'
<1>1. BaseInv /\ \A u \in Workers : u = t
  BY DEF IInv, BaseInv, OneWorker
<1>2. CASE FileScan(t)
  BY <1>1, <1>2, ScanFreshScan
<1>3. CASE ~FileScan(t)
  <2>1. thr[t].pc \notin ScanPcs
    BY <1>1, <1>3, ScanAt
  <2>2. thr'[t].pc \notin ScanPcs \union {"create_file"}
    BY <1>1, <2>1, HandlerFlows, IdleType
       DEF IInv, EvictFlow, PlainFlow, ScanFlow, CreateFlow, SimpleFlow, RemoveFlow, WriteFlow,
           ReadNFlow, CloseConnFlow, EvictingPcs, EvictPickPcs, EvictHoldPcs, ScanPcs, WritePcs,
           ReadNPcs
  <2>3. QED
    BY <1>1, <2>2 DEF ScanFresh, ScanPcs, At
<1>4. QED
  BY <1>2, <1>3

\* do_readn_files goes on only with a slot that holds a file.
LEMMA ReadNUndisturbed ==
  ASSUME OneWorker, BaseInv, SlotUndisturbed, NEW t \in Workers, ReadNSteps(t)
  PROVE  SlotUndisturbed' /\ thr'[t].pc # "failed"
<1> DEFINE Held == {"readn_read", "readn_close", "readn_book", "readn_name"}
           f == fslot(t)
<1>1. /\ \A u \in Workers : u = t
      /\ thr[t].fex \in Slots /\ f = files[thr[t].fex]
      /\ fslot(t)' = files'[thr'[t].fex]
  BY NextSlot DEF OneWorker, BaseInv, fslot
<1>2. /\ thr'[t].pc \notin Held \union {"count_file", "create_open", "failed"}
            => SlotUndisturbed' /\ thr'[t].pc # "failed"
      /\ thr'[t].pc \in Held /\ is_existing_file(fslot(t)') => SlotUndisturbed' /\ thr'[t].pc # "failed"
  BY <1>1 DEF SlotUndisturbed
<1>3. \A k : ReadNNext(t, k) => thr'[t].pc \in {"idle", "readn_wasclosed"}
  BY Moved, IdleType DEF ReadNNext, BaseInv, TypeOK, ThreadType
<1>4. thr[t].pc \in Held => is_existing_file(f)
  BY DEF SlotUndisturbed
<1>5. \A ok : ReadNAfter(t, ok) =>
         \/ thr'[t].pc \in {"idle", "readn_wasclosed"}
         \/ thr'[t].pc = "readn_name" /\ thr'[t].fex = thr[t].fex
  BY <1>3, Moved DEF ReadNAfter
<1> HIDE DEF f
<1>6. CASE ReadNWasClosed(t)
  <2>1. thr'[t].pc = "readn_open"
    BY <1>6 DEF ReadNWasClosed, BaseInv, TypeOK, ThreadType
  <2>2. QED
    BY <1>2, <2>1
<1>7. CASE ReadNOpen(t)
  <2>1. CASE ~CanOpen(fslot(t), Conn(t))
    BY <1>2, <1>3, <1>7, <2>1 DEF ReadNOpen
  <2>2. CASE CanOpen(fslot(t), Conn(t))
    <3>1. SetFile(thr[t].fex, open_file(f, Conn(t))) /\ Goto(t, "readn_read")
      BY <1>7, <2>2 DEF ReadNOpen, f
    <3>2. Conn(t) # OWNER_NEXIST
      BY <1>7, BusyConn DEF ReadNOpen, At, SpecialOwners
    <3>3. open_file(f, Conn(t)).owner = Conn(t)
      BY <1>1 DEF open_file, BaseInv, TypeOK, FileType
    <3>4. fslot(t)' = open_file(f, Conn(t))
      BY <1>1, <3>1, Moved DEF SetFile, BaseInv, TypeOK
    <3>5. thr'[t].pc \in Held
      BY <3>1, Moved
    <3>6. QED
      BY <1>2, <3>2, <3>3, <3>4, <3>5 DEF is_existing_file
  <2>3. QED
    BY <2>1, <2>2
<1>8. CASE ReadNRead(t)
  <2>1. is_existing_file(f) /\ files' = files
    BY <1>4, <1>8 DEF ReadNRead, At
  <2> DEFINE ok == CanRead(fslot(t), Conn(t))
  <2>2. \/ thr'[t].pc = "readn_close" /\ thr'[t].fex = thr[t].fex
        \/ ReadNAfter(t, ok)
    <3>1. \/ thr' = [thr EXCEPT ![t].pc = "readn_close", ![t].readok = ok]
          \/ ReadNAfter(t, ok)
      BY <1>8 DEF ReadNRead
    <3> HIDE DEF ok
    <3>2. QED
      BY <3>1 DEF BaseInv, TypeOK, ThreadType
  <2>3. QED
    BY <1>1, <1>2, <1>5, <2>1, <2>2
<1>9. CASE ReadNClose(t)
  <2>1. is_existing_file(f) /\ CloseSlot(t, "readn_book")
    BY <1>4, <1>9 DEF ReadNClose, At
  <2>2. thr'[t].pc = "readn_book" /\ thr'[t].fex = thr[t].fex
    BY <2>1 DEF CloseSlot, BaseInv, TypeOK, ThreadType
  <2>3. files'[thr[t].fex] = f \/ files'[thr[t].fex] = close_file(f)
    BY <1>1, <2>1 DEF CloseSlot, SetFile, f, BaseInv, TypeOK
  <2>4. is_existing_file(close_file(f))
    BY <1>1, <2>1, OwnerAssumption DEF close_file, is_existing_file, BaseInv, TypeOK, FileType
  <2>5. QED
    BY <1>1, <1>2, <2>1, <2>2, <2>3, <2>4
<1>10. CASE ReadNBook(t)
  <2>1. is_existing_file(f) /\ files' = files /\ ReadNAfter(t, thr[t].readok)
    BY <1>4, <1>10 DEF ReadNBook, At
  <2>2. QED
    BY <1>1, <1>2, <1>5, <2>1
<1>11. CASE ReadNName(t)
  <2>1. is_existing_file(f)
    BY <1>4, <1>11 DEF ReadNName, At
  <2>2. QED
    BY <1>2, <1>3, <1>11, <2>1 DEF ReadNName, f
<1>12. QED
  BY <1>6, <1>7, <1>8, <1>9, <1>10, <1>11 DEF ReadNSteps

\* _open_file_create finds the file it has put in the slot, and opens it.
LEMMA CreateUndisturbed ==
  ASSUME OneWorker, IInv, SlotUndisturbed, NEW t \in Workers, CreateSteps(t)
  PROVE  SlotUndisturbed' /\ thr'[t].pc # "failed"
<1> DEFINE f == fslot(t)
           g == create_file_struct(EmptyFile, Req(t).name, OpenOwner(t))
<1>1. /\ BaseInv /\ \A u \in Workers : u = t
      /\ thr[t].fex \in Slots /\ f = files[thr[t].fex]
      /\ fslot(t)' = files'[thr'[t].fex]
  BY NextSlot DEF OneWorker, IInv, BaseInv, fslot
<1>2. \A l : Goto(t, l) =>
         /\ thr'[t].pc = l /\ thr'[t].fex = thr[t].fex
         /\ Req(t)' = Req(t) /\ OpenOwner(t)' = OpenOwner(t)
  BY <1>1, Moved DEF Req, OpenOwner, Wants, Conn
<1>3. Reply(t) => SlotUndisturbed' /\ thr'[t].pc # "failed"
  BY <1>1, Moved, IdleType DEF SlotUndisturbed
<1>4. CASE CreateFile(t) /\ ~is_existing_file(f)
  <2>1. f = EmptyFile
    BY <1>1, <1>4 DEF IInv, SizesConsistent
  <2>2. SetFile(thr[t].fex, g) /\ Goto(t, "count_file")
    BY <1>4, <2>1 DEF CreateFile
  <2>3. fslot(t)' = g
    BY <1>1, <1>2, <2>2 DEF SetFile, BaseInv, TypeOK
  <2>4. g' = create_file_struct(EmptyFile, Req(t)'.name, OpenOwner(t)')
    BY DEF create_file_struct, EmptyFile
  <2>5. QED
    BY <1>1, <1>2, <2>2, <2>3, <2>4 DEF SlotUndisturbed
<1>5. CASE CreateFile(t) /\ is_existing_file(f)
  BY <1>3, <1>5 DEF CreateFile
<1>6. CASE CountFile(t)
  <2>1. /\ files' = files /\ Goto(t, "create_open") /\ f = g
    BY <1>6 DEF CountFile, At, SlotUndisturbed
  <2>2. fslot(t)' = f /\ g' = g
    BY <1>1, <1>2, <2>1 DEF create_file_struct, EmptyFile
  <2>3. QED
    BY <1>1, <1>2, <2>1, <2>2 DEF SlotUndisturbed
<1>7. CASE CreateOpen(t)
  <2>1. f = g /\ thr[t].pc # "idle"
    BY <1>7 DEF CreateOpen, At, SlotUndisturbed
  <2>2. f.owner = OpenOwner(t)
    BY <2>1 DEF create_file_struct, EmptyFile
  <2>3. OpenOwner(t) # OWNER_NEXIST
    BY <1>1, <2>1, BusyConn, OwnerAssumption DEF SpecialOwners
  <2>4. CanOpen(f, OpenOwner(t))
    BY <2>2, <2>3 DEF CanOpen, Accessible, is_existing_file
  <2>5. QED
    BY <1>3, <1>7, <2>4 DEF CreateOpen
<1>8. QED
  BY <1>4, <1>5, <1>6, <1>7 DEF CreateSteps

\* The labels at which a slot is not to be disturbed are reached by those two
\* only.
LEMMA UndisturbedStep ==
  ASSUME OneWorker, IInv, SlotUndisturbed, NEW t \in Workers, HandlerStep(t)
  PROVE  /\ SlotUndisturbed'
         /\ thr'[t].pc = "failed" => Release(t)
<1>1. BaseInv /\ \A u \in Workers : u = t
  BY DEF IInv, BaseInv, OneWorker
<1>2. CASE CreateSteps(t) \/ ReadNSteps(t)
  BY <1>1, <1>2, CreateUndisturbed, ReadNUndisturbed
<1>3. CASE ~CreateSteps(t) /\ ~ReadNSteps(t)
  <2> DEFINE Held == {"readn_read", "readn_close", "readn_book", "readn_name",
                      "count_file", "create_open"}
  <2>1. thr'[t].pc \notin Held
    <3>1. \/ ScanFlow(t) \/ SimpleFlow(t) \/ RemoveFlow(t) \/ WriteFlow(t) \/ CloseConnFlow(t)
          \/ EvictFlow(t) \/ thr'[t] = IdleThread
      BY <1>1, <1>3, ScanFlows, SimpleFlows, RemoveFlows, WriteFlows, CloseConnFlows, EvictFlows,
         Moved DEF HandlerStep, HandlerFailed, IInv
    <3>2. QED
      BY <3>1, IdleType DEF ScanFlow, SimpleFlow, RemoveFlow, WriteFlow, CloseConnFlow, EvictFlow,
         ScanPcs, SlotPcs, SimplePcs, WritePcs, EvictingPcs, EvictPickPcs, EvictHoldPcs
  <2>2. thr'[t].pc = "failed" => Release(t)
    <3>1. thr'[t].pc = "failed" => WriteSteps(t)
      BY <1>1, <1>3, ScanFlows, SimpleFlows, RemoveFlows, CloseConnFlows, EvictFlows, Moved,
         IdleType
         DEF HandlerStep, HandlerFailed, IInv, ScanFlow, SimpleFlow, RemoveFlow, CloseConnFlow,
             EvictFlow, ScanPcs, SlotPcs, SimplePcs, EvictingPcs, EvictPickPcs, EvictHoldPcs
    <3>2. CheckCapacity(t) \/ Reserve(t) \/ Apply(t) => thr'[t].pc # "failed"
      BY <1>1, Moved, IdleType DEF CheckCapacity, Reserve, Apply
    <3>3. QED
      BY <3>1, <3>2 DEF WriteSteps
  <2>3. QED
    BY <1>1, <2>1, <2>2 DEF SlotUndisturbed
<1>4. QED
  BY <1>2, <1>3

\* The server is brought down by the end of a write only.
LEMMA AbortStep ==
  ASSUME BaseInv, EvictorExclusive, VictimOpen, NEW t \in Workers, HandlerStep(t),
         thr'[t].pc = "aborted"
  PROVE  Release(t)
<1>1. thr'[t] # IdleThread
  BY IdleType
<1>2. ~CreateSteps(t) /\ ~ReadNSteps(t)
  BY <1>1, CreateFlows, ReadNFlows DEF CreateFlow, ReadNFlow, ReadNPcs
<1>3. WriteSteps(t)
  BY <1>1, <1>2, ScanFlows, SimpleFlows, RemoveFlows, CloseConnFlows, EvictFlows, Moved
     DEF HandlerStep, HandlerFailed, ScanFlow, SimpleFlow, RemoveFlow, CloseConnFlow,
         EvictFlow, ScanPcs, SlotPcs, SimplePcs, EvictingPcs, EvictPickPcs, EvictHoldPcs
<1>4. CheckCapacity(t) \/ Reserve(t) \/ Apply(t) => thr'[t].pc # "aborted"
  BY Moved, IdleType DEF CheckCapacity, Reserve, Apply
<1>5. QED
  BY <1>3, <1>4 DEF WriteSteps

\* Only an empty write fails, and only an empty append brings the server down.
LEMMA FailStep ==
  ASSUME OneWorker, IInv, RoomWanted, SlotUndisturbed, NEW t \in Workers, HandlerStep(t)
  PROVE  NoHandlerFails'
<1>1. BaseInv /\ EvictorExclusive /\ VictimOpen /\ \A u \in Workers : u = t
  BY DEF IInv, BaseInv, OneWorker
<1>2. ASSUME Release(t) PROVE Req(t).op \in PutOps /\ Req(t).size \in Nat
  <2>1. thr[t].pc = "release"
    BY <1>2 DEF Release, At
  <2>2. QED
    BY <1>1, <2>1, BusyConn DEF RoomWanted, RoomPcs, WritePcs
<1>3. ASSUME thr'[t].pc = "failed"
      PROVE  Req(t)'.op = "WRITE_FILE" /\ Req(t)'.size = 0
  <2>1. Release(t)
    BY <1>3, UndisturbedStep
  <2>2. Fail(t) /\ Req(t).op # "APPEND_FILE" /\ ~(Req(t).size > 0)
    BY <1>1, <1>3, <2>1, Moved, IdleType DEF Release, Refuse, Abort
  <2>3. Req(t)' = Req(t)
    BY <1>1, <2>2, Moved DEF Fail, Req
  <2>4. QED
    BY <1>2, <2>1, <2>2, <2>3 DEF PutOps
<1>4. ASSUME thr'[t].pc = "aborted"
      PROVE  Req(t)'.op = "APPEND_FILE" /\ Req(t)'.size = 0
  <2>1. Release(t)
    BY <1>1, <1>4, AbortStep
  <2>2. Abort(t) /\ Req(t).op = "APPEND_FILE" /\ ~(Req(t).size > 0)
    BY <1>1, <1>4, <2>1, Moved, IdleType DEF Release, Refuse, Fail
  <2>3. Req(t)' = Req(t)
    BY <1>1, <2>2, Moved DEF Abort, Req
  <2>4. QED
    BY <1>2, <2>1, <2>2, <2>3
<1>5. QED
  BY <1>1, <1>3, <1>4 DEF NoHandlerFails, At

\* The steps that are not a handler's start the worker afresh or leave the
\* table alone.
LEMMA OtherFresh ==
  ASSUME OneWorker, IInv, UniqueNames, ScanFresh, SlotUndisturbed, NoHandlerFails,
         \/ \E c \in Conns : AddClient(c)
         \/ \E t \in Workers : Receive(t)
         \/ UNCHANGED vars
  PROVE  UniqueNames' /\ ScanFresh' /\ SlotUndisturbed' /\ NoHandlerFails'
<1>1. CASE UNCHANGED <<files, thr>>
  BY <1>1 DEF UniqueNames, Existing, ScanFresh, SlotUndisturbed, NoHandlerFails, At, Req, fslot,
     OpenOwner, Wants, Conn
<1>2. ASSUME NEW t \in Workers, Receive(t)
      PROVE  UniqueNames' /\ ScanFresh' /\ SlotUndisturbed' /\ NoHandlerFails'
  <2>1. \A u \in Workers : u = t
    BY DEF OneWorker
  <2>2. Starts(t) /\ BaseInv /\ TypeOK
    BY <1>2, ReceiveStarts DEF IInv, BaseInv
  <2>3. PICK c \in clients, r \in Requests, l \in {"get_file", "readn_wasclosed", "cconn_check"} :
           thr' = [thr EXCEPT ![t] = [IdleThread EXCEPT !.pc = l, !.conn = c, !.req = r]]
    BY <2>2 DEF Starts
  <2> DEFINE s == [IdleThread EXCEPT !.pc = l, !.conn = c, !.req = r]
  <2>4. s.pc = l /\ s.fex = 1
    BY DEF IdleThread
  <2>5. thr'[t].pc = l /\ thr'[t].fex = 1 /\ files' = files
    BY <2>2, <2>3, <2>4 DEF TypeOK, Starts
  <2>6. UniqueNames' /\ SlotUndisturbed' /\ NoHandlerFails'
    BY <2>1, <2>5 DEF UniqueNames, Existing, SlotUndisturbed, NoHandlerFails, At
  <2>7. \A i \in Slots : ~(i < 1)
    BY StorageAssumption DEF Slots
  <2>8. ScanFresh'
    BY <2>1, <2>5, <2>7 DEF ScanFresh, At
  <2>9. QED
    BY <2>6, <2>8
<1>3. QED
  BY <1>1, <1>2 DEF AddClient, vars

FreshInv == UniqueNames /\ ScanFresh /\ SlotUndisturbed /\ NoHandlerFails

\* The start.
LEMMA InitFresh == Init => FreshInv
<1> SUFFICES ASSUME Init PROVE FreshInv
  OBVIOUS
<1>1. /\ \A t \in Workers : thr[t] = IdleThread
      /\ \A i \in Slots : ~is_existing_file(files[i])
  BY DEF Init, is_existing_file, EmptyFile
<1>2. QED
  BY <1>1, IdleType DEF FreshInv, UniqueNames, Existing, ScanFresh, SlotUndisturbed,
     NoHandlerFails, At

\* Those four hold together, with the room that is made for payloads only.
LEMMA Fresh ==
  ASSUME OneWorker
  PROVE  Spec => [](IInv /\ FreshInv)
<1>1. IInv /\ RoomWanted /\ FreshInv /\ [Next]_vars => FreshInv'
  <2> SUFFICES ASSUME IInv, RoomWanted, FreshInv, [Next]_vars PROVE FreshInv'
    OBVIOUS
  <2>1. ASSUME NEW t \in Workers, HandlerStep(t) PROVE FreshInv'
    BY <2>1, UniqueStep, ScanFreshStep, UndisturbedStep, FailStep DEF FreshInv
  <2>2. CASE \/ \E c \in Conns : AddClient(c)
             \/ \E t \in Workers : Receive(t)
             \/ UNCHANGED vars
    BY <2>2, OtherFresh DEF FreshInv
  <2>3. QED
    BY <2>1, <2>2 DEF Next, WorkerStep
<1>2. QED
  BY <1>1, InitFresh, Invariance, RoomMade, PTL DEF Spec

\* One worker thread: no path is in two slots, although looking for it and
\* taking a slot for it are separate critical sections.
THEOREM PathsUnique ==
  ASSUME OneWorker
  PROVE  Spec => []UniqueNames
<1>1. FreshInv => UniqueNames
  BY DEF FreshInv
<1>2. QED
  BY <1>1, Fresh, PTL

\* One worker thread: the handlers never fail, so never end the worker's
\* request by THREAD_ERRCHECK, but for a write of nothing.
THEOREM HandlersNeverFail ==
  ASSUME OneWorker
  PROVE  Spec => []NoHandlerFails
<1>1. FreshInv => NoHandlerFails
  BY DEF FreshInv
<1>2. QED
  BY <1>1, Fresh, PTL

----------------------------------------------------------------------------
(* The gate on lastop.                                                     *)

\* writeFile opens the file at its path before it sends a request
\* (client_api.c:231), so no write comes with an empty path.
NamedWrites == \A r \in Requests : r.op = "WRITE_FILE" => r.name # NoName

GatePcs == ScanPcs \union RoomPcs

\* What a client has locked changes by its own steps only, and not while they
\* look for a slot, make room or close its connection.
LEMMA OwnedKept ==
  ASSUME IInv, NEW t \in Workers, HandlerStep(t), NEW i \in Slots, NEW c \in Conns,
         files'[i].owner = c,
         \/ c # Conn(t)
         \/ thr[t].pc \in ClosingPcs
         \/ thr[t].pc \in GatePcs /\ thr'[t].pc \in GatePcs
  PROVE  files'[i] = files[i]
<1>1. BaseInv
  BY DEF IInv, BaseInv
<1> SUFFICES ASSUME files'[i] # files[i] PROVE FALSE
  OBVIOUS
<1>2. PlainFlow(t) /\ c = Conn(t) /\ i = thr[t].fex
  BY <1>1, OwnedAfter DEF IInv
<1>3. CASE thr[t].pc \in ClosingPcs
  <2>1. CloseConnFlow(t)
    BY <1>2, <1>3 DEF PlainFlow, ScanFlow, CreateFlow, SimpleFlow, RemoveFlow, WriteFlow,
       ReadNFlow, ClosingPcs, CloseConnPcs, ScanPcs, CreatePcs, SimplePcs, RemovePcs, WritePcs,
       ReadNPcs, At
  <2>2. CConnClose(t)
    BY <2>1 DEF CloseConnFlow, CConnRemove
  <2>3. /\ files'[i] = close_file(files[i]) /\ is_open_file(files[i])
    BY <1>1, <1>2, <2>2 DEF CConnClose, CloseSlot, SetFile, fslot, close_file, BaseInv, TypeOK
  <2>4. files'[i].owner = OWNER_NULL
    BY <1>1, <2>3 DEF close_file, BaseInv, TypeOK, FileType
  <2>5. QED
    BY <2>4, OwnerAssumption DEF SpecialOwners
<1>4. CASE thr[t].pc \in GatePcs /\ thr'[t].pc \in GatePcs
  <2>1. ScanFlow(t) \/ WriteFlow(t)
    BY <1>2, <1>4 DEF PlainFlow, GatePcs, RoomPcs, EvictingPcs, CreateFlow, SimpleFlow, RemoveFlow,
       ReadNFlow, CloseConnFlow, ClosingPcs, CloseConnPcs, ScanPcs, CreatePcs, SimplePcs,
       RemovePcs, WritePcs, EvictPickPcs, EvictHoldPcs, ReadNPcs, At
  <2>2. files' = files
    BY <1>4, <2>1, IdleType DEF ScanFlow, WriteFlow, GatePcs, RoomPcs, ScanPcs, WritePcs,
       EvictPickPcs, EvictHoldPcs
  <2>3. QED
    BY <2>2
<1>5. QED
  BY <1>2, <1>3, <1>4

\* lastop is set by the opening of a file just created under a lock.
LastopSet(t) ==
    /\ CreateOpen(t) /\ Reply(t) /\ Wants(t, "O_LOCK")
    /\ SetFile(thr[t].fex, open_file(fslot(t), OpenOwner(t)))
    /\ lastop' = [lastop EXCEPT ![Conn(t)] = Req(t).name]

\* No other step of a handler touches it.
LEMMA LastopFlow ==
  ASSUME NEW t \in Workers, HandlerStep(t)
  PROVE  lastop' = lastop \/ LastopSet(t)
<1> USE DEF table
<1>1. FileScan(t) \/ SimpleSteps(t) \/ RemoveSteps(t) \/ WriteSteps(t) => lastop' = lastop
  BY DEF FileScan, GetFile, CheckName, EmptySlot, SimpleSteps, OpenFile, CloseFile, CloseBook,
     ReadFile, LockFile, UnlockFile, RemoveSteps, RemoveCheck, RemoveFile, RemoveBook,
     WriteSteps, CheckCapacity, Reserve, Apply, Release, Refuse
<1>2. EvictSteps(t) => lastop' = lastop
  BY DEF EvictSteps, EvictPick, EvictChoose, EvictNone, EvictName, EvictSize, EvictUsage,
     EvictForce, EvictOpen, EvictRemove, EvictBook
<1>3. ReadNSteps(t) \/ CloseConnSteps(t) \/ HandlerFailed(t) => lastop' = lastop
  BY DEF ReadNSteps, ReadNWasClosed, ReadNOpen, ReadNRead, ReadNClose, ReadNBook, ReadNName,
     CloseConnSteps, CConnCheck, CConnClose, CConnBook, CConnRemove, HandlerFailed
<1>4. CreateSteps(t) => lastop' = lastop \/ LastopSet(t)
  BY DEF CreateSteps, CreateFile, CountFile, CreateOpen, LastopSet
<1>5. QED
  BY <1>1, <1>2, <1>3, <1>4 DEF HandlerStep

\* A file just created is the only one of its path, and it is empty.
LEMMA SetFresh ==
  ASSUME IInv, UniqueNames, SlotUndisturbed, NEW t \in Workers, LastopSet(t)
  PROVE  \A i \in Slots :
           files'[i].owner = Conn(t) /\ files'[i].name = Req(t).name => files'[i].open_size = 0
<1> DEFINE k == thr[t].fex
           x == Req(t).name
           g == create_file_struct(EmptyFile, x, OpenOwner(t))
<1>1. BaseInv /\ k \in Slots
  BY NextSlot DEF IInv, BaseInv
<1>2. At(t, "create_open") /\ thr[t].pc # "idle"
  BY DEF LastopSet, CreateOpen, At
<1>3. files[k] = g /\ files' = [files EXCEPT ![k] = open_file(g, OpenOwner(t))]
  BY <1>2 DEF SlotUndisturbed, fslot, LastopSet, SetFile, At
<1>4. /\ OpenOwner(t) = Conn(t) /\ Conn(t) \in Conns /\ Conn(t) \notin SpecialOwners
      /\ clients \subseteq Conns
  BY <1>1, <1>2, BusyConn DEF LastopSet, OpenOwner, BaseInv, TypeOK
<1>5. files[k].name = x /\ is_existing_file(files[k])
  BY <1>3, <1>4 DEF create_file_struct, EmptyFile, is_existing_file, SpecialOwners
<1>6. files'[k].open_size = 0
  <2>1. open_file(g, OpenOwner(t)).open_size = 0
    BY DEF open_file, create_file_struct, EmptyFile, is_open_file, decompress_data
  <2>2. QED
    BY <1>1, <1>3, <2>1 DEF BaseInv, TypeOK
<1>7. \A i \in Slots : i # k => files'[i] = files[i]
  BY <1>1, <1>3 DEF BaseInv, TypeOK
<1> HIDE DEF k, x
<1>8. ASSUME NEW i \in Slots, files'[i].owner = Conn(t), files'[i].name = x, i # k
      PROVE  FALSE
  <2>1. i \in Existing /\ k \in Existing
    BY <1>1, <1>4, <1>5, <1>7, <1>8 DEF Existing, is_existing_file, SpecialOwners
  <2>2. QED
    BY <1>5, <1>7, <1>8, <2>1 DEF UniqueNames
<1>9. QED
  BY <1>6, <1>8 DEF x

\* A worker between the start of a request and its end has no lastop left.
LEMMA ClearedStep ==
  ASSUME IInv, GateCleared, NEW t \in Workers, HandlerStep(t)
  PROVE  GateCleared'
<1>1. BaseInv /\ thr[t].pc # "idle" /\ \A u \in Workers : u # t => thr'[u] = thr[u]
  BY HandlerBusy, OthersKeep DEF IInv, BaseInv
<1>2. SUFFICES ASSUME NEW u \in Workers, thr'[u].pc # "idle", lastop'[Conn(u)'] # NoName
               PROVE  thr'[u].pc \in CloseConnPcs \union {"cconn_book"}
  BY DEF GateCleared, At
<1>3. CASE u # t
  <2>1. thr'[u] = thr[u] /\ Conn(u)' = Conn(u) /\ Conn(u) # Conn(t)
    BY <1>1, <1>3 DEF BaseInv, ConnExclusive, Conn, At
  <2>2. lastop'[Conn(u)] = lastop[Conn(u)]
    <3>1. Conn(t) \in Conns /\ lastop \in [Conns -> Names \union {NoName}]
      BY <1>1, BusyConn DEF BaseInv, TypeOK
    <3>2. Conn(u) \in Conns
      BY <1>1, <1>2, <2>1, BusyConn
    <3>3. QED
      BY <2>1, <3>1, <3>2, LastopFlow DEF LastopSet
  <2>3. QED
    BY <1>2, <2>1, <2>2 DEF GateCleared, At
<1>4. CASE u = t
  <2>1. ~LastopSet(t)
    BY <1>1, <1>2, <1>4, Moved, IdleType DEF LastopSet
  <2>2. lastop' = lastop /\ Conn(t)' = Conn(t)
    BY <1>1, <1>2, <1>4, <2>1, LastopFlow, OthersKeep, IdleType
  <2>3. thr[t].pc \in ClosingPcs
    BY <1>1, <1>2, <1>4, <2>2 DEF GateCleared, ClosingPcs, At
  <2>4. CloseConnFlow(t)
    BY <1>1, <2>3, HandlerFlows DEF IInv, EvictFlow, EvictingPcs, EvictPickPcs, EvictHoldPcs,
       PlainFlow, ScanFlow, CreateFlow, SimpleFlow, RemoveFlow, WriteFlow, ReadNFlow, ClosingPcs,
       CloseConnPcs, ScanPcs, CreatePcs, SimplePcs, RemovePcs, WritePcs, ReadNPcs, At
  <2>5. QED
    BY <1>2, <1>4, <2>4, IdleType DEF CloseConnFlow, CloseConnPcs, At
<1>5. QED
  BY <1>3, <1>4

\* What lastop lets through is still open and empty.
LEMMA GateStep ==
  ASSUME OneWorker, IInv, UniqueNames, SlotUndisturbed, GateCleared, GateFresh,
         NEW t \in Workers, HandlerStep(t)
  PROVE  GateFresh'
<1>1. /\ BaseInv /\ \A u \in Workers : u = t
      /\ thr[t].pc # "idle" /\ Conn(t) \in Conns
  BY HandlerBusy, BusyConn DEF IInv, BaseInv, OneWorker
<1>2. ASSUME NEW c \in Conns, lastop'[c] # NoName, NEW i \in Slots,
             files'[i].owner = c, files'[i].name = lastop'[c]
      PROVE  files'[i].open_size = 0
  <2>1. CASE LastopSet(t) /\ c = Conn(t)
    <3>1. lastop'[c] = Req(t).name
      BY <1>1, <2>1 DEF LastopSet, BaseInv, TypeOK
    <3>2. QED
      BY <1>2, <2>1, <3>1, SetFresh
  <2>2. CASE ~(LastopSet(t) /\ c = Conn(t))
    <3>1. lastop'[c] = lastop[c]
      BY <1>1, <2>2, LastopFlow DEF LastopSet, BaseInv, TypeOK
    <3>2. c # Conn(t) \/ thr[t].pc \in ClosingPcs
      BY <1>1, <1>2, <3>1 DEF GateCleared, ClosingPcs, At
    <3>3. files'[i] = files[i]
      BY <1>2, <3>2, OwnedKept
    <3>4. QED
      BY <1>2, <3>1, <3>3 DEF GateFresh, OwnedIsEmpty
  <2>3. QED
    BY <2>1, <2>2
<1>3. ASSUME Req(t)'.op = "WRITE_FILE", thr'[t].pc \in GatePcs, NEW i \in Slots,
             files'[i].owner = Conn(t)', files'[i].name = Req(t)'.name
      PROVE  files'[i].open_size = 0
  <2>1. Req(t)' = Req(t) /\ Conn(t)' = Conn(t)
    BY <1>1, <1>3, OthersKeep, IdleType
       DEF GatePcs, RoomPcs, ScanPcs, WritePcs, EvictPickPcs, EvictHoldPcs
  <2>2. thr[t].pc \in GatePcs
    <3>1. EvictFlow(t) \/ PlainFlow(t)
      BY <1>1, HandlerFlows DEF IInv
    <3>2. CASE EvictFlow(t)
      BY <3>2 DEF EvictFlow, EvictingPcs, GatePcs, RoomPcs
    <3>3. CASE PlainFlow(t)
      BY <1>3, <3>3, IdleType
         DEF PlainFlow, ScanFlow, CreateFlow, SimpleFlow, RemoveFlow, WriteFlow, ReadNFlow,
             CloseConnFlow, GatePcs, RoomPcs, ScanPcs, WritePcs, EvictPickPcs, EvictHoldPcs,
             ReadNPcs
    <3>4. QED
      BY <3>1, <3>2, <3>3
  <2>3. files'[i] = files[i]
    BY <1>1, <1>3, <2>1, <2>2, OwnedKept
  <2>4. QED
    BY <1>3, <2>1, <2>2, <2>3 DEF GateFresh, OwnedIsEmpty, GatePcs, RoomPcs
<1>4. QED
  BY <1>1, <1>2, <1>3 DEF GateFresh, OwnedIsEmpty, GatePcs, RoomPcs

\* A write received is one lastop lets through.
LEMMA GateReceive ==
  ASSUME OneWorker, NamedWrites, IInv, GateCleared, GateFresh, NEW t \in Workers, Receive(t)
  PROVE  GateCleared' /\ GateFresh'
<1>1. PICK c \in clients, r \in Requests :
         ReceiveNamed(t, c, r) \/ ReceiveReadN(t, c, r) \/ ReceiveCloseConn(t, c, r)
  BY DEF Receive
<1>2. /\ \A u \in Workers : u = t
      /\ TypeOK /\ c \in Conns /\ files' = files
  BY <1>1 DEF IInv, TypeOK, OneWorker, ReceiveNamed, ReceiveReadN, ReceiveCloseConn
<1>3. PICK l \in {"get_file", "readn_wasclosed", "cconn_check"} : Begin(t, c, r, l)
  BY <1>1 DEF ReceiveNamed, ReceiveReadN, ReceiveCloseConn
<1> DEFINE s == [IdleThread EXCEPT !.pc = l, !.conn = c, !.req = r]
<1>4. s.pc = l /\ s.conn = c /\ s.req = r
  BY DEF IdleThread
<1>5. thr'[t].pc = l /\ Conn(t)' = c /\ Req(t)' = r
  BY <1>2, <1>3, <1>4 DEF Begin, TypeOK, Conn, Req
<1>6. /\ \A d \in Conns : lastop'[d] \in {lastop[d], NoName}
      /\ l # "cconn_check" => lastop'[c] = NoName
  <2>1. CASE ReceiveNamed(t, c, r) \/ ReceiveReadN(t, c, r)
    BY <1>2, <2>1 DEF ReceiveNamed, ReceiveReadN, TypeOK
  <2>2. CASE ReceiveCloseConn(t, c, r)
    <3>1. lastop' = lastop /\ thr'[t].pc = "cconn_check"
      BY <1>2, <2>2 DEF ReceiveCloseConn, Begin, table, TypeOK, IdleThread
    <3>2. QED
      BY <1>5, <3>1
  <2>3. QED
    BY <1>1, <2>1, <2>2
<1>7. GateCleared'
  BY <1>2, <1>5, <1>6 DEF GateCleared, CloseConnPcs, At
<1>8. r.op = "WRITE_FILE" => OwnedIsEmpty(c, r.name)
  <2> SUFFICES ASSUME r.op = "WRITE_FILE" PROVE OwnedIsEmpty(c, r.name)
    OBVIOUS
  <2>1. lastop[c] = r.name /\ r.name # NoName
    BY <1>1 DEF ReceiveNamed, ReceiveReadN, ReceiveCloseConn, NamedWrites
  <2>2. QED
    BY <1>2, <2>1 DEF GateFresh
<1>9. GateFresh'
  <2>1. \A d, x : OwnedIsEmpty(d, x) =>
           \A i \in Slots : files'[i].owner = d /\ files'[i].name = x => files'[i].open_size = 0
    BY <1>2 DEF OwnedIsEmpty
  <2>2. \A d \in Conns : lastop'[d] # NoName => OwnedIsEmpty(d, lastop'[d])
    BY <1>6 DEF GateFresh
  <2>3. QED
    BY <1>2, <1>5, <1>8, <2>1, <2>2 DEF GateFresh, OwnedIsEmpty
<1>10. QED
  BY <1>7, <1>9

\* A new client comes with an empty lastop.
LEMMA GateAddClient ==
  ASSUME IInv, GateCleared, GateFresh, NEW c \in Conns, AddClient(c)
  PROVE  GateCleared' /\ GateFresh'
<1>1. /\ UNCHANGED <<files, thr>> /\ lastop' = [lastop EXCEPT ![c] = NoName]
      /\ lastop \in [Conns -> Names \union {NoName}]
  BY DEF AddClient, IInv, TypeOK
<1>2. \A d : d \in Conns => lastop'[d] \in {lastop[d], NoName}
  BY <1>1
<1>3. \A u \in Workers : ~At(u, "idle") => Conn(u) \in Conns
  BY DEF IInv, ConnExclusive, TypeOK
<1>4. GateCleared'
  BY <1>1, <1>2, <1>3 DEF GateCleared, At, Conn
<1>5. GateFresh'
  BY <1>1, <1>2 DEF GateFresh, OwnedIsEmpty, Req, Conn
<1>6. QED
  BY <1>4, <1>5

\* One worker thread: a writeFile reaches a file its client has locked only if
\* that file is as its opening left it.  The gate is worker_write.c:35.
THEOREM WritesFindFreshFiles ==
  ASSUME OneWorker, NamedWrites
  PROVE  Spec => []WriteFindsFreshFile
<1>1. Init => GateCleared /\ GateFresh
  <2> SUFFICES ASSUME Init PROVE GateCleared /\ GateFresh
    OBVIOUS
  <2>1. /\ \A t \in Workers : thr[t] = IdleThread
        /\ \A c \in Conns : lastop[c] = NoName
    BY DEF Init
  <2>2. QED
    BY <2>1, IdleType DEF GateCleared, GateFresh, At, ScanPcs, RoomPcs, WritePcs,
       EvictPickPcs, EvictHoldPcs
<1>2. IInv /\ FreshInv /\ GateCleared /\ GateFresh /\ [Next]_vars => GateCleared' /\ GateFresh'
  <2> SUFFICES ASSUME IInv, FreshInv, GateCleared, GateFresh, [Next]_vars
               PROVE  GateCleared' /\ GateFresh'
    OBVIOUS
  <2>1. ASSUME NEW t \in Workers, HandlerStep(t) PROVE GateCleared' /\ GateFresh'
    BY <2>1, ClearedStep, GateStep DEF FreshInv
  <2>2. ASSUME NEW t \in Workers, Receive(t) PROVE GateCleared' /\ GateFresh'
    BY <2>2, GateReceive
  <2>3. ASSUME NEW c \in Conns, AddClient(c) PROVE GateCleared' /\ GateFresh'
    BY <2>3, GateAddClient
  <2>4. CASE UNCHANGED vars
    BY <2>4 DEF vars, table, GateCleared, GateFresh, OwnedIsEmpty, At, Conn, Req
  <2>5. QED
    BY <2>1, <2>2, <2>3, <2>4 DEF Next, WorkerStep
<1>3. IInv /\ GateFresh => WriteFindsFreshFile
  <2> SUFFICES ASSUME IInv, GateFresh, NEW t \in Workers, At(t, "apply"),
                      Req(t).op = "WRITE_FILE", fslot(t).owner = Conn(t)
               PROVE  fslot(t).open_size = 0
    BY DEF WriteFindsFreshFile
  <2>1. thr[t].fex \in Slots /\ fslot(t) = files[thr[t].fex]
    BY NextSlot DEF IInv, fslot
  <2>2. fslot(t).name = Req(t).name
    BY DEF IInv, StaleSlotHarmless, WritePcs, At
  <2>3. OwnedIsEmpty(Conn(t), Req(t).name)
    BY DEF GateFresh, RoomPcs, WritePcs, At
  <2>4. QED
    BY <2>1, <2>2, <2>3 DEF OwnedIsEmpty
<1>4. QED
  BY <1>1, <1>2, <1>3, Fresh, PTL DEF Spec

----------------------------------------------------------------------------
(* The steps of each request, whatever the number of workers.              *)

\* The labels of one request lead to each other.
LEMMA StepsTogether ==
  ASSUME NEW op \in Ops
  PROVE  LET S == StepsOf[op] IN
         /\ op \in NamedOps => {"get_file", "check_name", FirstStep[op]} \subseteq S
         /\ op = "OPEN_FILE" => CreatePcs \union {"empty_slot"} \subseteq S
         /\ S \intersect (CreatePcs \union {"empty_slot"}) # {} => op = "OPEN_FILE"
         /\ "close_file" \in S => "close_book" \in S
         /\ S \intersect (RemovePcs \union {"remove_book"}) # {}
              => RemovePcs \union {"remove_book"} \subseteq S
         /\ S \intersect RoomPcs # {} => RoomPcs \subseteq S
         /\ S \intersect (ReadNPcs \union {"readn_book"}) # {}
              => ReadNPcs \union {"readn_book"} \subseteq S
         /\ S \intersect ClosingPcs # {} => ClosingPcs \subseteq S
<1> USE DEF NamedOps, FirstStep, Search, ScanPcs, CreatePcs, SimplePcs, RemovePcs, RoomPcs,
        WritePcs, EvictPickPcs, EvictHoldPcs, ReadNPcs, ClosingPcs, CloseConnPcs
<1>1. CASE op = "OPEN_FILE"
  BY <1>1 DEF StepsOf
<1>2. CASE op = "CLOSE_FILE"
  BY <1>2 DEF StepsOf
<1>3. CASE op = "READ_FILE"
  BY <1>3 DEF StepsOf
<1>4. CASE op \in {"WRITE_FILE", "APPEND_FILE"}
  BY <1>4 DEF StepsOf
<1>5. CASE op \in {"LOCK_FILE", "UNLOCK_FILE"}
  BY <1>5 DEF StepsOf
<1>6. CASE op = "REMOVE_FILE"
  BY <1>6 DEF StepsOf
<1>7. CASE op = "READN_FILE"
  BY <1>7 DEF StepsOf
<1>8. CASE op = "CLOSE_CONN"
  BY <1>8 DEF StepsOf
<1>9. QED
  BY <1>1, <1>2, <1>3, <1>4, <1>5, <1>6, <1>7, <1>8 DEF Ops

\* Where a step of the search leads.
LEMMA SearchSteps ==
  ASSUME BaseInv, NEW t \in Workers, FileScan(t)
  PROVE  \/ thr'[t] = IdleThread
         \/ /\ thr[t].pc \in {"get_file", "check_name"}
            /\ \/ thr'[t].pc \in {"get_file", "check_name"}
               \/ Creates(t) /\ thr'[t].pc = "empty_slot"
               \/ /\ thr'[t].pc = FirstStep[Req(t).op] /\ thr'[t].fex = thr[t].fex
                  /\ check_file_name(fslot(t), Req(t).name)
         \/ At(t, "empty_slot") /\ thr'[t].pc \in {"empty_slot", "create_file"}
<1>1. /\ \A l : Goto(t, l) => thr'[t].pc = l /\ thr'[t].fex = thr[t].fex
      /\ \A l, i : GotoSlot(t, l, i) => thr'[t].pc = l
      /\ Reply(t) => thr'[t] = IdleThread
  BY Moved
<1>2. FileNotFound(t) => thr'[t] = IdleThread \/ (Creates(t) /\ thr'[t].pc = "empty_slot")
  BY <1>1 DEF FileNotFound
<1>3. GetFileNext(t) =>
         \/ thr'[t] = IdleThread
         \/ thr'[t].pc = "get_file"
         \/ Creates(t) /\ thr'[t].pc = "empty_slot"
  BY <1>1, <1>2 DEF GetFileNext
<1>4. CASE GetFile(t)
  BY <1>1, <1>3, <1>4 DEF GetFile, At
<1>5. CASE CheckName(t)
  BY <1>1, <1>2, <1>3, <1>5 DEF CheckName, FileFound, At
<1>6. CASE EmptySlot(t)
  BY <1>1, <1>6 DEF EmptySlot, At
<1>7. QED
  BY <1>4, <1>5, <1>6 DEF FileScan

\* A handler keeps to the steps of its request.
LEMMA StepsFitStep ==
  ASSUME IInv, StepsFit, NEW t \in Workers, HandlerStep(t)
  PROVE  StepsFit'
<1>1. /\ BaseInv /\ EvictorExclusive /\ VictimOpen
      /\ \A u \in Workers : u # t => thr'[u] = thr[u]
      /\ thr'[t] = IdleThread \/ Req(t)' = Req(t)
  BY OthersKeep DEF IInv, BaseInv
<1>2. \A u \in Workers : u # t => Req(u)' = Req(u)
  BY <1>1 DEF Req
<1> DEFINE op == Req(t).op
           S == StepsOf[op]
<1>3. thr[t].pc \in {"idle", "failed", "aborted"} \union S /\ op \in Ops
  BY RequestAssumption DEF StepsFit, IInv, TypeOK, ThreadType, Req, NoRequest, Ops, RequestType
<1>4. thr'[t].pc \in {"idle", "failed", "aborted"} \union S
  <2>1. /\ op \in NamedOps => {"get_file", "check_name", FirstStep[op]} \subseteq S
        /\ op = "OPEN_FILE" => CreatePcs \union {"empty_slot"} \subseteq S
        /\ S \intersect (CreatePcs \union {"empty_slot"}) # {} => op = "OPEN_FILE"
        /\ "close_file" \in S => "close_book" \in S
        /\ S \intersect (RemovePcs \union {"remove_book"}) # {}
             => RemovePcs \union {"remove_book"} \subseteq S
        /\ S \intersect RoomPcs # {} => RoomPcs \subseteq S
        /\ S \intersect (ReadNPcs \union {"readn_book"}) # {}
             => ReadNPcs \union {"readn_book"} \subseteq S
        /\ S \intersect ClosingPcs # {} => ClosingPcs \subseteq S
    BY <1>3, StepsTogether
  <2>2. /\ thr[t].pc \in ScanPcs => op \in NamedOps
        /\ Creates(t) => op = "OPEN_FILE"
    BY <1>1 DEF BaseInv, ScanNamed, Creates
  <2> HIDE DEF S, op
  <2>3. CASE FileScan(t)
    BY <1>1, <1>3, <2>1, <2>2, <2>3, SearchSteps, IdleType DEF op, ScanPcs, CreatePcs, At
  <2>4. CASE CreateSteps(t)
    BY <1>1, <1>3, <2>1, <2>4, CreateFlows, IdleType DEF CreateFlow, CreatePcs
  <2>5. CASE SimpleSteps(t)
    <3>1. thr'[t] = IdleThread \/ (At(t, "close_file") /\ thr'[t].pc = "close_book")
      BY <1>1, <2>5, Moved DEF SimpleSteps, OpenFile, CloseFile, CloseSlot, CloseBook, ReadFile,
         LockFile, UnlockFile
    <3>2. QED
      BY <1>3, <2>1, <3>1, IdleType DEF At
  <2>6. CASE RemoveSteps(t)
    BY <1>1, <1>3, <2>1, <2>6, RemoveFlows, IdleType DEF RemoveFlow, RemovePcs
  <2>7. CASE WriteSteps(t)
    BY <1>1, <1>3, <2>1, <2>7, WriteFlows, IdleType DEF WriteFlow, WritePcs, RoomPcs, EvictPickPcs
  <2>8. CASE EvictSteps(t)
    BY <1>1, <1>3, <2>1, <2>8, EvictFlows
       DEF EvictFlow, EvictingPcs, WritePcs, RoomPcs, EvictPickPcs, EvictHoldPcs
  <2>9. CASE ReadNSteps(t)
    BY <1>1, <1>3, <2>1, <2>9, ReadNFlows, IdleType DEF ReadNFlow, ReadNPcs
  <2>10. CASE CloseConnSteps(t)
    BY <1>1, <1>3, <2>1, <2>10, CloseConnFlows, IdleType
       DEF CloseConnFlow, ClosingPcs, CloseConnPcs
  <2>11. CASE HandlerFailed(t)
    BY <1>1, <2>11, Moved, IdleType DEF HandlerFailed
  <2>12. QED
    BY <2>3, <2>4, <2>5, <2>6, <2>7, <2>8, <2>9, <2>10, <2>11 DEF HandlerStep
<1>5. QED
  BY <1>1, <1>2, <1>3, <1>4, IdleType DEF StepsFit

\* It begins at one of them.
LEMMA StepsFitStart ==
  ASSUME IInv, StepsFit,
         \/ \E c \in Conns : AddClient(c)
         \/ \E t \in Workers : Receive(t)
         \/ UNCHANGED vars
  PROVE  StepsFit'
<1>1. CASE UNCHANGED thr
  BY <1>1 DEF StepsFit, Req
<1>2. ASSUME NEW t \in Workers, Receive(t) PROVE StepsFit'
  <2>1. PICK c \in clients, r \in Requests :
           ReceiveNamed(t, c, r) \/ ReceiveReadN(t, c, r) \/ ReceiveCloseConn(t, c, r)
    BY <1>2 DEF Receive
  <2>2. PICK l \in {"get_file", "readn_wasclosed", "cconn_check"} :
           /\ Begin(t, c, r, l)
           /\ l = "get_file" => r.op \in NamedOps
           /\ l = "readn_wasclosed" => r.op = "READN_FILE"
           /\ l = "cconn_check" => r.op = "CLOSE_CONN"
    BY <2>1 DEF ReceiveNamed, ReceiveReadN, ReceiveCloseConn
  <2>3. l \in StepsOf[r.op]
    <3>1. r.op \in NamedOps => "get_file" \in StepsOf[r.op]
      BY StepsTogether DEF Ops
    <3>2. "readn_wasclosed" \in StepsOf["READN_FILE"] /\ "cconn_check" \in StepsOf["CLOSE_CONN"]
      BY DEF StepsOf, ReadNPcs, CloseConnPcs
    <3>3. QED
      BY <2>2, <3>1, <3>2
  <2> DEFINE s == [IdleThread EXCEPT !.pc = l, !.conn = c, !.req = r]
  <2>4. s.pc = l /\ s.req = r
    BY DEF IdleThread
  <2>5. thr'[t] = s /\ \A u \in Workers : u # t => thr'[u] = thr[u]
    BY <2>2 DEF Begin, IInv, TypeOK
  <2>6. QED
    BY <2>3, <2>4, <2>5, ZenonT(30) DEF StepsFit, Req
<1>3. QED
  BY <1>1, <1>2 DEF AddClient, vars

----------------------------------------------------------------------------
(* The slot get_file returned.                                             *)

\* With one worker it is not disturbed on the way to its use.
LEMMA FoundStep ==
  ASSUME OneWorker, IInv, FoundSlot, NEW t \in Workers, HandlerStep(t)
  PROVE  FoundSlot'
<1> DEFINE Used == SimplePcs \union RemovePcs
<1>1. /\ BaseInv /\ EvictorExclusive /\ VictimOpen
      /\ \A u \in Workers : u = t
  BY DEF IInv, BaseInv, OneWorker
<1>2. SUFFICES ASSUME thr'[t].pc \in Used
               PROVE  check_file_name(fslot(t)', Req(t)'.name)
  BY <1>1 DEF FoundSlot
<1>3. Req(t)' = Req(t)
  BY <1>1, <1>2, OthersKeep, IdleType DEF SimplePcs, RemovePcs
<1>4. CASE FileScan(t)
  <2>1. files' = files
    BY <1>4 DEF FileScan, GetFile, CheckName, EmptySlot
  <2>2. thr'[t].fex = thr[t].fex /\ check_file_name(fslot(t), Req(t).name)
    BY <1>1, <1>2, <1>4, SearchSteps, IdleType DEF SimplePcs, RemovePcs
  <2>3. QED
    BY <1>3, <2>1, <2>2 DEF fslot
<1>5. CASE ~FileScan(t)
  <2>1. At(t, "remove_check") /\ files' = files /\ thr'[t].fex = thr[t].fex
    <3>1. thr[t].pc \notin ScanPcs
      BY <1>1, <1>5, ScanAt
    <3>2. EvictFlow(t) \/ PlainFlow(t)
      BY <1>1, HandlerFlows
    <3>3. QED
      BY <1>2, <3>1, <3>2, IdleType
         DEF EvictFlow, EvictingPcs, EvictPickPcs, EvictHoldPcs, PlainFlow, ScanFlow, CreateFlow,
             SimpleFlow, RemoveFlow, WriteFlow, ReadNFlow, CloseConnFlow, SimplePcs, RemovePcs,
             WritePcs, ReadNPcs
  <2>2. check_file_name(fslot(t), Req(t).name)
    BY <2>1 DEF FoundSlot, RemovePcs, At
  <2>3. QED
    BY <1>3, <2>1, <2>2 DEF fslot
<1>6. QED
  BY <1>4, <1>5

\* The steps that are not a handler's leave it alone.
LEMMA FoundStart ==
  ASSUME OneWorker, IInv, FoundSlot,
         \/ \E c \in Conns : AddClient(c)
         \/ \E t \in Workers : Receive(t)
         \/ UNCHANGED vars
  PROVE  FoundSlot'
<1>1. CASE UNCHANGED <<files, thr>>
  BY <1>1 DEF FoundSlot, fslot, Req
<1>2. ASSUME NEW t \in Workers, Receive(t) PROVE FoundSlot'
  <2>1. Starts(t)
    BY <1>2, ReceiveStarts DEF IInv, BaseInv
  <2>2. \A u \in Workers : thr'[u].pc \notin SimplePcs \union RemovePcs
    BY <2>1, StartsAccounting DEF IInv, BaseInv, OneWorker, SimplePcs, RemovePcs
  <2>3. QED
    BY <2>2 DEF FoundSlot
<1>3. QED
  BY <1>1, <1>2 DEF AddClient, vars

\* Every request keeps to its steps, and with one worker reaches the file it
\* looked for.
LEMMA FoundInvariance ==
  ASSUME OneWorker
  PROVE  Spec => [](IInv /\ FreshInv /\ StepsFit /\ FoundSlot)
<1>1. Init => StepsFit /\ FoundSlot
  BY IdleType DEF Init, StepsFit, FoundSlot, SimplePcs, RemovePcs
<1>2. IInv /\ StepsFit /\ FoundSlot /\ [Next]_vars => StepsFit' /\ FoundSlot'
  BY StepsFitStep, StepsFitStart, FoundStep, FoundStart DEF Next, WorkerStep
<1>3. QED
  BY <1>1, <1>2, Fresh, PTL DEF Spec
=============================================================================
