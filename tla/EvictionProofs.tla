--------------------------- MODULE EvictionProofs ---------------------------
(***************************************************************************)
(* Every policy implements the choice Storage leaves open, so what is      *)
(* proved of Storage holds under each of them.  For any number of workers  *)
(* the scans stay within the table; with one, the file that is evicted is  *)
(* the one the policy promises: FIFO's oldest, LFU's least used, LRU's     *)
(* first without its bit behind the hand.                                  *)
(***************************************************************************)
EXTENDS EvictionProps, OneWorkerProofs

\* Each step of worker t under a policy is a step of worker t's handler in
\* Storage, or changes nothing Storage speaks of.
LEMMA PolicyStepRefines ==
    ASSUME NEW t \in Workers, PolicyStep(t)
    PROVE  HandlerStep(t) \/ UNCHANGED vars
<1> USE DEF HandlerStep, EvictSteps
<1>1. CASE ScanBegin(t)
  BY <1>1 DEF ScanBegin
<1>2. CASE ScanLook(t)
  BY <1>2 DEF ScanLook
<1>3. CASE ScanCheck(t)
  BY <1>3 DEF ScanCheck
<1>4. CASE ScanUsage(t)
  BY <1>4 DEF ScanUsage
<1>5. CASE ScanClear(t)
  BY <1>5 DEF ScanClear
<1>6. CASE ScanEnd(t)
  BY <1>6 DEF ScanEnd
<1>7. CASE ScanDelete(t)
  BY <1>7 DEF ScanDelete
<1>8. CASE MoveHand(t)
  BY <1>8 DEF MoveHand
<1> QED
  BY <1>1, <1>2, <1>3, <1>4, <1>5, <1>6, <1>7, <1>8 DEF PolicyStep

\* So is each step of the server: requests, the clock and the workers.
LEMMA PolicyNextRefines ==
    ASSUME [PolicyNext]_allvars
    PROVE  [Next]_vars
<1>1. CASE UNCHANGED allvars
  BY <1>1 DEF allvars
<1>2. CASE \E c \in Conns : AddClient(c)
  BY <1>2 DEF Next, WorkerStep
<1>3. CASE \E t \in Workers : Receive(t)
  BY <1>3 DEF Next, WorkerStep
<1>4. ASSUME ServerAlive, NEW t \in Workers, PolicyStep(t) PROVE [Next]_vars
  BY <1>4, PolicyStepRefines DEF Next, WorkerStep
<1>5. ASSUME ServerAlive, NEW t \in Workers, ServiceStep(t) PROVE [Next]_vars
  BY <1>5 DEF ServiceStep, ServiceSteps, Next, WorkerStep, HandlerStep
<1>6. CASE Tick
  BY <1>6 DEF Tick
<1> QED
  BY <1>1, <1>2, <1>3, <1>4, <1>5, <1>6 DEF PolicyNext, PolicyWorkerStep

\* The server with a policy (cache_miss, worker_cache_miss.c:11, and the usage
\* data of file.c) implements the server that may choose any victim.
THEOREM PolicyImplementsStorage == PolicySpec => Spec
<1>1. PolicyInit => Init
  BY DEF PolicyInit
<1>2. [PolicyNext]_allvars => [Next]_vars
  BY PolicyNextRefines
<1> QED
  BY <1>1, <1>2, PTL DEF PolicySpec, Spec

\* Under each policy a file being evicted belongs to one worker alone
\* (delete_evicted, worker_cache_miss.c:55).
THEOREM PolicyEvictsAlone == PolicySpec => []EvictorExclusive
<1> QED
  BY PolicyImplementsStorage, EvictionExclusive

\* Under each policy no lock is stolen but by an eviction that takes the file
\* whole (force_open_file, file.c:293).
THEOREM PolicyRespectsLocks == PolicySpec => OwnershipRespected
<1> QED
  BY PolicyImplementsStorage, LocksRespected

----------------------------------------------------------------------------
(* The types of the policy's variables, for any number of workers: the     *)
(* scan keeps in step with cache_miss, so it never runs past its slots.    *)

PolicyInv == PolicyTypeOK /\ ScanInStep

\* A policy keeps its usage data natural numbers.
LEMMA MarkTyped ==
  ASSUME PolicyTypeOK, NEW t \in Workers, MarkStep(t)
  PROVE  mark' \in [Slots -> Nat]
<1>1. algorithm \in {ALGO_FIFO, ALGO_LRU, ALGO_LFU} /\ time \in Nat /\ MaxUses \in Nat
  BY EvictionAssumption DEF PolicyTypeOK
<1>2. FreshMark \in Nat
  BY <1>1 DEF FreshMark, ALGO_FIFO, ALGO_LRU, ALGO_LFU
<1>3. \A m \in Nat : UsedMark(m) \in Nat
  BY <1>1 DEF UsedMark, ALGO_FIFO, ALGO_LRU, ALGO_LFU
<1>4. QED
  BY <1>2, <1>3 DEF MarkStep, PolicyTypeOK

\* The loop goes on to a slot of the table.
LEMMA Advanced ==
  ASSUME PolicyTypeOK, NEW t \in Workers, NEW b \in Nat, scan[t].left > 0, Advance(t, b)
  PROVE  /\ scan' \in [Workers -> ScanType]
         /\ scan'[t].phase = "look" /\ scan'[t].best = b
         /\ scan'[t].pos = SlotAfter(scan[t].pos) /\ scan'[t].left = scan[t].left - 1
         /\ \A u \in Workers : u # t => scan'[u] = scan[u]
<1>1. scan[t] \in ScanType
  BY DEF PolicyTypeOK
<1>2. SlotAfter(scan[t].pos) \in Slots
  BY <1>1, StorageAssumption DEF SlotAfter, Slots, ScanType
<1>3. scan[t].left - 1 \in 0 .. NumFiles
  BY <1>1, StorageAssumption DEF ScanType
<1>4. QED
  BY <1>1, <1>2, <1>3 DEF Advance, PolicyTypeOK, ScanType

\* What an invariant says of one worker survives the steps of the others.
LEMMA OthersInStep ==
  ASSUME NEW t \in Workers, NEW u \in Workers, thr'[u] = thr[u], scan'[u] = scan[u],
         algorithm' = algorithm, InStep(u)
  PROVE  InStep(u)'
  BY DEF InStep, Phase, At

\* The steps of the handlers that are not the policy's never touch the
\* candidate and never enter a scan but at its start.
LEMMA ServiceKept ==
  ASSUME BaseInv, NEW t \in Workers, ServiceSteps(t)
  PROVE  thr'[t].kept \in {thr[t].kept, 0}
<1> USE DEF BaseInv, TypeOK, ThreadType
<1> DEFINE K == thr'[t].kept \in {thr[t].kept, 0}
<1>1. \A l : Goto(t, l) => K
  BY DEF Goto
<1>2. \A l, i : GotoSlot(t, l, i) => K
  BY DEF GotoSlot
<1>3. Reply(t) => K
  BY DEF Reply, IdleThread
<1>4. \A l : CloseSlot(t, l) => K
  BY DEF CloseSlot
<1>5. \A k : ReadNNext(t, k) => K
  BY <1>3 DEF ReadNNext
<1>6. FileNotFound(t) => K
  BY <1>2, <1>3 DEF FileNotFound
<1>7. GetFileNext(t) => K
  BY <1>2, <1>6 DEF GetFileNext
<1>8. CConnNext(t) => K
  BY <1>1, <1>2 DEF CConnNext
<1>9. \A ok : ReadNAfter(t, ok) => K
  BY <1>1, <1>5 DEF ReadNAfter
<1>10. CASE FileScan(t)
  BY <1>1, <1>2, <1>3, <1>6, <1>7, <1>10
     DEF FileScan, GetFile, CheckName, EmptySlot, FileFound
<1>11. CASE CreateSteps(t)
  BY <1>1, <1>3, <1>11 DEF CreateSteps, CreateFile, CountFile, CreateOpen, Fail
<1>12. CASE SimpleSteps(t)
  BY <1>3, <1>4, <1>12
     DEF SimpleSteps, OpenFile, CloseFile, CloseBook, ReadFile, LockFile, UnlockFile
<1>13. CASE RemoveSteps(t)
  BY <1>1, <1>3, <1>13 DEF RemoveSteps, RemoveCheck, RemoveFile, RemoveBook
<1>14. CASE WriteSteps(t)
  BY <1>1, <1>3, <1>14 DEF WriteSteps, CheckCapacity, Reserve, Apply, Release, Refuse, Abort, Fail
<1>15. CASE ReadNSteps(t)
  BY <1>1, <1>4, <1>5, <1>9, <1>15
     DEF ReadNSteps, ReadNWasClosed, ReadNOpen, ReadNRead, ReadNClose, ReadNBook, ReadNName, Fail
<1>16. CASE CloseConnSteps(t) \/ HandlerFailed(t)
  BY <1>1, <1>3, <1>4, <1>8, <1>16
     DEF CloseConnSteps, CConnCheck, CConnClose, CConnBook, CConnRemove, HandlerFailed
<1>17. QED
  BY <1>10, <1>11, <1>12, <1>13, <1>14, <1>15, <1>16 DEF ServiceSteps

\* Nor do they enter a scan but at its start.
LEMMA ServicePcs ==
  ASSUME BaseInv, NEW t \in Workers, ServiceSteps(t)
  PROVE  thr'[t].pc \notin LookPcs \union DeletePcs
<1>1. \/ ScanFlow(t) \/ CreateFlow(t) \/ SimpleFlow(t) \/ RemoveFlow(t) \/ WriteFlow(t)
      \/ ReadNFlow(t) \/ CloseConnFlow(t) \/ thr'[t] = IdleThread
  BY Moved, ScanFlows, CreateFlows, SimpleFlows, RemoveFlows, WriteFlows, ReadNFlows,
     CloseConnFlows DEF ServiceSteps, HandlerFailed
<1>2. QED
  BY <1>1, IdleType DEF ScanFlow, CreateFlow, SimpleFlow, RemoveFlow, WriteFlow, ReadNFlow,
     CloseConnFlow, LookPcs, DeletePcs, EvictHoldPcs, ScanPcs, CreatePcs, SlotPcs, SimplePcs,
     RemovePcs, WritePcs, ReadNPcs, ClosingPcs, CloseConnPcs

\* What the ways of moving on in cache_miss do to the locals of the scan.
LEMMA ScanMoved ==
  ASSUME BaseInv, NEW t \in Workers
  PROVE  /\ \A l : Goto(t, l) =>
              thr'[t].pc = l /\ thr'[t].kept = thr[t].kept /\ thr'[t].victim = thr[t].victim
         /\ \A k : EvictNext(t, k) => thr'[t].pc = "evict_pick" /\ thr'[t].kept = k
         /\ EvictLeave(t) => thr'[t].pc = "check_capacity" /\ thr'[t].kept = 0
  BY DEF BaseInv, TypeOK, ThreadType, Goto, EvictNext, EvictLeave

\* What the proofs show of each step of a policy.
Scanned(t) ==
    /\ PolicyTypeOK' /\ InStep(t)'
    /\ \A u \in Workers : u # t => scan'[u] = scan[u]

\* The scan begins and looks at a slot.
LEMMA BeginScanned ==
  ASSUME BaseInv, PolicyInv, NEW t \in Workers, ScanBegin(t)
  PROVE  Scanned(t)
<1>1. algorithm \in {ALGO_FIFO, ALGO_LRU, ALGO_LFU} /\ time \in Nat /\ lru_clock_pos \in Slots
  BY EvictionAssumption DEF PolicyInv, PolicyTypeOK
<1>2. PICK r \in ScanType : scan' = [scan EXCEPT ![t] = r] /\ r.phase = "look"
  <2> DEFINE p == IF algorithm = ALGO_LRU THEN lru_clock_pos ELSE 1
             b == CASE algorithm = ALGO_FIFO -> time
                    [] algorithm = ALGO_LFU -> INT_MAX
                    [] algorithm = ALGO_LRU -> 0
  <2>1. p \in Slots /\ b \in Nat /\ NumFiles \in 0 .. NumFiles
    BY <1>1, StorageAssumption DEF Slots, INT_MAX, ALGO_FIFO, ALGO_LRU, ALGO_LFU
  <2>2. scan' = [scan EXCEPT ![t] = [phase |-> "look", left |-> NumFiles, pos |-> p, best |-> b]]
    BY DEF ScanBegin
  <2> HIDE DEF p, b
  <2>3. [phase |-> "look", left |-> NumFiles, pos |-> p, best |-> b] \in ScanType
    BY <2>1 DEF ScanType
  <2>4. QED
    BY <2>2, <2>3
<1>3. /\ thr' = thr /\ UNCHANGED <<algorithm, time, mark, lru_clock_pos>> /\ At(t, "evict_pick")
      /\ thr[t].kept = 0
  BY DEF ScanBegin, vars, PolicyInv, ScanInStep, InStep, Phase
<1>4. QED
  BY <1>2, <1>3 DEF Scanned, InStep, Phase, At, PolicyInv, PolicyTypeOK

\* The owner of the slot is looked at, and the scan goes on.
LEMMA LookScanned ==
  ASSUME BaseInv, PolicyInv, NEW t \in Workers, ScanLook(t)
  PROVE  Scanned(t)
<1>1. /\ At(t, "evict_pick") /\ Phase(t, "look") /\ scan[t].left > 0 /\ scan[t] \in ScanType
      /\ UNCHANGED <<algorithm, time, mark, lru_clock_pos>>
      /\ algorithm = ALGO_LRU => thr[t].kept = 0
  BY DEF ScanLook, PolicyInv, PolicyTypeOK, ScanInStep, InStep, ScanType
<1>2. CASE Advance(t, scan[t].best) /\ UNCHANGED vars
  <2>1. scan[t].best \in Nat
    BY <1>1 DEF ScanType
  <2>2. thr' = thr
    BY <1>2 DEF vars
  <2>3. QED
    BY <1>1, <1>2, <2>1, <2>2, Advanced DEF PolicyInv, PolicyTypeOK, Scanned, InStep, Phase, At
<1>3. CASE EvictPick(t) /\ thr'[t].victim = scan[t].pos /\ UNCHANGED scan
  <2>1. thr'[t].pc = "evict_name" /\ thr'[t].kept = thr[t].kept
    BY <1>3 DEF EvictPick, BaseInv, TypeOK, ThreadType
  <2>2. QED
    BY <1>1, <1>3, <2>1 DEF PolicyInv, PolicyTypeOK, Scanned, InStep, Phase, At, LookPcs
<1>4. QED
  BY <1>2, <1>3 DEF ScanLook

\* The file is looked at, and is a candidate or passed.
LEMMA CheckScanned ==
  ASSUME BaseInv, PolicyInv, NEW t \in Workers, ScanCheck(t)
  PROVE  Scanned(t)
<1>1. /\ Phase(t, "look") /\ scan[t].left > 0 /\ scan[t] \in ScanType
      /\ UNCHANGED <<algorithm, time, mark, lru_clock_pos>> /\ thr[t].victim = scan[t].pos
      /\ algorithm = ALGO_LRU => thr[t].kept = 0
  <2>1. thr[t].pc \in {"evict_name", "evict_size"} /\ UNCHANGED <<algorithm, time, mark, lru_clock_pos>>
    BY DEF ScanCheck, EvictName, EvictSize, At
  <2>2. scan[t] \in ScanType /\ InStep(t)
    BY DEF PolicyInv, PolicyTypeOK, ScanInStep
  <2>3. QED
    BY <2>1, <2>2 DEF InStep, LookPcs, DeletePcs, EvictHoldPcs, Phase, At, ScanType
<1>2. \/ thr'[t].pc = "evict_pick" /\ Advance(t, scan[t].best) /\ thr'[t].kept = thr[t].kept
      \/ /\ thr'[t].pc \in {"evict_size", "evict_usage"} /\ UNCHANGED scan
         /\ thr'[t].kept = thr[t].kept /\ thr'[t].victim = thr[t].victim
  BY ScanMoved DEF ScanCheck, EvictName, EvictSize
<1>3. scan[t].best \in Nat
  BY <1>1 DEF ScanType
<1>4. QED
  BY <1>1, <1>2, <1>3, Advanced DEF PolicyInv, PolicyTypeOK, Scanned, InStep, Phase, At, LookPcs

\* Its usage is compared with the best so far.
LEMMA UsageScanned ==
  ASSUME BaseInv, PolicyInv, NEW t \in Workers, ScanUsage(t)
  PROVE  Scanned(t)
<1>1. /\ Phase(t, "look") /\ scan[t].left > 0 /\ scan[t] \in ScanType
      /\ UNCHANGED <<algorithm, time, mark, lru_clock_pos>> /\ thr[t].victim = scan[t].pos
  <2>1. At(t, "evict_usage") /\ UNCHANGED <<algorithm, time, mark, lru_clock_pos>>
    BY DEF ScanUsage, EvictUsage
  <2>2. scan[t] \in ScanType /\ InStep(t)
    BY DEF PolicyInv, PolicyTypeOK, ScanInStep
  <2>3. QED
    BY <2>1, <2>2 DEF InStep, LookPcs, DeletePcs, EvictHoldPcs, Phase, At, ScanType
<1>2. thr'[t].pc = "evict_pick"
  BY ScanMoved DEF ScanUsage, EvictUsage
<1>3. scan[t].best \in Nat /\ mark[thr[t].victim] \in Nat
  BY <1>1, NextSlot DEF ScanType, PolicyInv, PolicyTypeOK, BaseInv
<1>4. algorithm = ALGO_LRU /\ ~TakesCandidate(t) => thr'[t].kept = 0
  <2>1. algorithm = ALGO_LRU => thr[t].kept = 0
    BY <1>1 DEF PolicyInv, ScanInStep, InStep, ScanType
  <2>2. QED
    BY <2>1 DEF ScanUsage
<1>5. CASE /\ \E b \in Nat : Advance(t, b)
           /\ algorithm = ALGO_LRU => ~TakesCandidate(t)
  BY <1>1, <1>2, <1>5, <1>4, Advanced DEF PolicyInv, PolicyTypeOK, Scanned, InStep, Phase, At
<1>6. CASE algorithm = ALGO_LRU /\ TakesCandidate(t) /\ scan' = [scan EXCEPT ![t].left = 0]
  <2>1. 0 \in 0 .. NumFiles
    BY StorageAssumption
  <2>2. scan' \in [Workers -> ScanType] /\ scan'[t].phase = "look"
    BY <1>1, <1>6, <2>1 DEF PolicyInv, PolicyTypeOK, ScanType, Phase
  <2>3. QED
    BY <1>1, <1>2, <1>6, <2>2 DEF PolicyInv, PolicyTypeOK, Scanned, InStep, Phase, At
<1>7. CASE algorithm = ALGO_LRU /\ ~TakesCandidate(t) /\ scan' = [scan EXCEPT ![t].phase = "clear"]
  <2>1. scan' \in [Workers -> ScanType] /\ scan'[t].phase = "clear" /\ scan'[t].left > 0
    BY <1>1, <1>7 DEF PolicyInv, PolicyTypeOK, ScanType
  <2>2. QED
    BY <1>1, <1>2, <1>7, <1>4, <2>1 DEF PolicyInv, PolicyTypeOK, Scanned, InStep, Phase, At
<1>8. QED
  BY <1>3, <1>5, <1>6, <1>7 DEF ScanUsage

\* LRU clears the bit it found set, and goes on.
LEMMA ClearScanned ==
  ASSUME BaseInv, PolicyInv, NEW t \in Workers, ScanClear(t)
  PROVE  Scanned(t)
<1>1. /\ Phase(t, "clear") /\ InStep(t) /\ scan[t] \in ScanType
      /\ UNCHANGED <<algorithm, time, lru_clock_pos>> /\ thr' = thr
      /\ mark' = [mark EXCEPT ![scan[t].pos] = 0] /\ Advance(t, scan[t].best)
  BY DEF ScanClear, PolicyInv, PolicyTypeOK, ScanInStep, vars
<1>2. At(t, "evict_pick") /\ scan[t].left > 0 /\ scan[t].best \in Nat
  BY <1>1 DEF InStep, ScanType
<1>3. mark' \in [Slots -> Nat]
  BY <1>1 DEF PolicyInv, PolicyTypeOK
<1>4. thr[t].kept = 0
  BY <1>1 DEF InStep, Phase
<1>5. QED
  BY <1>1, <1>2, <1>3, <1>4, Advanced DEF PolicyInv, PolicyTypeOK, Scanned, InStep, Phase, At

\* A worker's scan set to a well-typed record.
LEMMA ScanSet ==
  ASSUME PolicyTypeOK, NEW t \in Workers, NEW r \in ScanType, scan' = [scan EXCEPT ![t] = r]
  PROVE  /\ scan' \in [Workers -> ScanType] /\ scan'[t] = r
         /\ \A u \in Workers : u # t => scan'[u] = scan[u]
  BY DEF PolicyTypeOK

\* The scan of a worker that is not in cache_miss.
LEMMA NoScanType == NoScan \in ScanType /\ NoScan.phase = "none"
  BY StorageAssumption DEF NoScan, ScanType, Slots

\* A file is chosen, or there is none and the request is answered or retried.
LEMMA EndScanned ==
  ASSUME BaseInv, PolicyInv, NEW t \in Workers, ScanEnd(t)
  PROVE  Scanned(t)
<1>1. UNCHANGED <<algorithm, time, mark, lru_clock_pos>> /\ thr[t].kept \in Slots \union {0}
  BY NextSlot DEF ScanEnd, BaseInv
<1>2. CASE thr[t].kept = 0
  <2>1. scan' = [scan EXCEPT ![t] = NoScan]
    BY <1>2 DEF ScanEnd
  <2>2. thr'[t].pc = "check_capacity" /\ thr'[t].kept = 0
    <3>1. 0 \notin Slots
      BY DEF Slots
    <3>2. EvictNone(t)
      BY <1>2, <3>1 DEF ScanEnd, EvictChoose
    <3>3. QED
      BY <3>2, ScanMoved DEF EvictNone
  <2>3. QED
    BY <1>1, <2>1, <2>2, ScanSet, NoScanType
       DEF PolicyInv, PolicyTypeOK, Scanned, InStep, Phase, LookPcs, DeletePcs, EvictHoldPcs
<1>3. CASE thr[t].kept # 0
  <2> DEFINE r == [NoScan EXCEPT !.phase = "delete", !.pos = thr[t].kept]
  <2>1. scan' = [scan EXCEPT ![t] = r]
    BY <1>3 DEF ScanEnd
  <2>2. r \in ScanType /\ r.phase = "delete"
    BY <1>1, <1>3, NoScanType DEF ScanType, NoScan
  <2>3. thr'[t].pc = "evict_force" /\ thr'[t].kept = 0
    BY <1>3 DEF ScanEnd, EvictChoose, EvictNone, BaseInv, TypeOK, ThreadType
  <2> HIDE DEF r
  <2>4. QED
    BY <1>1, <2>1, <2>2, <2>3, ScanSet
       DEF PolicyInv, PolicyTypeOK, Scanned, InStep, Phase, DeletePcs
<1>4. QED
  BY <1>2, <1>3

\* delete_evicted, after which the hand is moved or the scan is over.
LEMMA DeleteScanned ==
  ASSUME BaseInv, EvictorExclusive, VictimOpen, PolicyInv, NEW t \in Workers, ScanDelete(t)
  PROVE  Scanned(t)
<1>1. /\ thr[t].pc \in DeletePcs /\ InStep(t) /\ scan[t] \in ScanType
      /\ UNCHANGED <<algorithm, time, lru_clock_pos>> /\ mark' \in [Slots -> Nat]
  BY MarkTyped DEF ScanDelete, EvictForce, EvictOpen, EvictRemove, EvictBook, At, DeletePcs,
     EvictHoldPcs, PolicyInv, PolicyTypeOK, ScanInStep
<1>2. Phase(t, "delete")
  BY <1>1 DEF InStep, Phase, At, DeletePcs, EvictHoldPcs, LookPcs, ScanType
<1>3. thr[t].kept = 0
  BY <1>1, <1>2 DEF InStep, Phase
<1>4. thr'[t].kept = 0 /\ thr'[t].pc \in DeletePcs \union {"check_capacity"}
  <2>1. thr'[t].pc \in EvictingPcs \union {"check_capacity"}
    BY EvictFlows DEF ScanDelete, EvictSteps, EvictFlow
  <2>2. CASE EvictForce(t) \/ EvictOpen(t) \/ EvictBook(t)
    BY <1>3, <2>2, ScanMoved DEF EvictForce, EvictOpen, EvictBook, DeletePcs, EvictHoldPcs
  <2>3. CASE EvictRemove(t)
    BY <1>3, <2>1, <2>3
       DEF EvictRemove, Fail, Goto, DeletePcs, EvictingPcs, EvictHoldPcs, EvictPickPcs,
           BaseInv, TypeOK, ThreadType
  <2>4. QED
    BY <2>2, <2>3 DEF ScanDelete
<1>5. CASE thr'[t].pc = "check_capacity" /\ algorithm = ALGO_LRU
  <2>1. PICK r \in ScanType : scan' = [scan EXCEPT ![t] = r] /\ r.phase = "hand"
    <3> DEFINE r == [scan[t] EXCEPT !.phase = "hand"]
    <3>1. r \in ScanType /\ r.phase = "hand" /\ [scan EXCEPT ![t].phase = "hand"] = [scan EXCEPT ![t] = r]
      BY <1>1 DEF ScanType
    <3>2. scan' = [scan EXCEPT ![t].phase = "hand"]
      BY <1>5 DEF ScanDelete
    <3>3. QED
      BY <3>1, <3>2
  <2>2. QED
    BY <1>1, <1>4, <1>5, <2>1, ScanSet DEF PolicyInv, PolicyTypeOK, Scanned, InStep, Phase, At
<1>6. CASE thr'[t].pc = "check_capacity" /\ algorithm # ALGO_LRU
  <2>1. scan' = [scan EXCEPT ![t] = NoScan]
    BY <1>6 DEF ScanDelete
  <2>2. QED
    BY <1>1, <1>4, <1>6, <2>1, ScanSet, NoScanType
       DEF PolicyInv, PolicyTypeOK, Scanned, InStep, Phase, LookPcs, DeletePcs, EvictHoldPcs
<1>7. CASE thr'[t].pc \in DeletePcs
  <2>1. scan' = scan
    BY <1>7 DEF ScanDelete, DeletePcs, EvictHoldPcs
  <2>2. QED
    BY <1>1, <1>2, <1>4, <1>7, <2>1 DEF PolicyInv, PolicyTypeOK, Scanned, InStep, Phase
<1>8. QED
  BY <1>4, <1>5, <1>6, <1>7

LEMMA HandScanned ==
  ASSUME BaseInv, PolicyInv, NEW t \in Workers, MoveHand(t)
  PROVE  Scanned(t)
<1>1. /\ Phase(t, "hand") /\ InStep(t) /\ scan[t] \in ScanType
      /\ UNCHANGED <<algorithm, time, mark>> /\ thr' = thr
  BY DEF MoveHand, PolicyInv, PolicyTypeOK, ScanInStep, vars
<1>2. At(t, "check_capacity") /\ thr[t].kept = 0
  BY <1>1 DEF InStep, Phase
<1>3. lru_clock_pos' \in Slots
  BY <1>1, StorageAssumption DEF MoveHand, SlotAfter, Slots, ScanType
<1>4. scan' = [scan EXCEPT ![t] = NoScan]
  BY DEF MoveHand
<1>5. QED
  BY <1>1, <1>2, <1>3, <1>4, ScanSet, NoScanType
     DEF PolicyInv, PolicyTypeOK, Scanned, InStep, Phase, At, LookPcs, DeletePcs, EvictHoldPcs

LEMMA ServiceScanned ==
  ASSUME BaseInv, PolicyInv, NEW t \in Workers, ServiceStep(t)
  PROVE  Scanned(t)
<1>1. /\ Phase(t, "none") /\ InStep(t) /\ ServiceSteps(t)
      /\ UNCHANGED <<algorithm, time, lru_clock_pos, scan>> /\ mark' \in [Slots -> Nat]
  BY MarkTyped DEF ServiceStep, PolicyInv, PolicyTypeOK, ScanInStep
<1>2. thr[t].kept = 0
  BY <1>1 DEF InStep, Phase
<1>3. thr'[t].kept = 0 /\ thr'[t].pc \notin LookPcs \union DeletePcs
  BY <1>1, <1>2, ServiceKept, ServicePcs
<1>4. QED
  BY <1>1, <1>3 DEF PolicyInv, PolicyTypeOK, Scanned, InStep, Phase

\* A request begins far from a scan.
LEMMA ReceiveBegins ==
  ASSUME BaseInv, NEW t \in Workers, Receive(t)
  PROVE  /\ \A u \in Workers : u # t => thr'[u] = thr[u]
         /\ thr'[t].pc \in {"get_file", "readn_wasclosed", "cconn_check"} /\ thr'[t].kept = 0
<1>1. PICK c \in clients, r \in Requests,
            l \in {"get_file", "readn_wasclosed", "cconn_check"} : Begin(t, c, r, l)
  BY DEF Receive, ReceiveNamed, ReceiveReadN, ReceiveCloseConn
<1>2. QED
  BY <1>1 DEF Begin, IdleThread, BaseInv, TypeOK

\* Every step keeps the types and the scans in step.
LEMMA PolicyInvStep ==
  ASSUME IInv, PolicyInv, [PolicyNext]_allvars
  PROVE  PolicyInv'
<1>0. BaseInv /\ EvictorExclusive /\ VictimOpen
  BY DEF IInv, BaseInv
<1>1. ASSUME NEW t \in Workers, Scanned(t), algorithm' = algorithm,
             \A u \in Workers : u # t => thr'[u] = thr[u]
      PROVE  PolicyInv'
  <2>1. ASSUME NEW u \in Workers PROVE InStep(u)'
    BY <1>1, OthersInStep DEF Scanned, PolicyInv, ScanInStep
  <2>2. QED
    BY <1>1, <2>1 DEF Scanned, PolicyInv, ScanInStep
<1>2. ASSUME NEW t \in Workers, PolicyStep(t) \/ ServiceStep(t) PROVE PolicyInv'
  <2>1. Scanned(t)
    BY <1>0, <1>2, BeginScanned, LookScanned, CheckScanned, UsageScanned, ClearScanned,
       EndScanned, DeleteScanned, HandScanned, ServiceScanned DEF PolicyStep
  <2>2. algorithm' = algorithm
    BY <1>2 DEF PolicyStep, ServiceStep, ScanBegin, ScanLook, ScanCheck, ScanUsage, ScanClear,
       ScanEnd, ScanDelete, MoveHand
  <2>3. \A u \in Workers : u # t => thr'[u] = thr[u]
    <3>1. HandlerStep(t) \/ thr' = thr
      BY <1>2, PolicyStepRefines DEF ServiceStep, ServiceSteps, HandlerStep, vars
    <3>2. QED
      BY <1>0, <3>1, OthersKeep
  <2>4. QED
    BY <1>1, <2>1, <2>2, <2>3
<1>3. ASSUME UNCHANGED policyvars, NEW t \in Workers, Receive(t) PROVE PolicyInv'
  <2>1. At(t, "idle") /\ UNCHANGED policyvars
    BY <1>3 DEF Receive
  <2>2. /\ \A u \in Workers : u # t => thr'[u] = thr[u]
        /\ thr'[t].pc \in {"get_file", "readn_wasclosed", "cconn_check"} /\ thr'[t].kept = 0
    BY <1>0, <1>3, ReceiveBegins
  <2>3. Phase(t, "none")
    BY <2>1 DEF PolicyInv, PolicyTypeOK, ScanInStep, InStep, Phase, At, LookPcs, DeletePcs,
       EvictHoldPcs, ScanType
  <2>4. Scanned(t)
    BY <2>1, <2>2, <2>3 DEF Scanned, PolicyInv, PolicyTypeOK, InStep, Phase, policyvars,
       LookPcs, DeletePcs, EvictHoldPcs
  <2>5. QED
    BY <1>1, <2>1, <2>2, <2>4 DEF policyvars
<1>4. CASE UNCHANGED policyvars /\ thr' = thr
  BY <1>4 DEF policyvars, PolicyInv, PolicyTypeOK, ScanInStep, InStep, Phase, At
<1>5. CASE UNCHANGED policyvars /\ \E c \in Conns : AddClient(c)
  BY <1>4, <1>5 DEF AddClient
<1>6. CASE Tick
  BY <1>6 DEF Tick, vars, PolicyInv, PolicyTypeOK, ScanInStep, InStep, Phase, At
<1>7. CASE UNCHANGED allvars
  BY <1>4, <1>7 DEF allvars, vars
<1>8. QED
  BY <1>2, <1>3, <1>5, <1>6, <1>7 DEF PolicyNext, PolicyWorkerStep

\* The scans start in step.
LEMMA PolicyInitInv == PolicyInit => PolicyInv
<1>1. 0 \in Nat /\ 1 \in Slots
  BY StorageAssumption DEF Slots
<1>2. ASSUME PolicyInit PROVE PolicyTypeOK
  BY <1>1, <1>2, NoScanType DEF PolicyInit, PolicyTypeOK
<1>3. ASSUME PolicyInit PROVE ScanInStep
  BY <1>3, NoScanType DEF PolicyInit, Init, ScanInStep, InStep, Phase, At, IdleThread,
     LookPcs, DeletePcs, EvictHoldPcs
<1>4. QED
  BY <1>2, <1>3 DEF PolicyInv

\* The locals and the usage data of the policies keep their types
\* (worker_cache_miss.c:26): the scan stays within the table and the hand on it,
\* whatever other workers do to the files meanwhile.
THEOREM PolicyTyped == PolicySpec => []PolicyTypeOK
<1>1. PolicyInit => PolicyInv
  BY PolicyInitInv
<1>2. IInv /\ PolicyInv /\ [PolicyNext]_allvars => PolicyInv'
  BY PolicyInvStep
<1>3. PolicyInv => PolicyTypeOK
  BY DEF PolicyInv
<1>4. QED
  BY <1>1, <1>2, <1>3, PolicyImplementsStorage, Invariance, PTL DEF PolicySpec

----------------------------------------------------------------------------
(* The choice of the victim, with one worker: nothing comes between the    *)
(* looks of a scan but the clock.                                          *)

\* How far slot j is from slot i along the hand's way.
LEMMA HandDistance ==
  ASSUME NEW i \in Slots, NEW j \in Slots
  PROVE  (j - i + NumFiles) % NumFiles = IF j >= i THEN j - i ELSE j - i + NumFiles
  BY StorageAssumption, SMT DEF Slots

\* Between, without the remainder.
LEMMA BetweenSlots ==
  ASSUME NEW i \in Slots, NEW j \in Slots
  PROVE  Between(i, j) = {k \in Slots : IF j >= i THEN i =< k /\ k < j ELSE i =< k \/ k < j}
<1>1. ASSUME NEW k \in Slots
      PROVE  (k - i + NumFiles) % NumFiles < (j - i + NumFiles) % NumFiles
               <=> IF j >= i THEN i =< k /\ k < j ELSE i =< k \/ k < j
  <2>1. (k - i + NumFiles) % NumFiles = IF k >= i THEN k - i ELSE k - i + NumFiles
    BY HandDistance
  <2>2. (j - i + NumFiles) % NumFiles = IF j >= i THEN j - i ELSE j - i + NumFiles
    BY HandDistance
  <2>3. QED
    BY <2>1, <2>2, StorageAssumption DEF Slots
<1>2. QED
  BY <1>1 DEF Between

\* The hand starts with nothing behind it, and passes one slot at a time.
LEMMA HandGoesOn ==
  ASSUME NEW h \in Slots, NEW p \in Slots, NEW l \in 1 .. NumFiles,
         p \in {h + NumFiles - l, h - l}
  PROVE  /\ Between(h, h) = {}
         /\ l > 1 => /\ SlotAfter(p) \in {h + NumFiles - (l - 1), h - (l - 1)}
                     /\ Between(h, SlotAfter(p)) \subseteq Between(h, p) \union {p}
<1>1. SlotAfter(p) \in Slots
  BY StorageAssumption DEF SlotAfter, Slots
<1>2. l > 1 => SlotAfter(p) \in {h + NumFiles - (l - 1), h - (l - 1)}
  BY StorageAssumption DEF SlotAfter, Slots
<1>3. l > 1 => Between(h, SlotAfter(p)) \subseteq Between(h, p) \union {p}
  BY <1>1, BetweenSlots, StorageAssumption DEF SlotAfter, Slots
<1>4. Between(h, h) = {}
  BY BetweenSlots, StorageAssumption DEF Slots
<1>5. QED
  BY <1>2, <1>3, <1>4

\* What the scan has found out so far.
Follows(t) ==
    /\ Phase(t, "look") /\ algorithm # ALGO_LRU => BestKept(t)
    /\ scan[t].phase \in {"look", "clear"} /\ algorithm = ALGO_LRU => HandPassed(t)

VictimInv == ScanFollowsPolicy /\ VictimFollowsPolicy
Victim(t) ==
    /\ LookHolds(t) /\ Follows(t)
    /\ At(t, "evict_force") => FollowsPolicy(t, thr[t].victim)

\* With one worker the invariant is about that one.
LEMMA OneVictim == VictimInv <=> \A t \in Workers : Victim(t)
  BY DEF VictimInv, Victim, Follows, ScanFollowsPolicy, VictimFollowsPolicy

\* A worker that neither scans nor has just chosen has nothing to show.
LEMMA OffScan ==
  ASSUME NEW t \in Workers, InStep(t)', thr'[t].pc \notin LookPcs \union {"evict_force"},
         thr'[t].pc = "evict_pick" => scan'[t].phase = "none"
  PROVE  Victim(t)'
  BY DEF Victim, LookHolds, Follows, InStep, Phase, At, LookPcs

\* Every variable the scan reads is as it was.
Undisturbed(t) ==
    /\ UNCHANGED <<files, algorithm, time, lru_clock_pos>>
    /\ thr'[t].req = thr[t].req

LEMMA SameCandidates ==
  ASSUME NEW t \in Workers, Undisturbed(t)
  PROVE  Candidates(t)' = Candidates(t)
  BY DEF Undisturbed, Candidates, Req

\* A slot that is no candidate is passed over.
LEMMA PassedOver ==
  ASSUME PolicyTypeOK, NEW t \in Workers, Undisturbed(t), mark' = mark,
         thr'[t].kept = thr[t].kept, Follows(t), Phase(t, "look"), scan[t].left > 0, InStep(t),
         scan[t].pos \notin Candidates(t), Advance(t, scan[t].best)
  PROVE  Follows(t)'
<1> DEFINE s == scan[t]
           k == thr[t].kept
           C == Candidates(t)
<1>1. /\ s \in ScanType /\ s.left \in 1 .. NumFiles /\ s.left - 1 \in 0 .. NumFiles
      /\ NumFiles \in Nat /\ s.pos \in Slots /\ lru_clock_pos \in Slots
  BY StorageAssumption DEF PolicyTypeOK, ScanType
<1>2. /\ scan'[t].phase = "look" /\ scan'[t].best = s.best
      /\ scan'[t].pos = SlotAfter(s.pos) /\ scan'[t].left = s.left - 1
  BY <1>1, Advanced DEF ScanType
<1>3. Candidates(t)' = C
  BY SameCandidates
<1>4. ASSUME algorithm # ALGO_LRU PROVE BestKept(t)'
  <2>1. BestKept(t)
    BY <1>4 DEF Follows
  <2>2. s.pos = NumFiles - s.left + 1
    BY <1>1, <2>1 DEF BestKept
  <2>3. \A i \in C : i =< NumFiles - (s.left - 1) <=> i =< NumFiles - s.left
    <3>1. \A i \in C : i \in Slots /\ i # s.pos
      BY DEF Candidates
    <3>2. QED
      BY <1>1, <2>2, <3>1 DEF Slots
  <2>4. s.left - 1 > 0 => SlotAfter(s.pos) = NumFiles - (s.left - 1) + 1
    BY <1>1, <2>2 DEF SlotAfter, Slots
  <2>5. /\ algorithm' = algorithm /\ time' = time /\ mark' = mark /\ thr'[t].kept = k
    BY DEF Undisturbed
  <2> HIDE DEF C
  <2>6. QED
    BY <1>2, <1>3, <2>1, <2>3, <2>4, <2>5 DEF BestKept, C
<1>5. ASSUME algorithm = ALGO_LRU PROVE HandPassed(t)'
  <2>1. HandPassed(t) /\ k = 0
    BY <1>1, <1>5 DEF Follows, Phase, InStep
  <2>2. s.pos \in {lru_clock_pos + NumFiles - s.left, lru_clock_pos - s.left}
    BY <1>1, <2>1 DEF HandPassed
  <2>3. s.left - 1 > 0 =>
          /\ SlotAfter(s.pos) \in {lru_clock_pos + NumFiles - (s.left - 1), lru_clock_pos - (s.left - 1)}
          /\ Between(lru_clock_pos, SlotAfter(s.pos)) \subseteq Between(lru_clock_pos, s.pos) \union {s.pos}
    BY <1>1, <2>2, HandGoesOn
  <2>4. \A i \in C \intersect Between(lru_clock_pos, s.pos) : mark[i] = 0
    BY <1>1, <2>1 DEF HandPassed
  <2>5. /\ algorithm' = algorithm /\ lru_clock_pos' = lru_clock_pos /\ mark' = mark
        /\ thr'[t].kept = 0
    BY <2>1 DEF Undisturbed
  <2> HIDE DEF C
  <2>6. QED
    BY <1>1, <1>2, <1>3, <2>3, <2>4, <2>5 DEF HandPassed, C
<1>6. QED
  BY <1>2, <1>4, <1>5 DEF Follows, Undisturbed

\* What each step of the scan keeps or brings about.
LEMMA BeginFollows ==
  ASSUME BaseInv, PolicyInv, NEW t \in Workers, ScanBegin(t)
  PROVE  Victim(t)'
<1>1. /\ At(t, "evict_pick") /\ thr' = thr /\ UNCHANGED <<algorithm, time, lru_clock_pos>>
      /\ lru_clock_pos \in Slots /\ scan \in [Workers -> ScanType] /\ time \in Nat
      /\ thr[t].kept = 0
  BY DEF ScanBegin, vars, PolicyInv, PolicyTypeOK, ScanInStep, InStep, Phase
<1>2. /\ scan'[t].phase = "look" /\ scan'[t].left = NumFiles
      /\ algorithm = ALGO_LRU => scan'[t].pos = lru_clock_pos
      /\ algorithm # ALGO_LRU => scan'[t].pos = 1
      /\ algorithm = ALGO_FIFO => scan'[t].best = time
  BY <1>1 DEF ScanBegin, ALGO_FIFO, ALGO_LRU, ALGO_LFU
<1>3. BestKept(t)' \/ algorithm = ALGO_LRU
  <2>1. \A i \in Candidates(t)' : ~(i =< NumFiles - NumFiles)
    BY StorageAssumption DEF Candidates, Slots
  <2>2. QED
    BY <1>1, <1>2, <2>1, StorageAssumption DEF BestKept
<1>4. HandPassed(t)' \/ algorithm # ALGO_LRU
  <2>1. Between(lru_clock_pos, lru_clock_pos) = {}
    BY <1>1, BetweenSlots, StorageAssumption DEF Slots
  <2>2. lru_clock_pos \in Int /\ lru_clock_pos = lru_clock_pos + NumFiles - NumFiles
    BY <1>1, StorageAssumption DEF Slots
  <2>3. QED
    BY <1>1, <1>2, <2>1, <2>2 DEF HandPassed
<1>5. QED
  BY <1>1, <1>2, <1>3, <1>4 DEF Victim, LookHolds, Follows, At, Phase, LookPcs

LEMMA LookFollows ==
  ASSUME BaseInv, PolicyInv, NEW t \in Workers, Victim(t), ScanLook(t)
  PROVE  Victim(t)'
<1>1. /\ At(t, "evict_pick") /\ Phase(t, "look") /\ scan[t].left > 0 /\ InStep(t)
      /\ UNCHANGED <<algorithm, time, mark, lru_clock_pos>> /\ scan[t].pos \in Slots
      /\ PolicyTypeOK /\ Follows(t)
  BY DEF ScanLook, PolicyInv, PolicyTypeOK, ScanType, ScanInStep, Victim
<1>2. CASE is_locked_file(files[scan[t].pos], OWNER_ADMIN)
  <2>1. Advance(t, scan[t].best) /\ thr' = thr /\ files' = files
    BY <1>2 DEF ScanLook, vars
  <2>2. scan[t].pos \notin Candidates(t)
    BY <1>2 DEF is_locked_file, Candidates
  <2>3. Undisturbed(t) /\ mark' = mark /\ thr'[t].kept = thr[t].kept
    BY <1>1, <2>1 DEF Undisturbed
  <2>4. Follows(t)'
    BY <1>1, <2>1, <2>2, <2>3, PassedOver
  <2>5. thr'[t].pc = "evict_pick"
    BY <1>1, <2>1 DEF At
  <2>6. QED
    BY <2>4, <2>5 DEF Victim, LookHolds, At, LookPcs
<1>3. CASE ~is_locked_file(files[scan[t].pos], OWNER_ADMIN)
  <2>1. EvictPick(t) /\ thr'[t].victim = scan[t].pos /\ scan' = scan
    BY <1>3 DEF ScanLook
  <2>2. /\ thr'[t].pc = "evict_name" /\ thr'[t].kept = thr[t].kept /\ thr'[t].req = thr[t].req
        /\ files' = files
    BY <2>1 DEF EvictPick, BaseInv, TypeOK, ThreadType
  <2>3. Undisturbed(t) /\ Candidates(t)' = Candidates(t)
    BY <1>1, <2>2, SameCandidates DEF Undisturbed
  <2>4. Follows(t)'
    BY <1>1, <2>1, <2>2, <2>3 DEF Follows, BestKept, HandPassed, Phase
  <2>5. LookHolds(t)'
    BY <1>3, <2>1, <2>2, OwnerAssumption DEF LookHolds, At, vslot, is_locked_file, is_existing_file
  <2>6. QED
    BY <2>2, <2>4, <2>5 DEF Victim, At
<1>4. QED
  BY <1>2, <1>3

LEMMA CheckFollows ==
  ASSUME BaseInv, PolicyInv, NEW t \in Workers, Victim(t), ScanCheck(t)
  PROVE  Victim(t)'
<1>1. /\ thr[t].pc \in {"evict_name", "evict_size"} /\ files' = files
      /\ UNCHANGED <<algorithm, time, mark, lru_clock_pos>>
      /\ PolicyTypeOK /\ InStep(t) /\ Follows(t) /\ LookHolds(t) /\ scan[t] \in ScanType
  BY DEF ScanCheck, EvictName, EvictSize, At, PolicyInv, PolicyTypeOK, ScanInStep, Victim
<1>2. Phase(t, "look") /\ scan[t].left > 0 /\ thr[t].victim = scan[t].pos
  BY <1>1 DEF InStep, LookPcs, DeletePcs, EvictHoldPcs, Phase, At, ScanType
<1>3. thr'[t].kept = thr[t].kept /\ thr'[t].req = thr[t].req
  BY DEF ScanCheck, EvictName, EvictSize, EvictNext, Goto, BaseInv, TypeOK, ThreadType
<1>4. Undisturbed(t) /\ Candidates(t)' = Candidates(t)
  BY <1>1, <1>3, SameCandidates DEF Undisturbed
<1>5. CASE thr'[t].pc = "evict_pick"
  <2>1. Advance(t, scan[t].best)
    BY <1>5 DEF ScanCheck
  <2>2. scan[t].pos \notin Candidates(t)
    <3>1. \/ check_file_name(vslot(t), Req(t).name)
          \/ ~(is_existing_file(vslot(t)) /\ get_size(vslot(t)) > 0)
      BY <1>5, ScanMoved DEF ScanCheck, EvictName, EvictSize
    <3>2. QED
      BY <1>2, <3>1 DEF Candidates, vslot, check_file_name
  <2>3. Follows(t)'
    BY <1>1, <1>2, <1>3, <1>4, <2>1, <2>2, PassedOver
  <2>4. QED
    BY <1>5, <2>3 DEF Victim, LookHolds, At, LookPcs
<1>6. CASE thr'[t].pc # "evict_pick"
  <2>1. scan' = scan
    BY <1>6 DEF ScanCheck
  <2>2. Follows(t)'
    BY <1>1, <1>3, <1>4, <2>1 DEF Follows, BestKept, HandPassed, Phase
  <2>3. thr'[t].victim = thr[t].victim
    BY <1>6, ScanMoved DEF ScanCheck, EvictName, EvictSize
  <2>4. vslot(t)' = vslot(t) /\ vslot(t).owner # OWNER_ADMIN
    BY <1>1, <2>3 DEF vslot, LookHolds, LookPcs
  <2>5. CASE EvictName(t)
    <3>1. thr'[t].pc = "evict_size" /\ ~check_file_name(vslot(t), Req(t).name)
      BY <1>6, <2>5, ScanMoved DEF EvictName
    <3>2. QED
      BY <1>3, <2>2, <2>4, <3>1 DEF Victim, LookHolds, At, Req
  <2>6. CASE EvictSize(t)
    <3>1. /\ thr'[t].pc = "evict_usage" /\ is_existing_file(vslot(t)) /\ get_size(vslot(t)) > 0
          /\ At(t, "evict_size")
      BY <1>6, <2>6, ScanMoved DEF EvictSize
    <3>2. ~check_file_name(vslot(t), Req(t).name) /\ thr[t].victim \in Slots
      BY <1>1, <3>1, NextSlot DEF LookHolds, BaseInv
    <3>3. thr[t].victim \in Candidates(t)
      BY <2>4, <3>1, <3>2 DEF Candidates, vslot, check_file_name
    <3>4. QED
      BY <1>4, <2>2, <2>3, <2>4, <3>1, <3>3 DEF Victim, LookHolds, At
  <2>7. QED
    BY <2>5, <2>6 DEF ScanCheck
<1>7. QED
  BY <1>5, <1>6

LEMMA UsageFollows ==
  ASSUME BaseInv, PolicyInv, NEW t \in Workers, Victim(t), ScanUsage(t)
  PROVE  Victim(t)'
<1> DEFINE s == scan[t]
           k == thr[t].kept
           v == thr[t].victim
           C == Candidates(t)
<1>1. /\ At(t, "evict_usage") /\ files' = files
      /\ UNCHANGED <<algorithm, time, mark, lru_clock_pos>>
      /\ PolicyTypeOK /\ InStep(t) /\ Follows(t) /\ LookHolds(t) /\ s \in ScanType
  BY DEF ScanUsage, EvictUsage, At, PolicyInv, PolicyTypeOK, ScanInStep, Victim
<1>2. Phase(t, "look") /\ s.left > 0 /\ v = s.pos /\ v \in C /\ is_existing_file(vslot(t))
  BY <1>1 DEF InStep, LookHolds, LookPcs, DeletePcs, EvictHoldPcs, Phase, At, ScanType, Candidates,
     vslot
<1>3. thr'[t].pc = "evict_pick" /\ thr'[t].req = thr[t].req
  BY DEF ScanUsage, EvictUsage, EvictNext, BaseInv, TypeOK, ThreadType
<1>4. thr'[t].kept = IF TakesCandidate(t) THEN v ELSE k
  BY DEF ScanUsage
<1>5. Undisturbed(t) /\ Candidates(t)' = C
  BY <1>1, <1>3, SameCandidates DEF Undisturbed
<1>6. Follows(t)' => Victim(t)'
  BY <1>3 DEF Victim, LookHolds, At, LookPcs
<1>7. CASE algorithm # ALGO_LRU
  <2>1. BestKept(t)
    BY <1>1, <1>2, <1>7 DEF Follows
  <2>2. TakesCandidate(t) <=> mark[v] < s.best
    BY <1>2, <1>7 DEF TakesCandidate
  <2>3. /\ scan'[t].phase = "look" /\ scan'[t].left = s.left - 1
        /\ scan'[t].pos = SlotAfter(s.pos)
        /\ scan'[t].best = IF mark[v] < s.best THEN mark[v] ELSE s.best
    <3>1. s.best \in Nat /\ mark[v] \in Nat
      BY <1>1, NextSlot DEF ScanType, PolicyTypeOK, BaseInv
    <3>2. Advance(t, IF mark[v] < s.best THEN mark[v] ELSE s.best)
      BY <1>7, <2>2 DEF ScanUsage
    <3>3. QED
      BY <1>1, <1>2, <3>1, <3>2, Advanced
  <2>4. /\ s.left \in 1 .. NumFiles /\ NumFiles \in Nat /\ s.pos \in Slots /\ s.best \in Nat
        /\ time \in Nat
    BY <1>1, <1>2, StorageAssumption DEF ScanType, PolicyTypeOK
  <2>5. s.pos = NumFiles - s.left + 1
    BY <1>2, <2>1 DEF BestKept
  <2>6. s.left - 1 > 0 => SlotAfter(s.pos) = NumFiles - (s.left - 1) + 1
    BY <2>4, <2>5 DEF SlotAfter, Slots
  <2>7. C \subseteq Slots /\ mark \in [Slots -> Nat] /\ Slots = 1 .. NumFiles
    BY <1>1 DEF Candidates, PolicyTypeOK, Slots
  <2>8. /\ k # 0 => k \in C /\ k =< NumFiles - s.left /\ mark[k] = s.best
        /\ algorithm = ALGO_FIFO => s.best =< time /\ (k # 0 => s.best < time)
        /\ \A i \in C : i =< NumFiles - s.left =>
              s.best < mark[i] \/ (s.best = mark[i] /\ (k # 0 => k =< i))
    BY <2>1 DEF BestKept
  <2>9. BestKept(t)'
    <3> HIDE DEF C, s, k, v
    <3>1. CASE mark[v] < s.best
      <4>1. scan'[t].best = mark[v] /\ thr'[t].kept = v /\ v # 0
        BY <1>4, <2>2, <2>3, <2>7, <1>2, <3>1
      <4>2. \A i \in C : i =< NumFiles - (s.left - 1) =>
               mark[v] < mark[i] \/ (mark[v] = mark[i] /\ v =< i)
        <5> SUFFICES ASSUME NEW i \in C, i =< NumFiles - (s.left - 1)
                     PROVE  mark[v] < mark[i] \/ (mark[v] = mark[i] /\ v =< i)
          OBVIOUS
        <5>1. i \in Int /\ v \in Int /\ mark[i] \in Nat /\ mark[v] \in Nat
          BY <1>2, <2>7
        <5>2. CASE i =< NumFiles - s.left
          <6>1. s.best =< mark[i]
            BY <2>4, <2>8, <5>1, <5>2
          <6>2. QED
            BY <2>4, <3>1, <5>1, <6>1
        <5>3. CASE ~(i =< NumFiles - s.left)
          <6>1. i = v
            BY <1>2, <2>4, <2>5, <5>1, <5>3
          <6>2. QED
            BY <5>1, <6>1
        <5>4. QED
          BY <5>2, <5>3
      <4>3. algorithm = ALGO_FIFO => mark[v] < time
        BY <1>2, <2>4, <2>7, <2>8, <3>1
      <4>4. v \in C /\ v =< NumFiles - (s.left - 1)
        BY <1>2, <2>4, <2>5
      <4>5. algorithm' = algorithm /\ time' = time /\ mark' = mark
        BY <1>1
      <4>6. algorithm = ALGO_FIFO => mark[v] =< time
        BY <1>2, <4>3, <2>4, <2>7
      <4>7. QED
        BY <1>5, <2>3, <2>6, <4>1, <4>2, <4>3, <4>4, <4>5, <4>6 DEF BestKept
    <3>2. CASE ~(mark[v] < s.best)
      <4>1. scan'[t].best = s.best /\ thr'[t].kept = k
        BY <1>4, <2>2, <2>3, <3>2
      <4>2. \A i \in C : i =< NumFiles - (s.left - 1) =>
               s.best < mark[i] \/ (s.best = mark[i] /\ (k # 0 => k =< i))
        <5> SUFFICES ASSUME NEW i \in C, i =< NumFiles - (s.left - 1)
                     PROVE  s.best < mark[i] \/ (s.best = mark[i] /\ (k # 0 => k =< i))
          OBVIOUS
        <5>1. i \in Int /\ v \in Int /\ mark[i] \in Nat /\ mark[v] \in Nat
          BY <1>2, <2>7
        <5>2. CASE i =< NumFiles - s.left
          BY <2>8, <5>2
        <5>3. CASE ~(i =< NumFiles - s.left)
          <6>1. i = v
            BY <1>2, <2>4, <2>5, <5>1, <5>3
          <6>2. k # 0 => k \in Int /\ k =< v
            BY <1>2, <2>4, <2>5, <2>7, <2>8
          <6>3. QED
            BY <2>4, <3>2, <5>1, <6>1, <6>2
        <5>4. QED
          BY <5>2, <5>3
      <4>3. k # 0 => k \in C /\ k =< NumFiles - (s.left - 1) /\ mark[k] = s.best
        <5>1. k \in Int
          BY NextSlot DEF BaseInv, Slots, k
        <5>2. QED
          BY <2>4, <2>8, <5>1
      <4>4. algorithm' = algorithm /\ time' = time /\ mark' = mark
        BY <1>1
      <4>5. QED
        BY <1>5, <2>3, <2>6, <2>8, <4>1, <4>2, <4>3, <4>4 DEF BestKept
    <3>3. QED
      BY <3>1, <3>2
  <2>10. QED
    BY <1>1, <1>6, <1>7, <2>9 DEF Follows
<1>8. CASE algorithm = ALGO_LRU
  <2>1. /\ HandPassed(t) /\ k = 0 /\ (TakesCandidate(t) <=> mark[v] = 0)
    <3>1. HandPassed(t)
      BY <1>1, <1>2, <1>8 DEF Follows, Phase
    <3>2. k = 0
      <4>1. s.left # 0
        BY <1>2
      <4>2. QED
        BY <1>1, <1>8, <4>1 DEF InStep
    <3>3. TakesCandidate(t) <=> mark[v] = 0
      BY <1>2, <1>8 DEF TakesCandidate
    <3>4. QED
      BY <3>1, <3>2, <3>3
  <2>2. CASE TakesCandidate(t)
    <3>1. scan' = [scan EXCEPT ![t].left = 0]
      BY <1>8, <2>2 DEF ScanUsage
    <3>2. scan'[t].left = 0 /\ scan'[t].pos = s.pos
      BY <1>1, <3>1 DEF PolicyTypeOK, ScanType
    <3>3. HandPassed(t)'
      BY <1>1, <1>2, <1>4, <1>5, <2>1, <2>2, <3>2 DEF HandPassed
    <3>4. QED
      BY <1>1, <1>6, <1>8, <3>3 DEF Follows
  <2>3. CASE ~TakesCandidate(t)
    <3>1. scan' = [scan EXCEPT ![t].phase = "clear"]
      BY <1>2, <1>8, <2>3 DEF ScanUsage
    <3>2. scan'[t].left = s.left /\ scan'[t].pos = s.pos
      BY <1>1, <3>1 DEF PolicyTypeOK, ScanType
    <3>3. HandPassed(t)'
      BY <1>1, <1>4, <1>5, <2>1, <2>3, <3>2 DEF HandPassed
    <3>4. QED
      BY <1>1, <1>6, <1>8, <3>3 DEF Follows
  <2>4. QED
    BY <2>2, <2>3
<1>9. QED
  BY <1>7, <1>8

LEMMA ClearFollows ==
  ASSUME BaseInv, PolicyInv, NEW t \in Workers, Victim(t), ScanClear(t)
  PROVE  Victim(t)'
<1> DEFINE s == scan[t]
           C == Candidates(t)
<1>1. /\ Phase(t, "clear") /\ InStep(t) /\ s \in ScanType /\ PolicyTypeOK /\ Follows(t)
      /\ UNCHANGED <<algorithm, time, lru_clock_pos>> /\ thr' = thr /\ files' = files
      /\ mark' = [mark EXCEPT ![s.pos] = 0] /\ Advance(t, s.best)
  BY DEF ScanClear, PolicyInv, PolicyTypeOK, ScanInStep, Victim, vars
<1>2. /\ At(t, "evict_pick") /\ s.left \in 1 .. NumFiles /\ s.best \in Nat /\ thr[t].kept = 0
      /\ algorithm = ALGO_LRU /\ NumFiles \in Nat /\ s.pos \in Slots /\ lru_clock_pos \in Slots
  BY <1>1, StorageAssumption DEF InStep, ScanType, Phase, PolicyTypeOK
<1>3. /\ scan'[t].pos = SlotAfter(s.pos) /\ scan'[t].left = s.left - 1
      /\ scan'[t].phase = "look"
  BY <1>1, <1>2, Advanced
<1>4. HandPassed(t)
  BY <1>1, <1>2 DEF Follows, Phase
<1>5. Candidates(t)' = C /\ C \subseteq Slots
  BY <1>1, SameCandidates DEF Undisturbed, Candidates
<1>6. s.pos \in {lru_clock_pos + NumFiles - s.left, lru_clock_pos - s.left}
  BY <1>2, <1>4 DEF HandPassed
<1>7. s.left - 1 > 0 =>
        /\ SlotAfter(s.pos) \in {lru_clock_pos + NumFiles - (s.left - 1), lru_clock_pos - (s.left - 1)}
        /\ Between(lru_clock_pos, SlotAfter(s.pos)) \subseteq Between(lru_clock_pos, s.pos) \union {s.pos}
  BY <1>2, <1>6, HandGoesOn
<1>8. \A i \in C \intersect (Between(lru_clock_pos, s.pos) \union {s.pos}) : mark'[i] = 0
  BY <1>1, <1>2, <1>4, <1>5 DEF HandPassed, PolicyTypeOK
<1>9. HandPassed(t)'
  <2>1. thr'[t].kept = 0 /\ lru_clock_pos' = lru_clock_pos
    BY <1>1, <1>2
  <2> HIDE DEF C, s
  <2>2. QED
    BY <1>2, <1>3, <1>5, <1>7, <1>8, <2>1 DEF HandPassed
<1>10. QED
  BY <1>1, <1>2, <1>3, <1>9 DEF Victim, LookHolds, Follows, At, LookPcs

LEMMA EndFollows ==
  ASSUME BaseInv, PolicyInv, PolicyInv', NEW t \in Workers, Victim(t), ScanEnd(t)
  PROVE  Victim(t)'
<1> DEFINE s == scan[t]
           k == thr[t].kept
<1>1. /\ UNCHANGED <<algorithm, time, mark, lru_clock_pos>> /\ k \in Slots \union {0}
      /\ Phase(t, "look") /\ s.left = 0 /\ Follows(t) /\ files' = files
      /\ NumFiles \in Nat /\ 0 \notin Slots /\ InStep(t)'
  BY NextSlot, StorageAssumption
     DEF ScanEnd, BaseInv, Victim, EvictChoose, EvictNone, Slots, PolicyInv, ScanInStep
<1>2. CASE k = 0
  <2>1. thr'[t].pc = "check_capacity"
    BY <1>1, <1>2, ScanMoved DEF ScanEnd, EvictChoose, EvictNone
  <2>2. QED
    BY <1>1, <2>1, OffScan DEF LookPcs
<1>3. CASE k # 0
  <2>1. /\ thr'[t].pc = "evict_force" /\ thr'[t].victim = k /\ thr'[t].req = thr[t].req
    BY <1>3 DEF ScanEnd, EvictChoose, EvictNone, BaseInv, TypeOK, ThreadType
  <2>2. Candidates(t)' = Candidates(t) /\ Candidates(t) \subseteq Slots
    BY <1>1, <2>1, SameCandidates DEF Undisturbed, Candidates
  <2>3. Evictable(t)' = Evictable(t) /\ Evictable(t) \subseteq Candidates(t)
    BY <1>1, <2>2 DEF Evictable
  <2>4. scan'[t].phase = "delete"
    BY <1>1, <1>3 DEF ScanEnd, NoScan, PolicyInv, PolicyTypeOK
  <2>5. FollowsPolicy(t, k)
    <3>1. CASE algorithm # ALGO_LRU
      <4>1. BestKept(t)
        BY <1>1, <3>1 DEF Follows
      <4>2. \A i \in Candidates(t) : i =< NumFiles - s.left
        BY <1>1, <2>2 DEF Slots
      <4>3. k \in Evictable(t)
        BY <1>3, <4>1 DEF BestKept, Evictable
      <4>4. \A i \in Candidates(t) : mark[k] < mark[i] \/ (mark[k] = mark[i] /\ k =< i)
        BY <1>3, <4>1, <4>2 DEF BestKept
      <4>5. QED
        BY <2>3, <3>1, <4>3, <4>4 DEF FollowsPolicy
    <3>2. CASE algorithm = ALGO_LRU
      <4>1. HandPassed(t)
        BY <1>1, <3>2 DEF Follows, Phase
      <4>2. algorithm # ALGO_FIFO
        BY <3>2 DEF ALGO_FIFO, ALGO_LRU
      <4>3. k = s.pos /\ k \in Candidates(t) /\ mark[k] = 0
        BY <1>3, <4>1 DEF HandPassed
      <4>4. \A i \in Candidates(t) \intersect Between(lru_clock_pos, s.pos) : mark[i] = 0
        BY <1>3, <4>1 DEF HandPassed
      <4>5. QED
        BY <2>3, <3>2, <4>2, <4>3, <4>4 DEF FollowsPolicy, Evictable
    <3>3. QED
      BY <3>1, <3>2
  <2>6. FollowsPolicy(t, thr[t].victim)'
    <3>1. UNCHANGED <<algorithm, mark, lru_clock_pos>>
      BY <1>1
    <3> HIDE DEF k
    <3>2. QED
      BY <2>1, <2>3, <2>5, <3>1 DEF FollowsPolicy
  <2>7. QED
    BY <2>1, <2>4, <2>6 DEF Victim, LookHolds, Follows, Phase, At, LookPcs
<1>4. QED
  BY <1>2, <1>3

\* Once the victim is taken there is nothing more to show.
LEMMA DeleteFollows ==
  ASSUME BaseInv, EvictorExclusive, VictimOpen, PolicyInv, PolicyInv', NEW t \in Workers,
         ScanDelete(t) \/ MoveHand(t) \/ ServiceStep(t)
  PROVE  Victim(t)'
<1>1. InStep(t)' /\ InStep(t)
  BY DEF PolicyInv, ScanInStep
<1>2. CASE ScanDelete(t)
  <2>1. thr'[t].pc \in EvictingPcs \union {"check_capacity"} /\ thr[t].pc \in DeletePcs
    BY <1>2, EvictFlows DEF ScanDelete, EvictSteps, EvictFlow, EvictForce, EvictOpen, EvictRemove,
       EvictBook, At, DeletePcs, EvictHoldPcs
  <2>2. thr'[t].pc \notin LookPcs \union {"evict_force", "evict_pick"}
    BY <1>2, ScanMoved, Moved DEF ScanDelete, EvictForce, EvictOpen, EvictRemove, EvictBook, Fail, LookPcs
  <2>3. QED
    BY <1>1, <2>2, OffScan
<1>3. CASE MoveHand(t)
  <2>1. thr' = thr /\ At(t, "check_capacity")
    BY <1>1, <1>3 DEF MoveHand, vars, InStep
  <2>2. QED
    BY <1>1, <2>1, OffScan DEF At, LookPcs
<1>4. CASE ServiceStep(t)
  <2>1. thr'[t].pc \notin LookPcs \union DeletePcs /\ scan'[t].phase = "none"
    BY <1>4, ServicePcs DEF ServiceStep, Phase
  <2>2. QED
    BY <1>1, <2>1, OffScan DEF DeletePcs
<1>5. QED
  BY <1>2, <1>3, <1>4

\* Every step of the one worker, of the clients and of the clock keeps to the
\* policy.
LEMMA VictimStep ==
  ASSUME OneWorker, IInv, PolicyInv, PolicyInv', VictimInv, [PolicyNext]_allvars
  PROVE  VictimInv'
<1>0. BaseInv /\ EvictorExclusive /\ VictimOpen
  BY DEF IInv, BaseInv
<1>1. ASSUME NEW t \in Workers, Victim(t)' PROVE VictimInv'
  BY <1>1 DEF OneWorker, VictimInv, Victim, Follows, ScanFollowsPolicy, VictimFollowsPolicy
<1>2. ASSUME NEW t \in Workers, PolicyStep(t) \/ ServiceStep(t) PROVE VictimInv'
  <2>1. Victim(t)
    BY OneVictim
  <2>2. Victim(t)'
    BY <1>0, <1>2, <2>1, BeginFollows, LookFollows, CheckFollows, UsageFollows, ClearFollows,
       EndFollows, DeleteFollows DEF PolicyStep
  <2>3. QED
    BY <1>1, <2>2
<1>3. ASSUME UNCHANGED policyvars, NEW t \in Workers, Receive(t) PROVE VictimInv'
  <2>1. thr'[t].pc \in {"get_file", "readn_wasclosed", "cconn_check"}
    BY <1>0, <1>3, ReceiveBegins
  <2>2. InStep(t)'
    BY DEF PolicyInv, ScanInStep
  <2>3. QED
    BY <1>1, <2>1, <2>2, OffScan DEF LookPcs
<1>4. ASSUME UNCHANGED <<files, thr, algorithm, mark, lru_clock_pos, scan>>, time' \in Nat,
             time' >= time, NEW t \in Workers
      PROVE  Victim(t)'
  <2>1. Victim(t) /\ time \in Nat /\ scan[t] \in ScanType /\ mark \in [Slots -> Nat]
        /\ thr[t].victim \in Slots
    BY <1>0, OneVictim, NextSlot DEF PolicyInv, PolicyTypeOK, BaseInv
  <2>2. Candidates(t)' = Candidates(t) /\ Candidates(t) \subseteq Slots
    BY <1>4 DEF Candidates, Req
  <2>3. LookHolds(t)'
    BY <1>4, <2>1, <2>2 DEF Victim, LookHolds, At, vslot, Req
  <2>4. Follows(t)'
    <3>1. BestKept(t) => BestKept(t)'
      <4>1. scan[t].best \in Nat
        BY <2>1 DEF ScanType
      <4>2. scan[t].best =< time => scan[t].best =< time'
        BY <1>4, <2>1, <4>1
      <4>3. scan[t].best < time => scan[t].best < time'
        BY <1>4, <2>1, <4>1
      <4>4. QED
        BY <1>4, <2>2, <4>2, <4>3 DEF BestKept
    <3>2. HandPassed(t) => HandPassed(t)'
      BY <1>4, <2>2 DEF HandPassed
    <3>3. QED
      BY <1>4, <2>1, <3>1, <3>2 DEF Victim, Follows, Phase
  <2>5. ASSUME At(t, "evict_force") PROVE FollowsPolicy(t, thr[t].victim)'
    <3> DEFINE v == thr[t].victim
    <3>1. FollowsPolicy(t, v)
      BY <2>1, <2>5 DEF Victim
    <3>2. v \in Evictable(t)'
      <4>1. v \in Candidates(t) /\ (algorithm = ALGO_FIFO => mark[v] < time)
        BY <3>1 DEF FollowsPolicy, Evictable
      <4>2. mark[v] \in Nat
        BY <2>1
      <4>3. algorithm = ALGO_FIFO => mark[v] < time'
        BY <1>4, <2>1, <4>1, <4>2
      <4>4. QED
        BY <1>4, <2>2, <4>1, <4>3 DEF Evictable
    <3>3. ASSUME algorithm # ALGO_LRU, NEW i \in Candidates(t)
          PROVE  mark[v] < mark[i] \/ (mark[v] = mark[i] /\ v =< i)
      <4>1. CASE i \in Evictable(t)
        BY <3>1, <3>3, <4>1 DEF FollowsPolicy
      <4>2. CASE i \notin Evictable(t)
        <5>1. algorithm = ALGO_FIFO /\ ~(mark[i] < time)
          BY <3>3, <4>2 DEF Evictable
        <5>2. mark[v] < time
          BY <3>1, <5>1 DEF FollowsPolicy, Evictable
        <5>3. mark[i] \in Nat /\ mark[v] \in Nat
          BY <2>1, <2>2, <3>3
        <5>4. QED
          BY <2>1, <5>1, <5>2, <5>3
      <4>3. QED
        BY <4>1, <4>2
    <3>4. ASSUME algorithm = ALGO_LRU
          PROVE  mark[v] = 0 /\ \A i \in Candidates(t) \intersect Between(lru_clock_pos, v) : mark[i] = 0
      <4>1. algorithm # ALGO_FIFO
        BY <3>4 DEF ALGO_FIFO, ALGO_LRU
      <4>2. Evictable(t) = Candidates(t)
        BY <4>1 DEF Evictable
      <4>3. QED
        BY <3>1, <3>4, <4>2 DEF FollowsPolicy
    <3>5. Evictable(t)' \subseteq Candidates(t)
      BY <2>2 DEF Evictable
    <3>6. UNCHANGED <<thr, algorithm, mark, lru_clock_pos>>
      BY <1>4
    <3>7. QED
      BY <3>2, <3>3, <3>4, <3>5, <3>6 DEF FollowsPolicy
  <2>6. QED
    BY <1>4, <2>3, <2>4, <2>5 DEF Victim, At
<1>5. ASSUME UNCHANGED <<files, thr, algorithm, mark, lru_clock_pos, scan>>, time' \in Nat,
             time' >= time
      PROVE  VictimInv'
  <2>1. \A t \in Workers : Victim(t)'
    BY <1>4, <1>5
  <2>2. QED
    BY <2>1 DEF VictimInv, Victim, Follows, ScanFollowsPolicy, VictimFollowsPolicy
<1>6. time \in Nat
  BY DEF PolicyInv, PolicyTypeOK
<1>7. CASE UNCHANGED policyvars /\ \E c \in Conns : AddClient(c)
  BY <1>5, <1>6, <1>7 DEF AddClient, policyvars
<1>8. CASE Tick
  BY <1>5, <1>6, <1>8 DEF Tick, vars
<1>9. CASE UNCHANGED allvars
  BY <1>5, <1>6, <1>9 DEF allvars, vars, policyvars
<1>10. QED
  BY <1>2, <1>3, <1>7, <1>8, <1>9 DEF PolicyNext, PolicyWorkerStep

\* With one worker the victim an eviction takes is the one the configured policy
\* names: the oldest, the least used, or the first unused one under the hand
\* (worker_cache_miss.c:26, FIFO_loop_do, LFU_loop_do and LRU_loop_do).
THEOREM VictimsFollowPolicy ==
  ASSUME OneWorker
  PROVE  PolicySpec => []VictimFollowsPolicy
<1>1. PolicyInit => VictimInv
  BY NoScanType DEF PolicyInit, Init, VictimInv, ScanFollowsPolicy, VictimFollowsPolicy, LookHolds, Phase, At,
     IdleThread, LookPcs
<1>2. IInv /\ PolicyInv /\ PolicyInv' /\ VictimInv /\ [PolicyNext]_allvars => VictimInv'
  BY VictimStep
<1>3. PolicyInit => PolicyInv
  BY PolicyInitInv
<1>4. IInv /\ PolicyInv /\ [PolicyNext]_allvars => PolicyInv'
  BY PolicyInvStep
<1>5. VictimInv => VictimFollowsPolicy
  BY DEF VictimInv
<1>6. QED
  BY <1>1, <1>2, <1>3, <1>4, <1>5, PolicyImplementsStorage, Invariance, PTL DEF PolicySpec
=============================================================================
