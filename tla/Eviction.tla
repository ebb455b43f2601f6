------------------------------ MODULE Eviction ------------------------------
(***************************************************************************)
(* The replacement policies of worker_cache_miss.c over the usage data     *)
(* file.c keeps for them: the scan that Storage leaves open.  Storage's    *)
(* steps are taken over; each action below adds to one of them what the    *)
(* policy reads and writes, or is a step of the policy that leaves the     *)
(* variables of Storage alone, so that this module implements Storage.     *)
(*                                                                         *)
(* Of the three usage fields of a slot only the one the configured policy  *)
(* reads is kept, as its mark: the creation time (FIFO), the number of     *)
(* uses (LFU) or the reference bit (LRU).                                  *)
(***************************************************************************)
EXTENDS Storage

CONSTANTS
    Algorithms,     \* the policies the server may be configured with
    MaxTime,        \* bound: seconds that pass
    MaxUses         \* bound: uses of a file that LFU counts, more being equal

ALGO_FIFO == "FIFO"
ALGO_LRU == "LRU"
ALGO_LFU == "LFU"

ASSUME EvictionAssumption ==
    /\ Algorithms \subseteq {ALGO_FIFO, ALGO_LRU, ALGO_LFU} /\ Algorithms # {}
    /\ MaxTime \in Nat /\ MaxUses \in Nat

VARIABLES
    algorithm,      \* ro_cache_miss_algorithm
    time,           \* time(NULL)
    mark,           \* the usage data the policy reads, per slot
    lru_clock_pos,  \* the hand of the LRU clock
    scan            \* the locals of evict_FIFO, evict_LRU or evict_LFU

policyvars == <<algorithm, time, mark, lru_clock_pos, scan>>
allvars == <<vars, policyvars>>

\* curr_least_used_freq starts at INT_MAX, more than any number of uses.
INT_MAX == 2147483647

\* left counts the slots still to be looked at, pos is the next one.
NoScan == [phase |-> "none", pos |-> 1, left |-> 0, best |-> 0]
ScanType ==
    [phase : {"none", "look", "clear", "delete", "hand"}, pos : Slots,
     left : 0 .. NumFiles, best : Nat]

Phase(t, p) == scan[t].phase = p
SlotAfter(i) == IF i = NumFiles THEN 1 ELSE i + 1

----------------------------------------------------------------------------
(* The usage data.                                                         *)

\* create_file_struct.
FreshMark == CASE algorithm = ALGO_FIFO -> time
               [] algorithm = ALGO_LFU -> 1
               [] algorithm = ALGO_LRU -> 1

\* Every operation of file.c that succeeds on a file, update_lru apart.
UsedMark(m) == CASE algorithm = ALGO_FIFO -> m
                 [] algorithm = ALGO_LFU -> IF m < MaxUses THEN m + 1 ELSE m
                 [] algorithm = ALGO_LRU -> 1

\* The slot whose file worker t's next step uses, if any.
UsedSlots(t) == IF CallSucceeds(t) THEN {thr[t].fex} ELSE {}

\* What worker t's step leaves: a slot emptied has no usage data, a file
\* created has fresh ones.  A victim is opened and read, then removed.
MarkStep(t) ==
    mark' = [i \in Slots |->
               IF ~is_existing_file(files'[i]) THEN 0
               ELSE IF ~is_existing_file(files[i]) THEN FreshMark
               ELSE IF i \in UsedSlots(t) THEN UsedMark(mark[i])
               ELSE mark[i]]

----------------------------------------------------------------------------
(* The scans of the three policies.                                        *)

\* evict_FIFO starts from the current time, so that a file created in this
\* very second is no candidate; evict_LRU from the hand.
ScanBegin(t) ==
    /\ At(t, "evict_pick") /\ Phase(t, "none")
    /\ scan' = [scan EXCEPT ![t] =
                  [phase |-> "look", left |-> NumFiles,
                   pos |-> IF algorithm = ALGO_LRU THEN lru_clock_pos ELSE 1,
                   best |-> CASE algorithm = ALGO_FIFO -> time
                              [] algorithm = ALGO_LFU -> INT_MAX
                              [] algorithm = ALGO_LRU -> 0]]
    /\ UNCHANGED <<vars, algorithm, time, mark, lru_clock_pos>>

\* The loop goes on to the next slot, the best value so far being b.
Advance(t, b) ==
    scan' = [scan EXCEPT ![t] = [phase |-> "look", pos |-> SlotAfter(@.pos),
                                 left |-> @.left - 1, best |-> b]]

\* loop_check, first look: a file another worker is evicting is passed over.
ScanLook(t) ==
    /\ At(t, "evict_pick") /\ Phase(t, "look") /\ scan[t].left > 0
    /\ IF is_locked_file(files[scan[t].pos], OWNER_ADMIN)
       THEN Advance(t, scan[t].best) /\ UNCHANGED vars
       ELSE EvictPick(t) /\ thr'[t].victim = scan[t].pos /\ UNCHANGED scan
    /\ UNCHANGED <<algorithm, time, mark, lru_clock_pos>>

\* loop_check, the other two looks.
ScanCheck(t) ==
    /\ EvictName(t) \/ EvictSize(t)
    /\ IF thr'[t].pc = "evict_pick" THEN Advance(t, scan[t].best) ELSE UNCHANGED scan
    /\ UNCHANGED <<algorithm, time, mark, lru_clock_pos>>

\* Mutant of TakesCandidate: the last among equals, and files just created.
TakesLastCandidate(t) ==
    LET m == mark[thr[t].victim] IN
    /\ is_existing_file(vslot(t))
    /\ IF algorithm = ALGO_LRU THEN m = 0 ELSE m =< scan[t].best

\* FIFO_loop_do and LFU_loop_do keep the least mark, the first among equals;
\* LRU_loop_do stops at the first bit that is clear.
TakesCandidate(t) ==
    LET m == mark[thr[t].victim] IN
    /\ is_existing_file(vslot(t))
    /\ IF algorithm = ALGO_LRU THEN m = 0 ELSE m < scan[t].best

ScanUsage(t) ==
    /\ EvictUsage(t)
    /\ thr'[t].kept = IF TakesCandidate(t) THEN thr[t].victim ELSE thr[t].kept
    /\ IF algorithm # ALGO_LRU
       THEN Advance(t, IF TakesCandidate(t) THEN mark[thr[t].victim] ELSE scan[t].best)
       ELSE IF TakesCandidate(t) THEN scan' = [scan EXCEPT ![t].left = 0]
       ELSE IF is_existing_file(vslot(t)) THEN scan' = [scan EXCEPT ![t].phase = "clear"]
       ELSE Advance(t, scan[t].best)
    /\ UNCHANGED <<algorithm, time, mark, lru_clock_pos>>

\* Mutant of ScanClear: the bit stays set.
ScanClearNothing(t) ==
    /\ Phase(t, "clear")
    /\ Advance(t, scan[t].best)
    /\ UNCHANGED <<vars, algorithm, time, mark, lru_clock_pos>>

\* update_lru(file, 0), in a critical section after the one that read the bit.
ScanClear(t) ==
    /\ Phase(t, "clear")
    /\ mark' = [mark EXCEPT ![scan[t].pos] = 0]
    /\ Advance(t, scan[t].best)
    /\ UNCHANGED <<vars, algorithm, time, lru_clock_pos>>

\* selected, or exit for LRU: delete_evicted gets the candidate, if any.
ScanEnd(t) ==
    /\ Phase(t, "look") /\ scan[t].left = 0
    /\ EvictChoose(t) \/ EvictNone(t)
    /\ scan' = [scan EXCEPT ![t] =
                  IF thr[t].kept = 0 THEN NoScan
                  ELSE [NoScan EXCEPT !.phase = "delete", !.pos = thr[t].kept]]
    /\ UNCHANGED <<algorithm, time, mark, lru_clock_pos>>

\* delete_evicted; evict_LRU moves the hand when it has returned 0.
ScanDelete(t) ==
    /\ EvictForce(t) \/ EvictOpen(t) \/ EvictRemove(t) \/ EvictBook(t)
    /\ MarkStep(t)
    /\ scan' = CASE thr'[t].pc = "check_capacity" /\ algorithm = ALGO_LRU ->
                      [scan EXCEPT ![t].phase = "hand"]
                 [] thr'[t].pc \in {"check_capacity", "failed"} /\ algorithm # ALGO_LRU ->
                      [scan EXCEPT ![t] = NoScan]
                 [] thr'[t].pc = "failed" /\ algorithm = ALGO_LRU -> [scan EXCEPT ![t] = NoScan]
                 [] OTHER -> scan
    /\ UNCHANGED <<algorithm, time, lru_clock_pos>>

\* Mutant of MoveHand: the hand runs past the table.
MoveHandPastEnd(t) ==
    /\ Phase(t, "hand")
    /\ lru_clock_pos' = scan[t].pos + 1
    /\ scan' = [scan EXCEPT ![t] = NoScan]
    /\ UNCHANGED <<vars, algorithm, time, mark>>

MoveHand(t) ==
    /\ Phase(t, "hand")
    /\ lru_clock_pos' = SlotAfter(scan[t].pos)
    /\ scan' = [scan EXCEPT ![t] = NoScan]
    /\ UNCHANGED <<vars, algorithm, time, mark>>

PolicyStep(t) ==
    \/ ScanBegin(t) \/ ScanLook(t) \/ ScanCheck(t) \/ ScanUsage(t) \/ ScanClear(t)
    \/ ScanEnd(t) \/ ScanDelete(t) \/ MoveHand(t)

----------------------------------------------------------------------------
(* The rest of the handlers.                                               *)

ServiceSteps(t) ==
    \/ FileScan(t) \/ CreateSteps(t) \/ SimpleSteps(t) \/ RemoveSteps(t) \/ WriteSteps(t)
    \/ ReadNSteps(t) \/ CloseConnSteps(t) \/ HandlerFailed(t)

ServiceStep(t) ==
    /\ Phase(t, "none")
    /\ ServiceSteps(t)
    /\ MarkStep(t)
    /\ UNCHANGED <<algorithm, time, lru_clock_pos, scan>>

Tick ==
    /\ algorithm = ALGO_FIFO /\ time < MaxTime
    /\ time' = time + 1
    /\ UNCHANGED <<vars, algorithm, mark, lru_clock_pos, scan>>

PolicyWorkerStep(t) == ServerAlive /\ (PolicyStep(t) \/ ServiceStep(t))

PolicyInit ==
    /\ Init
    /\ algorithm \in Algorithms
    /\ time = 0
    /\ mark = [i \in Slots |-> 0]
    /\ lru_clock_pos = 1
    /\ scan = [t \in Workers |-> NoScan]

PolicyNext ==
    \/ /\ \/ \E c \in Conns : AddClient(c)
          \/ \E t \in Workers : Receive(t)
       /\ UNCHANGED policyvars
    \/ \E t \in Workers : PolicyWorkerStep(t)
    \/ Tick

PolicySpec == PolicyInit /\ [][PolicyNext]_allvars

\* The scheduler runs a worker that has a step to make.  Nothing is assumed of
\* the clock.
FairPolicySpec ==
    PolicySpec /\ \A t \in Workers : WF_allvars(PolicyWorkerStep(t))
=============================================================================
