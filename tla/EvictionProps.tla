---------------------------- MODULE EvictionProps ----------------------------
(***************************************************************************)
(* What the replacement policies promise.                                  *)
(***************************************************************************)
EXTENDS Eviction

\* Types of the policy's variables.
PolicyTypeOK ==
    /\ algorithm \in Algorithms /\ time \in Nat
    /\ mark \in [Slots -> Nat] /\ lru_clock_pos \in Slots
    /\ scan \in [Workers -> ScanType]

\* The files with data worker t may evict, other than the one it is writing to,
\* and under FIFO other than those created in the current second.
Candidates(t) ==
    {i \in Slots :
        /\ is_existing_file(files[i]) /\ files[i].owner # OWNER_ADMIN
        /\ files[i].name # Req(t).name /\ get_size(files[i]) > 0}
Evictable(t) == {i \in Candidates(t) : algorithm = ALGO_FIFO => mark[i] < time}

\* The slots the hand meets from slot i on before it gets to slot j.
Between(i, j) == {k \in Slots : (k - i + NumFiles) % NumFiles < (j - i + NumFiles) % NumFiles}

\* The victim delete_evicted gets is the one the policy names: the oldest file
\* (FIFO), the least used one (LFU), the first in the table among equals, or
\* the first one the hand meets that has not been used since the hand last
\* passed it (LRU).  With one worker only: with more, the choice is stale.
FollowsPolicy(t, v) ==
    /\ v \in Evictable(t)
    /\ algorithm # ALGO_LRU =>
         \A i \in Evictable(t) : mark[v] < mark[i] \/ (mark[v] = mark[i] /\ v =< i)
    /\ algorithm = ALGO_LRU =>
         mark[v] = 0 /\ \A i \in Evictable(t) \intersect Between(lru_clock_pos, v) : mark[i] = 0
VictimFollowsPolicy ==
    \A t \in Workers : At(t, "evict_force") => FollowsPolicy(t, thr[t].victim)

\* worker_write.c:194 loops until there is room: a worker of a server that runs
\* is stuck in a request for ever only if in the end there is nothing it may
\* evict.
StuckOnlyIfNothingEvictable ==
    \A t \in Workers : <>[](~At(t, "idle") /\ ServerAlive) => <>[](Evictable(t) = {})

----------------------------------------------------------------------------
(* The inductive invariants behind PolicyTypeOK and VictimFollowsPolicy.   *)

LookPcs == {"evict_name", "evict_size", "evict_usage"}
DeletePcs == EvictHoldPcs \union {"evict_force", "evict_book"}

\* The scan is in step with cache_miss: it looks at the slot it points to, has
\* one to look at, and keeps a candidate only while it looks.
InStep(t) ==
    /\ Phase(t, "none") => thr[t].pc \notin LookPcs \union DeletePcs
    /\ Phase(t, "look") =>
         \/ At(t, "evict_pick")
         \/ thr[t].pc \in LookPcs /\ scan[t].left > 0 /\ thr[t].victim = scan[t].pos
    /\ Phase(t, "clear") => At(t, "evict_pick") /\ scan[t].left > 0 /\ algorithm = ALGO_LRU
    /\ Phase(t, "delete") => thr[t].pc \in DeletePcs
    /\ Phase(t, "hand") => At(t, "check_capacity")
    /\ thr[t].kept # 0 =>
         /\ Phase(t, "look")
         /\ algorithm = ALGO_LRU => scan[t].left = 0
ScanInStep == \A t \in Workers : InStep(t)

\* What loop_check has found out of the slot it looks at.  With one worker.
LookHolds(t) ==
    /\ thr[t].pc \in LookPcs => vslot(t).owner # OWNER_ADMIN
    /\ At(t, "evict_size") => ~check_file_name(vslot(t), Req(t).name)
    /\ At(t, "evict_usage") => thr[t].victim \in Candidates(t)

\* evict_FIFO and evict_LFU: of the slots looked at, the one kept is the least
\* marked and the first among equals.  With one worker.
BestKept(t) ==
    LET s == scan[t]
        k == thr[t].kept
        seen == {i \in Candidates(t) : i =< NumFiles - s.left}
    IN /\ s.left > 0 => s.pos = NumFiles - s.left + 1
       /\ algorithm = ALGO_FIFO => s.best =< time
       /\ k # 0 => /\ k \in seen /\ mark[k] = s.best
                   /\ algorithm = ALGO_FIFO => s.best < time
       /\ \A i \in seen : s.best < mark[i] \/ (s.best = mark[i] /\ (k # 0 => k =< i))

\* evict_LRU: the scan is N - left slots ahead of the hand, and the slots it has
\* passed have their bits clear; it stops where it keeps one.  With one worker.
HandPassed(t) ==
    LET s == scan[t]
        k == thr[t].kept
    IN /\ s.left > 0 =>
             s.pos \in {lru_clock_pos + NumFiles - s.left, lru_clock_pos - s.left}
       /\ k # 0 => k = s.pos /\ k \in Candidates(t) /\ mark[k] = 0
       /\ s.left > 0 \/ k # 0 =>
             \A i \in Candidates(t) \intersect Between(lru_clock_pos, s.pos) : mark[i] = 0

ScanFollowsPolicy ==
    \A t \in Workers :
        /\ LookHolds(t)
        /\ Phase(t, "look") /\ algorithm # ALGO_LRU => BestKept(t)
        /\ scan[t].phase \in {"look", "clear"} /\ algorithm = ALGO_LRU => HandPassed(t)
=============================================================================
