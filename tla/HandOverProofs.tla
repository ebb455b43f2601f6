--------------------------- MODULE HandOverProofs ---------------------------
(***************************************************************************)
(* Where no handler fails, no client dies and no signal comes in the       *)
(* middle of a connection, for any number of workers, connections and      *)
(* clients: the main loop and the workers implement module Connections, no *)
(* client is lost, and no step of the main loop fails.                     *)
(***************************************************************************)
EXTENDS DispatchProofs, WellFoundedInduction

----------------------------------------------------------------------------
(* Counting.                                                               *)

\* The least element of a set of positive numbers is one of them.
LEMMA MinIsMember ==
  ASSUME NEW S \in SUBSET Entries, S # {}
  PROVE  Min(S) \in S
<1> DEFINE R == {ss \in Nat \X Nat : ss[1] < ss[2]}
<1>1. IsWellFoundedOn(R, Nat)
  BY NatLessThanWellFounded DEF OpToRel
<1>2. S \in SUBSET Nat
  BY DispatchAssumption DEF DispatchAssumption, Entries
<1> HIDE DEF R
<1>3. PICK x \in S : \A y \in S : ~(<<y, x>> \in R)
  BY <1>1, <1>2, WFMin
<1>4. \A y \in S : ~(y < x)
  BY <1>2, <1>3 DEF R
<1>5. \A y \in S : x =< y
  BY <1>2, <1>4
<1> QED
  BY <1>5 DEF Min

LEMMA EntriesCounted ==
  IsFiniteSet(Entries) /\ Cardinality(Entries) = MaxConns
  BY DispatchAssumption, FS_Interval DEF DispatchAssumption, Entries

LEMMA WorkersCounting ==
  IsFiniteSet(Workers) /\ Cardinality(Workers) = NumWorkers
  BY DispatchAssumption, FS_Interval DEF DispatchAssumption, Workers

Unshared == \A i, j \in Entries : poll_array[i] = poll_array[j] /\ poll_array[i] # NoFd => i = j

\* A client that is not in the poll array finds an entry there.
LEMMA EntryForClient ==
  ASSUME DispatchTypeOK, OnlyClientsPolled, Unshared, NEW c \in clients, PollsOf(c) = {}
  PROVE  FreeEntries # {}
<1> SUFFICES ASSUME FreeEntries = {}
             PROVE  FALSE
  OBVIOUS
<1>1. poll_array \in [Entries -> clients \ {c}]
  <2>1. ASSUME NEW i \in Entries
        PROVE  poll_array[i] \in clients \ {c}
    BY DEF FreeEntries, OnlyClientsPolled, PolledFds, PollsOf
  <2> QED
    BY <2>1 DEF DispatchTypeOK
<1>2. /\ IsFiniteSet(clients \ {c})
      /\ Cardinality(clients \ {c}) = Cardinality(clients) - 1
  BY FdsFinite, FS_RemoveElement DEF DispatchTypeOK
<1>3. Cardinality(clients \ {c}) < Cardinality(Entries)
  BY <1>2, EntriesCounted, FdsFinite, DispatchAssumption DEF DispatchTypeOK, DispatchAssumption
<1>4. \E i, j \in Entries : i # j /\ poll_array[i] = poll_array[j]
  BY <1>1, <1>2, <1>3, EntriesCounted, FS_PigeonHole
<1> QED
  BY <1>1, <1>4 DEF Unshared, NoFd, DispatchTypeOK, Fds

\* No descriptor is listed twice.
LEMMA PolledCounted ==
  ASSUME DispatchTypeOK, Unshared
  PROVE  Cardinality(PolledFds) = MaxConns - Cardinality(FreeEntries)
<1> DEFINE U == Entries \ FreeEntries
           f == [i \in U |-> poll_array[i]]
<1>1. IsFiniteSet(U) /\ Cardinality(U) = MaxConns - Cardinality(FreeEntries)
  <2>1. Entries \intersect FreeEntries = FreeEntries
    BY DEF FreeEntries
  <2> QED
    BY <2>1, EntriesCounted, FS_Difference
<1>2. f \in [U -> PolledFds]
  BY DEF PolledFds, FreeEntries
<1>3. \A i, j \in U : f[i] = f[j] => i = j
  BY DEF Unshared, FreeEntries
<1>4. \A c \in PolledFds : \E i \in U : f[i] = c
  BY DEF PolledFds, FreeEntries
<1>5. f \in Bijection(U, PolledFds)
  BY <1>2, <1>3, <1>4 DEF Bijection, Injection, Surjection, IsInjective
<1> QED
  BY <1>1, <1>5, FS_Bijection DEF ExistsBijection

\* If not all the workers are busy, one of them is idle.
LEMMA IdleFound ==
  ASSUME DispatchTypeOK, WorkersCounted, working_threads < NumWorkers
  PROVE  \E w \in 1 .. NumWorkers : CanAssign(w)
<1> SUFFICES ASSUME \A w \in Workers : Busy(w)
             PROVE  FALSE
  BY DEF CanAssign, Busy, Workers
<1>1. {w \in Workers : Busy(w)} = Workers
  OBVIOUS
<1>2. working_threads = NumWorkers
  BY <1>1, WorkersCounting DEF WorkersCounted
<1> QED
  BY <1>2, DispatchAssumption DEF DispatchAssumption

----------------------------------------------------------------------------
(* Steps after which everything is where it was.                           *)

\* What worker w holds is what it held, but for a connection it is greeting.
StillHands(w) ==
    /\ Given(w)' = Given(w)
    /\ NewConn(w)' # NewConn(w) =>
          (Greeting(w)' /\ NewConn(w) = NoFd) \/ (Greeting(w) /\ NewConn(w)' = NoFd)
    /\ Greeting(w) => Greeting(w)' \/ NewConn(w)' = NoFd
    /\ Busy(w)' <=> Busy(w)

Still ==
    /\ UNCHANGED <<poll_array, acc_polled, clients, acceptor_open, mfd, working_threads>>
    /\ mpc' = "assign" <=> mpc = "assign"
    /\ \A w \in Workers : StillHands(w)

\* The descriptors that stand for none, or for the listening socket, are none.
LEMMA NoFdApart == NoFd \notin Fds /\ Acceptor \notin Fds /\ NoFd # Acceptor
  BY DispatchAssumption DEF DispatchAssumption, Fds, NoFd, Acceptor

\* A connection being greeted is nobody's client.
LEMMA GreetedApart ==
  ASSUME DispatchTypeOK, NewcomersApart, NEW w \in Workers, Greeting(w)
  PROVE  NewConn(w) \in (Fds \ clients) \union {NoFd}
  BY DEF NewcomersApart, NewConn, Greeting, InLoop, LoopPcs

\* What is present is held by whom it was held.
LEMMA StillHeld ==
  ASSUME DispatchTypeOK, NewcomersApart, DispatchTypeOK', NewcomersApart', Still,
         NEW c \in Present, NEW w \in Workers
  PROVE  HeldBy(w, c)' <=> HeldBy(w, c)
<1>1. c # NoFd
  BY NoFdApart DEF Present, DispatchTypeOK
<1>2. Greeting(w) => NewConn(w) # c
  BY <1>1, GreetedApart, NoFdApart DEF Present
<1>3. Greeting(w)' => NewConn(w)' # c
  <2>1. Greeting(w)' => NewConn(w)' \in (Fds \ clients') \union {NoFd}
    BY DEF NewcomersApart, NewConn, Greeting, InLoop, LoopPcs
  <2> QED
    BY <1>1, <2>1, NoFdApart DEF Present, Still
<1>4. Given(w)' = Given(w) /\ (NewConn(w)' # NewConn(w) => NewConn(w) # c /\ NewConn(w)' # c)
  BY <1>1, <1>2, <1>3 DEF Still, StillHands
<1> QED
  BY <1>4 DEF HeldBy

\* The abstract place depends on the table and on who holds what.
LEMMA SameHolders ==
  ASSUME clients' = clients,
         \A c \in clients, w \in Workers : HeldBy(w, c)' <=> HeldBy(w, c)
  PROVE  UNCHANGED place
<1>1. ASSUME NEW c \in Fds
      PROVE  PlaceOf(c)' = PlaceOf(c)
  <2>1. CASE c \in clients
    <3>1. HoldersOf(c)' = HoldersOf(c)
      BY <2>1 DEF HoldersOf
    <3> QED
      BY <3>1 DEF PlaceOf
  <2>2. CASE c \notin clients
    BY <2>2 DEF PlaceOf
  <2> QED
    BY <2>1, <2>2
<1> QED
  BY <1>1 DEF place

\* When all but d stay, d moves.
LEMMA PlaceMoves ==
  ASSUME NEW d \in Fds, NEW a, NEW b, PlaceOf(d) = a, PlaceOf(d)' = b,
         \A c \in Fds \ {d} : c \in clients' <=> c \in clients,
         \A c \in clients \ {d}, w \in Workers : HeldBy(w, c)' <=> HeldBy(w, c)
  PROVE  ConnectionPlaces!Move(d, a, b)
<1>1. ASSUME NEW c \in Fds \ {d}
      PROVE  PlaceOf(c)' = PlaceOf(c)
  <2>1. CASE c \in clients
    <3>1. HoldersOf(c)' = HoldersOf(c)
      BY <2>1 DEF HoldersOf
    <3> QED
      BY <2>1, <3>1 DEF PlaceOf
  <2>2. CASE c \notin clients
    BY <2>2 DEF PlaceOf
  <2> QED
    BY <2>1, <2>2
<1>2. place' = [place EXCEPT ![d] = b]
  BY <1>1 DEF place
<1> QED
  BY <1>2 DEF ConnectionPlaces!Move, place

\* So it stays in one place, and nothing else is in any.
LEMMA StillInPlace ==
  ASSUME DispatchTypeOK, NewcomersApart, DispatchTypeOK', NewcomersApart', Still,
         OnlyPresent, OneHand
  PROVE  OnlyPresent' /\ OneHand' /\ UNCHANGED place
<1>1. Present' = Present /\ \A c : (IsPolled(c)' <=> IsPolled(c)) /\ (Assigning(c)' <=> Assigning(c))
  BY DEF Still, Present, IsPolled, PollsOf, Assigning
<1>2. \A c \in Present, w \in Workers : HeldBy(w, c)' <=> HeldBy(w, c)
  BY StillHeld
<1>3. OneHand'
  BY <1>1, <1>2 DEF OneHand, Still
<1>4. ASSUME NEW w \in Workers
      PROVE  /\ Given(w)' \in Present' \union {NoFd}
             /\ ~Greeting(w)' => NewConn(w)' \in clients' \union {NoFd}
  BY <1>1 DEF OnlyPresent, Still, StillHands
<1>5. OnlyPresent'
  BY <1>1, <1>4 DEF OnlyPresent, OnlyClientsPolled, PolledFds, Still
<1>6. UNCHANGED place
  BY <1>2, SameHolders DEF Present, Still
<1> QED
  BY <1>3, <1>5, <1>6

\* The busy workers stay busy.
LEMMA StillCounted ==
  ASSUME WorkersCounted, Still
  PROVE  WorkersCounted'
  BY DEF WorkersCounted, Still, StillHands

----------------------------------------------------------------------------
(* Steps of the main loop that move a connection.                          *)

\* What a step that changes neither threads nor worker_data leaves in hand.
LEMMA SameHands ==
  ASSUME UNCHANGED <<thr, wd>>, NEW w \in Workers
  PROVE  /\ Given(w)' = Given(w) /\ NewConn(w)' = NewConn(w)
         /\ Greeting(w)' <=> Greeting(w)
         /\ Busy(w)' <=> Busy(w)
         /\ \A c : HeldBy(w, c)' <=> HeldBy(w, c)
  BY DEF Given, NewConn, Greeting, Busy, InLoop, HeldBy

\* A connection that is in a worker's hands is in no other place.
LEMMA HeldApart ==
  ASSUME OneHand, NEW w \in Workers, NEW c \in Present, HeldBy(w, c)
  PROVE  ~IsPolled(c) /\ ~Assigning(c) /\ \A v \in Workers : HeldBy(v, c) => v = w
  BY DEF OneHand

\* The listening socket moves from the poll array to main's choice.
LEMMA PollAcceptorPlaces ==
  ASSUME DispatchTypeOK, OnlyPresent, OneHand, PollAcceptor
  PROVE  OnlyPresent' /\ OneHand' /\ UNCHANGED place
<1>1. /\ UNCHANGED <<thr, wd, clients, acceptor_open, poll_array>>
      /\ mpc # "assign" /\ mpc' = "assign" /\ mfd' = Acceptor
      /\ acc_polled /\ acc_polled' = FALSE
  BY DEF PollAcceptor, StartAssign, PollsAll, AcceptorReady, netvars
<1>2. Acceptor \in Present /\ Present' = Present /\ PollsOf(Acceptor) = {}
  BY <1>1, NoFdApart DEF Present, OnlyPresent, OnlyClientsPolled, PolledFds, PollsOf, DispatchTypeOK
<1>3. \A w \in Workers : ~HeldBy(w, Acceptor)
  BY <1>1, <1>2, HeldApart DEF IsPolled
<1>4. ASSUME NEW c \in Present
      PROVE  /\ IsPolled(c)' <=> IsPolled(c) /\ c # Acceptor
             /\ Assigning(c)' <=> c = Acceptor
             /\ ~Assigning(c)
  BY <1>1, <1>2 DEF IsPolled, PollsOf, Assigning
<1>5. OneHand'
  BY <1>1, <1>2, <1>3, <1>4, SameHands DEF OneHand
<1>6. OnlyPresent'
  BY <1>1, <1>2, SameHands DEF OnlyPresent, OnlyClientsPolled, PolledFds
<1>7. UNCHANGED place
  BY <1>1, SameHands, SameHolders
<1> QED
  BY <1>5, <1>6, <1>7

\* A client moves from its entry to main's choice.
LEMMA PollConnectionPlaces ==
  ASSUME DispatchTypeOK, OnlyPresent, OneHand, PollConnection
  PROVE  OnlyPresent' /\ OneHand' /\ UNCHANGED place
<1>1. PICK i \in Entries :
         /\ poll_array[i] # NoFd
         /\ poll_array' = [poll_array EXCEPT ![i] = NoFd] /\ mfd' = poll_array[i]
  BY DEF PollConnection, ReadyEntries, TakeEntry, StartAssign
<1> DEFINE d == poll_array[i]
<1>2. /\ UNCHANGED <<thr, wd, clients, acceptor_open, acc_polled>>
      /\ mpc # "assign" /\ mpc' = "assign"
  BY DEF PollConnection, TakeEntry, StartAssign, PollsAll, netvars
<1>3. d \in clients /\ d \in Present /\ Present' = Present /\ IsPolled(d) /\ d # NoFd /\ d # Acceptor
  BY <1>1, <1>2, NoFdApart DEF Present, IsPolled, OnlyPresent, OnlyClientsPolled, PolledFds, PollsOf, DispatchTypeOK
<1>4. \A w \in Workers : ~HeldBy(w, d)
  BY <1>3, HeldApart
<1>5. \A j \in Entries : poll_array'[j] = IF j = i THEN NoFd ELSE poll_array[j]
  BY <1>1 DEF DispatchTypeOK
<1> HIDE DEF d
<1>6. \A j \in Entries : poll_array[j] = d <=> j = i
  BY <1>1 DEF OneHand, d
<1>7. ASSUME NEW c \in Present
      PROVE  /\ IsPolled(c)' <=> IsPolled(c) /\ c # d
             /\ Assigning(c)' <=> c = d
             /\ ~Assigning(c)
  <2>1. c # NoFd
    BY NoFdApart DEF Present, DispatchTypeOK
  <2>2. PollsOf(c)' # {} <=> PollsOf(c) # {} /\ c # d
    BY <1>5, <1>6, <2>1 DEF PollsOf
  <2>3. c = Acceptor => c # d
    BY <1>3
  <2> QED
    BY <1>1, <1>2, <2>2, <2>3 DEF IsPolled, Assigning, d
<1>8. OneHand'
  BY <1>2, <1>3, <1>4, <1>5, <1>7, SameHands DEF OneHand
<1>9. OnlyPresent'
  <2>1. PolledFds' \subseteq clients'
    BY <1>2, <1>5 DEF OnlyPresent, OnlyClientsPolled, PolledFds
  <2>2. mfd' \in Present'
    BY <1>1, <1>3 DEF d
  <2> QED
    BY <1>2, <1>3, <2>1, <2>2, SameHands DEF OnlyPresent, OnlyClientsPolled
<1>10. UNCHANGED place
  BY <1>2, SameHands, SameHolders
<1> QED
  BY <1>8, <1>9, <1>10

\* The main loop hands its choice over to an idle worker.
LEMMA AssignPlaces ==
  ASSUME DispatchTypeOK, OnlyPresent, OneHand, WorkersOrderly, WorkersCounted,
         AssignWork, CanAssign(mi)
  PROVE  OnlyPresent' /\ OneHand' /\ [ConnectionPlaces!Next]_place /\ WorkersCounted'
<1>0. PICK m \in Workers, d \in Present : m = mi /\ d = mfd
  BY DEF AssignWork, OnlyPresent, DispatchTypeOK
<1>1. /\ UNCHANGED <<clients, acceptor_open, poll_array, acc_polled>>
      /\ wd' = [wd EXCEPT ![m].do_work = "DO", ![m].in_conn = d] /\ Wake({m})
      /\ mpc = "assign" /\ mpc' = "loop" /\ mfd = d
      /\ working_threads' = working_threads + 1 /\ wd[m].do_work = "IDLE"
  BY <1>0 DEF AssignWork, CanAssign, netvars
<1>2. /\ Present' = Present /\ d # NoFd
      /\ ~IsPolled(d) /\ \A w \in Workers : ~HeldBy(w, d)
  BY <1>1, NoFdApart DEF Present, OnlyPresent, DispatchTypeOK, OneHand, Assigning
<1>3. /\ Given(m) = NoFd /\ NewConn(m) = NoFd /\ ~Greeting(m) /\ ~Busy(m)
      /\ Given(m)' = d /\ NewConn(m)' = NoFd /\ ~Greeting(m)' /\ Busy(m)'
  <2>1. InLoop(m) /\ wd[m].do_work = "IDLE"
    BY <1>1 DEF CanAssign, WorkersOrderly, WorkerOrderly
  <2>2. InLoop(m)' /\ wd'[m].do_work = "DO" /\ wd'[m].in_conn = d
    <3>1. thr'[m].pc = thr[m].pc \/ thr'[m].pc = "wait"
      BY <1>1, WakeFrame DEF DispatchTypeOK
    <3> QED
      BY <1>1, <2>1, <3>1 DEF DispatchTypeOK, WorkerData, InLoop, LoopPcs
  <2> QED
    BY <2>1, <2>2, NoFdApart DEF Given, NewConn, Greeting, Busy, InLoop, LoopPcs
<1>4. ASSUME NEW v \in Workers, v # m
      PROVE  /\ Given(v)' = Given(v) /\ NewConn(v)' = NewConn(v)
             /\ Greeting(v)' <=> Greeting(v)
             /\ Busy(v)' <=> Busy(v)
  <2>1. thr'[v] = thr[v] /\ wd'[v] = wd[v]
    BY <1>1, <1>4 DEF Wake, DispatchTypeOK
  <2> QED
    BY <2>1 DEF Given, NewConn, Greeting, Busy, InLoop
<1>5. ASSUME NEW c \in Present
      PROVE  /\ IsPolled(c)' <=> IsPolled(c)
             /\ Assigning(c) <=> c = d
             /\ ~Assigning(c)'
             /\ HeldBy(m, c)' <=> c = d
             /\ ~HeldBy(m, c)
             /\ \A v \in Workers \ {m} : HeldBy(v, c)' <=> HeldBy(v, c)
  <2>1. c # NoFd
    BY NoFdApart DEF Present, DispatchTypeOK
  <2> QED
    BY <1>1, <1>3, <1>4, <2>1 DEF IsPolled, PollsOf, Assigning, HeldBy
<1>6. OneHand'
  BY <1>1, <1>2, <1>5 DEF OneHand
<1>7. OnlyPresent'
  BY <1>1, <1>2, <1>3, <1>4 DEF OnlyPresent, OnlyClientsPolled, PolledFds
<1>8. [ConnectionPlaces!Next]_place
  <2>1. CASE d = Acceptor
    <3>1. Acceptor \notin clients
      BY NoFdApart DEF DispatchTypeOK
    <3>2. UNCHANGED place
      BY <1>1, <1>5, <2>1, <3>1, SameHolders DEF Present
    <3> QED
      BY <3>2
  <2>2. CASE d # Acceptor
    <3>1. d \in clients /\ d \in Fds
      BY <1>2, <2>2 DEF Present, DispatchTypeOK
    <3>2. HoldersOf(d) = {} /\ HoldersOf(d)' = {m}
      BY <1>1, <1>2, <1>5 DEF HoldersOf
    <3>3. PlaceOf(d) = Acceptor /\ PlaceOf(d)' = m
      BY <1>1, <3>1, <3>2 DEF PlaceOf
    <3>4. ConnectionPlaces!Take(d, m)
      BY <1>1, <1>5, <3>1, <3>3, PlaceMoves DEF ConnectionPlaces!Take, Present
    <3> QED
      BY <1>1, <3>1, <3>4 DEF ConnectionPlaces!Next
  <2> QED
    BY <2>1, <2>2
<1>9. WorkersCounted'
  <2>1. {w \in Workers : Busy(w)'} = {w \in Workers : Busy(w)} \union {m}
    BY <1>1, <1>3, <1>4
  <2>2. Cardinality({w \in Workers : Busy(w)} \union {m}) = Cardinality({w \in Workers : Busy(w)}) + 1
    BY <1>3, WorkersCounting, FS_AddElement, FS_Subset
  <2> QED
    BY <1>1, <2>1, <2>2 DEF WorkersCounted
<1> QED
  BY <1>6, <1>7, <1>8, <1>9

\* The main loop takes back what a worker reports, which is its own until then.
LEMMA CollectPlaces ==
  ASSUME DispatchTypeOK, OnlyPresent, OneHand, WorkersOrderly, WorkersCounted,
         ThreadHasFinished, wd[mi].do_work = "DONE"
  PROVE  OnlyPresent' /\ OneHand' /\ [ConnectionPlaces!Next]_place /\ WorkersCounted'
<1>0. PICK m \in Workers : m = mi
  BY DEF DispatchTypeOK
<1>d. PICK back, d :
         back = wd[m].in_conn /\ d = (IF back = Acceptor THEN wd[m].add_conn ELSE back)
  OBVIOUS
<1>1. /\ UNCHANGED <<thr, clients, acceptor_open, mfd>>
      /\ wd' = [wd EXCEPT ![m].do_work = "IDLE", ![m].in_conn = NoFd]
      /\ acc_polled' = (acc_polled \/ back = Acceptor) /\ poll_array' = AddedToPoll(d)
      /\ mpc = "collect" /\ mpc' # "assign"
      /\ working_threads' = working_threads - 1 /\ wd[m].do_work = "DONE"
  BY <1>0, <1>d DEF ThreadHasFinished, CollectNext, netvars
<1>2. /\ Given(m) = back /\ NewConn(m) = (IF back = Acceptor THEN d ELSE NoFd)
      /\ ~Greeting(m) /\ Busy(m)
      /\ Given(m)' = NoFd /\ NewConn(m)' = NoFd /\ ~Greeting(m)' /\ ~Busy(m)'
  <2>1. InLoop(m)
    BY <1>1 DEF WorkersOrderly, WorkerOrderly
  <2>2. wd'[m].do_work = "IDLE" /\ InLoop(m)'
    BY <1>1, <2>1 DEF DispatchTypeOK, WorkerData, InLoop
  <2> QED
    BY <1>1, <1>d, <2>1, <2>2, NoFdApart DEF Given, NewConn, Greeting, Busy, InLoop, LoopPcs
<1>3. ASSUME NEW v \in Workers, v # m
      PROVE  /\ Given(v)' = Given(v) /\ NewConn(v)' = NewConn(v)
             /\ Greeting(v)' <=> Greeting(v)
             /\ Busy(v)' <=> Busy(v)
  <2>1. thr'[v] = thr[v] /\ wd'[v] = wd[v]
    BY <1>1, <1>3 DEF DispatchTypeOK
  <2> QED
    BY <2>1 DEF Given, NewConn, Greeting, Busy, InLoop
<1>4. /\ d \in clients \union {NoFd} /\ Present' = Present
      /\ back = Acceptor => Acceptor \in Present
      /\ d # Acceptor /\ (back # Acceptor => d = back)
  BY <1>1, <1>2, <1>d, NoFdApart DEF OnlyPresent, Present, DispatchTypeOK
<1>5. \A c \in Present : HeldBy(m, c) <=> c = d \/ c = back
  <2>1. NoFd \notin Present
    BY NoFdApart DEF Present, DispatchTypeOK
  <2> QED
    BY <1>2, <1>4, <2>1 DEF HeldBy
<1>6. PICK e \in Entries \union {0} :
         /\ e = 0 <=> d = NoFd
         /\ \A j \in Entries : poll_array'[j] = IF j = e THEN d ELSE poll_array[j]
         /\ e # 0 => poll_array[e] = NoFd
         /\ 0 \notin Entries
  <2>1. 0 \notin Entries
    BY DispatchAssumption DEF DispatchAssumption, Entries
  <2>2. CASE d = NoFd
    BY <1>1, <2>1, <2>2 DEF AddedToPoll
  <2>3. CASE d # NoFd
    <3>1. PollsOf(d) = {}
      BY <1>4, <1>5, <2>3, HeldApart DEF IsPolled, Present
    <3>2. FreeEntries # {}
      BY <1>4, <2>3, <3>1, EntryForClient DEF OnlyPresent, OneHand, Unshared
    <3>3. Min(FreeEntries) \in FreeEntries
      BY <3>2, MinIsMember DEF FreeEntries
    <3>4. poll_array' = [poll_array EXCEPT ![Min(FreeEntries)] = d]
      BY <1>1, <2>3, <3>2 DEF AddedToPoll
    <3> QED
      BY <2>1, <2>3, <3>3, <3>4 DEF FreeEntries, DispatchTypeOK
  <2> QED
    BY <2>2, <2>3
<1>7. ASSUME NEW c \in Present
      PROVE  /\ IsPolled(c)' <=> IsPolled(c) \/ c = d \/ c = back
             /\ Assigning(c)' <=> Assigning(c)
             /\ \A v \in Workers \ {m} : HeldBy(v, c)' <=> HeldBy(v, c)
             /\ ~HeldBy(m, c)'
  <2>1. c # NoFd
    BY NoFdApart DEF Present, DispatchTypeOK
  <2>2. PollsOf(c)' # {} <=> PollsOf(c) # {} \/ c = d
    BY <1>6, <2>1 DEF PollsOf
  <2>3. back # Acceptor => (c = back => c = d)
    BY <1>4
  <2>4. IsPolled(c)' <=> IsPolled(c) \/ c = d \/ c = back
    BY <1>1, <1>4, <2>2, <2>3 DEF IsPolled
  <2> QED
    BY <1>1, <1>2, <1>3, <2>1, <2>4 DEF HeldBy, Assigning
<1>8. OneHand'
  <2>1. \A i, j \in Entries : poll_array'[i] = poll_array'[j] /\ poll_array'[i] # NoFd => i = j
    <3>1. d # NoFd => \A j \in Entries : poll_array[j] # d
      BY <1>4, <1>5, HeldApart DEF IsPolled, PollsOf, Present
    <3> QED
      BY <1>6, <3>1 DEF OneHand
  <2>2. ASSUME NEW c \in Present
        PROVE  /\ IsPolled(c)' \/ Assigning(c)' \/ \E w \in Workers : HeldBy(w, c)'
               /\ ~(IsPolled(c)' /\ Assigning(c)')
               /\ \A w \in Workers : HeldBy(w, c)' =>
                     ~IsPolled(c)' /\ ~Assigning(c)' /\ \A v \in Workers : HeldBy(v, c)' => v = w
    BY <1>5, <1>7 DEF OneHand
  <2> QED
    BY <1>4, <2>1, <2>2 DEF OneHand
<1>9. OnlyPresent'
  <2>1. PolledFds' \subseteq clients'
    BY <1>1, <1>4, <1>6 DEF OnlyPresent, OnlyClientsPolled, PolledFds
  <2>2. acc_polled' => acceptor_open'
    BY <1>1, <1>4, NoFdApart DEF OnlyPresent, Present, DispatchTypeOK
  <2> QED
    BY <1>1, <1>2, <1>3, <1>4, <2>1, <2>2 DEF OnlyPresent, OnlyClientsPolled
<1>10. [ConnectionPlaces!Next]_place
  <2>1. CASE d = NoFd
    <3>1. \A c \in clients : c # d /\ c # back
      BY <1>4, <2>1, NoFdApart DEF DispatchTypeOK
    <3>2. UNCHANGED place
      BY <1>1, <1>5, <1>7, <3>1, SameHolders DEF Present
    <3> QED
      BY <3>2
  <2>2. CASE d # NoFd
    <3>1. d \in clients /\ d \in Fds /\ d \in Present
      BY <1>4, <2>2 DEF Present, DispatchTypeOK
    <3>2. HoldersOf(d) = {m} /\ HoldersOf(d)' = {}
      BY <1>1, <1>5, <1>7, <3>1, HeldApart DEF HoldersOf
    <3>3. PlaceOf(d) = m /\ PlaceOf(d)' = Acceptor
      BY <1>1, <3>1, <3>2 DEF PlaceOf
    <3>4. \A c \in clients \ {d} : c # back
      BY <1>4, NoFdApart DEF DispatchTypeOK
    <3>5. ConnectionPlaces!GiveBack(d, m)
      BY <1>1, <1>5, <1>7, <3>1, <3>3, <3>4, PlaceMoves DEF ConnectionPlaces!GiveBack, Present
    <3> QED
      BY <3>1, <3>5 DEF ConnectionPlaces!Next
  <2> QED
    BY <2>1, <2>2
<1>11. WorkersCounted'
  <2>1. {w \in Workers : Busy(w)'} = {w \in Workers : Busy(w)} \ {m}
    BY <1>2, <1>3
  <2>2. Cardinality({w \in Workers : Busy(w)} \ {m}) = Cardinality({w \in Workers : Busy(w)}) - 1
    BY <1>2, WorkersCounting, FS_RemoveElement, FS_Subset
  <2> QED
    BY <1>1, <2>1, <2>2 DEF WorkersCounted
<1> QED
  BY <1>8, <1>9, <1>10, <1>11

\* The listening socket is closed while it is polled.
LEMMA ClosePlaces ==
  ASSUME DispatchTypeOK, OnlyPresent, OneHand, SignalsOrderly, CloseAcceptor
  PROVE  OnlyPresent' /\ OneHand' /\ UNCHANGED place
<1>1. /\ UNCHANGED <<thr, wd, clients, poll_array, mfd>>
      /\ mpc # "assign" /\ mpc' # "assign"
      /\ acceptor_open /\ ~acceptor_open' /\ acc_polled /\ ~acc_polled'
  <2>1. acceptor_open /\ acc_polled
    BY DEF CloseAcceptor, SignalsOrderly, Signalled
  <2>2. ~acceptor_open' /\ ~acc_polled'
    BY <2>1 DEF CloseAcceptor
  <2> QED
    BY <2>1, <2>2 DEF CloseAcceptor
<1>2. Acceptor \in Present /\ Present' = Present \ {Acceptor} /\ IsPolled(Acceptor)
  BY <1>1, NoFdApart DEF Present, IsPolled, DispatchTypeOK
<1>3. \A w \in Workers : ~HeldBy(w, Acceptor)
  BY <1>2, HeldApart
<1>4. ASSUME NEW c \in Present, c # Acceptor
      PROVE  (IsPolled(c)' <=> IsPolled(c)) /\ ~Assigning(c) /\ ~Assigning(c)'
  BY <1>1, <1>4 DEF IsPolled, PollsOf, Assigning
<1>5. OneHand'
  BY <1>1, <1>2, <1>3, <1>4, SameHands DEF OneHand
<1>6. OnlyPresent'
  BY <1>1, <1>2, <1>3, SameHands DEF OnlyPresent, OnlyClientsPolled, PolledFds, HeldBy
<1>7. UNCHANGED place
  BY <1>1, SameHands, SameHolders
<1> QED
  BY <1>5, <1>6, <1>7

\* The other steps of the main loop wake workers at most.
LEMMA MainStill ==
  ASSUME DispatchTypeOK, ServerKeepsRunning', MainStep,
         ~PollAcceptor, ~PollConnection, ~CloseAcceptor,
         ~(AssignWork /\ CanAssign(mi)),
         ~(ThreadHasFinished /\ wd[mi].do_work = "DONE")
  PROVE  Still
<1> USE DEF Still, StillHands, netvars
<1>1. CASE GetCurrentConnections \/ PollSignal \/ PollInvalid \/ ReadSignal \/ JoinAllThreads
  <2>1. UNCHANGED <<thr, wd>>
    BY <1>1 DEF GetCurrentConnections, PollSignal, PollInvalid, ReadSignal, JoinAllThreads
  <2>2. UNCHANGED <<poll_array, acc_polled, clients, acceptor_open, mfd, working_threads>>
    BY <1>1 DEF GetCurrentConnections, PollSignal, PollInvalid, ReadSignal, JoinAllThreads
  <2>3. mpc' = "assign" <=> mpc = "assign"
    BY <1>1 DEF GetCurrentConnections, PollSignal, PollsAll, PollInvalid, ReadSignal,
         JoinAllThreads, DispatchTypeOK
  <2> QED
    BY <2>1, <2>2, <2>3, SameHands
<1>2. CASE AssignWork \/ ThreadHasFinished
  <2>1. UNCHANGED <<thr, wd>>
    BY <1>2 DEF AssignWork, ThreadHasFinished
  <2>2. UNCHANGED <<poll_array, acc_polled, clients, acceptor_open, mfd, working_threads>>
    BY <1>2 DEF AssignWork, ThreadHasFinished
  <2>3. mpc' = "assign" <=> mpc = "assign"
    BY <1>2 DEF AssignWork, ThreadHasFinished, CollectNext, ServerKeepsRunning
  <2> QED
    BY <2>1, <2>2, <2>3, SameHands
<1>3. CASE StopAllThreads
  <2>1. ASSUME NEW w \in Workers
        PROVE  StillHands(w)
    <3>1. /\ thr'[w].newconn = thr[w].newconn
          /\ InLoop(w)' <=> InLoop(w)
          /\ thr'[w].conn = thr[w].conn
          /\ Greeting(w)' <=> Greeting(w)
      <4>1. thr'[w] = IF w \in ToSignal /\ thr[w].pc = "asleep" THEN [thr[w] EXCEPT !.pc = "wait"]
                      ELSE thr[w]
        BY <1>3 DEF StopAllThreads, Wake, At
      <4> QED
        BY <4>1 DEF DispatchTypeOK, ThreadType, InLoop, LoopPcs, Greeting
    <3>2. /\ wd'[w].do_work = wd[w].do_work
          /\ wd'[w].in_conn = wd[w].in_conn /\ wd'[w].add_conn = wd[w].add_conn
      BY <1>3 DEF StopAllThreads, DispatchTypeOK, WorkerData
    <3> QED
      BY <3>1, <3>2 DEF Given, NewConn, Busy
  <2> QED
    BY <1>3, <2>1 DEF StopAllThreads
<1> QED
  BY <1>1, <1>2, <1>3 DEF MainStep

\* So the main loop keeps everything in one place.
LEMMA MainPlaces ==
  ASSUME HandOverInv, DispatchTypeOK', NewcomersApart', ServerKeepsRunning', MainStep
  PROVE  OnlyPresent' /\ OneHand' /\ [ConnectionPlaces!Next]_place /\ WorkersCounted'
<1> USE DEF HandOverInv, DispatchInv
<1>1. CASE PollAcceptor \/ PollConnection \/ CloseAcceptor
  <2>1. UNCHANGED <<wd, thr, working_threads>>
    BY <1>1 DEF PollAcceptor, PollConnection, CloseAcceptor, TakeEntry, StartAssign
  <2>2. WorkersCounted'
    BY <2>1, SameHands DEF WorkersCounted
  <2> QED
    BY <1>1, <2>2, PollAcceptorPlaces, PollConnectionPlaces, ClosePlaces
<1>2. CASE AssignWork /\ CanAssign(mi)
  BY <1>2, AssignPlaces
<1>3. CASE ThreadHasFinished /\ wd[mi].do_work = "DONE"
  BY <1>3, CollectPlaces
<1>4. CASE Still
  BY <1>4, StillInPlace, StillCounted
<1> QED
  BY <1>1, <1>2, <1>3, <1>4, MainStill

\* A worker that stays in the loop, or changes nothing, stays orderly.
LEMMA OrderlyKept ==
  ASSUME NEW w \in Workers, WorkerOrderly(w),
         thr'[w] = thr[w] \/ (InLoop(w) /\ InLoop(w)'),
         wd'[w].do_work = wd[w].do_work, wd'[w].in_conn = wd[w].in_conn
  PROVE  WorkerOrderly(w)'
  BY DEF WorkerOrderly, InLoop, LoopPcs, AcceptPcs, ServePcs, At

\* The main loop leaves a working worker alone.
LEMMA MainOrderly ==
  ASSUME HandOverInv, MainStep
  PROVE  WorkersOrderly'
<1> USE DEF HandOverInv, DispatchInv
<1>1. CASE AssignWork /\ CanAssign(mi)
  <2>0. PICK m \in Workers : m = mi
    BY DEF DispatchTypeOK
  <2>1. /\ wd' = [wd EXCEPT ![m].do_work = "DO", ![m].in_conn = mfd] /\ Wake({m})
        /\ wd[m].do_work = "IDLE" /\ mfd # NoFd
    BY <1>1, <2>0, NoFdApart DEF AssignWork, CanAssign, OnlyPresent, Present, DispatchTypeOK
  <2>2. WorkerOrderly(m)'
    <3>1. InLoop(m)
      BY <2>1 DEF WorkersOrderly, WorkerOrderly
    <3>2. InLoop(m)'
      BY <2>1, <3>1, WakeFrame DEF DispatchTypeOK, InLoop, LoopPcs
    <3>3. wd'[m].do_work = "DO" /\ wd'[m].in_conn # NoFd
      BY <2>1 DEF DispatchTypeOK, WorkerData
    <3> QED
      BY <3>2, <3>3 DEF WorkerOrderly, InLoop, LoopPcs, AcceptPcs, ServePcs, At
  <2>3. ASSUME NEW v \in Workers, v # m
        PROVE  WorkerOrderly(v)'
    <3>1. thr'[v] = thr[v] /\ wd'[v] = wd[v]
      BY <2>1, <2>3 DEF Wake, DispatchTypeOK
    <3> QED
      BY <3>1, OrderlyKept DEF WorkersOrderly
  <2> QED
    BY <2>2, <2>3 DEF WorkersOrderly
<1>2. CASE ThreadHasFinished /\ wd[mi].do_work = "DONE"
  <2>0. PICK m \in Workers : m = mi
    BY DEF DispatchTypeOK
  <2>1. wd' = [wd EXCEPT ![m].do_work = "IDLE", ![m].in_conn = NoFd] /\ thr' = thr
    BY <1>2, <2>0 DEF ThreadHasFinished
  <2>2. WorkerOrderly(m)'
    <3>1. InLoop(m)
      BY <1>2, <2>0 DEF WorkersOrderly, WorkerOrderly
    <3>2. InLoop(m)' /\ wd'[m].do_work = "IDLE"
      BY <2>1, <3>1 DEF InLoop, DispatchTypeOK, WorkerData
    <3> QED
      BY <3>2 DEF WorkerOrderly, InLoop, LoopPcs, AcceptPcs, ServePcs, At
  <2>3. ASSUME NEW v \in Workers, v # m
        PROVE  WorkerOrderly(v)'
    <3>1. thr'[v] = thr[v] /\ wd'[v] = wd[v]
      BY <2>1, <2>3 DEF DispatchTypeOK
    <3> QED
      BY <3>1, OrderlyKept DEF WorkersOrderly
  <2> QED
    BY <2>2, <2>3 DEF WorkersOrderly
<1>3. CASE StopAllThreads
  <2>1. ASSUME NEW w \in Workers
        PROVE  WorkerOrderly(w)'
    <3>1. thr'[w] = thr[w] \/ (InLoop(w) /\ InLoop(w)')
      <4>1. thr'[w] = IF w \in ToSignal /\ thr[w].pc = "asleep" THEN [thr[w] EXCEPT !.pc = "wait"]
                      ELSE thr[w]
        BY <1>3 DEF StopAllThreads, Wake, At
      <4> QED
        BY <4>1 DEF DispatchTypeOK, ThreadType, InLoop, LoopPcs
    <3>2. wd'[w].do_work = wd[w].do_work /\ wd'[w].in_conn = wd[w].in_conn
      BY <1>3 DEF StopAllThreads, DispatchTypeOK, WorkerData
    <3> QED
      BY <3>1, <3>2, OrderlyKept DEF WorkersOrderly
  <2> QED
    BY <2>1 DEF WorkersOrderly
<1>4. CASE UNCHANGED <<thr, wd>>
  BY <1>4, OrderlyKept DEF WorkersOrderly
<1> QED
  BY <1>1, <1>2, <1>3, <1>4 DEF MainStep, GetCurrentConnections, PollSignal, PollAcceptor,
       PollConnection, PollInvalid, AssignWork, ThreadHasFinished, ReadSignal, CloseAcceptor, JoinAllThreads

\* No step of the main loop fails: see poll_array, the workers and the signals.
LEMMA MainRuns ==
  ASSUME HandOverInv, MainStep
  PROVE  ServerKeepsRunning' /\ AssignFindsIdle'
<1> USE DEF HandOverInv, DispatchInv, ServerKeepsRunning
<1>0. NumWorkers \in Nat \ {0} /\ mi \in 1 .. NumWorkers
  BY DispatchAssumption DEF DispatchAssumption, DispatchTypeOK, Workers
<1>1. CASE PollAcceptor \/ PollConnection
  <2>1. mpc' = "assign" /\ mi' = 1 /\ UNCHANGED wd /\ working_threads < NumWorkers
    BY <1>1 DEF PollAcceptor, PollConnection, TakeEntry, StartAssign, PollsAll
  <2> QED
    BY <2>1, IdleFound DEF AssignFindsIdle, CanAssign
<1>2. CASE PollInvalid
  <2>1. acc_polled => acceptor_open
    BY DEF OnlyPresent
  <2>2. \A i \in Entries : poll_array[i] # NoFd => sock[poll_array[i]] # "closed"
    <3>1. Running
      BY <1>2 DEF PollInvalid, PollsAll, Running
    <3> QED
      BY <3>1 DEF SocketsOrderly, AtRest, Asking
  <2> QED
    BY <1>2, <2>1, <2>2 DEF PollInvalid, InvalidEntry
<1>3. CASE AssignWork
  <2>1. PICK w \in mi .. NumWorkers : CanAssign(w)
    BY <1>3 DEF AssignWork, AssignFindsIdle
  <2>2. CASE CanAssign(mi)
    BY <1>3, <2>2 DEF AssignWork, AssignFindsIdle
  <2>3. CASE ~CanAssign(mi)
    <3>1. w # mi /\ mi < NumWorkers /\ w \in mi + 1 .. NumWorkers
      BY <1>0, <2>1, <2>3
    <3> QED
      BY <1>3, <2>1, <2>3, <3>1 DEF AssignWork, AssignFindsIdle, CanAssign
  <2> QED
    BY <2>2, <2>3
<1>4. CASE CloseAcceptor
  <2>1. acceptor_open
    BY <1>4 DEF CloseAcceptor, SignalsOrderly
  <2> QED
    BY <1>4, <2>1 DEF CloseAcceptor, AssignFindsIdle
<1>5. CASE JoinAllThreads
  <2>1. Running
    BY <1>5 DEF JoinAllThreads, Running
  <2>2. \A c \in PolledFds : sock[c] # "closed"
    BY <2>1 DEF SocketsOrderly, AtRest, Asking, PolledFds
  <2>3. ClosesPolled
    BY <2>2, PolledCounted DEF ClosesPolled, OneHand, Unshared
  <2> QED
    BY <1>5, <2>3 DEF JoinAllThreads, AssignFindsIdle
<1>6. CASE ReadSignal
  <2>1. mpc' \in {"hup_close", "int_close", "collect"}
    BY <1>6 DEF ReadSignal, DispatchTypeOK
  <2> QED
    BY <2>1 DEF AssignFindsIdle
<1> QED
  BY <1>1, <1>2, <1>3, <1>4, <1>5, <1>6 DEF MainStep, GetCurrentConnections, PollSignal,
       ThreadHasFinished, CollectNext, StopAllThreads, AssignFindsIdle

\* The main loop closes the listening socket once.
LEMMA MainSignals ==
  ASSUME HandOverInv, MainStep
  PROVE  SignalsOrderly'
<1> USE DEF HandOverInv, DispatchInv, SignalsOrderly, Signalled
<1>1. CASE GetCurrentConnections \/ PollSignal \/ PollInvalid \/ AssignWork \/ StopAllThreads \/ JoinAllThreads
  <2>1. UNCHANGED <<pending, acceptor_open, backlog, acc_polled>>
    BY <1>1 DEF GetCurrentConnections, PollSignal, PollInvalid, AssignWork, StopAllThreads,
         JoinAllThreads, netvars
  <2>2. mpc' \notin {"hup_close", "int_close"} /\ mpc \notin {"hup_close", "int_close"}
    BY <1>1 DEF GetCurrentConnections, PollSignal, PollsAll, PollInvalid, AssignWork, StopAllThreads,
         JoinAllThreads
  <2> QED
    BY <2>1, <2>2
<1>2. CASE PollAcceptor
  <2>1. /\ UNCHANGED <<pending, acceptor_open, backlog>> /\ backlog # 0
        /\ mpc' = "assign" /\ mpc = "poll"
    BY <1>2 DEF PollAcceptor, PollsAll, AcceptorReady, StartAssign, netvars, DispatchTypeOK
  <2> QED
    BY <2>1
<1>3. CASE PollConnection
  <2>1. /\ UNCHANGED <<pending, acceptor_open, backlog, acc_polled>>
        /\ mpc' = "assign" /\ mpc = "poll"
    BY <1>3 DEF PollConnection, PollsAll, TakeEntry, StartAssign, netvars
  <2> QED
    BY <2>1
<1>4. CASE ThreadHasFinished
  <2>1. UNCHANGED <<pending, acceptor_open, backlog>> /\ (acc_polled => acc_polled')
    BY <1>4 DEF ThreadHasFinished, netvars
  <2>2. mpc' \in {"collect", "loop"} /\ mpc = "collect"
    BY <1>4 DEF ThreadHasFinished, CollectNext
  <2> QED
    BY <2>1, <2>2
<1>5. CASE ReadSignal
  <2>1. PICK s \in pending :
           /\ pending' = pending \ {s}
           /\ mpc' = CASE s = "SIGHUP" -> "hup_close"
                       [] s = "SIGINT" -> "int_close"
                       [] s = "SIGUSR1" -> "collect"
    BY <1>5 DEF ReadSignal
  <2>2. UNCHANGED <<acceptor_open, backlog, acc_polled>> /\ mpc = "signal"
    BY <1>5 DEF ReadSignal, netvars
  <2>3. CASE s = "SIGUSR1"
    BY <2>1, <2>2, <2>3
  <2>4. CASE s \in {"SIGHUP", "SIGINT"}
    BY <2>1, <2>2, <2>4
  <2> QED
    BY <2>3, <2>4 DEF DispatchTypeOK
<1>6. CASE CloseAcceptor
  <2>1. acceptor_open
    BY <1>6 DEF CloseAcceptor
  <2>2. /\ pending' = pending /\ ~acceptor_open' /\ backlog' = 0
        /\ mpc \in {"hup_close", "int_close"} /\ mpc' \in {"loop", "int_stop"}
    BY <1>6, <2>1 DEF CloseAcceptor
  <2>3. pending \intersect {"SIGHUP", "SIGINT"} = {}
    BY <2>2
  <2> QED
    BY <2>2, <2>3
<1> QED
  BY <1>1, <1>2, <1>3, <1>4, <1>5, <1>6 DEF MainStep

\* What a worker knows of its connections stays true while it stays where it is
\* and they do.
LEMMA SockKept ==
  ASSUME NEW w \in Workers, WorkerSock(w),
         Given(w)' = Given(w), NewConn(w)' = NewConn(w), wd'[w].do_work = wd[w].do_work,
         thr'[w].pc = thr[w].pc \/ (InLoop(w) /\ InLoop(w)'),
         Given(w) \in Fds => sock'[Given(w)] = sock[Given(w)],
         NewConn(w) \in Fds => sock'[NewConn(w)] = sock[NewConn(w)]
  PROVE  WorkerSock(w)'
<1>1. GivenSock(w)' = GivenSock(w) /\ NewSock(w)' = NewSock(w)
  BY DEF GivenSock, NewSock, InLoop, LoopPcs, At
<1> QED
  BY <1>1 DEF WorkerSock

\* The main loop polls and hands over what is at rest, or asks.
LEMMA MainSockets ==
  ASSUME HandOverInv, MainStep
  PROVE  SocketsOrderly'
<1> USE DEF HandOverInv, DispatchInv
<1> SUFFICES ASSUME Running'
             PROVE  SocketsOrderly'
  BY DEF SocketsOrderly
<1>1. Running /\ SocketsOrderly /\ ~JoinAllThreads
  BY DEF Running, MainStep, JoinAllThreads, GetCurrentConnections, PollSignal, PollsAll, PollAcceptor,
       PollConnection, PollInvalid, AssignWork, ThreadHasFinished, ReadSignal, CloseAcceptor,
       StopAllThreads
<1>2. UNCHANGED <<sock, alive>>
  BY <1>1 DEF MainStep, GetCurrentConnections, PollSignal, PollAcceptor, PollConnection, PollInvalid,
       AssignWork, ThreadHasFinished, ReadSignal, CloseAcceptor, StopAllThreads, netvars
<1>3. /\ \A c \in Fds : sock[c] # "closed" => alive[c]
      /\ \A i \in Entries : poll_array[i] # NoFd => sock[poll_array[i]] \in AtRest
      /\ mpc = "assign" /\ mfd # Acceptor => sock[mfd] \in Asking
      /\ \A w \in Workers : WorkerSock(w)
  BY <1>1 DEF SocketsOrderly
<1>4. CASE PollAcceptor \/ PollConnection
  <2>1. UNCHANGED <<thr, wd>>
    BY <1>4 DEF PollAcceptor, PollConnection
  <2>2. \A w \in Workers : WorkerSock(w)'
    BY <1>2, <1>3, <2>1, SameHands, SockKept
  <2>3. CASE PollAcceptor
    BY <1>2, <1>3, <2>2, <2>3 DEF PollAcceptor, StartAssign, SocketsOrderly
  <2>4. CASE PollConnection
    <3>1. PICK i \in ReadyEntries : TakeEntry(i)
      BY <2>4 DEF PollConnection
    <3>2. /\ poll_array[i] \in clients /\ i \in Entries
          /\ sock[poll_array[i]] \in AtRest
          /\ Readable(poll_array[i])
      BY <1>3, <3>1 DEF ReadyEntries, OnlyPresent, OnlyClientsPolled, PolledFds
    <3>3. sock[poll_array[i]] \in Asking
      BY <1>3, <3>2 DEF Readable, HasMessage, HasEOF, AtRest, Asking, Unread, DispatchTypeOK
    <3>4. \A j \in Entries : poll_array'[j] # NoFd => poll_array'[j] = poll_array[j]
      BY <3>1 DEF TakeEntry, DispatchTypeOK
    <3> QED
      BY <1>2, <1>3, <2>2, <3>1, <3>3, <3>4 DEF TakeEntry, StartAssign, SocketsOrderly
  <2> QED
    BY <1>4, <2>3, <2>4
<1>5. CASE AssignWork /\ CanAssign(mi)
  <2>0. PICK m \in Workers, d \in Present : m = mi /\ d = mfd
    BY <1>5 DEF AssignWork, OnlyPresent, DispatchTypeOK
  <2>1. /\ wd' = [wd EXCEPT ![m].do_work = "DO", ![m].in_conn = d] /\ Wake({m})
        /\ wd[m].do_work = "IDLE" /\ mpc = "assign" /\ mpc' = "loop"
        /\ poll_array' = poll_array
    BY <1>5, <2>0 DEF AssignWork, CanAssign
  <2>2. WorkerSock(m)'
    <3>1. InLoop(m)'
      <4>1. InLoop(m)
        BY <2>1 DEF WorkersOrderly, WorkerOrderly
      <4> QED
        BY <2>1, <4>1, WakeFrame DEF DispatchTypeOK, InLoop, LoopPcs
    <3>2. wd'[m].do_work = "DO" /\ wd'[m].in_conn = d
      BY <2>1 DEF DispatchTypeOK, WorkerData
    <3>3. Given(m)' = d /\ NewConn(m)' = NoFd
      BY <3>1, <3>2 DEF Given, NewConn, Busy
    <3>4. GivenSock(m)' = Asking
      BY <3>1, <3>2 DEF GivenSock, At, InLoop, LoopPcs
    <3>5. d \in Fds => sock'[d] \in Asking
      BY <1>2, <1>3, <2>0, <2>1, NoFdApart
    <3> QED
      BY <3>3, <3>4, <3>5, NoFdApart DEF WorkerSock
  <2>3. ASSUME NEW v \in Workers, v # m
        PROVE  WorkerSock(v)'
    <3>1. thr'[v] = thr[v] /\ wd'[v] = wd[v]
      BY <2>1, <2>3 DEF Wake, DispatchTypeOK
    <3>2. Given(v)' = Given(v) /\ NewConn(v)' = NewConn(v)
      BY <3>1 DEF Given, NewConn, Busy, InLoop
    <3> QED
      BY <1>2, <1>3, <3>1, <3>2, SockKept
  <2> QED
    BY <1>2, <1>3, <2>1, <2>2, <2>3 DEF SocketsOrderly
<1>6. CASE ThreadHasFinished /\ wd[mi].do_work = "DONE"
  <2>0. PICK m \in Workers : m = mi
    BY DEF DispatchTypeOK
  <2>1. /\ wd' = [wd EXCEPT ![m].do_work = "IDLE", ![m].in_conn = NoFd]
        /\ UNCHANGED <<thr, mfd>> /\ mpc' # "assign"
        /\ poll_array' = AddedToPoll(IF wd[m].in_conn = Acceptor THEN wd[m].add_conn ELSE wd[m].in_conn)
    BY <1>6, <2>0 DEF ThreadHasFinished, CollectNext
  <2>2. WorkerSock(m)'
    <3>1. wd'[m].do_work = "IDLE"
      BY <2>1 DEF DispatchTypeOK, WorkerData
    <3> QED
      BY <3>1, NoFdApart DEF WorkerSock, Given, NewConn, Busy
  <2>3. ASSUME NEW v \in Workers, v # m
        PROVE  WorkerSock(v)'
    <3>1. thr'[v] = thr[v] /\ wd'[v] = wd[v]
      BY <2>1, <2>3 DEF DispatchTypeOK
    <3>2. Given(v)' = Given(v) /\ NewConn(v)' = NewConn(v)
      BY <3>1 DEF Given, NewConn, Busy, InLoop
    <3> QED
      BY <1>2, <1>3, <3>1, <3>2, SockKept
  <2>4. PICK d : d = IF wd[m].in_conn = Acceptor THEN wd[m].add_conn ELSE wd[m].in_conn
    OBVIOUS
  <2>5. d \in Fds => sock[d] \in AtRest
    <3>1. InLoop(m) /\ wd[m].do_work = "DONE"
      BY <1>6, <2>0 DEF WorkersOrderly, WorkerOrderly
    <3>2. Given(m) = wd[m].in_conn /\ (wd[m].in_conn = Acceptor => NewConn(m) = wd[m].add_conn)
      BY <3>1 DEF Given, NewConn, Busy
    <3>3. GivenSock(m) = AtRest /\ NewSock(m) = AtRest
      BY <3>1 DEF GivenSock, NewSock, At, InLoop, LoopPcs
    <3> QED
      BY <1>3, <2>4, <3>2, <3>3 DEF WorkerSock
  <2>6. d \in Fds \union {Acceptor, NoFd} /\ (d = Acceptor => FALSE)
    BY <2>4, NoFdApart DEF DispatchTypeOK, WorkerData
  <2>7. ASSUME NEW i \in Entries, poll_array'[i] # NoFd
        PROVE  sock'[poll_array'[i]] \in AtRest
    <3>1. poll_array'[i] = poll_array[i] \/ (poll_array'[i] = d /\ d # NoFd)
      BY <2>1, <2>4, <2>7 DEF AddedToPoll, DispatchTypeOK
    <3> QED
      BY <1>2, <1>3, <2>5, <2>6, <2>7, <3>1
  <2> QED
    BY <1>2, <1>3, <2>1, <2>2, <2>3, <2>7 DEF SocketsOrderly
<1>7. CASE StopAllThreads
  <2>1. ASSUME NEW w \in Workers
        PROVE  WorkerSock(w)'
    <3>1. thr'[w] = IF w \in ToSignal /\ thr[w].pc = "asleep" THEN [thr[w] EXCEPT !.pc = "wait"]
                    ELSE thr[w]
      BY <1>7 DEF StopAllThreads, Wake, At
    <3>2. /\ thr'[w].pc = thr[w].pc \/ (InLoop(w) /\ InLoop(w)')
          /\ InLoop(w)' <=> InLoop(w)
          /\ thr'[w].conn = thr[w].conn /\ thr'[w].newconn = thr[w].newconn
      BY <3>1 DEF DispatchTypeOK, ThreadType, InLoop, LoopPcs
    <3>3. /\ wd'[w].do_work = wd[w].do_work
          /\ wd'[w].in_conn = wd[w].in_conn /\ wd'[w].add_conn = wd[w].add_conn
      BY <1>7 DEF StopAllThreads, DispatchTypeOK, WorkerData
    <3>4. Given(w)' = Given(w) /\ NewConn(w)' = NewConn(w)
      BY <3>2, <3>3 DEF Given, NewConn, Busy
    <3> QED
      BY <1>2, <1>3, <3>2, <3>3, <3>4, SockKept
  <2> QED
    BY <1>2, <1>3, <1>7, <2>1 DEF StopAllThreads, SocketsOrderly
<1>8. CASE UNCHANGED <<thr, wd, poll_array, mfd>> /\ (mpc' = "assign" => mpc = "assign")
  <2>1. \A w \in Workers : WorkerSock(w)'
    BY <1>2, <1>3, <1>8, SameHands, SockKept
  <2> QED
    BY <1>2, <1>3, <1>8, <2>1 DEF SocketsOrderly
<1>9. CASE GetCurrentConnections \/ PollSignal \/ PollInvalid \/ ReadSignal \/ CloseAcceptor
  BY <1>8, <1>9 DEF GetCurrentConnections, PollSignal, PollInvalid, ReadSignal, CloseAcceptor, DispatchTypeOK
<1>10. CASE AssignWork /\ ~CanAssign(mi)
  BY <1>8, <1>10 DEF AssignWork, Running
<1>11. CASE ThreadHasFinished /\ wd[mi].do_work # "DONE"
  BY <1>8, <1>11 DEF ThreadHasFinished, CollectNext
<1> QED
  BY <1>1, <1>4, <1>5, <1>6, <1>7, <1>9, <1>10, <1>11 DEF MainStep

----------------------------------------------------------------------------
(* Steps of a worker.                                                      *)

\* A step of worker w touches its own connections, or a free descriptor.
WorkerFrame(w) ==
    /\ UNCHANGED <<mainvars, acceptor_open>>
    /\ pending' \in {pending, pending \union {"SIGUSR1"}}
    /\ backlog' = backlog \/ (backlog # 0 /\ backlog' = backlog - 1)
    /\ \A v \in Workers \ {w} : thr'[v] = thr[v] /\ wd'[v] = wd[v]
    /\ \A f \in Fds : sock'[f] # sock[f] => f \in {Given(w), NewConn(w)} \/ sock[f] = "closed"
    /\ \A f \in Fds : sock'[f] # "closed" => alive'[f]

\* After most of its steps it holds what it held, and knows how it stands.
WorkerStill(w) ==
    /\ WorkerFrame(w) /\ UNCHANGED clients /\ StillHands(w)
    /\ WorkerOrderly(w)' /\ WorkerSock(w)'

\* The hypotheses of the lemmas on one worker.
OrderlyAt(w) ==
    /\ w \in Workers /\ DispatchTypeOK /\ Running
    /\ \A c \in Fds : sock[c] # "closed" => alive[c]
    /\ WorkerOrderly(w) /\ WorkerSock(w)
    /\ Given(w) \in Present \union {NoFd}
    /\ ~Greeting(w) => NewConn(w) \in clients \union {NoFd}
    /\ Greeting(w) => thr[w].newconn \in Fds \ clients

LEMMA OrderlyHere ==
  ASSUME HandOverInv, Running, NEW w \in Workers
  PROVE  OrderlyAt(w)
  BY DEF HandOverInv, DispatchInv, OrderlyAt, SocketsOrderly, WorkersOrderly, OnlyPresent,
     NewcomersApart

\* The steps in the loop.
LEMMA LoopStill ==
  ASSUME NEW w \in Workers, OrderlyAt(w), LoopSteps(w)
  PROVE  WorkerStill(w)
<1> USE DEF OrderlyAt, DispatchTypeOK
<1>1. /\ UNCHANGED <<mainvars, clients, acceptor_open, backlog, sock, alive>>
      /\ pending' \in {pending, pending \union {"SIGUSR1"}}
      /\ \A v \in Workers \ {w} : thr'[v] = thr[v] /\ wd'[v] = wd[v]
  BY DEF LoopSteps, WaitForWork, FailDone, FailKill, Done, Kill, outside, netvars, Goto, Become
<1>2. WorkerFrame(w)
  BY <1>1 DEF WorkerFrame
<1>3. ASSUME InLoop(w), InLoop(w)', wd' = wd
      PROVE  WorkerStill(w)
  <2>1. Given(w)' = Given(w) /\ NewConn(w)' = NewConn(w) /\ (Busy(w)' <=> Busy(w))
    BY <1>3 DEF Given, NewConn, Busy
  <2>2. ~Greeting(w) /\ ~Greeting(w)'
    BY <1>3 DEF InLoop, LoopPcs, Greeting
  <2>3. WorkerOrderly(w)'
    BY <1>3, OrderlyKept
  <2>4. WorkerSock(w)'
    BY <1>1, <1>3, <2>1, SockKept
  <2> QED
    BY <1>1, <1>2, <2>1, <2>2, <2>3, <2>4 DEF WorkerStill, StillHands
<1>4. CASE WaitForWork(w)
  <2>1. CASE wd[w].exit \/ wd[w].do_work # "DO"
    <3>1. InLoop(w) /\ InLoop(w)' /\ wd' = wd
      <4>1. thr[w].pc = "wait" /\ thr[w] \in ThreadType /\ wd' = wd
        BY <1>4 DEF WaitForWork, At
      <4>2. thr'[w] = [thr[w] EXCEPT !.pc = "exited"] \/ thr'[w] = [thr[w] EXCEPT !.pc = "asleep"]
        BY <1>4, <2>1 DEF WaitForWork
      <4>3. thr'[w].pc \in {"exited", "asleep"}
        BY <4>1, <4>2 DEF ThreadType
      <4> QED
        BY <4>1, <4>3 DEF InLoop, LoopPcs
    <3> QED
      BY <1>3, <3>1
  <2>2. CASE ~wd[w].exit /\ wd[w].do_work = "DO"
    <3>1. /\ thr'[w] = Thread(IF wd[w].in_conn = Acceptor THEN "acc_test" ELSE "read",
                               wd[w].in_conn, NoFd, FALSE)
          /\ wd' = wd
      BY <1>4, <2>2 DEF WaitForWork
    <3>2. wd[w].in_conn \in Fds \union {Acceptor} /\ InLoop(w)
      BY <1>4, <2>2 DEF WaitForWork, At, InLoop, LoopPcs, WorkerOrderly, WorkerData
    <3>3. /\ Given(w) = wd[w].in_conn /\ NewConn(w) = NoFd /\ ~Greeting(w) /\ Busy(w)
          /\ GivenSock(w) = Asking
      <4>1. thr[w].pc = "wait"
        BY <1>4 DEF WaitForWork, At
      <4>2. GivenSock(w) = Asking
        BY <2>2, <4>1 DEF GivenSock, At
      <4> QED
        BY <2>2, <3>2, <4>1, <4>2, NoFdApart DEF Given, NewConn, Busy, Greeting
    <3>4. /\ Given(w)' = wd[w].in_conn /\ NewConn(w)' = NoFd /\ ~Greeting(w)' /\ Busy(w)'
          /\ ~InLoop(w)' /\ GivenSock(w)' = Asking
      BY <2>2, <3>1, <3>2 DEF Given, NewConn, Busy, Greeting, GivenSock, At, InLoop, LoopPcs, Thread
    <3>5. WorkerOrderly(w)'
      BY <2>2, <3>1, <3>2 DEF WorkerOrderly, At, InLoop, LoopPcs, AcceptPcs, ServePcs, Thread
    <3>6. WorkerSock(w)'
      BY <1>1, <3>3, <3>4, NoFdApart DEF WorkerSock
    <3> QED
      BY <1>1, <1>2, <3>3, <3>4, <3>5, <3>6 DEF WorkerStill, StillHands
  <2> QED
    BY <2>1, <2>2
<1>5. CASE Done(w)
  <2>1. /\ thr'[w] = [thr[w] EXCEPT !.pc = "kill"]
        /\ wd'[w] = [do_work |-> "DONE", exit |-> wd[w].exit,
                     in_conn |-> thr[w].conn, add_conn |-> thr[w].newconn]
        /\ thr[w].pc = "done" /\ thr'[w].pc = "kill" /\ thr[w] \in ThreadType
    BY <1>5 DEF Done, Goto, At, ThreadType
  <2>2. ~InLoop(w) /\ wd[w].do_work = "DO" /\ InLoop(w)' /\ wd'[w].do_work = "DONE"
    BY <2>1 DEF InLoop, LoopPcs, WorkerOrderly
  <2>3. /\ Given(w)' = Given(w) /\ NewConn(w)' = NewConn(w) /\ Busy(w) /\ Busy(w)'
        /\ ~Greeting(w) /\ ~Greeting(w)'
    BY <2>1, <2>2 DEF Given, NewConn, Busy, Greeting
  <2>4. GivenSock(w) = AtRest /\ GivenSock(w)' = AtRest /\ NewSock(w) = AtRest /\ NewSock(w)' = AtRest
    BY <2>1, <2>2 DEF GivenSock, NewSock, At
  <2>5. WorkerOrderly(w)'
    BY <2>1, <2>2 DEF WorkerOrderly, At, AcceptPcs, ServePcs
  <2>6. WorkerSock(w)'
    BY <1>1, <2>3, <2>4 DEF WorkerSock
  <2> QED
    BY <1>1, <1>2, <2>3, <2>5, <2>6 DEF WorkerStill, StillHands
<1>6. CASE Kill(w)
  <2>1. InLoop(w) /\ InLoop(w)' /\ wd' = wd
    BY <1>6 DEF Kill, Become, WaitingThread, Thread, outside, InLoop, LoopPcs, At
  <2> QED
    BY <1>3, <2>1
<1>7. CASE FailDone(w) \/ FailKill(w)
  BY <1>7 DEF FailDone, FailKill, At, WorkerOrderly
<1> QED
  BY <1>4, <1>5, <1>6, <1>7 DEF LoopSteps

\* A worker that serves a client holds that client and nothing else.
LEMMA ServingHere ==
  ASSUME NEW w \in Workers, OrderlyAt(w), thr[w].pc \in ServePcs
  PROVE  /\ thr[w].conn \in clients /\ thr[w].conn \in Fds
         /\ Given(w) = thr[w].conn /\ NewConn(w) = NoFd /\ ~Greeting(w) /\ Busy(w)
         /\ ~InLoop(w) /\ wd[w].do_work = "DO"
         /\ sock[thr[w].conn] \in GivenSock(w)
<1> USE DEF OrderlyAt, DispatchTypeOK
<1>1. ~InLoop(w) /\ wd[w].do_work = "DO" /\ thr[w].conn \in Fds /\ ~Greeting(w)
  BY DEF WorkerOrderly, InLoop, LoopPcs, ServePcs, Greeting
<1>2. Given(w) = thr[w].conn /\ NewConn(w) = NoFd /\ Busy(w)
  BY <1>1, NoFdApart DEF Given, NewConn, Busy
<1> QED
  BY <1>1, <1>2, NoFdApart DEF Present, WorkerSock

\* It still does at its next label.
LEMMA ServingThere ==
  ASSUME NEW w \in Workers, OrderlyAt(w), thr[w].pc \in ServePcs, wd' = wd,
         thr'[w].pc \in ServePcs \union {"done"}, thr'[w].conn = thr[w].conn,
         thr'[w].pc = "reply" => ~thr'[w].failed,
         sock'[thr[w].conn] \in GivenSock(w)'
  PROVE  StillHands(w) /\ WorkerOrderly(w)' /\ WorkerSock(w)'
<1>1. ~InLoop(w)' /\ ~Greeting(w)'
  BY DEF InLoop, LoopPcs, ServePcs, Greeting
<1>2. Given(w)' = thr[w].conn /\ NewConn(w)' = NoFd /\ Busy(w)'
  BY <1>1, ServingHere, NoFdApart DEF Given, NewConn, Busy
<1>3. StillHands(w)
  BY <1>1, <1>2, ServingHere DEF StillHands
<1>4. WorkerOrderly(w)'
  BY <1>1, ServingHere DEF WorkerOrderly, At, ServePcs, AcceptPcs, InLoop, LoopPcs
<1>5. WorkerSock(w)'
  BY <1>2, NoFdApart DEF WorkerSock
<1> QED
  BY <1>3, <1>4, <1>5

\* The steps on a connection, up to its end.
LEMMA ServeStill ==
  ASSUME NEW w \in Workers, OrderlyAt(w), Orderly, ServeSteps(w), ~CConnRemove(w)
  PROVE  WorkerStill(w)
<1> USE DEF OrderlyAt, DispatchTypeOK
<1>1. thr[w].pc \in ServePcs /\ thr[w] \in ThreadType
  BY DEF ServeSteps, Read, Handle, Reply, CConnReply, ServePcs, At
<1> DEFINE c == thr[w].conn
<1>2. /\ c \in clients /\ c \in Fds /\ Given(w) = c /\ sock[c] \in GivenSock(w)
      /\ wd[w].do_work = "DO"
  BY <1>1, ServingHere
<1>3. CASE Read(w)
  <2>1. sock[c] \in Asking /\ At(w, "read")
    BY <1>2, <1>3, ServingHere, <1>1 DEF Read, At, GivenSock
  <2>2. /\ sock' = [sock EXCEPT ![c] = AfterRead(@)] /\ Goto(w, "handle")
        /\ UNCHANGED <<mainvars, pending, wd, clients, state_mux, alive, acceptor_open, backlog>>
    BY <1>2, <1>3, <2>1 DEF Read, HasEOF, HasMessage, Unread, Asking
  <2>3. sock'[c] \in {"waiting", "leaving"}
    BY <1>2, <2>1, <2>2 DEF Asking, AfterRead
  <2>4. /\ thr'[w].pc = "handle" /\ thr'[w].conn = c
        /\ \A v \in Workers \ {w} : thr'[v] = thr[v]
    BY <1>1, <2>2 DEF Goto, ThreadType
  <2>5. GivenSock(w)' = {"waiting", "leaving"}
    BY <1>2, <2>2, <2>4 DEF GivenSock, At
  <2>6. WorkerFrame(w)
    <3>1. sock[c] # "closed"
      BY <2>1 DEF Asking
    <3>2. alive[c]
      BY <1>2, <3>1
    <3>3. /\ \A f \in Fds : sock'[f] # sock[f] => f = c
          /\ \A f \in Fds : sock'[f] # "closed" => alive'[f]
      <4> HIDE DEF c
      <4> QED
        BY <2>2, <3>2
    <3> QED
      BY <1>2, <2>2, <2>4, <3>3 DEF WorkerFrame
  <2> QED
    BY <1>1, <2>2, <2>3, <2>4, <2>5, <2>6, ServingThere DEF WorkerStill, ServePcs
<1>4. CASE Handle(w)
  <2>1. sock[c] \in {"waiting", "leaving"}
    BY <1>2, <1>4 DEF Handle, GivenSock, At
  <2>2. UNCHANGED <<mainvars, pending, wd, clients, sock, alive, acceptor_open, backlog>>
    BY <1>4 DEF Handle, outside, netvars
  <2>3. \/ sock[c] = "leaving" /\ Goto(w, "cconn_reply")
        \/ sock[c] = "waiting" /\ Become(w, Thread("reply", c, NoFd, FALSE))
    BY <1>2, <1>4, <2>1 DEF Handle, Orderly
  <2>4. \A v \in Workers \ {w} : thr'[v] = thr[v]
    BY <2>3 DEF Goto, Become
  <2>5. WorkerFrame(w)
    BY <2>2, <2>4 DEF WorkerFrame
  <2>6. CASE Goto(w, "cconn_reply") /\ sock[c] = "leaving"
    <3>1. thr'[w].pc = "cconn_reply" /\ thr'[w].conn = c
      BY <1>1, <2>6 DEF Goto, ThreadType
    <3>2. GivenSock(w)' = {"leaving"}
      BY <1>2, <2>2, <3>1 DEF GivenSock, At
    <3> QED
      BY <1>1, <2>2, <2>5, <2>6, <3>1, <3>2, ServingThere DEF WorkerStill, ServePcs
  <2>7. CASE Become(w, Thread("reply", c, NoFd, FALSE)) /\ sock[c] = "waiting"
    <3>1. thr'[w].pc = "reply" /\ thr'[w].conn = c /\ ~thr'[w].failed
      BY <2>7 DEF Become, Thread
    <3>2. GivenSock(w)' = {"waiting"}
      BY <1>2, <2>2, <3>1 DEF GivenSock, At
    <3> QED
      BY <1>1, <2>2, <2>5, <2>7, <3>1, <3>2, ServingThere DEF WorkerStill, ServePcs
  <2> QED
    BY <2>3, <2>6, <2>7
<1>5. ASSUME NEW state \in {"idle", "left"}, NEW l \in {"done", "cconn_remove"},
             WriteMsg(w, c, state, l), alive[c],
             state \in (IF l = "done" THEN AtRest ELSE {"left"}),
             UNCHANGED <<mainlocals, pending, wd, clients, state_mux, alive, acceptor_open, backlog>>
      PROVE  WorkerStill(w)
  <2>1. sock' = [sock EXCEPT ![c] = state] /\ Goto(w, l) /\ mpc' = mpc
    BY <1>5 DEF WriteMsg
  <2>2. /\ thr'[w].pc = l /\ thr'[w].conn = c
        /\ \A v \in Workers \ {w} : thr'[v] = thr[v]
    BY <1>1, <2>1 DEF Goto, ThreadType
  <2>3. sock'[c] \in GivenSock(w)'
    BY <1>2, <1>5, <2>1, <2>2 DEF GivenSock, At
  <2>4. WorkerFrame(w)
    BY <1>2, <1>5, <2>1, <2>2 DEF WorkerFrame, mainvars, mainlocals
  <2> QED
    BY <1>1, <1>5, <2>2, <2>3, <2>4, ServingThere DEF WorkerStill, ServePcs
<1>6. CASE Reply(w)
  <2>1. alive[c] /\ ~thr[w].failed
    BY <1>2, <1>6 DEF Reply, GivenSock, At, WorkerOrderly
  <2> QED
    BY <1>5, <1>6, <2>1 DEF Reply, AtRest
<1>7. CASE CConnReply(w)
  <2>1. alive[c]
    BY <1>2, <1>7 DEF CConnReply, GivenSock, At
  <2> QED
    BY <1>5, <1>7, <2>1 DEF CConnReply
<1> QED
  BY <1>3, <1>4, <1>6, <1>7 DEF ServeSteps

\* The worker that accepts holds the listening socket, which is open.
LEMMA AcceptingHere ==
  ASSUME NEW w \in Workers, OrderlyAt(w), thr[w].pc \in AcceptPcs
  PROVE  /\ acceptor_open /\ thr[w].conn = Acceptor
         /\ Given(w) = Acceptor /\ NewConn(w) = thr[w].newconn /\ Busy(w)
         /\ ~InLoop(w) /\ wd[w].do_work = "DO"
         /\ thr[w].newconn \in Fds => sock[thr[w].newconn] \in NewSock(w)
<1> USE DEF OrderlyAt, DispatchTypeOK
<1>1. ~InLoop(w) /\ wd[w].do_work = "DO" /\ thr[w].conn = Acceptor
  BY DEF WorkerOrderly, InLoop, LoopPcs, AcceptPcs
<1>2. Given(w) = Acceptor /\ NewConn(w) = thr[w].newconn /\ Busy(w)
  BY <1>1 DEF Given, NewConn, Busy
<1> QED
  BY <1>1, <1>2, NoFdApart DEF Present, WorkerSock

\* It still does at its next label.
LEMMA AcceptingThere ==
  ASSUME NEW w \in Workers, OrderlyAt(w), thr[w].pc \in AcceptPcs, wd' = wd,
         thr'[w].pc \in AcceptPcs \union {"done"}, thr'[w].conn = Acceptor,
         thr'[w].pc \in {"acc_test", "acc_lock", "acc_accept"} => thr'[w].newconn = NoFd,
         thr'[w].pc = "acc_reply" => thr'[w].newconn # NoFd,
         thr'[w].newconn \in Fds => sock'[thr'[w].newconn] \in NewSock(w)'
  PROVE  /\ Given(w)' = Acceptor /\ NewConn(w)' = thr'[w].newconn /\ Busy(w)'
         /\ WorkerOrderly(w)' /\ WorkerSock(w)'
<1>1. ~InLoop(w)'
  BY DEF InLoop, LoopPcs, AcceptPcs
<1>2. Given(w)' = Acceptor /\ NewConn(w)' = thr'[w].newconn /\ Busy(w)'
  BY <1>1, AcceptingHere DEF Given, NewConn, Busy
<1>3. WorkerOrderly(w)'
  BY <1>1, AcceptingHere DEF WorkerOrderly, At, ServePcs, AcceptPcs, InLoop, LoopPcs
<1>4. WorkerSock(w)'
  BY <1>2, NoFdApart DEF WorkerSock
<1> QED
  BY <1>2, <1>3, <1>4

\* A connection that is dropped was nobody's client, and is closed.
LEMMA DropStill ==
  ASSUME NEW w \in Workers, OrderlyAt(w), thr[w].pc \in {"acc_hello", "acc_add"}, DropNew(w),
         UNCHANGED <<mainvars, pending, wd, clients, acceptor_open, backlog>>
  PROVE  WorkerStill(w)
<1> USE DEF OrderlyAt, DispatchTypeOK
<1>0. PICK c \in Fds \ clients : c = thr[w].newconn
  BY DEF Greeting
<1>1. /\ sock' = [sock EXCEPT ![c] = "closed"] /\ alive' = [alive EXCEPT ![c] = FALSE]
      /\ thr' = [thr EXCEPT ![w] = Thread("done", thr[w].conn, NoFd, FALSE)]
  BY <1>0 DEF DropNew, CloseFd, Become
<1>2. /\ thr'[w].pc = "done" /\ thr'[w].conn = thr[w].conn /\ thr'[w].newconn = NoFd
      /\ \A v \in Workers \ {w} : thr'[v] = thr[v]
  BY <1>1 DEF Thread
<1>3. thr[w].pc \in AcceptPcs /\ Greeting(w) /\ ~Greeting(w)'
  BY <1>2 DEF AcceptPcs, Greeting
<1>4. NewConn(w) = c /\ thr[w].conn = Acceptor
  BY <1>0, <1>3, AcceptingHere
<1>5. Given(w)' = Acceptor /\ NewConn(w)' = NoFd /\ Busy(w)' /\ WorkerOrderly(w)' /\ WorkerSock(w)'
  BY <1>2, <1>3, <1>4, AcceptingThere, NoFdApart
<1>6. WorkerFrame(w)
  <2>1. \A f \in Fds : sock'[f] # sock[f] => f = c
    BY <1>1
  <2>2. \A f \in Fds : sock'[f] # "closed" => alive'[f]
    BY <1>1
  <2> QED
    BY <1>2, <1>4, <2>1, <2>2 DEF WorkerFrame
<1>7. StillHands(w)
  BY <1>3, <1>5, AcceptingHere DEF StillHands
<1> QED
  BY <1>5, <1>6, <1>7 DEF WorkerStill

\* The steps on the listening socket, up to the registration of a client.
LEMMA AcceptStill ==
  ASSUME NEW w \in Workers, OrderlyAt(w), AcceptSteps(w), clients' = clients
  PROVE  WorkerStill(w)
<1> USE DEF OrderlyAt, DispatchTypeOK
<1>1. thr[w].pc \in AcceptPcs /\ thr[w] \in ThreadType
  BY DEF AcceptSteps, AccTest, AccLock, AccAccept, AccHello, AccAdd, AccReply, AcceptPcs, At
<1>2. /\ acceptor_open /\ thr[w].conn = Acceptor
      /\ Given(w) = Acceptor /\ NewConn(w) = thr[w].newconn /\ Busy(w)
      /\ thr[w].newconn \in Fds => sock[thr[w].newconn] \in NewSock(w)
  BY <1>1, AcceptingHere
<1>3. CASE AccTest(w) \/ AccLock(w)
  <2>1. /\ UNCHANGED <<mainvars, pending, wd, sock, alive, acceptor_open, backlog>>
        /\ thr[w].pc \in {"acc_test", "acc_lock"}
        /\ \E l \in {"done", "acc_lock", "acc_accept"} : Goto(w, l)
    BY <1>3 DEF AccTest, AccLock, outside, netvars, At
  <2>2. PICK l \in {"done", "acc_lock", "acc_accept"} : Goto(w, l)
    BY <2>1
  <2>3. /\ thr'[w].pc = l /\ thr'[w].conn = Acceptor /\ thr'[w].newconn = thr[w].newconn
        /\ \A v \in Workers \ {w} : thr'[v] = thr[v]
    BY <1>1, <1>2, <2>2 DEF Goto, ThreadType
  <2>4. thr[w].newconn = NoFd
    BY <2>1 DEF WorkerOrderly
  <2>5. Given(w)' = Acceptor /\ NewConn(w)' = NoFd /\ Busy(w)' /\ WorkerOrderly(w)' /\ WorkerSock(w)'
    BY <1>1, <2>1, <2>3, <2>4, AcceptingThere, NoFdApart DEF AcceptPcs
  <2>6. WorkerFrame(w)
    BY <2>1, <2>3 DEF WorkerFrame
  <2>7. ~Greeting(w) /\ ~Greeting(w)'
    BY <2>1, <2>3 DEF Greeting
  <2>8. StillHands(w)
    BY <1>2, <2>4, <2>5, <2>7 DEF StillHands
  <2> QED
    BY <2>5, <2>6, <2>8 DEF WorkerStill
<1>4. CASE AccAccept(w)
  <2>1. PICK c \in Fds :
           /\ sock[c] = "closed"
           /\ sock' = [sock EXCEPT ![c] = "greeting"]
           /\ alive' = [alive EXCEPT ![c] = TRUE]
           /\ thr' = [thr EXCEPT ![w] = Thread("acc_hello", thr[w].conn, c, FALSE)]
           /\ backlog > 0 /\ backlog' = backlog - 1
           /\ UNCHANGED <<mainvars, pending, wd, acceptor_open>>
    BY <1>2, <1>4 DEF AccAccept, IsLowestFree, Become
  <2>2. /\ thr'[w].pc = "acc_hello" /\ thr'[w].conn = Acceptor /\ thr'[w].newconn = c
        /\ \A v \in Workers \ {w} : thr'[v] = thr[v]
    BY <1>2, <2>1 DEF Thread
  <2>3. thr[w].newconn = NoFd /\ ~Greeting(w) /\ Greeting(w)'
    BY <1>4, <2>2 DEF AccAccept, At, WorkerOrderly, Greeting
  <2>4. sock'[c] \in NewSock(w)'
    BY <2>1, <2>2 DEF NewSock, At
  <2>5. Given(w)' = Acceptor /\ NewConn(w)' = c /\ Busy(w)' /\ WorkerOrderly(w)' /\ WorkerSock(w)'
    BY <1>1, <2>1, <2>2, <2>4, AcceptingThere DEF AcceptPcs
  <2>6. WorkerFrame(w)
    <3>1. \A f \in Fds : sock'[f] # sock[f] => sock[f] = "closed"
      BY <2>1
    <3>2. \A f \in Fds : sock'[f] # "closed" => alive'[f]
      BY <2>1
    <3> QED
      BY <2>1, <2>2, <3>1, <3>2 DEF WorkerFrame
  <2>7. StillHands(w)
    BY <1>2, <2>3, <2>5 DEF StillHands
  <2> QED
    BY <2>5, <2>6, <2>7 DEF WorkerStill
<1>5. CASE AccHello(w)
  <2>1. PICK c \in Fds \ clients : c = thr[w].newconn
    BY <1>5 DEF AccHello, At, Greeting
  <2>2. sock[c] \in {"greeting", "hello", "strange"}
    BY <1>2, <1>5, <2>1 DEF AccHello, At, NewSock
  <2>3. ~HasEOF(c)
    BY <2>2 DEF HasEOF, HasMessage, Unread
  <2>4. CASE DropNew(w)
    BY <1>5, <2>4, DropStill DEF AccHello, At
  <2>5. CASE ~DropNew(w)
    <3>1. /\ sock[c] = "hello" /\ sock' = [sock EXCEPT ![c] = "greeted"]
          /\ Goto(w, "acc_add")
          /\ UNCHANGED <<mainvars, pending, wd, alive, acceptor_open, backlog>>
      BY <1>5, <2>1, <2>3, <2>5 DEF AccHello
    <3>2. /\ thr'[w].pc = "acc_add" /\ thr'[w].conn = Acceptor /\ thr'[w].newconn = c
          /\ \A v \in Workers \ {w} : thr'[v] = thr[v]
      BY <1>1, <1>2, <2>1, <3>1 DEF Goto, ThreadType
    <3>3. sock'[c] \in NewSock(w)'
      BY <3>1, <3>2 DEF NewSock, At
    <3>4. Given(w)' = Acceptor /\ NewConn(w)' = c /\ Busy(w)' /\ WorkerOrderly(w)' /\ WorkerSock(w)'
      BY <1>1, <2>1, <3>1, <3>2, <3>3, AcceptingThere DEF AcceptPcs
    <3>5. WorkerFrame(w)
      <4>1. \A f \in Fds : sock'[f] # sock[f] => f = c
        BY <3>1
      <4>2. \A f \in Fds : sock'[f] # "closed" => alive'[f]
        BY <3>1
      <4> QED
        BY <1>2, <2>1, <3>1, <3>2, <4>1, <4>2 DEF WorkerFrame
    <3>6. StillHands(w)
      BY <1>2, <2>1, <3>2, <3>4 DEF StillHands, Greeting
    <3> QED
      BY <3>4, <3>5, <3>6 DEF WorkerStill
  <2> QED
    BY <2>4, <2>5
<1>6. CASE AccAdd(w)
  <2>1. thr[w].newconn \in Fds \ clients
    BY <1>6 DEF AccAdd, At, Greeting
  <2>2. DropNew(w)
    BY <1>6, <2>1 DEF AccAdd
  <2> QED
    BY <1>6, <2>2, DropStill DEF AccAdd, At
<1>7. CASE AccReply(w)
  <2>1. PICK c \in clients : c = thr[w].newconn
    <3>1. NewConn(w) # NoFd /\ ~Greeting(w)
      BY <1>2, <1>7 DEF AccReply, At, WorkerOrderly, Greeting
    <3> QED
      BY <1>2, <3>1
  <2>2. c \in Fds /\ alive[c]
    BY <1>2, <1>7, <2>1 DEF AccReply, At, NewSock
  <2>3. /\ sock' = [sock EXCEPT ![c] = "idle"] /\ Goto(w, "done")
        /\ UNCHANGED <<mainvars, pending, wd, alive, acceptor_open, backlog>>
    BY <1>7, <2>1, <2>2 DEF AccReply, WriteMsg, mainvars, mainlocals
  <2>4. /\ thr'[w].pc = "done" /\ thr'[w].conn = Acceptor /\ thr'[w].newconn = c
        /\ \A v \in Workers \ {w} : thr'[v] = thr[v]
    BY <1>1, <1>2, <2>1, <2>3 DEF Goto, ThreadType
  <2>5. sock'[c] \in NewSock(w)'
    BY <2>2, <2>3, <2>4 DEF NewSock, At, AtRest
  <2>6. Given(w)' = Acceptor /\ NewConn(w)' = c /\ Busy(w)' /\ WorkerOrderly(w)' /\ WorkerSock(w)'
    BY <1>1, <2>3, <2>4, <2>5, AcceptingThere
  <2>7. WorkerFrame(w)
    <3>1. \A f \in Fds : sock'[f] # sock[f] => f = c
      BY <2>3
    <3>2. \A f \in Fds : sock'[f] # "closed" => alive'[f]
      BY <2>2, <2>3
    <3> QED
      BY <1>2, <2>1, <2>3, <2>4, <3>1, <3>2 DEF WorkerFrame
  <2>8. StillHands(w)
    BY <1>2, <1>7, <2>1, <2>4, <2>6 DEF StillHands, Greeting, AccReply, At
  <2> QED
    BY <2>6, <2>7, <2>8 DEF WorkerStill
<1> QED
  BY <1>3, <1>4, <1>5, <1>6, <1>7 DEF AcceptSteps

\* A worker that greets a connection which is then registered holds it alone.
LEMMA GreetedAlone ==
  ASSUME DispatchTypeOK, NewcomersApart, OnlyPresent,
         NEW w \in Workers, Greeting(w), NEW v \in Workers, HeldBy(v, thr[w].newconn)
  PROVE  v = w
<1>1. thr[w].newconn \in Fds \ clients
  BY DEF NewcomersApart
<1>2. thr[w].newconn \notin Present \union {NoFd}
  BY <1>1, NoFdApart DEF Present
<1>3. NewConn(v) = thr[w].newconn /\ Greeting(v)
  BY <1>1, <1>2, NoFdApart DEF OnlyPresent, HeldBy
<1>4. thr[v].newconn = thr[w].newconn
  BY <1>1, <1>3, NoFdApart DEF NewConn, Greeting, InLoop, LoopPcs
<1> QED
  BY <1>3, <1>4 DEF NewcomersApart

\* A new client is registered by the worker that holds it.
LEMMA RegisterPlaces ==
  ASSUME HandOverInv, Running, NEW w \in Workers, AccAdd(w), Cardinality(clients) < MaxConns
  PROVE  /\ OnlyPresent' /\ OneHand' /\ [ConnectionPlaces!Next]_place
         /\ WorkerFrame(w) /\ WorkerOrderly(w)' /\ WorkerSock(w)' /\ (Busy(w)' <=> Busy(w))
<1> USE DEF HandOverInv, DispatchInv
<1>0. OrderlyAt(w)
  BY OrderlyHere
<1>1. PICK d \in Fds \ clients : d = thr[w].newconn
  BY DEF AccAdd, At, NewcomersApart, Greeting
<1>2. /\ UNCHANGED <<mainvars, pending, wd, acceptor_open, backlog, sock, alive>>
      /\ clients' = clients \union {d} /\ Goto(w, "acc_reply")
      /\ thr[w].pc = "acc_add" /\ thr[w] \in ThreadType
  BY <1>1 DEF AccAdd, At, DispatchTypeOK
<1>3. /\ thr'[w].pc = "acc_reply" /\ thr'[w].conn = thr[w].conn /\ thr'[w].newconn = d
      /\ \A v \in Workers \ {w} : thr'[v] = thr[v]
  BY <1>1, <1>2 DEF Goto, ThreadType, DispatchTypeOK
<1>4. thr[w].pc \in AcceptPcs /\ Greeting(w) /\ ~Greeting(w)'
  BY <1>2, <1>3 DEF AcceptPcs, Greeting
<1>5. /\ thr[w].conn = Acceptor /\ Given(w) = Acceptor /\ NewConn(w) = d /\ Busy(w)
      /\ sock[d] \in NewSock(w)
  BY <1>0, <1>1, <1>4, AcceptingHere
<1>6. sock'[d] \in NewSock(w)'
  BY <1>2, <1>3, <1>5 DEF NewSock, At
<1>7. Given(w)' = Acceptor /\ NewConn(w)' = d /\ Busy(w)' /\ WorkerOrderly(w)' /\ WorkerSock(w)'
  BY <1>0, <1>1, <1>2, <1>3, <1>4, <1>5, <1>6, AcceptingThere, NoFdApart DEF AcceptPcs
<1>8. ASSUME NEW v \in Workers \ {w}
      PROVE  Given(v)' = Given(v) /\ NewConn(v)' = NewConn(v) /\ (Greeting(v)' <=> Greeting(v))
  BY <1>2, <1>3 DEF Given, NewConn, Greeting, Busy, InLoop
<1>9. \A v \in Workers : \A c : HeldBy(v, c)' <=> HeldBy(v, c)
  BY <1>5, <1>7, <1>8 DEF HeldBy
<1>10. HeldBy(w, d) /\ \A v \in Workers : HeldBy(v, d) => v = w
  BY <1>1, <1>4, <1>5, GreetedAlone DEF HeldBy
<1>11. d \notin Present /\ Present' = Present \union {d} /\ d # NoFd /\ d # Acceptor
  BY <1>1, <1>2, NoFdApart DEF Present
<1>12. \A c : (IsPolled(c)' <=> IsPolled(c)) /\ (Assigning(c)' <=> Assigning(c))
  BY <1>2 DEF IsPolled, PollsOf, Assigning, mainvars
<1>13. ~IsPolled(d) /\ ~Assigning(d)
  BY <1>1, <1>11 DEF IsPolled, PollsOf, Assigning, OnlyPresent, OnlyClientsPolled, PolledFds
<1>14. UNCHANGED <<poll_array, acc_polled, mpc, mfd, acceptor_open>>
  BY <1>2 DEF mainvars
<1>15. OneHand'
  BY <1>9, <1>10, <1>11, <1>12, <1>13, <1>14 DEF OneHand
<1>16. OnlyPresent'
  <2>1. OnlyClientsPolled' /\ (acc_polled' => acceptor_open') /\ (mpc' = "assign" => mfd' \in Present')
    BY <1>2, <1>11, <1>14 DEF OnlyPresent, OnlyClientsPolled, PolledFds
  <2>2. \A v \in Workers \ {w} : /\ Given(v)' \in Present' \union {NoFd}
                                 /\ ~Greeting(v)' => NewConn(v)' \in clients' \union {NoFd}
    BY <1>2, <1>8, <1>11 DEF OnlyPresent
  <2>3. Given(w)' \in Present' /\ NewConn(w)' \in clients'
    BY <1>2, <1>5, <1>7, <1>11, NoFdApart DEF OnlyPresent
  <2> QED
    BY <2>1, <2>2, <2>3 DEF OnlyPresent
<1>17. ConnectionPlaces!Next
  <2>1. HoldersOf(d)' = {w}
    BY <1>9, <1>10 DEF HoldersOf
  <2>2. PlaceOf(d) = NoFd /\ PlaceOf(d)' = w
    BY <1>1, <1>2, <2>1 DEF PlaceOf
  <2>3. ConnectionPlaces!Register(d, w)
    BY <1>1, <1>2, <1>9, <2>2, PlaceMoves DEF ConnectionPlaces!Register
  <2> QED
    BY <1>1, <2>3 DEF ConnectionPlaces!Next
<1>18. WorkerFrame(w)
  BY <1>0, <1>2, <1>3 DEF WorkerFrame, OrderlyAt
<1> QED
  BY <1>5, <1>7, <1>15, <1>16, <1>17, <1>18

\* A client that leaves is removed by the worker that holds it.
LEMMA RemovePlaces ==
  ASSUME HandOverInv, Running, NEW w \in Workers, CConnRemove(w)
  PROVE  /\ OnlyPresent' /\ OneHand' /\ [ConnectionPlaces!Next]_place
         /\ WorkerFrame(w) /\ WorkerOrderly(w)' /\ WorkerSock(w)' /\ (Busy(w)' <=> Busy(w))
<1> USE DEF HandOverInv, DispatchInv
<1>0. OrderlyAt(w) /\ thr[w].pc \in ServePcs
  BY OrderlyHere DEF CConnRemove, At, ServePcs
<1>1. PICK d \in clients : d = thr[w].conn
  BY <1>0, ServingHere
<1>2. /\ d \in Fds /\ Given(w) = d /\ NewConn(w) = NoFd /\ ~Greeting(w) /\ Busy(w)
      /\ wd[w].do_work = "DO"
  BY <1>0, <1>1, ServingHere
<1>3. /\ UNCHANGED <<mainvars, pending, wd, acceptor_open, backlog>>
      /\ clients' = clients \ {d}
      /\ sock' = [sock EXCEPT ![d] = "closed"] /\ alive' = [alive EXCEPT ![d] = FALSE]
      /\ thr' = [thr EXCEPT ![w] = Thread("done", NoFd, NoFd, FALSE)]
  BY <1>1 DEF CConnRemove, Unregister, CloseFd, ConnClosed, Become
<1>4. /\ thr'[w].pc = "done" /\ thr'[w].conn = NoFd /\ thr'[w].newconn = NoFd
      /\ \A v \in Workers \ {w} : thr'[v] = thr[v]
  BY <1>3 DEF Thread, DispatchTypeOK
<1>5. ~InLoop(w)' /\ ~Greeting(w)'
  BY <1>4 DEF InLoop, LoopPcs, Greeting
<1>6. Given(w)' = NoFd /\ NewConn(w)' = NoFd /\ Busy(w)'
  BY <1>2, <1>3, <1>4, <1>5, NoFdApart DEF Given, NewConn, Busy
<1>7. WorkerOrderly(w)'
  BY <1>2, <1>3, <1>4, <1>5 DEF WorkerOrderly, At, AcceptPcs, ServePcs
<1>8. WorkerSock(w)'
  BY <1>6, NoFdApart DEF WorkerSock
<1>9. ASSUME NEW v \in Workers \ {w}
      PROVE  Given(v)' = Given(v) /\ NewConn(v)' = NewConn(v) /\ (Greeting(v)' <=> Greeting(v))
  BY <1>3, <1>4 DEF Given, NewConn, Greeting, Busy, InLoop
<1>10. d \in Present /\ Present' = Present \ {d} /\ d # NoFd /\ d # Acceptor
  BY <1>1, <1>2, <1>3, NoFdApart DEF Present
<1>11. /\ HeldBy(w, d) /\ ~IsPolled(d) /\ ~Assigning(d)
       /\ \A v \in Workers : HeldBy(v, d) => v = w
  BY <1>2, <1>10, HeldApart DEF HeldBy
<1>12. \A v \in Workers, c \in Present \ {d} : HeldBy(v, c)' <=> HeldBy(v, c)
  <2>1. NoFd \notin Present
    BY NoFdApart DEF Present, DispatchTypeOK
  <2> QED
    BY <1>2, <1>6, <1>9, <2>1 DEF HeldBy
<1>13. \A c : (IsPolled(c)' <=> IsPolled(c)) /\ (Assigning(c)' <=> Assigning(c))
  BY <1>3 DEF IsPolled, PollsOf, Assigning, mainvars
<1>14. UNCHANGED <<poll_array, acc_polled, mpc, mfd, acceptor_open>>
  BY <1>3 DEF mainvars
<1>15. OneHand'
  BY <1>10, <1>12, <1>13, <1>14 DEF OneHand
<1>16. OnlyPresent'
  <2>1. d \notin PolledFds
    BY <1>11 DEF IsPolled, PollsOf, PolledFds
  <2>2. OnlyClientsPolled' /\ (acc_polled' => acceptor_open') /\ (mpc' = "assign" => mfd' \in Present')
    BY <1>3, <1>10, <1>11, <1>14, <2>1 DEF OnlyPresent, OnlyClientsPolled, PolledFds, Assigning
  <2>3. \A v \in Workers \ {w} : /\ Given(v)' \in Present' \union {NoFd}
                                 /\ ~Greeting(v)' => NewConn(v)' \in clients' \union {NoFd}
    BY <1>3, <1>9, <1>10, <1>11 DEF OnlyPresent, HeldBy
  <2> QED
    BY <1>6, <2>2, <2>3 DEF OnlyPresent
<1>17. ConnectionPlaces!Next
  <2>1. HoldersOf(d) = {w}
    BY <1>11 DEF HoldersOf
  <2>2. PlaceOf(d) = w /\ PlaceOf(d)' = NoFd
    BY <1>1, <1>3, <2>1 DEF PlaceOf
  <2>3. \A v \in Workers, c \in clients \ {d} : HeldBy(v, c)' <=> HeldBy(v, c)
    BY <1>12 DEF Present
  <2>4. ConnectionPlaces!Close(d, w)
    BY <1>2, <1>3, <2>2, <2>3, PlaceMoves DEF ConnectionPlaces!Close
  <2> QED
    BY <1>2, <2>4 DEF ConnectionPlaces!Next
<1>18. WorkerFrame(w)
  <2>1. \A f \in Fds : sock'[f] # sock[f] => f = d
    BY <1>3 DEF DispatchTypeOK
  <2>2. \A f \in Fds : sock'[f] # "closed" => alive'[f]
    BY <1>0, <1>3 DEF DispatchTypeOK, OrderlyAt
  <2> QED
    BY <1>2, <1>3, <1>4, <2>1, <2>2 DEF WorkerFrame
<1> QED
  BY <1>2, <1>6, <1>7, <1>8, <1>15, <1>16, <1>17, <1>18

\* The socket of a present connection that worker w does not hold is left alone.
LEMMA SockLeft ==
  ASSUME HandOverInv, Running, NEW w \in Workers, WorkerFrame(w),
         NEW f \in clients, ~HeldBy(w, f)
  PROVE  sock'[f] = sock[f]
  BY DEF HandOverInv, DispatchInv, RegisteredStayOpen, DispatchTypeOK, WorkerFrame, HeldBy

\* The other workers know as much as they did.
LEMMA OthersKept ==
  ASSUME HandOverInv, Running, NEW w \in Workers, WorkerFrame(w), NEW v \in Workers \ {w}
  PROVE  /\ WorkerOrderly(v)' /\ WorkerSock(v)'
         /\ (Busy(v)' <=> Busy(v)) /\ (CanAssign(v)' <=> CanAssign(v))
<1> USE DEF HandOverInv, DispatchInv
<1>1. thr'[v] = thr[v] /\ wd'[v] = wd[v]
  BY DEF WorkerFrame
<1>2. Given(v)' = Given(v) /\ NewConn(v)' = NewConn(v)
  BY <1>1 DEF Given, NewConn, Busy, InLoop
<1>3. \A f \in clients : HeldBy(v, f) => ~HeldBy(w, f)
  BY DEF OneHand, Present
<1>4. Given(v) \in Fds => sock'[Given(v)] = sock[Given(v)]
  BY <1>3, SockLeft, NoFdApart DEF OnlyPresent, Present, HeldBy
<1>5. NewConn(v) \in Fds => sock'[NewConn(v)] = sock[NewConn(v)]
  <2>1. CASE ~Greeting(v)
    BY <1>3, <2>1, SockLeft, NoFdApart DEF OnlyPresent, HeldBy
  <2>2. CASE Greeting(v) /\ NewConn(v) \in Fds
    <3>1. PICK f \in Fds \ clients : f = thr[v].newconn /\ f = NewConn(v) /\ sock[f] # "closed"
      BY <2>2, NoFdApart DEF NewcomersApart, NewConn, Greeting, InLoop, LoopPcs
    <3>2. ~HeldBy(w, f)
      BY <2>2, <3>1, GreetedAlone
    <3> QED
      BY <3>1, <3>2 DEF WorkerFrame, HeldBy
  <2> QED
    BY <2>1, <2>2
<1>6. WorkerOrderly(v) /\ WorkerSock(v)
  BY DEF WorkersOrderly, SocketsOrderly
<1>7. WorkerOrderly(v)'
  BY <1>1, <1>6, OrderlyKept
<1>8. WorkerSock(v)'
  BY <1>1, <1>2, <1>4, <1>5, <1>6, SockKept
<1> QED
  BY <1>1, <1>7, <1>8 DEF Busy, CanAssign

\* So the rest of the invariant follows from what the worker itself keeps.
LEMMA WorkerRest ==
  ASSUME HandOverInv, Running, NEW w \in Workers, WorkerFrame(w),
         WorkerOrderly(w)', WorkerSock(w)', Busy(w)' <=> Busy(w)
  PROVE  /\ ServerKeepsRunning' /\ WorkersCounted' /\ WorkersOrderly' /\ SocketsOrderly'
         /\ SignalsOrderly' /\ AssignFindsIdle'
<1> USE DEF HandOverInv, DispatchInv
<1>1. UNCHANGED <<mpc, mi, mfd, poll_array, acc_polled, working_threads, acceptor_open>>
  BY DEF WorkerFrame, mainvars
<1>2. \A v \in Workers : WorkerOrderly(v)' /\ WorkerSock(v)' /\ (Busy(v)' <=> Busy(v))
  BY OthersKept
<1>3. \A v \in Workers : CanAssign(v) => CanAssign(v)'
  BY <1>2 DEF CanAssign, Busy
<1>4. WorkersOrderly' /\ WorkersCounted' /\ ServerKeepsRunning'
  BY <1>1, <1>2 DEF WorkersOrderly, WorkersCounted, ServerKeepsRunning
<1>5. AssignFindsIdle'
  <2>1. mi .. NumWorkers \subseteq Workers
    BY DispatchAssumption DEF DispatchAssumption, DispatchTypeOK, Workers
  <2> QED
    BY <1>1, <1>3, <2>1 DEF AssignFindsIdle
<1>6. SignalsOrderly'
  <2>1. pending' \intersect {"SIGHUP", "SIGINT"} = pending \intersect {"SIGHUP", "SIGINT"}
    BY DEF WorkerFrame
  <2>2. Signalled' <=> Signalled
    BY <1>1, <2>1 DEF Signalled
  <2>3. Signalled => backlog' = 0
    BY DEF WorkerFrame, SignalsOrderly
  <2>4. ~({"SIGHUP", "SIGINT"} \subseteq pending')
    BY <2>1 DEF SignalsOrderly
  <2> QED
    BY <1>1, <2>1, <2>2, <2>3, <2>4 DEF SignalsOrderly
<1>7. SocketsOrderly'
  <2>1. ASSUME NEW i \in Entries, poll_array[i] # NoFd
        PROVE  sock'[poll_array[i]] \in AtRest
    <3>1. PICK f \in clients : f = poll_array[i]
      BY <2>1 DEF OnlyPresent, OnlyClientsPolled, PolledFds
    <3>2. ~HeldBy(w, f)
      BY <3>1 DEF OneHand, Present, IsPolled, PollsOf
    <3> QED
      BY <2>1, <3>1, <3>2, SockLeft DEF SocketsOrderly
  <2>2. ASSUME mpc = "assign", mfd # Acceptor
        PROVE  sock'[mfd] \in Asking
    <3>1. PICK f \in clients : f = mfd
      BY <2>2 DEF OnlyPresent, Present
    <3>2. ~HeldBy(w, f)
      BY <2>2, <3>1 DEF OneHand, Present, Assigning
    <3> QED
      BY <2>2, <3>1, <3>2, SockLeft DEF SocketsOrderly
  <2> QED
    BY <1>1, <1>2, <2>1, <2>2 DEF SocketsOrderly, WorkerFrame
<1> QED
  BY <1>4, <1>5, <1>6, <1>7

\* A step of a worker.
LEMMA WorkerHandOver ==
  ASSUME Orderly, HandOverInv, DispatchInv', Running, NEW w \in Workers, WorkerStep(w)
  PROVE  HandOverInv' /\ [ConnectionPlaces!Next]_place
<1>1. CASE WorkerStill(w)
  <2>1. Still
    <3>1. \A v \in Workers \ {w} : StillHands(v)
      BY <1>1 DEF WorkerStill, WorkerFrame, StillHands, Given, NewConn, Greeting, Busy, InLoop
    <3> QED
      BY <1>1, <3>1 DEF WorkerStill, WorkerFrame, Still, mainvars
  <2>2. OnlyPresent' /\ OneHand' /\ UNCHANGED place
    BY <2>1, StillInPlace DEF HandOverInv, DispatchInv
  <2>3. /\ WorkerFrame(w) /\ WorkerOrderly(w)' /\ WorkerSock(w)' /\ (Busy(w)' <=> Busy(w))
    BY <1>1 DEF WorkerStill, StillHands
  <2> QED
    BY <2>2, <2>3, WorkerRest DEF HandOverInv
<1>2. CASE AccAdd(w) /\ Cardinality(clients) < MaxConns
  BY <1>2, RegisterPlaces, WorkerRest DEF HandOverInv
<1>3. CASE CConnRemove(w)
  BY <1>3, RemovePlaces, WorkerRest DEF HandOverInv
<1>4. CASE LoopSteps(w)
  BY <1>1, <1>4, OrderlyHere, LoopStill
<1>5. CASE ServeSteps(w) /\ ~CConnRemove(w)
  BY <1>1, <1>5, OrderlyHere, ServeStill
<1>6. CASE AcceptSteps(w) /\ ~(AccAdd(w) /\ Cardinality(clients) < MaxConns)
  <2>1. clients' = clients
    BY <1>6 DEF AcceptSteps, AccTest, AccLock, AccAccept, AccHello, AccAdd, AccReply, outside
  <2> QED
    BY <1>1, <1>6, <2>1, OrderlyHere, AcceptStill
<1> QED
  BY <1>2, <1>3, <1>4, <1>5, <1>6 DEF WorkerStep, AcceptSteps, ServeSteps

----------------------------------------------------------------------------
(* Steps of the clients.                                                   *)

\* A client writes when it is its turn, and nobody connects after a signal.
LEMMA ClientHandOver ==
  ASSUME Orderly, HandOverInv, DispatchInv', Running, ClientStep
  PROVE  HandOverInv' /\ UNCHANGED place
<1> USE DEF HandOverInv, DispatchInv
<1>1. UNCHANGED <<mainvars, wd, thr, clients, state_mux, acceptor_open>>
  BY DEF ClientStep, Connect, Hello, Request, Bye, Die, Send, SendSignal, clientless, netvars
<1>2. UNCHANGED <<mpc, mi, mfd, poll_array, acc_polled, working_threads, sighup>>
  BY <1>1 DEF mainvars
<1>3. Still
  BY <1>1, <1>2, SameHands DEF Still, StillHands
<1>4. OnlyPresent' /\ OneHand' /\ WorkersCounted' /\ UNCHANGED place
  BY <1>3, StillInPlace, StillCounted
<1>5. ServerKeepsRunning' /\ WorkersOrderly' /\ AssignFindsIdle'
  BY <1>1, <1>2, OrderlyKept DEF ServerKeepsRunning, WorkersOrderly, AssignFindsIdle, CanAssign
<1>6. alive' = alive
  BY DEF ClientStep, Connect, Hello, Request, Bye, Die, Send, SendSignal, netvars, Orderly
<1>7. \A f \in Fds : \/ sock'[f] = sock[f]
                     \/ sock[f] = "greeting" /\ sock'[f] \in {"hello", "strange"}
                     \/ sock[f] = "idle" /\ sock'[f] \in Asking
  BY DEF ClientStep, Connect, Hello, Request, Bye, Die, Send, SendSignal, netvars, Orderly,
     DispatchTypeOK, Asking
<1>8. SocketsOrderly'
  <2>1. ASSUME NEW w \in Workers
        PROVE  WorkerSock(w)'
    <3>1. /\ GivenSock(w)' = GivenSock(w) /\ NewSock(w)' = NewSock(w)
          /\ Given(w)' = Given(w) /\ NewConn(w)' = NewConn(w)
      BY <1>1, SameHands DEF GivenSock, NewSock, At
    <3>2. WorkerSock(w)
      BY DEF SocketsOrderly
    <3>3. Given(w) \in Fds => sock'[Given(w)] \in GivenSock(w)
      BY <1>7, <3>2 DEF WorkerSock, GivenSock, AtRest, Asking
    <3>4. NewConn(w) \in Fds => sock'[NewConn(w)] \in NewSock(w)
      BY <1>7, <3>2 DEF WorkerSock, NewSock, AtRest, Asking
    <3> QED
      BY <3>1, <3>3, <3>4 DEF WorkerSock
  <2>2. \A f \in Fds : sock'[f] # "closed" => alive'[f]
    BY <1>6, <1>7 DEF SocketsOrderly
  <2>3. \A i \in Entries : poll_array[i] # NoFd => sock'[poll_array[i]] \in AtRest
    BY <1>7 DEF SocketsOrderly, DispatchTypeOK, AtRest, Asking
  <2>4. mpc = "assign" /\ mfd # Acceptor => sock'[mfd] \in Asking
    <3>1. mpc = "assign" /\ mfd # Acceptor => mfd \in Fds
      BY DEF OnlyPresent, Present, DispatchTypeOK
    <3> QED
      BY <1>7, <3>1 DEF SocketsOrderly, Asking
  <2> QED
    BY <1>2, <2>1, <2>2, <2>3, <2>4 DEF SocketsOrderly
<1>9. SignalsOrderly'
  <2>1. CASE Connect
    <3>1. ~Signalled /\ pending' = pending
      BY <2>1 DEF Connect, Orderly, clientless
    <3> QED
      BY <1>1, <1>2, <3>1 DEF SignalsOrderly, Signalled
  <2>2. CASE \E s \in {"SIGHUP", "SIGINT"} : SendSignal(s)
    <3>1. PICK s \in {"SIGHUP", "SIGINT"} : SendSignal(s)
      BY <2>2
    <3>2. ~Signalled /\ backlog = 0 /\ acc_polled /\ pending' = pending \union {s} /\ backlog' = backlog
      BY <3>1 DEF SendSignal, Orderly, netvars
    <3> QED
      BY <1>1, <1>2, <3>2 DEF SignalsOrderly, Signalled
  <2>3. CASE UNCHANGED <<pending, backlog>>
    BY <1>1, <1>2, <2>3 DEF SignalsOrderly, Signalled
  <2> QED
    BY <2>1, <2>2, <2>3 DEF ClientStep, Hello, Request, Bye, Die, Send, clientless
<1> QED
  BY <1>4, <1>5, <1>8, <1>9

----------------------------------------------------------------------------
(* The invariant and what follows from it.                                 *)

LEMMA HandOverInit == Init => HandOverInv /\ ConnectionPlaces!Init
<1> SUFFICES ASSUME Init
             PROVE  HandOverInv /\ ConnectionPlaces!Init
  OBVIOUS
<1>1. DispatchInv
  BY DispatchInitInv
<1>2. /\ \A w \in Workers : /\ thr[w].pc = "wait" /\ wd[w].do_work = "IDLE"
                            /\ thr[w] = WaitingThread
      /\ poll_array = [i \in Entries |-> NoFd] /\ clients = {} /\ pending = {}
      /\ mpc = "loop" /\ acc_polled /\ acceptor_open /\ working_threads = 0 /\ backlog = 0
      /\ sock = [c \in Fds |-> "closed"]
  BY DEF Init, WaitingThread, Thread
<1>3. \A w \in Workers : ~Busy(w) /\ Given(w) = NoFd /\ NewConn(w) = NoFd
  BY <1>2, NoFdApart DEF Busy, Given, NewConn
<1>4. Present = {Acceptor} /\ IsPolled(Acceptor) /\ ~Assigning(Acceptor)
  BY <1>2 DEF Present, IsPolled, Assigning
<1>5. OneHand
  <2>1. \A w \in Workers : ~HeldBy(w, Acceptor)
    BY <1>3, NoFdApart DEF HeldBy
  <2> QED
    BY <1>2, <1>4, <2>1 DEF OneHand
<1>6. OnlyPresent
  BY <1>2, <1>3 DEF OnlyPresent, OnlyClientsPolled, PolledFds
<1>7. WorkersCounted
  <2>1. {w \in Workers : Busy(w)} = {}
    BY <1>3
  <2> QED
    BY <1>2, <2>1, FS_EmptySet DEF WorkersCounted
<1>8. WorkersOrderly
  BY <1>2 DEF WorkersOrderly, WorkerOrderly, InLoop, LoopPcs, AcceptPcs, ServePcs, At
<1>9. SocketsOrderly
  BY <1>2, <1>3, NoFdApart DEF SocketsOrderly, WorkerSock
<1>10. SignalsOrderly /\ AssignFindsIdle /\ ServerKeepsRunning
  BY <1>2 DEF SignalsOrderly, AssignFindsIdle, ServerKeepsRunning, Signalled
<1>11. ConnectionPlaces!Init
  BY <1>2 DEF ConnectionPlaces!Init, place, PlaceOf
<1> QED
  BY <1>1, <1>5, <1>6, <1>7, <1>8, <1>9, <1>10, <1>11 DEF HandOverInv

\* Every step preserves it, and is a step of module Connections or none there.
LEMMA HandOverNext ==
  ASSUME Orderly, HandOverInv, [Next]_vars
  PROVE  HandOverInv' /\ [ConnectionPlaces!Next]_place
<1>1. DispatchInv'
  BY DispatchNextInv DEF HandOverInv
<1>2. CASE Running /\ MainStep
  BY <1>1, <1>2, MainPlaces, MainOrderly, MainRuns, MainSignals, MainSockets
     DEF HandOverInv, DispatchInv
<1>3. CASE Running /\ \E w \in Workers : WorkerStep(w)
  BY <1>1, <1>3, WorkerHandOver
<1>4. CASE Running /\ ClientStep
  BY <1>1, <1>4, ClientHandOver
<1>5. CASE UNCHANGED vars
  <2>1. /\ UNCHANGED <<mpc, mi, mfd, poll_array, acc_polled, working_threads, pending, wd, thr,
                       clients, sock, alive, acceptor_open, backlog>>
    BY <1>5 DEF vars, mainvars, netvars
  <2>2. Still
    BY <2>1, SameHands DEF Still, StillHands
  <2>3. OnlyPresent' /\ OneHand' /\ UNCHANGED place /\ WorkersCounted'
    BY <1>1, <2>2, StillInPlace, StillCounted DEF HandOverInv, DispatchInv
  <2>4. WorkersOrderly' /\ \A w \in Workers : WorkerSock(w) => WorkerSock(w)'
    BY <2>1, SameHands, OrderlyKept, SockKept DEF HandOverInv, WorkersOrderly
  <2>5. SocketsOrderly'
    BY <2>1, <2>4 DEF HandOverInv, SocketsOrderly, Running
  <2>6. ServerKeepsRunning' /\ SignalsOrderly' /\ AssignFindsIdle'
    BY <2>1 DEF HandOverInv, ServerKeepsRunning, SignalsOrderly, Signalled, AssignFindsIdle, CanAssign
  <2> QED
    BY <1>1, <2>3, <2>4, <2>5, <2>6 DEF HandOverInv
<1> QED
  BY <1>2, <1>3, <1>4, <1>5 DEF Next, Terminated

LEMMA HandOver ==
  ASSUME Orderly
  PROVE  Spec => []HandOverInv
<1>1. HandOverInv /\ [Next]_vars => HandOverInv'
  BY HandOverNext
<1> QED
  BY <1>1, HandOverInit, PTL DEF Spec

\* A connection that is in one hand is counted once.
LEMMA CountedOnce ==
  ASSUME DispatchTypeOK, OneHand
  PROVE  InOnePlace
<1> SUFFICES ASSUME NEW c \in Present
             PROVE  Places(c) = 1
  BY DEF InOnePlace, Present
<1>1. c # NoFd /\ (c = Acceptor => PollsOf(c) = {})
  BY NoFdApart DEF Present, DispatchTypeOK, PollsOf
<1>2. Cardinality({}) = 0
  BY FS_EmptySet
<1>3. CASE IsPolled(c)
  <2>1. HoldersOf(c) = {} /\ ~Assigning(c)
    BY <1>3 DEF OneHand, HoldersOf
  <2>2. CASE c = Acceptor
    <3>1. acc_polled
      BY <1>1, <1>3, <2>2 DEF IsPolled
    <3> QED
      BY <1>1, <1>2, <2>1, <2>2, <3>1 DEF Places
  <2>3. CASE c # Acceptor
    <3>1. PICK i \in Entries : poll_array[i] = c
      BY <1>3, <2>3 DEF IsPolled, PollsOf
    <3>2. PollsOf(c) = {i}
      BY <1>1, <3>1 DEF OneHand, PollsOf
    <3>3. Cardinality(PollsOf(c)) = 1
      BY <3>2, FS_Singleton
    <3> QED
      BY <1>2, <2>1, <2>3, <3>3 DEF Places
  <2> QED
    BY <2>2, <2>3
<1>4. CASE ~IsPolled(c)
  <2>1. Cardinality(PollsOf(c)) = 0 /\ ~(c = Acceptor /\ acc_polled)
    BY <1>2, <1>4 DEF IsPolled
  <2>2. CASE Assigning(c)
    <3>1. HoldersOf(c) = {}
      BY <2>2 DEF OneHand, HoldersOf
    <3> QED
      BY <1>2, <2>1, <2>2, <3>1 DEF Places
  <2>3. CASE ~Assigning(c)
    <3>1. PICK w \in Workers : HeldBy(w, c)
      BY <1>4, <2>3 DEF OneHand
    <3>2. HoldersOf(c) = {w}
      BY <3>1 DEF OneHand, HoldersOf
    <3>3. Cardinality(HoldersOf(c)) = 1
      BY <3>2, FS_Singleton
    <3> QED
      BY <2>1, <2>3, <3>3 DEF Places
  <2> QED
    BY <2>2, <2>3
<1> QED
  BY <1>3, <1>4

\* No step of the main loop fails and no write meets a closed connection, where
\* nothing fails outside it.
THEOREM MainNeverFails ==
  ASSUME Orderly
  PROVE  Spec => []ServerKeepsRunning
<1>1. HandOverInv => ServerKeepsRunning
  BY DEF HandOverInv
<1> QED
  BY <1>1, HandOver, PTL

\* Only connections that said MESSAGE_OPEN_CONN, and were registered, are polled.
THEOREM PolledAreClients ==
  ASSUME Orderly
  PROVE  Spec => []OnlyClientsPolled
<1>1. HandOverInv => OnlyClientsPolled
  BY DEF HandOverInv, OnlyPresent
<1> QED
  BY <1>1, HandOver, PTL

\* No client, and not the listening socket, is lost or handed to two workers.
THEOREM NeverLost ==
  ASSUME Orderly
  PROVE  Spec => []InOnePlace
<1>1. HandOverInv => InOnePlace
  BY CountedOnce DEF HandOverInv, DispatchInv
<1> QED
  BY <1>1, HandOver, PTL

\* working_threads is the number of workers with work, or with a report.
THEOREM BusyCounted ==
  ASSUME Orderly
  PROVE  Spec => []WorkersCounted
<1>1. HandOverInv => WorkersCounted
  BY DEF HandOverInv
<1> QED
  BY <1>1, HandOver, PTL

\* The main loop and the workers implement module Connections, on which module
\* Storage rests: a client is served by one worker at a time.
THEOREM OneWorkerServes ==
  ASSUME Orderly
  PROVE  Spec => ServedByOneWorker
<1>1. HandOverInv /\ [Next]_vars => [ConnectionPlaces!Next]_place
  BY HandOverNext
<1> QED
  BY <1>1, HandOverInit, HandOver, PTL DEF Spec, ServedByOneWorker, ConnectionPlaces!Spec
=============================================================================
