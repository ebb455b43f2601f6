--------------------------- MODULE CommandsProofs ---------------------------
(***************************************************************************)
(* For any paths, directories and command lines of any length: the calls   *)
(* the client program puts in are where they have to be.  The two passes   *)
(* keep Planned, which is about the list of requests alone; the sending    *)
(* loop keeps SessionInv, which says what the requests sent so far and the *)
(* ones that are left make of each file.                                   *)
(***************************************************************************)
EXTENDS CommandsProps, FiniteSetTheorems, SequenceTheorems, TLAPS

----------------------------------------------------------------------------
(* Requests and lists of them.                                             *)

\* The options that make a request, and its type.
LEMMA RequestsOfOptions ==
  /\ DOMAIN RequestOf = {"w", "W", "a", "r", "R", "l", "u", "c"}
  /\ RequestOf["w"] = "WRITE_DIR" /\ RequestOf["W"] = "WRITE" /\ RequestOf["a"] = "APPEND"
  /\ RequestOf["r"] = "READ" /\ RequestOf["R"] = "READN"
  /\ UserTypes =
       {"WRITE_DIR", "WRITE", "APPEND", "READ", "READN", "LOCK", "UNLOCK", "REMOVE"}
<1>1. DOMAIN RequestOf = {"w", "W", "a", "r", "R", "l", "u", "c"}
  BY DEF RequestOf
<1>2. /\ RequestOf["w"] = "WRITE_DIR" /\ RequestOf["W"] = "WRITE" /\ RequestOf["a"] = "APPEND"
      /\ RequestOf["r"] = "READ" /\ RequestOf["R"] = "READN" /\ RequestOf["l"] = "LOCK"
      /\ RequestOf["u"] = "UNLOCK" /\ RequestOf["c"] = "REMOVE"
  BY DEF RequestOf
<1>3. UserTypes = {RequestOf[o] : o \in {"w", "W", "a", "r", "R", "l", "u", "c"}}
  BY <1>1 DEF UserTypes
<1> QED
  BY <1>1, <1>2, <1>3

\* A request of one path.
LEMMA ForTyped ==
  ASSUME NEW type \in RequestTypes, NEW p \in Paths
  PROVE  /\ For(type, p) \in RequestType
         /\ For(type, p).type = type /\ For(type, p).paths = <<p>> /\ For(type, p).dir = "none"
         /\ PathOf(For(type, p)) = p
<1>1. <<p>> \in Seq(Paths) /\ <<p>> # <<>> /\ <<p>>[1] = p
  OBVIOUS
<1> QED
  BY <1>1 DEF For, Request, RequestType, PathOf

\* The path of a single request; readNFiles has none.
LEMMA PathsOfRequests ==
  ASSUME NEW r \in RequestType, Single(r)
  PROVE  /\ r.type # "READN" => PathOf(r) \in Paths
         /\ r.type = "READN" => PathOf(r) = NoPath
         /\ NoPath \notin Paths
<1>1. r.paths \in Seq(Paths)
  BY DEF RequestType
<1>2. CASE r.type = "READN"
  <2>1. r.paths = <<>>
    BY <1>1, <1>2, EmptySeq DEF Single
  <2> QED
    BY <1>2, <2>1, CommandsAssumption DEF PathOf, CommandsAssumption
<1>3. CASE r.type # "READN"
  <2>1. Len(r.paths) = 1
    BY <1>3 DEF Single
  <2>2. r.paths # <<>> /\ r.paths[1] \in Paths
    BY <1>1, <2>1, ElementOfSeq, EmptySeq
  <2> QED
    BY <1>3, <2>2, CommandsAssumption DEF PathOf, CommandsAssumption
<1> QED
  BY <1>2, <1>3

\* What is in two lists put together.
LEMMA Joined ==
  ASSUME NEW s \in Seq(RequestType), NEW e \in Seq(RequestType)
  PROVE  /\ s \o e \in Seq(RequestType)
         /\ Len(s \o e) = Len(s) + Len(e)
         /\ DOMAIN (s \o e) = 1 .. Len(s) + Len(e)
         /\ DOMAIN s = 1 .. Len(s) /\ DOMAIN e = 1 .. Len(e)
         /\ Len(s) \in Nat /\ Len(e) \in Nat
         /\ \A i \in 1 .. Len(s) : (s \o e)[i] = s[i] /\ s[i] \in RequestType
         /\ \A i \in Len(s) + 1 .. Len(s) + Len(e) :
               /\ i - Len(s) \in 1 .. Len(e)
               /\ (s \o e)[i] = e[i - Len(s)] /\ e[i - Len(s)] \in RequestType
         /\ \A k \in 1 .. Len(e) : Len(s) + k \in DOMAIN (s \o e) /\ (s \o e)[Len(s) + k] = e[k]
<1>1. /\ s \o e \in Seq(RequestType) /\ Len(s \o e) = Len(s) + Len(e)
      /\ \A i \in 1 .. Len(s) + Len(e) :
            (s \o e)[i] = IF i <= Len(s) THEN s[i] ELSE e[i - Len(s)]
  BY ConcatProperties
<1>2. /\ Len(s) \in Nat /\ Len(e) \in Nat
      /\ DOMAIN s = 1 .. Len(s) /\ DOMAIN e = 1 .. Len(e)
      /\ DOMAIN (s \o e) = 1 .. Len(s) + Len(e)
  BY <1>1, LenProperties
<1>3. /\ \A i \in 1 .. Len(s) : s[i] \in RequestType
      /\ \A i \in 1 .. Len(e) : e[i] \in RequestType
  BY ElementOfSeq
<1>4. \A i \in 1 .. Len(s) : (s \o e)[i] = s[i]
  BY <1>1, <1>2
<1>5. \A i \in Len(s) + 1 .. Len(s) + Len(e) :
          i - Len(s) \in 1 .. Len(e) /\ (s \o e)[i] = e[i - Len(s)]
  BY <1>1, <1>2
<1>6. \A k \in 1 .. Len(e) : Len(s) + k \in DOMAIN (s \o e) /\ (s \o e)[Len(s) + k] = e[k]
  BY <1>1, <1>2
<1> QED
  BY <1>1, <1>2, <1>3, <1>4, <1>5, <1>6

\* One request for each path of the list.
LEMMA SplitTyped ==
  ASSUME NEW r \in RequestType
  PROVE  /\ Split(r) \in Seq(RequestType)
         /\ \A i \in DOMAIN Split(r) :
               /\ Split(r)[i].type = r.type /\ Split(r)[i].dir = r.dir
               /\ Len(Split(r)[i].paths) = 1
<1>1. /\ r.paths \in Seq(Paths) /\ Len(r.paths) \in Nat /\ DOMAIN r.paths = 1 .. Len(r.paths)
      /\ r.type \in RequestTypes /\ r.n \in Int /\ r.dir \in {"none", "D", "d"}
      /\ r = [type |-> r.type, paths |-> r.paths, n |-> r.n, dir |-> r.dir]
  BY LenProperties DEF RequestType
<1>2. \A i \in DOMAIN r.paths : r.paths[i] \in Paths
  BY <1>1, ElementOfSeq
<1> DEFINE one(i) == [r EXCEPT !.paths = <<r.paths[i]>>]
<1>3. ASSUME NEW i \in 1 .. Len(r.paths)
      PROVE  /\ one(i) \in RequestType /\ one(i).type = r.type /\ one(i).dir = r.dir
             /\ Len(one(i).paths) = 1
  <2>1. <<r.paths[i]>> \in Seq(Paths) /\ Len(<<r.paths[i]>>) = 1
    BY <1>1, <1>2
  <2>2. one(i) = [type |-> r.type, paths |-> <<r.paths[i]>>, n |-> r.n, dir |-> r.dir]
    BY <1>1
  <2> QED
    BY <1>1, <2>1, <2>2 DEF RequestType
<1>4. Split(r) = [i \in 1 .. Len(r.paths) |-> one(i)]
  BY <1>1 DEF Split
<1>5. Split(r) \in [1 .. Len(r.paths) -> RequestType]
  BY <1>3, <1>4
<1>6. Split(r) \in Seq(RequestType) /\ DOMAIN Split(r) = 1 .. Len(r.paths)
  BY <1>1, <1>5, SeqDef
<1> QED
  BY <1>3, <1>4, <1>6

\* A directory listing is a list of paths.
LEMMA ListingsTyped ==
  ASSUME NEW max \in Int, NEW s \in Listings(max)
  PROVE  s \in Seq(Paths)
<1>1. PICK D \in SUBSET DirFiles : s \in SetToSeqs(D)
  BY DEF Listings
<1>2. D \subseteq Paths /\ Cardinality(D) \in Nat
  <2>1. IsFiniteSet(D)
    BY CommandsAssumption, FS_Subset DEF CommandsAssumption
  <2> QED
    BY <2>1, CommandsAssumption, FS_CardinalityType DEF CommandsAssumption
<1>3. s \in [1 .. Cardinality(D) -> Paths]
  BY <1>1, <1>2 DEF SetToSeqs
<1> QED
  BY <1>2, <1>3, SeqDef

\* What expand_requests makes of one request.
LEMMA ExpansionsSplit ==
  ASSUME NEW r \in RequestType, Unsplit(r), DirectoryOf(r), NEW s \in Expansions(r)
  PROVE  /\ s \in Seq(RequestType)
         /\ \A i \in DOMAIN s : Single(s[i]) /\ s[i].type \in UserTypes /\ DirectoryOf(s[i])
<1>1. CASE r.type = "WRITE_DIR"
  <2>1. PICK l \in Listings(r.n) : s = Split(Request("WRITE", l, 0, r.dir))
    BY <1>1 DEF Expansions
  <2> DEFINE q == Request("WRITE", l, 0, r.dir)
  <2>2. /\ q \in RequestType /\ q.type = "WRITE" /\ q.dir = r.dir
    <3>1. l \in Seq(Paths)
      BY ListingsTyped DEF RequestType
    <3>2. "WRITE" \in RequestTypes
      BY RequestsOfOptions DEF RequestTypes
    <3> QED
      BY <3>1, <3>2 DEF Request, RequestType
  <2> HIDE DEF q
  <2>3. /\ s \in Seq(RequestType)
        /\ \A i \in DOMAIN s : s[i].type = "WRITE" /\ s[i].dir = r.dir /\ Len(s[i].paths) = 1
    BY <2>1, <2>2, SplitTyped DEF q
  <2>4. r.dir # "d"
    BY <1>1 DEF DirectoryOf
  <2> QED
    BY <2>3, <2>4, RequestsOfOptions DEF Single, DirectoryOf
<1>2. CASE r.type = "READN"
  <2>1. s = <<r>>
    BY <1>2 DEF Expansions
  <2>2. Len(r.paths) = 0
    BY <1>2, EmptySeq DEF Unsplit
  <2>3. s \in Seq(RequestType) /\ DOMAIN s = {1} /\ s[1] = r
    BY <2>1
  <2> QED
    BY <1>2, <2>2, <2>3 DEF Single, Unsplit
<1>3. CASE r.type \notin {"WRITE_DIR", "READN"}
  <2>1. s = Split(r)
    BY <1>3 DEF Expansions
  <2>2. /\ s \in Seq(RequestType)
        /\ \A i \in DOMAIN s : s[i].type = r.type /\ s[i].dir = r.dir /\ Len(s[i].paths) = 1
    BY <2>1, SplitTyped
  <2> QED
    BY <1>3, <2>2 DEF Single, DirectoryOf, Unsplit
<1> QED
  BY <1>1, <1>2, <1>3

\* Opened looks back over what OpenedBefore looks back over.
LEMMA OpenedIsBefore ==
  ASSUME NEW s \in Seq(RequestType), NEW p
  PROVE  Opened(s, p) <=> OpenedBefore(s, Len(s) + 1, p)
<1>1. Len(s) \in Nat /\ DOMAIN s = 1 .. Len(s) /\ Len(s) + 1 - 1 = Len(s)
  BY LenProperties
<1> QED
  BY <1>1 DEF Opened, OpenedBefore

\* What add_open_create_requests puts around a request.
LEMMA AroundTyped ==
  ASSUME NEW r \in RequestType, Single(r), r.type \in UserTypes,
         NEW s, NEW s2
  PROVE  /\ Opening(s, r) \in Seq(RequestType) /\ Closing(s2, r) \in Seq(RequestType)
         /\ r.type = "READN" => Opening(s, r) = <<>> /\ Closing(s2, r) = <<>>
         /\ \/ Opening(s, r) = <<>>
            \/ \E t \in Openings : Opening(s, r) = <<For(t, PathOf(r))>> /\ r.type # "READN"
         /\ \/ Closing(s2, r) = <<>>
            \/ Closing(s2, r) = <<For("CLOSE", PathOf(r))>> /\ r.type # "READN"
<1>1. {"OPEN", "OPEN_LOCK", "CREATE_LOCK", "CLOSE"} \subseteq RequestTypes
  BY DEF RequestTypes, Openings
<1>2. ASSUME r.type # "READN", NEW t \in {"OPEN", "OPEN_LOCK", "CREATE_LOCK", "CLOSE"}
      PROVE  For(t, PathOf(r)) \in RequestType
  BY <1>1, <1>2, PathsOfRequests, ForTyped
<1>3. \/ Opening(s, r) = <<>>
      \/ \E t \in Openings : Opening(s, r) = <<For(t, PathOf(r))>> /\ r.type # "READN"
  <2>1. CASE r.type = "WRITE"
    BY <2>1 DEF Opening, Openings
  <2>2. CASE r.type = "REMOVE"
    BY <2>2 DEF Opening, Openings
  <2>3. CASE r.type \in {"READ", "LOCK", "UNLOCK", "APPEND"}
    BY <2>3 DEF Opening, Openings
  <2>4. CASE r.type \notin {"WRITE", "REMOVE", "READ", "LOCK", "UNLOCK", "APPEND"}
    BY <2>4 DEF Opening
  <2> QED
    BY <2>1, <2>2, <2>3, <2>4
<1>4. \/ Closing(s2, r) = <<>>
      \/ Closing(s2, r) = <<For("CLOSE", PathOf(r))>> /\ r.type # "READN"
  BY DEF Closing, ClosedAfter
<1> DEFINE call(t) == For(t, PathOf(r))
<1>a. ASSUME r.type # "READN", NEW t \in {"OPEN", "OPEN_LOCK", "CREATE_LOCK", "CLOSE"}
      PROVE  <<call(t)>> \in Seq(RequestType)
  <2>1. call(t) \in RequestType
    BY <1>2, <1>a
  <2> HIDE DEF call
  <2> QED
    BY <2>1
<1>b. <<>> \in Seq(RequestType)
  BY EmptySeq
<1>5. Opening(s, r) \in Seq(RequestType)
  BY <1>3, <1>a, <1>b DEF Openings
<1>6. Closing(s2, r) \in Seq(RequestType)
  BY <1>4, <1>a, <1>b
<1>7. r.type = "READN" => Opening(s, r) = <<>> /\ Closing(s2, r) = <<>>
  BY <1>3, <1>4
<1> QED
  BY <1>3, <1>4, <1>5, <1>6, <1>7

----------------------------------------------------------------------------
(* add_open_create_requests keeps Planned.                                 *)

\* One more request at the end.
LEMMA OneMore ==
  ASSUME NEW s \in Seq(RequestType), NEW x \in RequestType
  PROVE  /\ s \o <<x>> \in Seq(RequestType) /\ Len(s) \in Nat
         /\ Len(s \o <<x>>) = Len(s) + 1
         /\ DOMAIN s = 1 .. Len(s) /\ DOMAIN (s \o <<x>>) = 1 .. Len(s) + 1
         /\ \A i \in 1 .. Len(s) : (s \o <<x>>)[i] = s[i] /\ s[i] \in RequestType
         /\ (s \o <<x>>)[Len(s) + 1] = x
<1>1. <<x>> \in Seq(RequestType) /\ Len(<<x>>) = 1 /\ <<x>>[1] = x
  OBVIOUS
<1> QED
  BY <1>1, Joined

\* What is in front of a request depends on nothing else.
LEMMA OpenedSame ==
  ASSUME NEW s, NEW t, NEW p, NEW i \in Nat,
         \A j \in 1 .. i - 1 : t[j] = s[j],
         OpenedBefore(s, i, p)
  PROVE  OpenedBefore(t, i, p)
<1>1. PICK k \in 1 .. i - 1 :
         /\ Is(s[k], Openings, p)
         /\ \A j \in k + 1 .. i - 1 : ~Is(s[j], {"REMOVE"}, p)
  BY Zenon DEF OpenedBefore
<1>2. t[k] = s[k]
  BY <1>1
<1>3. Is(t[k], Openings, p)
  BY <1>1, <1>2, Zenon
<1>4. ASSUME NEW j \in k + 1 .. i - 1  PROVE ~Is(t[j], {"REMOVE"}, p)
  <2>1. j \in 1 .. i - 1
    BY <1>1
  <2>2. t[j] = s[j]
    BY <2>1, Zenon
  <2> QED
    BY <1>1, <1>4, <2>2, Zenon
<1> QED
  BY <1>1, <1>3, <1>4, Zenon DEF OpenedBefore

LEMMA OpenedKept ==
  ASSUME NEW s \in Seq(RequestType), NEW x \in RequestType,
         NEW p, NEW i \in 1 .. Len(s) + 1
  PROVE  OpenedBefore(s \o <<x>>, i, p) <=> OpenedBefore(s, i, p)
<1> DEFINE t == s \o <<x>>
<1>1. Len(s) \in Nat /\ \A j \in 1 .. Len(s) : t[j] = s[j]
  BY OneMore
<1> HIDE DEF t
<1>2. i \in Nat /\ \A j \in 1 .. i - 1 : t[j] = s[j]
  BY <1>1
<1>3. \A j \in 1 .. i - 1 : s[j] = t[j]
  BY <1>2, Zenon
<1>4. OpenedBefore(s, i, p) => OpenedBefore(t, i, p)
  BY <1>2, OpenedSame, Zenon
<1>5. OpenedBefore(t, i, p) => OpenedBefore(s, i, p)
  BY <1>2, <1>3, OpenedSame, Zenon
<1> QED
  BY <1>4, <1>5, Zenon DEF t

\* A request that closes nothing, on a path still to come.
LEMMA PlannedAppend ==
  ASSUME NEW s \in Seq(RequestType), NEW more, Planned(s, more),
         \A i \in DOMAIN s : Single(s[i]),
         NEW x \in RequestType, Single(x), x.type # "CLOSE",
         x.type # "READN" => PathOf(x) \in more,
         x.type \notin Openings \union {"READN"} => OpenedBefore(s, Len(s) + 1, PathOf(x))
  PROVE  Planned(s \o <<x>>, more)
<1> DEFINE t == s \o <<x>>
<1>1. /\ Len(s) \in Nat /\ DOMAIN s = 1 .. Len(s) /\ DOMAIN t = 1 .. Len(s) + 1
      /\ Len(t) = Len(s) + 1 /\ t[Len(s) + 1] = x
      /\ \A i \in 1 .. Len(s) : t[i] = s[i] /\ s[i] \in RequestType
  BY OneMore
<1>2. \A i \in 1 .. Len(s) + 1 : \A p : OpenedBefore(t, i, p) <=> OpenedBefore(s, i, p)
  BY OpenedKept
<1>3. ASSUME NEW i \in 1 .. Len(s), s[i].type = "CLOSE"  PROVE PathOf(s[i]) # PathOf(x)
  <2>1. PathOf(s[i]) \in Paths /\ PathOf(s[i]) \notin more
    BY <1>1, <1>3, PathsOfRequests DEF Planned
  <2>2. x.type = "READN" => PathOf(x) \notin Paths
    BY PathsOfRequests
  <2> QED
    BY <2>1, <2>2
<1>4. SUFFICES ASSUME NEW i \in DOMAIN t
      PROVE  /\ t[i].type \notin Openings \union {"READN"} => OpenedBefore(t, i, PathOf(t[i]))
             /\ t[i].type = "CLOSE" =>
                   /\ PathOf(t[i]) \notin more
                   /\ \A j \in i + 1 .. Len(t) : PathOf(t[j]) # PathOf(t[i])
             /\ t[i].type # "READN" =>
                   \/ PathOf(t[i]) \in more
                   \/ \E j \in i .. Len(t) : Is(t[j], {"CLOSE", "REMOVE"}, PathOf(t[i]))
  BY DEF Planned
<1> HIDE DEF t
<1>5. CASE i = Len(s) + 1
  BY <1>1, <1>2, <1>5
<1>6. CASE i \in 1 .. Len(s)
  <2>1. t[i] = s[i]
    BY <1>1, <1>6
  <2>2. /\ s[i].type \notin Openings \union {"READN"} => OpenedBefore(s, i, PathOf(s[i]))
        /\ s[i].type = "CLOSE" =>
              /\ PathOf(s[i]) \notin more
              /\ \A j \in i + 1 .. Len(s) : PathOf(s[j]) # PathOf(s[i])
        /\ s[i].type # "READN" =>
              \/ PathOf(s[i]) \in more
              \/ \E j \in i .. Len(s) : Is(s[j], {"CLOSE", "REMOVE"}, PathOf(s[i]))
    BY <1>1, <1>6 DEF Planned
  <2>3. \A j \in i + 1 .. Len(t) : (j \in i + 1 .. Len(s) /\ t[j] = s[j]) \/ t[j] = x
    BY <1>1, <1>6
  <2>4. \A j \in i .. Len(s) : j \in i .. Len(t) /\ t[j] = s[j]
    BY <1>1, <1>6
  <2>5. t[i].type = "CLOSE" => \A j \in i + 1 .. Len(t) : PathOf(t[j]) # PathOf(t[i])
    BY <1>3, <1>6, <2>1, <2>2, <2>3
  <2>6. t[i].type # "READN" =>
           \/ PathOf(t[i]) \in more
           \/ \E j \in i .. Len(t) : Is(t[j], {"CLOSE", "REMOVE"}, PathOf(t[i]))
    BY <2>1, <2>2, <2>4
  <2> QED
    BY <1>2, <1>6, <2>1, <2>2, <2>5, <2>6
<1> QED
  BY <1>1, <1>5, <1>6

\* After the last request on path p: it is closed at the end, or was removed.
LEMMA PlannedLast ==
  ASSUME NEW s \in Seq(RequestType), NEW left, NEW p \in Paths, p \notin left,
         Planned(s, left \union {p}),
         NEW x \in RequestType, x.type \in {"CLOSE", "REMOVE"}, PathOf(x) = p,
         NEW t \in Seq(RequestType), t # <<>>, t[Len(t)] = x,
         \/ t = s /\ x.type = "REMOVE"
         \/ t = s \o <<x>> /\ x.type = "CLOSE" /\ OpenedBefore(s, Len(s) + 1, p)
  PROVE  Planned(t, left)
<1>1. /\ Len(t) \in Nat \ {0} /\ DOMAIN t = 1 .. Len(t) /\ Is(t[Len(t)], {"CLOSE", "REMOVE"}, p)
  BY LenProperties, EmptySeq DEF Is
<1>2. SUFFICES ASSUME NEW i \in 1 .. Len(t)
      PROVE  /\ t[i].type \notin Openings \union {"READN"} => OpenedBefore(t, i, PathOf(t[i]))
             /\ t[i].type = "CLOSE" =>
                   /\ PathOf(t[i]) \notin left
                   /\ \A j \in i + 1 .. Len(t) : PathOf(t[j]) # PathOf(t[i])
             /\ t[i].type # "READN" =>
                   \/ PathOf(t[i]) \in left
                   \/ \E j \in i .. Len(t) : Is(t[j], {"CLOSE", "REMOVE"}, PathOf(t[i]))
  BY <1>1 DEF Planned
<1>3. PathOf(t[i]) = p => \E j \in i .. Len(t) : Is(t[j], {"CLOSE", "REMOVE"}, PathOf(t[i]))
  <2>1. \A n \in Nat : \A k \in 1 .. n : n \in k .. n
    OBVIOUS
  <2>2. Len(t) \in i .. Len(t)
    BY <1>1, <2>1
  <2> QED
    BY <1>1, <2>2, Zenon
<1>4. CASE t = s
  <2>1. /\ t[i].type \notin Openings \union {"READN"} => OpenedBefore(t, i, PathOf(t[i]))
        /\ t[i].type = "CLOSE" =>
              /\ PathOf(t[i]) \notin left \union {p}
              /\ \A j \in i + 1 .. Len(t) : PathOf(t[j]) # PathOf(t[i])
        /\ t[i].type # "READN" =>
              \/ PathOf(t[i]) \in left \union {p}
              \/ \E j \in i .. Len(t) : Is(t[j], {"CLOSE", "REMOVE"}, PathOf(t[i]))
    BY <1>1, <1>4 DEF Planned
  <2> QED
    BY <1>3, <2>1
<1>5. CASE t = s \o <<x>> /\ x.type = "CLOSE" /\ OpenedBefore(s, Len(s) + 1, p)
  <2>1. /\ Len(s) \in Nat /\ DOMAIN s = 1 .. Len(s) /\ Len(t) = Len(s) + 1 /\ t[Len(s) + 1] = x
        /\ \A j \in 1 .. Len(s) : t[j] = s[j]
    BY <1>5, OneMore
  <2>2. OpenedBefore(t, i, PathOf(t[i])) <=> OpenedBefore(s, i, PathOf(t[i]))
    BY <1>5, <2>1, OpenedKept
  <2>3. CASE i = Len(s) + 1
    BY <1>3, <1>5, <2>1, <2>2, <2>3
  <2>4. CASE i \in 1 .. Len(s)
    <3>1. t[i] = s[i]
      BY <2>1, <2>4
    <3>2. /\ s[i].type \notin Openings \union {"READN"} => OpenedBefore(s, i, PathOf(s[i]))
          /\ s[i].type = "CLOSE" =>
                /\ PathOf(s[i]) \notin left \union {p}
                /\ \A j \in i + 1 .. Len(s) : PathOf(s[j]) # PathOf(s[i])
          /\ s[i].type # "READN" =>
                \/ PathOf(s[i]) \in left \union {p}
                \/ \E j \in i .. Len(s) : Is(s[j], {"CLOSE", "REMOVE"}, PathOf(s[i]))
      BY <2>1, <2>4 DEF Planned
    <3>3. \A j \in i + 1 .. Len(t) : (j \in i + 1 .. Len(s) /\ t[j] = s[j]) \/ t[j] = x
      BY <2>1, <2>4
    <3>4. \A j \in i .. Len(s) : j \in i .. Len(t) /\ t[j] = s[j]
      BY <2>1, <2>4
    <3>5. t[i].type = "CLOSE" => \A j \in i + 1 .. Len(t) : PathOf(t[j]) # PathOf(t[i])
      BY <3>1, <3>2, <3>3
    <3>6. t[i].type # "READN" =>
             \/ PathOf(t[i]) \in left
             \/ \E j \in i .. Len(t) : Is(t[j], {"CLOSE", "REMOVE"}, PathOf(t[i]))
      BY <1>3, <3>1, <3>2, <3>4
    <3> QED
      BY <2>2, <3>1, <3>2, <3>5, <3>6
  <2> QED
    BY <2>1, <2>3, <2>4
<1> QED
  BY <1>4, <1>5

\* What each request of a list is like, after one more.
LEMMA SingleAround ==
  ASSUME NEW s \in Seq(RequestType), NEW x \in RequestType, Single(x), DirectoryOf(x),
         \A i \in DOMAIN s : Single(s[i]) /\ DirectoryOf(s[i])
  PROVE  \A i \in DOMAIN (s \o <<x>>) : Single((s \o <<x>>)[i]) /\ DirectoryOf((s \o <<x>>)[i])
<1>1. /\ Len(s) \in Nat /\ DOMAIN s = 1 .. Len(s) /\ DOMAIN (s \o <<x>>) = 1 .. Len(s) + 1
      /\ \A i \in 1 .. Len(s) : (s \o <<x>>)[i] = s[i]
      /\ (s \o <<x>>)[Len(s) + 1] = x
  BY OneMore
<1>2. \A i \in 1 .. Len(s) + 1 : i \in 1 .. Len(s) \/ i = Len(s) + 1
  BY <1>1
<1> QED
  BY <1>1, <1>2

\* The calls put in are on one path, and name no directory.
LEMMA ForSingle ==
  ASSUME NEW t \in Openings \union {"CLOSE"}, NEW p \in Paths
  PROVE  /\ For(t, p) \in RequestType /\ Single(For(t, p)) /\ DirectoryOf(For(t, p))
         /\ For(t, p).type = t /\ PathOf(For(t, p)) = p
<1>1. t \in RequestTypes
  BY DEF RequestTypes
<1>2. Len(<<p>>) = 1
  OBVIOUS
<1>3. t \notin {"READN", "WRITE_DIR"}
  BY DEF Openings
<1> QED
  BY <1>1, <1>2, <1>3, ForTyped DEF Single, DirectoryOf

\* One turn of the loop: the opening, the request, the closing.
LEMMA PlanGrows ==
  ASSUME NEW s \in Seq(RequestType),
         \A i \in DOMAIN s : Single(s[i]) /\ DirectoryOf(s[i]),
         NEW r \in RequestType, Single(r), DirectoryOf(r), r.type \in UserTypes,
         NEW left, Planned(s, left \union {PathOf(r)}),
         UsedLater(PathOf(r)) <=> PathOf(r) \in left,
         NEW b, b = (s \o Opening(s, r)) \o <<r>>,
         NEW t, t = b \o Closing(b, r)
  PROVE  /\ t \in Seq(RequestType)
         /\ \A i \in DOMAIN t : Single(t[i]) /\ DirectoryOf(t[i])
         /\ Planned(t, left)
<1> DEFINE p == PathOf(r)
           more == left \union {p}
           a == s \o Opening(s, r)
<1>1. r.type # "READN" => p \in Paths
  BY PathsOfRequests
<1>2. /\ a \in Seq(RequestType) /\ Planned(a, more)
      /\ \A i \in DOMAIN a : Single(a[i]) /\ DirectoryOf(a[i])
      /\ r.type # "READN" => OpenedBefore(a, Len(a) + 1, p)
  <2>1. CASE Opening(s, r) = <<>>
    <3>1. a = s
      BY <2>1, ConcatEmptySeq
    <3>2. r.type \in {"READ", "LOCK", "UNLOCK", "APPEND", "READN"}
      BY <2>1, RequestsOfOptions DEF Opening, Single
    <3>3. r.type # "READN" => Opened(s, p)
      BY <2>1, <3>2 DEF Opening
    <3> QED
      BY <3>1, <3>3, OpenedIsBefore
  <2>2. CASE Opening(s, r) # <<>>
    <3>1. PICK u \in Openings : Opening(s, r) = <<For(u, p)>> /\ r.type # "READN"
      BY <2>2, AroundTyped
    <3> DEFINE x == For(u, p)
    <3>2. /\ x \in RequestType /\ Single(x) /\ DirectoryOf(x)
          /\ x.type = u /\ PathOf(x) = p
      BY <1>1, <3>1, ForSingle
    <3> HIDE DEF x
    <3>3. a = s \o <<x>>
      BY <3>1 DEF x
    <3>4. x.type # "CLOSE" /\ x.type \in Openings \union {"READN"}
      BY <3>2 DEF Openings
    <3>5. Planned(a, more)
      <4>1. PathOf(x) \in more /\ Planned(s, more) /\ \A i \in DOMAIN s : Single(s[i])
        BY <3>2, Zenon
      <4>2. Planned(s \o <<x>>, more)
        <5> HIDE DEF more, p, a
        <5> QED
          BY <3>2, <3>4, <4>1, PlannedAppend, Zenon
      <4> QED
        BY <3>3, <4>2, Zenon
    <3>6. /\ a \in Seq(RequestType)
          /\ \A i \in DOMAIN a : Single(a[i]) /\ DirectoryOf(a[i])
      <4>1. s \o <<x>> \in Seq(RequestType)
        BY <3>2, OneMore, Zenon
      <4>2. \A i \in DOMAIN (s \o <<x>>) :
               Single((s \o <<x>>)[i]) /\ DirectoryOf((s \o <<x>>)[i])
        BY <3>2, SingleAround, Zenon
      <4> QED
        BY <3>3, <4>1, <4>2, Zenon
    <3>7. OpenedBefore(a, Len(a) + 1, p)
      <4>1. Len(s) \in Nat /\ Len(a) = Len(s) + 1 /\ a[Len(s) + 1] = x
        BY <3>2, <3>3, OneMore
      <4>2. Len(s) + 1 \in 1 .. (Len(a) + 1) - 1 /\ (Len(s) + 1) + 1 .. (Len(a) + 1) - 1 = {}
        BY <4>1
      <4>3. Is(a[Len(s) + 1], Openings, p)
        BY <3>2, <4>1 DEF Is
      <4> QED
        BY <4>2, <4>3 DEF OpenedBefore
    <3> QED
      BY <3>5, <3>6, <3>7
  <2> QED
    BY <2>1, <2>2
<1> HIDE DEF a
<1>3. /\ b \in Seq(RequestType) /\ Planned(b, more)
      /\ \A i \in DOMAIN b : Single(b[i]) /\ DirectoryOf(b[i])
      /\ b # <<>> /\ b[Len(b)] = r
      /\ r.type \notin {"READN", "REMOVE"} => OpenedBefore(b, Len(b) + 1, p)
  <2>1. b = a \o <<r>>
    BY DEF a
  <2>2. r.type # "CLOSE" /\ r.type \notin Openings
    BY RequestsOfOptions DEF Openings
  <2>3. Planned(b, more)
    <3>1. r.type # "READN" => PathOf(r) \in more
      BY Zenon
    <3>2. r.type \notin Openings \union {"READN"} => OpenedBefore(a, Len(a) + 1, PathOf(r))
      BY <1>2, Zenon
    <3>3. Planned(a \o <<r>>, more)
      <4> HIDE DEF more, p
      <4> QED
        BY <1>2, <2>2, <3>1, <3>2, PlannedAppend, Zenon
    <3> QED
      BY <2>1, <3>3, Zenon
  <2>4. /\ b \in Seq(RequestType) /\ Len(a) \in Nat /\ Len(b) = Len(a) + 1 /\ b[Len(a) + 1] = r
        /\ \A i \in DOMAIN b : Single(b[i]) /\ DirectoryOf(b[i])
    <3>1. a \in Seq(RequestType) /\ \A i \in DOMAIN a : Single(a[i]) /\ DirectoryOf(a[i])
      BY <1>2, Zenon
    <3>2. /\ a \o <<r>> \in Seq(RequestType) /\ Len(a) \in Nat
          /\ Len(a \o <<r>>) = Len(a) + 1 /\ (a \o <<r>>)[Len(a) + 1] = r
      BY <3>1, OneMore, Zenon
    <3>3. \A i \in DOMAIN (a \o <<r>>) :
             Single((a \o <<r>>)[i]) /\ DirectoryOf((a \o <<r>>)[i])
      BY <3>1, SingleAround, Zenon
    <3> QED
      BY <2>1, <3>2, <3>3, Zenon
  <2>5. b # <<>>
    BY <2>4, EmptySeq
  <2>6. ASSUME r.type \notin {"READN", "REMOVE"}  PROVE OpenedBefore(b, Len(b) + 1, p)
    <3>0. Len(a) + 1 \in 1 .. Len(a) + 1
      BY <2>4
    <3>1. OpenedBefore(b, Len(a) + 1, p)
      <4>1. a \in Seq(RequestType) /\ OpenedBefore(a, Len(a) + 1, p)
        BY <1>2, <2>6
      <4>2. OpenedBefore(a \o <<r>>, Len(a) + 1, p)
        BY <3>0, <4>1, OpenedKept
      <4> QED
        BY <2>1, <4>2
    <3>2. PICK k \in 1 .. (Len(a) + 1) - 1 :
            /\ Is(b[k], Openings, p)
            /\ \A j \in k + 1 .. (Len(a) + 1) - 1 : ~Is(b[j], {"REMOVE"}, p)
      BY <3>1 DEF OpenedBefore
    <3>3. ~Is(b[Len(a) + 1], {"REMOVE"}, p)
      BY <2>4, <2>6 DEF Is
    <3>4. \A j \in k + 1 .. (Len(b) + 1) - 1 : ~Is(b[j], {"REMOVE"}, p)
      <4>1. \A j \in k + 1 .. (Len(b) + 1) - 1 : j \in k + 1 .. (Len(a) + 1) - 1 \/ j = Len(a) + 1
        <5>1. Len(a) \in Nat /\ Len(b) = Len(a) + 1 /\ k \in 1 .. (Len(a) + 1) - 1
          BY <2>4, <3>2
        <5> QED
          BY <5>1
      <4> QED
        BY <3>2, <3>3, <4>1
    <3>5. k \in 1 .. (Len(b) + 1) - 1
      BY <2>4
    <3> QED
      BY <3>2, <3>4, <3>5 DEF OpenedBefore
  <2> QED
    BY <2>3, <2>4, <2>5, <2>6
<1>4. CASE r.type = "READN"
  <2>1. t = b
    BY <1>3, <1>4, AroundTyped, ConcatEmptySeq
  <2>2. \A i \in DOMAIN b : b[i] \in RequestType
    BY <1>3, ElementOfSeq, LenProperties
  <2>3. \A i \in DOMAIN b : b[i].type # "READN" => PathOf(b[i]) # p
    BY <1>3, <1>4, <2>2, PathsOfRequests
  <2> QED
    BY <1>3, <2>1, <2>3 DEF Planned
<1>5. CASE r.type # "READN" /\ p \in left
  <2>1. Closing(b, r) = <<>> /\ more = left
    BY <1>5 DEF Closing
  <2> QED
    BY <1>3, <2>1, ConcatEmptySeq
<1>6. CASE r.type = "REMOVE" /\ p \notin left
  <2>1. Closing(b, r) = <<>>
    BY <1>6 DEF Closing, ClosedAfter
  <2>2. t = b
    BY <1>3, <2>1, ConcatEmptySeq
  <2> QED
    BY <1>1, <1>3, <1>6, <2>2, PlannedLast
<1>7. CASE r.type \notin {"READN", "REMOVE"} /\ p \notin left
  <2>1. Opened(b, p)
    BY <1>3, <1>7, OpenedIsBefore
  <2>2. r.type \in ClosedAfter
    BY <1>7, RequestsOfOptions DEF Single, ClosedAfter
  <2> DEFINE x == For("CLOSE", p)
  <2>3. Closing(b, r) = <<x>>
    BY <1>7, <2>1, <2>2 DEF Closing
  <2>4. /\ x \in RequestType /\ Single(x) /\ DirectoryOf(x) /\ x.type = "CLOSE" /\ PathOf(x) = p
    BY <1>1, <1>7, ForSingle
  <2> HIDE DEF x
  <2>5. t = b \o <<x>>
    BY <2>3
  <2>6. /\ t \in Seq(RequestType) /\ t[Len(t)] = x /\ t # <<>>
        /\ \A i \in DOMAIN t : Single(t[i]) /\ DirectoryOf(t[i])
    <3>1. /\ t \in Seq(RequestType) /\ Len(b) \in Nat /\ Len(t) = Len(b) + 1 /\ t[Len(b) + 1] = x
      <4>1. /\ b \o <<x>> \in Seq(RequestType) /\ Len(b) \in Nat
            /\ Len(b \o <<x>>) = Len(b) + 1 /\ (b \o <<x>>)[Len(b) + 1] = x
        BY <1>3, <2>4, OneMore
      <4> QED
        BY <2>5, <4>1
    <3>a. \A i \in DOMAIN t : Single(t[i]) /\ DirectoryOf(t[i])
      <4>1. \A i \in DOMAIN (b \o <<x>>) :
               Single((b \o <<x>>)[i]) /\ DirectoryOf((b \o <<x>>)[i])
        BY <1>3, <2>4, SingleAround
      <4> QED
        BY <2>5, <4>1
    <3>2. t # <<>>
      BY <3>1, EmptySeq
    <3> QED
      BY <3>1, <3>a, <3>2
  <2>7. Planned(t, left)
    BY <1>1, <1>3, <1>7, <2>4, <2>5, <2>6, PlannedLast
  <2> QED
    BY <2>6, <2>7
<1> QED
  BY <1>4, <1>5, <1>6, <1>7

----------------------------------------------------------------------------
(* Each step keeps the invariant: parsing.                                 *)

\* Each option leaves the list typed, with its directories where they belong.
LEMMA ParseKeepsLists ==
  ASSUME CommandsInv, Parse
  PROVE  /\ CommandsTypeOK' /\ DirectoryFits' /\ LastIsPrec'
         /\ ListsInv' /\ UNCHANGED <<hold, excused, kept>> /\ phase' \in {"parse", "end"}
<1>1. PICK o \in CmdOptions :
         StopParsing(o) \/ ParseSetting(o) \/ cmd_to_request(o) \/ write_dir_to_last_request(o)
  BY DEF Parse
<1>2. /\ o.opt \in STRING /\ o.paths \in Seq(Paths) /\ o.n \in Int
      /\ o.opt = "R" => o.paths = <<>>
  BY OptionsAssumption DEF OptionsAssumption
<1>3. /\ phase = "parse" /\ CommandsTypeOK /\ DirectoryFits /\ LastIsPrec /\ ListsInv
      /\ out = <<>> /\ \A i \in DOMAIN reqs : Unsplit(reqs[i])
  BY DEF Parse, CommandsInv, ListsInv
<1>4. CASE StopParsing(o)
  <2>1. phase' = "end" /\ UNCHANGED <<prec, given, reqs, out, pos, hold, excused, kept>>
    BY <1>4 DEF StopParsing, ParseEnds, parservars, sessionvars
  <2> QED
    BY <1>3, <2>1 DEF CommandsTypeOK, Phases, DirectoryFits, LastIsPrec, ListsInv
<1>5. CASE ParseSetting(o)
  <2>1. /\ o.opt \in {"f", "p", "t"} /\ given' = given \union ({o.opt} \ {"t"})
        /\ prec' = o.opt /\ pos' = pos + 1
        /\ UNCHANGED <<phase, reqs, out, hold, excused, kept>>
    BY <1>5 DEF ParseSetting, Parsed, sessionvars
  <2>2. given' \subseteq {"f", "p"} /\ pos' \in Nat \ {0}
    <3>1. given \subseteq {"f", "p"} /\ pos \in Nat \ {0}
      BY <1>3 DEF CommandsTypeOK
    <3>2. {o.opt} \ {"t"} \subseteq {"f", "p"}
      BY <2>1
    <3>3. pos + 1 \in Nat \ {0}
      BY <3>1
    <3>4. given \union ({o.opt} \ {"t"}) \subseteq {"f", "p"}
      BY <3>1, <3>2
    <3> QED
      BY <2>1, <3>3, <3>4
  <2>3. CommandsTypeOK'
    BY <1>3, <2>1, <2>2 DEF CommandsTypeOK
  <2> QED
    BY <1>3, <2>1, <2>3 DEF DirectoryFits, LastIsPrec, ListsInv
<1>6. CASE cmd_to_request(o)
  <2> DEFINE r == Request(RequestOf[o.opt], o.paths, o.n, "none")
  <2>1. /\ o.opt \in DOMAIN RequestOf /\ reqs' = Append(reqs, r)
        /\ prec' = o.opt /\ pos' = pos + 1
        /\ UNCHANGED <<phase, given, out, hold, excused, kept>>
    BY <1>6 DEF cmd_to_request, Parsed, sessionvars
  <2>2. /\ r \in RequestType /\ r.type = RequestOf[o.opt] /\ r.type \in UserTypes
        /\ r.dir = "none" /\ Unsplit(r) /\ DirectoryOf(r)
    <3>1. RequestOf[o.opt] \in UserTypes
      BY <2>1 DEF UserTypes
    <3>2. RequestOf[o.opt] = "READN" => o.opt = "R"
      BY <2>1, RequestsOfOptions DEF RequestOf
    <3> QED
      BY <1>2, <3>1, <3>2 DEF Request, RequestType, RequestTypes, Unsplit, DirectoryOf
  <2> HIDE DEF r
  <2>3. /\ Len(reqs) \in Nat /\ DOMAIN reqs = 1 .. Len(reqs)
        /\ reqs' \in Seq(RequestType) /\ DOMAIN reqs' = 1 .. Len(reqs) + 1
        /\ Len(reqs') = Len(reqs) + 1 /\ reqs'[Len(reqs) + 1] = r
        /\ \A i \in 1 .. Len(reqs) : reqs'[i] = reqs[i]
    <3>1. reqs \in Seq(RequestType) /\ Len(reqs) \in Nat /\ DOMAIN reqs = 1 .. Len(reqs)
      BY <1>3, LenProperties DEF CommandsTypeOK
    <3> QED
      BY <2>1, <2>2, <3>1
  <2>4. \A i \in 1 .. Len(reqs) + 1 : i \in 1 .. Len(reqs) \/ i = Len(reqs) + 1
    BY <2>3
  <2>5. CommandsTypeOK'
    BY <1>3, <2>1, <2>3 DEF CommandsTypeOK
  <2>6. \A i \in DOMAIN reqs' : Unsplit(reqs'[i]) /\ DirectoryOf(reqs'[i])
    BY <1>3, <2>2, <2>3, <2>4 DEF DirectoryFits, DirectoryOf
  <2>7. DirectoryFits'
    BY <2>6 DEF DirectoryFits, DirectoryOf
  <2>8. LastIsPrec'
    <3>1. reqs' # <<>>
      BY <2>3, EmptySeq
    <3> QED
      BY <2>1, <2>2, <2>3, <3>1 DEF LastIsPrec
  <2>9. ListsInv'
    BY <1>3, <2>1, <2>6 DEF ListsInv
  <2> QED
    BY <1>3, <2>1, <2>5, <2>7, <2>8, <2>9
<1>7. CASE write_dir_to_last_request(o)
  <2>1. /\ o.opt \in {"D", "d"} /\ ~EndsProgram(o)
        /\ reqs' = [reqs EXCEPT ![Len(reqs)].dir = o.opt]
        /\ prec' = o.opt /\ pos' = pos + 1
        /\ UNCHANGED <<phase, given, out, hold, excused, kept>>
    BY <1>7 DEF write_dir_to_last_request, Parsed, sessionvars
  <2>2. /\ o.opt = "D" => prec \in {"w", "W", "a"}
        /\ o.opt = "d" => prec \in {"r", "R"}
    BY <2>1 DEF EndsProgram
  <2>3. reqs # <<>> /\ reqs[Len(reqs)].type = RequestOf[prec]
    BY <1>3, <2>1, <2>2 DEF LastIsPrec
  <2>4. /\ reqs \in Seq(RequestType) /\ Len(reqs) \in Nat \ {0} /\ DOMAIN reqs = 1 .. Len(reqs)
        /\ Len(reqs) \in 1 .. Len(reqs)
    BY <1>3, <2>3, LenProperties, EmptySeq DEF CommandsTypeOK
  <2> DEFINE q == [reqs[Len(reqs)] EXCEPT !.dir = o.opt]
  <2>5. reqs' = [reqs EXCEPT ![Len(reqs)] = q]
    BY <2>1
  <2>6. /\ q \in RequestType /\ q.type = RequestOf[prec] /\ q.dir = o.opt /\ Unsplit(q)
    <3>1. reqs[Len(reqs)] \in RequestType /\ Unsplit(reqs[Len(reqs)])
      BY <1>3, <2>4, ElementOfSeq
    <3> QED
      BY <2>1, <2>3, <3>1 DEF RequestType, Unsplit
  <2> HIDE DEF q
  <2>7. DirectoryOf(q)
    BY <2>1, <2>2, <2>6, RequestsOfOptions DEF DirectoryOf
  <2>8. /\ reqs' \in Seq(RequestType) /\ Len(reqs') = Len(reqs) /\ DOMAIN reqs' = 1 .. Len(reqs)
        /\ \A j \in 1 .. Len(reqs) : reqs'[j] = IF j = Len(reqs) THEN q ELSE reqs[j]
    <3>1. /\ [reqs EXCEPT ![Len(reqs)] = q] \in Seq(RequestType)
          /\ Len([reqs EXCEPT ![Len(reqs)] = q]) = Len(reqs)
          /\ \A j \in 1 .. Len(reqs) :
                [reqs EXCEPT ![Len(reqs)] = q][j] = IF j = Len(reqs) THEN q ELSE reqs[j]
      BY <2>4, <2>6, ExceptSeq
    <3>2. reqs' \in Seq(RequestType) /\ Len(reqs') = Len(reqs)
      BY <2>5, <3>1
    <3>3. DOMAIN reqs' = 1 .. Len(reqs)
      BY <3>2, LenProperties
    <3> QED
      BY <2>5, <3>1, <3>2, <3>3
  <2>9. \A i \in DOMAIN reqs' : Unsplit(reqs'[i]) /\ DirectoryOf(reqs'[i])
    BY <1>3, <2>4, <2>6, <2>7, <2>8 DEF DirectoryFits, DirectoryOf
  <2>10. CommandsTypeOK'
    BY <1>3, <2>1, <2>8 DEF CommandsTypeOK
  <2>11. DirectoryFits'
    BY <2>9 DEF DirectoryFits, DirectoryOf
  <2>12. LastIsPrec'
    BY <2>1 DEF LastIsPrec
  <2>13. ListsInv'
    BY <1>3, <2>1, <2>9 DEF ListsInv
  <2> QED
    BY <1>3, <2>1, <2>10, <2>11, <2>12, <2>13
<1> QED
  BY <1>1, <1>4, <1>5, <1>6, <1>7

\* While nothing is sent there is no plan to keep and nothing is held.
LEMMA ParseKeeps ==
  ASSUME CommandsInv, Parse
  PROVE  CommandsInv'
<1>1. /\ CommandsTypeOK' /\ DirectoryFits' /\ LastIsPrec' /\ ListsInv'
      /\ UNCHANGED <<hold, excused, kept>> /\ phase' \in {"parse", "end"}
  BY ParseKeepsLists
<1>2. phase = "parse" /\ hold = [p \in Paths |-> "closed"]
  BY DEF Parse, CommandsInv, SessionInv
<1>3. PlanInv' /\ SessionInv'
  BY <1>1, <1>2 DEF PlanInv, SessionInv, NothingLeftOpen
<1> QED
  BY <1>1, <1>3 DEF CommandsInv

\* The first pass starts with requests to look at, or not at all.
LEMMA ParseOverKeeps ==
  ASSUME CommandsInv, ParseOver
  PROVE  CommandsInv'
<1>1. /\ phase = "parse" /\ phase' \in {"expand", "end"} /\ pos' = 1
      /\ phase' = "expand" => reqs # <<>>
      /\ UNCHANGED <<prec, given, reqs, out, hold, excused, kept>>
  BY DEF ParseOver, parservars, sessionvars
<1>2. /\ CommandsTypeOK /\ DirectoryFits /\ ListsInv /\ SessionInv
      /\ reqs \in Seq(RequestType) /\ Len(reqs) \in Nat /\ (reqs # <<>> => Len(reqs) >= 1)
  BY LenProperties, EmptySeq DEF CommandsInv, CommandsTypeOK
<1>3. CommandsTypeOK' /\ DirectoryFits' /\ LastIsPrec'
  BY <1>1, <1>2 DEF CommandsTypeOK, Phases, DirectoryFits, LastIsPrec
<1>4. ListsInv'
  <2>1. out = <<>> /\ \A i \in DOMAIN out : FALSE
    BY <1>1, <1>2 DEF ListsInv
  <2> QED
    BY <1>1, <1>2, <2>1 DEF ListsInv
<1>5. PlanInv' /\ SessionInv'
  BY <1>1, <1>2 DEF PlanInv, SessionInv, NothingLeftOpen
<1> QED
  BY <1>3, <1>4, <1>5 DEF CommandsInv

----------------------------------------------------------------------------
(* The two passes.                                                         *)

\* What a pass does with the lists, s being the requests it makes of one.
LEMMA PassSteps ==
  ASSUME CommandsInv, NEW name \in {"expand", "insert", "send"}, NEW next, Pass(name, next)
  PROVE  /\ phase = name /\ pos \in 1 .. Len(reqs) /\ Len(reqs) \in Nat
         /\ reqs[pos] \in RequestType /\ pos \in DOMAIN reqs /\ DOMAIN reqs = 1 .. Len(reqs)
         /\ \/ pos < Len(reqs) /\ pos' = pos + 1 /\ phase' = name
            \/ pos = Len(reqs) /\ pos' = 1 /\ phase' = next
         /\ prec' = prec /\ given' = given
         /\ reqs \in Seq(RequestType) /\ out \in Seq(RequestType)
<1>1. /\ pos \in Nat \ {0} /\ reqs \in Seq(RequestType) /\ out \in Seq(RequestType)
      /\ Len(reqs) \in Nat /\ DOMAIN reqs = 1 .. Len(reqs)
  BY LenProperties DEF CommandsInv, CommandsTypeOK
<1>2. /\ phase = name /\ pos <= Len(reqs) /\ prec' = prec /\ given' = given
      /\ \/ pos < Len(reqs) /\ pos' = pos + 1 /\ phase' = phase
         \/ ~(pos < Len(reqs)) /\ pos' = 1 /\ phase' = next
  BY DEF Pass, parservars
<1>3. pos \in 1 .. Len(reqs) /\ (~(pos < Len(reqs)) => pos = Len(reqs))
  <2>1. pos \in Nat \ {0} /\ Len(reqs) \in Nat /\ pos <= Len(reqs)
    BY <1>1, <1>2
  <2> QED
    BY <2>1
<1>4. reqs[pos] \in RequestType
  BY <1>1, <1>3, ElementOfSeq
<1> QED
  BY <1>1, <1>2, <1>3, <1>4

\* expand_requests: afterwards each request is on one path.
LEMMA ExpandKeeps ==
  ASSUME CommandsInv, expand_requests
  PROVE  CommandsInv'
<1>1. /\ phase = "expand" /\ pos \in 1 .. Len(reqs) /\ Len(reqs) \in Nat
      /\ reqs[pos] \in RequestType /\ pos \in DOMAIN reqs /\ DOMAIN reqs = 1 .. Len(reqs)
      /\ \/ pos < Len(reqs) /\ pos' = pos + 1 /\ phase' = "expand"
         \/ pos = Len(reqs) /\ pos' = 1 /\ phase' = "insert"
      /\ prec' = prec /\ given' = given
      /\ reqs \in Seq(RequestType) /\ out \in Seq(RequestType)
  BY PassSteps DEF expand_requests
<1>2. PICK s \in Expansions(reqs[pos]) : Push(s)
  BY DEF expand_requests
<1>3. UNCHANGED <<hold, excused, kept>>
  BY DEF expand_requests, sessionvars
<1>4. CommandsTypeOK /\ DirectoryFits /\ ListsInv /\ SessionInv
  BY DEF CommandsInv
<1>5. /\ s \in Seq(RequestType)
      /\ \A i \in DOMAIN s : Single(s[i]) /\ s[i].type \in UserTypes /\ DirectoryOf(s[i])
  <2>1. Unsplit(reqs[pos]) /\ DirectoryOf(reqs[pos])
    BY <1>1, <1>4 DEF ListsInv, DirectoryFits, DirectoryOf
  <2> QED
    BY <1>1, <1>2, <2>1, ExpansionsSplit
<1> DEFINE t == out \o s
<1>6. /\ t \in Seq(RequestType) /\ Len(t) \in Nat /\ (t # <<>> => Len(t) >= 1)
      /\ \A i \in DOMAIN t : Single(t[i]) /\ t[i].type \in UserTypes /\ DirectoryOf(t[i])
  <2>1. \A i \in DOMAIN out : Single(out[i]) /\ out[i].type \in UserTypes /\ DirectoryOf(out[i])
    BY <1>1, <1>4 DEF ListsInv
  <2>2. /\ t \in Seq(RequestType) /\ DOMAIN t = 1 .. Len(out) + Len(s)
        /\ DOMAIN out = 1 .. Len(out) /\ DOMAIN s = 1 .. Len(s)
        /\ Len(out) \in Nat /\ Len(s) \in Nat
        /\ \A i \in 1 .. Len(out) : t[i] = out[i]
        /\ \A i \in Len(out) + 1 .. Len(out) + Len(s) :
              i - Len(out) \in 1 .. Len(s) /\ t[i] = s[i - Len(out)]
    BY <1>1, <1>5, Joined
  <2> HIDE DEF t
  <2>3. \A i \in DOMAIN t :
           i \in 1 .. Len(out) \/ i \in Len(out) + 1 .. Len(out) + Len(s)
    BY <2>2
  <2>4. \A i \in DOMAIN t : Single(t[i]) /\ t[i].type \in UserTypes /\ DirectoryOf(t[i])
    BY <1>5, <2>1, <2>2, <2>3
  <2> QED
    BY <2>2, <2>4, LenProperties, EmptySeq
<1>7. /\ pos < Len(reqs) => out' = t /\ reqs' = reqs
      /\ pos = Len(reqs) => reqs' = t /\ out' = <<>>
  BY <1>1, <1>2 DEF Push
<1> HIDE DEF t
<1>8. CASE pos < Len(reqs)
  <2>1. pos' = pos + 1 /\ phase' = "expand" /\ out' = t /\ reqs' = reqs /\ pos' <= Len(reqs')
    BY <1>1, <1>7, <1>8
  <2>2. pos' \in Nat \ {0}
    BY <1>1, <2>1
  <2>3. CommandsTypeOK'
    BY <1>1, <1>3, <1>4, <1>6, <2>1, <2>2 DEF CommandsTypeOK
  <2>4. DirectoryFits' /\ LastIsPrec' /\ PlanInv'
    BY <1>4, <2>1 DEF DirectoryFits, LastIsPrec, PlanInv
  <2>5. ListsInv'
    BY <1>1, <1>4, <1>6, <2>1 DEF ListsInv
  <2>6. SessionInv'
    BY <1>1, <1>3, <1>4, <2>1 DEF SessionInv, NothingLeftOpen
  <2> QED
    BY <2>3, <2>4, <2>5, <2>6 DEF CommandsInv
<1>9. CASE pos = Len(reqs)
  <2>1. pos' = 1 /\ phase' = "insert" /\ reqs' = t /\ out' = <<>>
    BY <1>1, <1>7, <1>9
  <2>2. out' \in Seq(RequestType) /\ \A i \in DOMAIN out' : FALSE
    BY <2>1, EmptySeq
  <2>3. CommandsTypeOK'
    BY <1>1, <1>3, <1>4, <1>6, <2>1, <2>2 DEF CommandsTypeOK, Phases
  <2>4. DirectoryFits' /\ LastIsPrec'
    BY <1>6, <2>1 DEF DirectoryFits, LastIsPrec, DirectoryOf
  <2>5. PlanInv'
    BY <2>1, <2>2 DEF PlanInv, Planned
  <2>6. ListsInv'
    BY <1>6, <2>1, <2>2 DEF ListsInv
  <2>7. SessionInv'
    BY <1>1, <1>3, <1>4, <2>1 DEF SessionInv, NothingLeftOpen
  <2> QED
    BY <2>3, <2>4, <2>5, <2>6, <2>7 DEF CommandsInv
<1> QED
  BY <1>1, <1>8, <1>9

\* Push with the list it makes named t.
LEMMA Pushed ==
  ASSUME NEW s, NEW t, out \o s = t, Push(s), pos \in Int, Len(reqs) \in Int
  PROVE  /\ pos < Len(reqs) => out' = t /\ reqs' = reqs
         /\ pos = Len(reqs) => reqs' = t /\ out' = <<>>
  BY DEF Push

\* What is pushed in one piece, put together one after the other.
LEMMA FourJoined ==
  \A s, o, x, c \in Seq(RequestType) : s \o ((o \o x) \o c) = ((s \o o) \o x) \o c
<1> DEFINE cat(s, t) == s \o t
<1>1. \A s, t \in Seq(RequestType) : cat(s, t) \in Seq(RequestType)
  BY ConcatProperties
<1>2. ASSUME NEW s \in Seq(RequestType), NEW t \in Seq(RequestType), NEW u \in Seq(RequestType)
      PROVE  cat(cat(s, t), u) = cat(s, cat(t, u))
  BY ConcatAssociative
<1>3. \A s, o, x, c \in Seq(RequestType) :
         cat(s, cat(cat(o, x), c)) = cat(cat(cat(s, o), x), c)
  <2> HIDE DEF cat
  <2> QED
    BY <1>1, <1>2
<1> QED
  BY <1>3

\* add_open_create_requests: PlanGrows for the request at pos.
LEMMA InsertKeeps ==
  ASSUME CommandsInv, add_open_create_requests
  PROVE  CommandsInv'
<1>1. /\ phase = "insert" /\ pos \in 1 .. Len(reqs) /\ Len(reqs) \in Nat
      /\ reqs[pos] \in RequestType /\ pos \in DOMAIN reqs /\ DOMAIN reqs = 1 .. Len(reqs)
      /\ \/ pos < Len(reqs) /\ pos' = pos + 1 /\ phase' = "insert"
         \/ pos = Len(reqs) /\ pos' = 1 /\ phase' = "connect"
      /\ prec' = prec /\ given' = given
      /\ reqs \in Seq(RequestType) /\ out \in Seq(RequestType)
  BY PassSteps DEF add_open_create_requests
<1>2. UNCHANGED <<hold, excused, kept>>
  BY DEF add_open_create_requests, sessionvars
<1>3. CommandsTypeOK /\ DirectoryFits /\ ListsInv /\ SessionInv /\ PlanInv
  BY DEF CommandsInv
<1> DEFINE r == reqs[pos]
           o == Opening(out, r)
           b == (out \o o) \o <<r>>
           c == Closing(b, r)
           t == b \o c
           left == {PathOf(reqs[j]) : j \in pos + 1 .. Len(reqs)}
<1>4. Single(r) /\ DirectoryOf(r) /\ r.type \in UserTypes
  BY <1>1, <1>3 DEF ListsInv, DirectoryFits, DirectoryOf
<1>5. /\ o \in Seq(RequestType) /\ c \in Seq(RequestType) /\ <<r>> \in Seq(RequestType)
      /\ out \o o \in Seq(RequestType) /\ b \in Seq(RequestType)
  <2>1. o \in Seq(RequestType) /\ c \in Seq(RequestType)
    BY <1>1, <1>4, AroundTyped
  <2>2. <<r>> \in Seq(RequestType)
    BY <1>1
  <2> QED
    BY <1>1, <2>1, <2>2, ConcatProperties
<1>6. /\ pos < Len(reqs) => out' = t /\ reqs' = reqs
      /\ pos = Len(reqs) => reqs' = t /\ out' = <<>>
  <2>1. Push(o \o <<r>> \o c)
    BY DEF add_open_create_requests
  <2>2. out \o (o \o <<r>> \o c) = t
    <3> DEFINE x == <<r>>
    <3>1. /\ out \in Seq(RequestType) /\ o \in Seq(RequestType)
          /\ x \in Seq(RequestType) /\ c \in Seq(RequestType)
      BY <1>1, <1>5
    <3>2. t = ((out \o o) \o x) \o c
      OBVIOUS
    <3> HIDE DEF c, o, x, t
    <3>3. out \o ((o \o x) \o c) = ((out \o o) \o x) \o c
      <4> HIDE DEF x
      <4>1. x \in Seq(RequestType)
        BY <3>1
      <4>2. \A u \in Seq(RequestType) :
               out \o ((o \o u) \o c) = ((out \o o) \o u) \o c
        <5>1. out \in Seq(RequestType)
          BY <3>1
        <5>2. o \in Seq(RequestType)
          BY <3>1
        <5>3. c \in Seq(RequestType)
          BY <3>1
        <5>4. \A m, u, n \in Seq(RequestType) :
                 out \o ((m \o u) \o n) = ((out \o m) \o u) \o n
          BY <5>1, FourJoined, Zenon
        <5>5. \A u, n \in Seq(RequestType) :
                 out \o ((o \o u) \o n) = ((out \o o) \o u) \o n
          BY <5>2, <5>4, Zenon
        <5> QED
          BY <5>3, <5>5, Zenon
      <4> QED
        BY <4>1, <4>2, Zenon
    <3>4. out \o (o \o x \o c) = t
      BY <3>2, <3>3, Zenon
    <3> QED
      BY <3>4 DEF x
  <2> HIDE DEF o, r, c, t
  <2>3. pos \in Int /\ Len(reqs) \in Int
    BY <1>1
  <2> QED
    BY <2>1, <2>2, <2>3, Pushed
<1>7. /\ t \in Seq(RequestType)
      /\ \A i \in DOMAIN t : Single(t[i]) /\ DirectoryOf(t[i])
      /\ Planned(t, left)
  <2>1. PathsLeft = left \union {PathOf(r)}
    <3>1. pos .. Len(reqs) = (pos + 1 .. Len(reqs)) \union {pos}
      BY <1>1
    <3> QED
      BY <3>1 DEF PathsLeft
  <2>2. Planned(out, left \union {PathOf(r)})
    BY <1>1, <1>3, <2>1 DEF PlanInv
  <2>3. \A i \in DOMAIN out : Single(out[i]) /\ DirectoryOf(out[i])
    BY <1>1, <1>3 DEF ListsInv
  <2>4. UsedLater(PathOf(r)) <=> PathOf(r) \in left
    BY DEF UsedLater
  <2> HIDE DEF left, r
  <2> QED
    BY <1>1, <1>4, <2>2, <2>3, <2>4, PlanGrows DEF r
<1>8. \A i \in DOMAIN t : Single(t[i])
  BY <1>7
<1> HIDE DEF t
<1>9. CASE pos < Len(reqs)
  <2>1. pos' = pos + 1 /\ phase' = "insert" /\ out' = t /\ reqs' = reqs
        /\ pos' <= Len(reqs') /\ pos' \in Nat \ {0}
    BY <1>1, <1>6, <1>9
  <2>2. CommandsTypeOK'
    BY <1>1, <1>2, <1>3, <1>7, <2>1 DEF CommandsTypeOK
  <2>3. DirectoryFits' /\ LastIsPrec'
    BY <1>3, <2>1 DEF DirectoryFits, LastIsPrec
  <2>4. ListsInv'
    BY <1>1, <1>3, <1>7, <2>1 DEF ListsInv
  <2>5. PlanInv'
    BY <1>7, <2>1 DEF PlanInv, PathsLeft
  <2>6. SessionInv'
    BY <1>1, <1>2, <1>3, <2>1 DEF SessionInv, NothingLeftOpen
  <2> QED
    BY <2>2, <2>3, <2>4, <2>5, <2>6 DEF CommandsInv
<1>10. CASE pos = Len(reqs)
  <2>1. pos' = 1 /\ phase' = "connect" /\ reqs' = t /\ out' = <<>>
    BY <1>1, <1>6, <1>10
  <2>2. out' \in Seq(RequestType) /\ \A i \in DOMAIN out' : FALSE
    BY <2>1, EmptySeq
  <2>3. CommandsTypeOK'
    BY <1>1, <1>2, <1>3, <1>7, <2>1, <2>2 DEF CommandsTypeOK, Phases
  <2>4. DirectoryFits' /\ LastIsPrec'
    BY <1>7, <2>1 DEF DirectoryFits, LastIsPrec, DirectoryOf
  <2>5. ListsInv'
    BY <1>7, <2>1, <2>2 DEF ListsInv
  <2>6. PlanInv'
    <3>1. left = {}
      BY <1>1, <1>10
    <3> QED
      BY <1>7, <2>1, <3>1 DEF PlanInv
  <2>7. SessionInv'
    BY <1>1, <1>2, <1>3, <2>1 DEF SessionInv, NothingLeftOpen
  <2> QED
    BY <2>3, <2>4, <2>5, <2>6, <2>7 DEF CommandsInv
<1> QED
  BY <1>1, <1>9, <1>10

\* Connecting: the plan is made and nothing is held.
LEMMA ConnectKeeps ==
  ASSUME CommandsInv, Connect
  PROVE  CommandsInv'
<1>1. /\ phase = "connect" \/ (phase = "insert" /\ reqs = <<>>)
      /\ phase' \in {"close", "send", "end"} /\ (phase' = "send" => reqs # <<>>) /\ pos' = 1
      /\ UNCHANGED <<prec, given, reqs, out, hold, excused, kept>>
  BY DEF Connect, parservars, sessionvars
<1>2. /\ CommandsTypeOK /\ DirectoryFits /\ ListsInv /\ PlanInv /\ SessionInv
      /\ hold = [p \in Paths |-> "closed"]
  BY <1>1 DEF CommandsInv, SessionInv
<1>3. /\ reqs \in Seq(RequestType) /\ Len(reqs) \in Nat /\ (reqs # <<>> => Len(reqs) >= 1)
      /\ (reqs = <<>> => \A i \in DOMAIN reqs : FALSE)
  BY <1>2, LenProperties, EmptySeq DEF CommandsTypeOK
<1>4. (\A i \in DOMAIN reqs : Single(reqs[i])) /\ Planned(reqs, {})
  <2>1. CASE phase = "connect"
    BY <1>2, <2>1 DEF ListsInv, PlanInv
  <2>2. CASE reqs = <<>>
    BY <1>3, <2>2 DEF Planned
  <2> QED
    BY <1>1, <2>1, <2>2
<1>5. CommandsTypeOK'
  BY <1>1, <1>2, <1>4 DEF CommandsTypeOK, Phases, Single
<1>6. DirectoryFits' /\ LastIsPrec' /\ PlanInv'
  BY <1>1, <1>2, <1>4 DEF DirectoryFits, LastIsPrec, PlanInv
<1>7. ListsInv'
  BY <1>1, <1>2, <1>3, <1>4 DEF ListsInv
<1>8. SessionInv'
  <2>1. \A p \in Paths : ~OpenedBefore(reqs, 1, p)
    BY DEF OpenedBefore
  <2>2. \A p \in Paths : hold'[p] = "closed"
    BY <1>1, <1>2
  <2> QED
    BY <1>1, <1>2, <2>1, <2>2 DEF SessionInv, NothingLeftOpen
<1> QED
  BY <1>5, <1>6, <1>7, <1>8 DEF CommandsInv

----------------------------------------------------------------------------
(* Sending: what a call makes of the files the client has.                 *)

\* The calls on one path p, by what they may do to it; other paths keep theirs.
OnPath(p, h, ex, kp) ==
    /\ h \in Holds /\ ex \in BOOLEAN /\ kp \in BOOLEAN
    /\ hold' = [hold EXCEPT ![p] = h]
    /\ excused' = IF ex THEN excused \union {p} ELSE excused \ {p}
    /\ kept' = IF kp THEN kept \union {p} ELSE kept \ {p}

\* A call on a single path, but for what the caller may conclude.
LEMMA CallOnPath ==
  ASSUME CommandsTypeOK, NEW r \in RequestType, Single(r), r.type # "READN", Call(r)
  PROVE  LET p == PathOf(r) IN
         /\ p \in Paths
         /\ \E h \in Holds, ex, kp \in BOOLEAN :
               /\ OnPath(p, h, ex, kp)
               /\ r.type \in Openings => h # "closed" \/ ex
               /\ r.type \in {"CLOSE", "REMOVE"} => h = "closed" \/ kp
               /\ r.type \notin {"CLOSE", "REMOVE"} =>
                     /\ h = "closed" => hold[p] = "closed"
                     /\ hold[p] # "closed" \/ p \in excused => h # "closed" \/ ex
<1> DEFINE p == PathOf(r)
<1>1. p \in Paths
  BY PathsOfRequests
<1>2. /\ hold \in [Paths -> Holds] /\ hold[p] \in Holds
      /\ excused \subseteq Paths /\ kept \subseteq Paths
  BY <1>1 DEF CommandsTypeOK
<1> DEFINE ex0 == p \in excused
           kp0 == p \in kept
<1>3. /\ ex0 \in BOOLEAN /\ kp0 \in BOOLEAN
      /\ hold = [hold EXCEPT ![p] = hold[p]]
      /\ excused = IF ex0 THEN excused \union {p} ELSE excused \ {p}
      /\ kept = IF kp0 THEN kept \union {p} ELSE kept \ {p}
  BY <1>1, <1>2
<1> HIDE DEF p
<1>4. ASSUME NEW h \in Holds, Ok(p, h)  PROVE OnPath(p, h, FALSE, FALSE)
  BY <1>4 DEF Ok, OnPath
<1>5. ASSUME OpenRefused(p)  PROVE OnPath(p, hold[p], TRUE, kp0)
  BY <1>2, <1>3, <1>5 DEF OpenRefused, OnPath
<1>6. ASSUME NotReleased(p)  PROVE OnPath(p, hold[p], ex0, TRUE)
  BY <1>2, <1>3, <1>6 DEF NotReleased, OnPath
<1>7. ASSUME UNCHANGED sessionvars  PROVE OnPath(p, hold[p], ex0, kp0)
  BY <1>2, <1>3, <1>7 DEF sessionvars, OnPath
<1>8. {"closed", "open", "locked"} \subseteq Holds
  BY DEF Holds
<1> DEFINE Good(h, ex, kp) ==
               /\ OnPath(p, h, ex, kp)
               /\ r.type \in Openings => h # "closed" \/ ex
               /\ r.type \in {"CLOSE", "REMOVE"} => h = "closed" \/ kp
               /\ r.type \notin {"CLOSE", "REMOVE"} =>
                     /\ h = "closed" => hold[p] = "closed"
                     /\ hold[p] # "closed" \/ p \in excused => h # "closed" \/ ex
           Goal == \E h \in Holds, ex, kp \in BOOLEAN : Good(h, ex, kp)
<1>w. ASSUME NEW h \in Holds, NEW ex \in BOOLEAN, NEW kp \in BOOLEAN, Good(h, ex, kp)
      PROVE  Goal
  <2> HIDE DEF Good
  <2> QED
    BY <1>w
<1> HIDE DEF Good, Goal
<1>9. ASSUME r.type \in Openings  PROVE Goal
  <2>1. r.type \notin {"CLOSE", "REMOVE"}
    BY <1>9 DEF Openings
  <2>2. OpenRefused(p) \/ Ok(p, "open") \/ Ok(p, "locked")
    <3>1. CASE r.type = "OPEN"
      BY <3>1 DEF Call, OpenCall, p
    <3>2. CASE r.type = "OPEN_LOCK"
      BY <3>2 DEF Call, OpenLockCall, p
    <3>3. CASE r.type = "CREATE_LOCK"
      BY <3>3 DEF Call, CreateLockCall, p
    <3> QED
      BY <1>9, <3>1, <3>2, <3>3 DEF Openings
  <2>3. CASE OpenRefused(p)
    <3>1. OnPath(p, hold[p], TRUE, kp0)
      BY <1>5, <2>3
    <3>2. Good(hold[p], TRUE, kp0)
      BY <1>9, <2>1, <3>1, Zenon DEF Good
    <3> QED
      BY <1>2, <1>3, <1>w, <3>2, Zenon
  <2>4. ASSUME NEW h \in {"open", "locked"}, Ok(p, h)  PROVE Goal
    <3>1. h \in Holds /\ h # "closed"
      BY <1>8, <2>4
    <3>2. OnPath(p, h, FALSE, FALSE)
      BY <1>4, <2>4, <3>1
    <3>3. Good(h, FALSE, FALSE)
      BY <2>1, <3>1, <3>2, Zenon DEF Good
    <3> QED
      BY <1>w, <3>1, <3>3
  <2> QED
    BY <2>2, <2>3, <2>4
<1>10. ASSUME r.type \in {"CLOSE", "REMOVE"}  PROVE Goal
  <2>1. NotReleased(p) \/ Ok(p, "closed")
    <3>1. CASE r.type = "CLOSE"
      BY <3>1 DEF Call, CloseCall, p
    <3>2. CASE r.type = "REMOVE"
      BY <3>2 DEF Call, RemoveCall, p
    <3> QED
      BY <1>10, <3>1, <3>2
  <2>2. r.type \notin Openings
    BY <1>10 DEF Openings
  <2>3. CASE NotReleased(p)
    <3>1. OnPath(p, hold[p], ex0, TRUE)
      BY <1>6, <2>3
    <3>2. Good(hold[p], ex0, TRUE)
      BY <1>10, <2>2, <3>1, Zenon DEF Good
    <3> QED
      BY <1>2, <1>3, <1>w, <3>2, Zenon
  <2>4. CASE Ok(p, "closed")
    <3>1. OnPath(p, "closed", FALSE, FALSE)
      BY <1>4, <1>8, <2>4
    <3>2. Good("closed", FALSE, FALSE)
      BY <1>10, <2>2, <3>1, Zenon DEF Good
    <3> QED
      BY <1>8, <1>w, <3>2
  <2> QED
    BY <2>1, <2>3, <2>4
<1>11. ASSUME r.type \in {"LOCK", "UNLOCK", "READ", "WRITE", "APPEND"}  PROVE Goal
  <2>1. UNCHANGED sessionvars \/ Ok(p, "open") \/ Ok(p, "locked")
    <3>1. CASE r.type = "LOCK"
      BY <3>1 DEF Call, LockCall, Refused, p
    <3>2. CASE r.type = "UNLOCK"
      BY <3>2 DEF Call, UnlockCall, Refused, p
    <3>3. CASE r.type \in {"READ", "WRITE", "APPEND"}
      BY <3>3 DEF Call
    <3> QED
      BY <1>11, <3>1, <3>2, <3>3
  <2>2. r.type \notin Openings
    BY <1>11 DEF Openings
  <2>3. CASE UNCHANGED sessionvars
    <3>1. OnPath(p, hold[p], ex0, kp0)
      BY <1>7, <2>3
    <3>2. Good(hold[p], ex0, kp0)
      <4>1. r.type \notin {"CLOSE", "REMOVE"}
        BY <1>11
      <4> QED
        BY <2>2, <3>1, <4>1, Zenon DEF Good
    <3> QED
      BY <1>2, <1>3, <1>w, <3>2, Zenon
  <2>4. ASSUME NEW h \in {"open", "locked"}, Ok(p, h)  PROVE Goal
    <3>1. h \in Holds /\ h # "closed"
      BY <1>8, <2>4
    <3>2. OnPath(p, h, FALSE, FALSE)
      BY <1>4, <2>4, <3>1
    <3>3. Good(h, FALSE, FALSE)
      <4>1. r.type \notin {"CLOSE", "REMOVE"}
        BY <1>11
      <4> QED
        BY <2>2, <3>1, <3>2, <4>1, Zenon DEF Good
    <3> QED
      BY <1>w, <3>1, <3>3
  <2> QED
    BY <2>1, <2>3, <2>4
<1>12. r.type \in Openings \union {"CLOSE", "REMOVE", "LOCK", "UNLOCK", "READ", "WRITE", "APPEND"}
  BY RequestsOfOptions DEF RequestType, RequestTypes, Single
<1> QED
  BY <1>1, <1>9, <1>10, <1>11, <1>12 DEF p, Goal, Good

\* What a call makes of every path, its own and the others.
LEMMA CallEffect ==
  ASSUME CommandsTypeOK, NEW r \in RequestType, Single(r), Call(r)
  PROVE  /\ hold' \in [Paths -> Holds] /\ excused' \subseteq Paths /\ kept' \subseteq Paths
         /\ \A p \in Paths :
               /\ Is(r, Openings, p) => hold'[p] # "closed" \/ p \in excused'
               /\ Is(r, {"CLOSE", "REMOVE"}, p) => hold'[p] = "closed" \/ p \in kept'
               /\ ~Is(r, {"CLOSE", "REMOVE"}, p) =>
                     /\ hold'[p] = "closed" => hold[p] = "closed"
                     /\ hold[p] # "closed" \/ p \in excused => hold'[p] # "closed" \/ p \in excused'
               /\ (r.type = "READN" \/ PathOf(r) # p)
                  /\ (hold[p] \in {"closed", "grabbed"} \/ p \in kept)
                  => hold'[p] \in {"closed", "grabbed"} \/ p \in kept'
<1>1. hold \in [Paths -> Holds] /\ excused \subseteq Paths /\ kept \subseteq Paths
  BY DEF CommandsTypeOK
<1>2. CASE r.type = "READN"
  <2>1. /\ hold' \in [Paths -> Holds] /\ excused' = excused /\ kept' = kept
        /\ \A p \in Paths :
              hold'[p] \in CASE hold[p] = "open" -> {"open", "locked"}
                             [] hold[p] = "closed" -> {"closed", "grabbed"}
                             [] OTHER -> {hold[p]}
    BY <1>2 DEF Call, ReadNCall
  <2>2. \A p \in Paths : ~Is(r, Openings, p) /\ ~Is(r, {"CLOSE", "REMOVE"}, p)
    BY <1>2 DEF Is, Openings
  <2>3. ASSUME NEW p \in Paths
        PROVE  /\ hold'[p] = "closed" => hold[p] = "closed"
               /\ hold[p] # "closed" => hold'[p] # "closed"
               /\ hold[p] \in {"closed", "grabbed"} => hold'[p] \in {"closed", "grabbed"}
    <3>1. CASE hold[p] = "open"
      BY <2>1, <3>1
    <3>2. CASE hold[p] = "closed"
      BY <2>1, <3>2
    <3>3. CASE hold[p] \notin {"open", "closed"}
      BY <2>1, <3>3
    <3> QED
      BY <3>1, <3>2, <3>3
  <2> QED
    BY <1>1, <2>1, <2>2, <2>3
<1>3. CASE r.type # "READN"
  <2> DEFINE q == PathOf(r)
  <2>1. PICK h \in Holds, ex \in BOOLEAN, kp \in BOOLEAN :
          /\ OnPath(q, h, ex, kp)
          /\ r.type \in Openings => h # "closed" \/ ex
          /\ r.type \in {"CLOSE", "REMOVE"} => h = "closed" \/ kp
          /\ r.type \notin {"CLOSE", "REMOVE"} =>
                /\ h = "closed" => hold[q] = "closed"
                /\ hold[q] # "closed" \/ q \in excused => h # "closed" \/ ex
    BY <1>3, CallOnPath
  <2>2. q \in Paths
    BY <1>3, CallOnPath
  <2>3. \A p \in Paths : Is(r, Openings, p) <=> r.type \in Openings /\ p = q
    BY DEF Is
  <2>4. \A p \in Paths : Is(r, {"CLOSE", "REMOVE"}, p) <=> r.type \in {"CLOSE", "REMOVE"} /\ p = q
    BY DEF Is
  <2> HIDE DEF q
  <2>5. /\ hold' \in [Paths -> Holds] /\ hold'[q] = h
        /\ \A p \in Paths : p # q => hold'[p] = hold[p]
    BY <1>1, <2>1, <2>2 DEF OnPath
  <2>6. /\ excused' \subseteq Paths /\ (ex => q \in excused')
        /\ \A p \in Paths : p # q => (p \in excused' <=> p \in excused)
    <3>1. CASE ex
      BY <1>1, <2>1, <2>2, <3>1 DEF OnPath
    <3>2. CASE ~ex
      BY <1>1, <2>1, <2>2, <3>2 DEF OnPath
    <3> QED
      BY <3>1, <3>2
  <2>7. /\ kept' \subseteq Paths /\ (kp => q \in kept')
        /\ \A p \in Paths : p # q => (p \in kept' <=> p \in kept)
    <3>1. CASE kp
      BY <1>1, <2>1, <2>2, <3>1 DEF OnPath
    <3>2. CASE ~kp
      BY <1>1, <2>1, <2>2, <3>2 DEF OnPath
    <3> QED
      BY <3>1, <3>2
  <2>8. ASSUME NEW p \in Paths, p # q
        PROVE  /\ hold'[p] = hold[p] /\ (p \in excused' <=> p \in excused)
               /\ (p \in kept' <=> p \in kept)
               /\ ~Is(r, Openings, p) /\ ~Is(r, {"CLOSE", "REMOVE"}, p)
    BY <2>3, <2>4, <2>5, <2>6, <2>7, <2>8
  <2>9. /\ Is(r, Openings, q) => hold'[q] # "closed" \/ q \in excused'
        /\ Is(r, {"CLOSE", "REMOVE"}, q) => hold'[q] = "closed" \/ q \in kept'
        /\ ~Is(r, {"CLOSE", "REMOVE"}, q) =>
              /\ hold'[q] = "closed" => hold[q] = "closed"
              /\ hold[q] # "closed" \/ q \in excused => hold'[q] # "closed" \/ q \in excused'
    BY <2>1, <2>2, <2>3, <2>4, <2>5, <2>6, <2>7, Zenon
  <2>10. ASSUME NEW p \in Paths
         PROVE /\ Is(r, Openings, p) => hold'[p] # "closed" \/ p \in excused'
               /\ Is(r, {"CLOSE", "REMOVE"}, p) => hold'[p] = "closed" \/ p \in kept'
               /\ ~Is(r, {"CLOSE", "REMOVE"}, p) =>
                     /\ hold'[p] = "closed" => hold[p] = "closed"
                     /\ hold[p] # "closed" \/ p \in excused => hold'[p] # "closed" \/ p \in excused'
               /\ (r.type = "READN" \/ PathOf(r) # p)
                  /\ (hold[p] \in {"closed", "grabbed"} \/ p \in kept)
                  => hold'[p] \in {"closed", "grabbed"} \/ p \in kept'
    <3>1. CASE p = q
      BY <1>3, <2>9, <3>1 DEF q
    <3>2. CASE p # q
      BY <2>8, <3>2
    <3> QED
      BY <3>1, <3>2
  <2> QED
    BY <2>5, <2>6, <2>7, <2>10
<1> QED
  BY <1>2, <1>3

\* The first part of SessionInv, one request further.
LEMMA OpenedOneMore ==
  ASSUME CommandsTypeOK, NEW p \in Paths, pos \in DOMAIN reqs,
         OpenedBefore(reqs, pos + 1, p), \A j \in 1 .. pos : ~Is(reqs[j], {"CLOSE"}, p)
  PROVE  /\ ~Is(reqs[pos], {"CLOSE", "REMOVE"}, p)
         /\ Is(reqs[pos], Openings, p) \/ OpenedBefore(reqs, pos, p)
         /\ \A j \in 1 .. pos - 1 : ~Is(reqs[j], {"CLOSE"}, p)
<1>1. pos \in Nat \ {0}
  BY DEF CommandsTypeOK
<1>2. PICK k \in 1 .. (pos + 1) - 1 :
        /\ Is(reqs[k], Openings, p)
        /\ \A j \in k + 1 .. (pos + 1) - 1 : ~Is(reqs[j], {"REMOVE"}, p)
  BY DEF OpenedBefore
<1>3. CASE k = pos
  <2>1. ~Is(reqs[pos], {"CLOSE", "REMOVE"}, p)
    BY <1>2, <1>3 DEF Is, Openings
  <2> QED
    BY <1>1, <1>2, <1>3, <2>1
<1>4. CASE k # pos
  <2>1. k \in 1 .. pos - 1 /\ pos \in k + 1 .. (pos + 1) - 1 /\ pos \in 1 .. pos
    BY <1>1, <1>2, <1>4
  <2>2. \A j \in k + 1 .. pos - 1 : j \in k + 1 .. (pos + 1) - 1
    BY <1>1, <2>1
  <2>3. OpenedBefore(reqs, pos, p)
    BY <1>2, <2>1, <2>2 DEF OpenedBefore
  <2>4. ~Is(reqs[pos], {"CLOSE", "REMOVE"}, p)
    <3>1. ~Is(reqs[pos], {"REMOVE"}, p) /\ ~Is(reqs[pos], {"CLOSE"}, p)
      BY <1>2, <2>1
    <3> QED
      BY <3>1 DEF Is
  <2> QED
    BY <1>1, <2>3, <2>4
<1> QED
  BY <1>3, <1>4

\* After a call, the request that releases a path p is still to come.
LEMMA ReleaseAhead ==
  ASSUME CommandsTypeOK, Planned(reqs, {}), NEW p \in Paths, pos \in DOMAIN reqs,
         \A i \in DOMAIN reqs : Single(reqs[i]),
         NEW left, left = (\E j \in pos + 1 .. Len(reqs) : Is(reqs[j], {"CLOSE", "REMOVE"}, p)),
         Call(reqs[pos]),
         \/ hold[p] \in {"closed", "grabbed"} \/ p \in kept
         \/ \E j \in pos .. Len(reqs) : Is(reqs[j], {"CLOSE", "REMOVE"}, p)
  PROVE  hold'[p] \in {"closed", "grabbed"} \/ p \in kept' \/ left
<1> DEFINE r == reqs[pos]
<1>1. /\ r \in RequestType /\ Single(r) /\ pos \in Nat /\ Len(reqs) \in Nat
      /\ pos \in 1 .. Len(reqs)
  BY LenProperties, ElementOfSeq DEF CommandsTypeOK
<1>2. \A j \in pos .. Len(reqs) : j = pos \/ j \in pos + 1 .. Len(reqs)
  BY <1>1
<1>3. CASE Is(r, {"CLOSE", "REMOVE"}, p)
  BY <1>1, <1>3, CallEffect
<1>4. CASE ~Is(r, {"CLOSE", "REMOVE"}, p) /\ r.type # "READN" /\ PathOf(r) = p
  <2>1. \E j \in pos .. Len(reqs) : Is(reqs[j], {"CLOSE", "REMOVE"}, p)
    BY <1>4 DEF Planned
  <2> QED
    BY <1>2, <1>4, <2>1
<1>5. CASE ~Is(r, {"CLOSE", "REMOVE"}, p) /\ (r.type = "READN" \/ PathOf(r) # p)
  <2>1. left \/ hold[p] \in {"closed", "grabbed"} \/ p \in kept
    BY <1>2, <1>5
  <2> HIDE DEF r
  <2>2. CASE hold[p] \in {"closed", "grabbed"} \/ p \in kept
    BY <1>1, <1>5, <2>2, CallEffect DEF r
  <2> QED
    BY <2>1, <2>2
<1> QED
  BY <1>3, <1>4, <1>5

\* send_requests: CallEffect for each path.
LEMMA SendKeeps ==
  ASSUME CommandsInv, send_requests
  PROVE  CommandsInv'
<1>1. /\ phase = "send" /\ pos \in 1 .. Len(reqs) /\ Len(reqs) \in Nat
      /\ reqs[pos] \in RequestType /\ pos \in DOMAIN reqs /\ DOMAIN reqs = 1 .. Len(reqs)
      /\ \/ pos < Len(reqs) /\ pos' = pos + 1 /\ phase' = "send"
         \/ pos = Len(reqs) /\ pos' = 1 /\ phase' = "close"
      /\ prec' = prec /\ given' = given
      /\ reqs \in Seq(RequestType) /\ out \in Seq(RequestType)
  BY PassSteps DEF send_requests
<1>2. Call(reqs[pos]) /\ UNCHANGED <<reqs, out>>
  BY DEF send_requests
<1>3. CommandsTypeOK /\ DirectoryFits /\ ListsInv /\ PlanInv /\ SessionInv
  BY DEF CommandsInv
<1>4. Planned(reqs, {}) /\ \A i \in DOMAIN reqs : Single(reqs[i])
  BY <1>1, <1>3 DEF PlanInv, ListsInv
<1>5. /\ hold' \in [Paths -> Holds] /\ excused' \subseteq Paths /\ kept' \subseteq Paths
  BY <1>1, <1>2, <1>3, <1>4, CallEffect
<1>6. pos' \in Nat \ {0} /\ phase' \in {"send", "close"} /\ (phase' = "send" => pos' <= Len(reqs))
  BY <1>1
<1>7. CommandsTypeOK'
  BY <1>1, <1>2, <1>3, <1>4, <1>5, <1>6 DEF CommandsTypeOK, Phases, Single
<1>8. DirectoryFits' /\ LastIsPrec' /\ PlanInv'
  BY <1>2, <1>3, <1>4, <1>6 DEF DirectoryFits, LastIsPrec, PlanInv
<1>9. ListsInv'
  BY <1>2, <1>3, <1>4, <1>6 DEF ListsInv
<1>10. ASSUME NEW p \in Paths
       PROVE  \/ hold'[p] \in {"closed", "grabbed"} \/ p \in kept'
              \/ \E j \in pos + 1 .. Len(reqs) : Is(reqs[j], {"CLOSE", "REMOVE"}, p)
  <2> DEFINE left == \E j \in pos + 1 .. Len(reqs) : Is(reqs[j], {"CLOSE", "REMOVE"}, p)
  <2>1. \/ hold[p] \in {"closed", "grabbed"} \/ p \in kept
        \/ \E j \in pos .. Len(reqs) : Is(reqs[j], {"CLOSE", "REMOVE"}, p)
    BY <1>1, <1>3 DEF SessionInv
  <2> QED
    BY <1>1, <1>2, <1>3, <1>4, <2>1, ReleaseAhead
<1>11. CASE pos < Len(reqs)
  <2>1. pos' = pos + 1 /\ phase' = "send"
    BY <1>1, <1>11
  <2>2. ASSUME NEW p \in Paths, OpenedBefore(reqs, pos + 1, p),
               \A j \in 1 .. pos : ~Is(reqs[j], {"CLOSE"}, p)
        PROVE  hold'[p] # "closed" \/ p \in excused'
    <3>1. /\ ~Is(reqs[pos], {"CLOSE", "REMOVE"}, p)
          /\ Is(reqs[pos], Openings, p) \/ OpenedBefore(reqs, pos, p)
          /\ \A j \in 1 .. pos - 1 : ~Is(reqs[j], {"CLOSE"}, p)
      BY <1>1, <1>3, <2>2, OpenedOneMore
    <3>2. CASE Is(reqs[pos], Openings, p)
      BY <1>1, <1>2, <1>3, <1>4, <3>2, CallEffect
    <3>3. CASE OpenedBefore(reqs, pos, p)
      <4>1. hold[p] # "closed" \/ p \in excused
        BY <1>1, <1>3, <3>1, <3>3 DEF SessionInv
      <4> QED
        BY <1>1, <1>2, <1>3, <1>4, <3>1, <4>1, CallEffect
    <3> QED
      BY <3>1, <3>2, <3>3
  <2>3. SessionInv'
    <3>1. ASSUME NEW p \in Paths, OpenedBefore(reqs', pos', p),
                 \A j \in 1 .. pos' - 1 : ~Is(reqs'[j], {"CLOSE"}, p)
          PROVE  hold'[p] # "closed" \/ p \in excused'
      <4>1. reqs' = reqs
        BY <1>2
      <4>2. pos' = pos + 1 /\ pos \in Int
        BY <1>1, <2>1
      <4>3. pos' - 1 = pos
        BY <4>2
      <4>4. OpenedBefore(reqs, pos + 1, p)
        BY <3>1, <4>1, <4>2
      <4>5. \A j \in 1 .. pos : ~Is(reqs[j], {"CLOSE"}, p)
        BY <3>1, <4>1, <4>3
      <4> QED
        BY <2>2, <4>4, <4>5
    <3>2. ASSUME NEW p \in Paths
          PROVE  \/ hold'[p] \in {"closed", "grabbed"} \/ p \in kept'
                 \/ \E j \in pos' .. Len(reqs') : Is(reqs'[j], {"CLOSE", "REMOVE"}, p)
      BY <1>2, <1>10, <2>1
    <3> QED
      BY <2>1, <3>1, <3>2 DEF SessionInv, NothingLeftOpen
  <2> QED
    BY <1>7, <1>8, <1>9, <2>3 DEF CommandsInv
<1>12. CASE pos = Len(reqs)
  <2>1. pos' = 1 /\ phase' = "close"
    BY <1>1, <1>12
  <2>2. \A p \in Paths : hold'[p] \in {"closed", "grabbed"} \/ p \in kept'
    BY <1>1, <1>10, <1>12
  <2>3. SessionInv'
    BY <2>1, <2>2 DEF SessionInv, NothingLeftOpen
  <2> QED
    BY <1>7, <1>8, <1>9, <2>3 DEF CommandsInv
<1> QED
  BY <1>1, <1>11, <1>12

\* What is lost is excused.
LEMMA LoseKeeps ==
  ASSUME CommandsInv, Lose
  PROVE  CommandsInv'
<1>1. PICK q \in Paths : /\ hold[q] # "closed"
                         /\ hold' = [hold EXCEPT ![q] = "closed"]
                         /\ excused' = excused \union {q}
  BY DEF Lose
<1>2. phase = "send" /\ UNCHANGED <<phase, prec, given, reqs, out, pos, kept>>
  BY DEF Lose, parservars
<1>3. CommandsTypeOK /\ DirectoryFits /\ ListsInv /\ PlanInv /\ SessionInv /\ LastIsPrec
  BY DEF CommandsInv
<1>4. CommandsTypeOK'
  <2>1. hold' \in [Paths -> Holds] /\ excused' \subseteq Paths
    BY <1>1, <1>3 DEF CommandsTypeOK, Holds
  <2> QED
    BY <1>2, <1>3, <2>1 DEF CommandsTypeOK
<1>5. DirectoryFits' /\ LastIsPrec' /\ PlanInv' /\ ListsInv'
  BY <1>2, <1>3 DEF DirectoryFits, LastIsPrec, PlanInv, ListsInv, PathsLeft
<1>6. \A p \in Paths : \/ hold'[p] = hold[p] /\ (p \in excused => p \in excused')
                       \/ hold'[p] = "closed" /\ p \in excused'
  BY <1>1, <1>3 DEF CommandsTypeOK
<1>7. SessionInv'
  <2>1. ASSUME NEW p \in Paths
        PROVE  /\ OpenedBefore(reqs, pos, p) /\ (\A j \in 1 .. pos - 1 : ~Is(reqs[j], {"CLOSE"}, p))
                  => hold'[p] # "closed" \/ p \in excused'
               /\ \/ hold'[p] \in {"closed", "grabbed"} \/ p \in kept
                  \/ \E j \in pos .. Len(reqs) : Is(reqs[j], {"CLOSE", "REMOVE"}, p)
    BY <1>2, <1>3, <1>6 DEF SessionInv
  <2> QED
    BY <1>2, <2>1 DEF SessionInv, NothingLeftOpen
<1> QED
  BY <1>4, <1>5, <1>7 DEF CommandsInv

\* Closing the connection frees locks, and opens nothing.
LEMMA CloseKeeps ==
  ASSUME CommandsInv, closeConnection
  PROVE  CommandsInv'
<1>1. /\ phase = "close" /\ phase' = "end"
      /\ hold' = [p \in Paths |-> IF Locked(p) THEN "closed" ELSE hold[p]]
      /\ UNCHANGED <<prec, given, reqs, out, pos, excused, kept>>
  BY DEF closeConnection, parservars
<1>2. CommandsTypeOK /\ DirectoryFits /\ ListsInv
  BY DEF CommandsInv
<1>3. hold' \in [Paths -> Holds]
  BY <1>1, <1>2 DEF CommandsTypeOK, Holds
<1>4. CommandsTypeOK'
  BY <1>1, <1>2, <1>3 DEF CommandsTypeOK, Phases
<1>5. DirectoryFits' /\ LastIsPrec' /\ PlanInv' /\ ListsInv' /\ SessionInv'
  BY <1>1, <1>2 DEF DirectoryFits, LastIsPrec, PlanInv, ListsInv, SessionInv, NothingLeftOpen
<1> QED
  BY <1>4, <1>5 DEF CommandsInv

----------------------------------------------------------------------------
(* The theorems.                                                           *)

\* The invariant holds at the start, and every step keeps it.
LEMMA InitInv == CommandsInit => CommandsInv
<1> SUFFICES ASSUME CommandsInit PROVE CommandsInv
  OBVIOUS
<1>1. /\ phase = "parse" /\ prec = "none" /\ given = {} /\ reqs = <<>> /\ out = <<>> /\ pos = 1
      /\ hold = [p \in Paths |-> "closed"] /\ excused = {} /\ kept = {}
  BY DEF CommandsInit
<1>2. reqs \in Seq(RequestType) /\ out \in Seq(RequestType) /\ \A i \in DOMAIN reqs : FALSE
  BY <1>1, EmptySeq
<1>3. CommandsTypeOK
  BY <1>1, <1>2 DEF CommandsTypeOK, Phases, Holds
<1>4. DirectoryFits /\ LastIsPrec /\ ListsInv /\ PlanInv /\ SessionInv
  BY <1>1, <1>2 DEF DirectoryFits, LastIsPrec, ListsInv, PlanInv, SessionInv, NothingLeftOpen
<1> QED
  BY <1>3, <1>4 DEF CommandsInv

LEMMA StepInv == CommandsInv /\ [CommandsNext]_cmdvars => CommandsInv'
<1> SUFFICES ASSUME CommandsInv, [CommandsNext]_cmdvars  PROVE CommandsInv'
  OBVIOUS
<1>1. CASE CommandsNext
  BY <1>1, ParseKeeps, ParseOverKeeps, ExpandKeeps, InsertKeeps, ConnectKeeps, SendKeeps,
     LoseKeeps, CloseKeeps DEF CommandsNext
<1>2. CASE UNCHANGED cmdvars
  BY <1>2 DEF cmdvars, parservars, sessionvars, CommandsInv, CommandsTypeOK, DirectoryFits,
     LastIsPrec, ListsInv, PlanInv, PathsLeft, SessionInv, NothingLeftOpen
<1> QED
  BY <1>1, <1>2

\* The invariant of the client program: its lists, its plan and what it holds.
THEOREM CommandsInvariance == CommandsSpec => []CommandsInv
<1>1. CommandsInit => CommandsInv
  BY InitInv
<1>2. CommandsInv /\ [CommandsNext]_cmdvars => CommandsInv'
  BY StepInv
<1> QED
  BY <1>1, <1>2, PTL DEF CommandsSpec

\* What send_requests relies on: one path for each request, none for readNFiles,
\* and no directory left to expand.
THEOREM CommandsTypeCorrect == CommandsSpec => []CommandsTypeOK
<1>1. CommandsInv => CommandsTypeOK
  BY DEF CommandsInv
<1> QED
  BY <1>1, CommandsInvariance, PTL

\* A directory is where it belongs, whatever the options and their order.
THEOREM DirectoriesFit == CommandsSpec => []DirectoryFits
<1>1. CommandsInv => DirectoryFits
  BY DEF CommandsInv
<1> QED
  BY <1>1, CommandsInvariance, PTL

\* A call on a path finds it opened, for any list of requests.
THEOREM CallsFindFilesOpen == CommandsSpec => []UsesOpenedFiles
<1>1. CommandsInv => UsesOpenedFiles
  <2> SUFFICES ASSUME CommandsInv, phase = "send",
                      reqs[pos].type \notin Openings \union {"READN"}
               PROVE  hold[PathOf(reqs[pos])] # "closed" \/ PathOf(reqs[pos]) \in excused
    BY DEF UsesOpenedFiles
  <2> DEFINE r == reqs[pos]
             p == PathOf(r)
  <2>1. /\ CommandsTypeOK /\ SessionInv /\ Planned(reqs, {}) /\ pos <= Len(reqs)
        /\ \A i \in DOMAIN reqs : Single(reqs[i])
    BY DEF CommandsInv, PlanInv, ListsInv
  <2>2. /\ pos \in DOMAIN reqs /\ r \in RequestType /\ Len(reqs) \in Nat /\ pos \in Nat \ {0}
        /\ DOMAIN reqs = 1 .. Len(reqs)
    <3>1. reqs \in Seq(RequestType) /\ pos \in Nat \ {0} /\ Len(reqs) \in Nat
          /\ DOMAIN reqs = 1 .. Len(reqs)
      BY <2>1, LenProperties DEF CommandsTypeOK
    <3>2. pos \in 1 .. Len(reqs)
      BY <2>1, <3>1
    <3> QED
      BY <3>1, <3>2, ElementOfSeq
  <2>3. p \in Paths
    BY <2>1, <2>2, PathsOfRequests
  <2>4. OpenedBefore(reqs, pos, p)
    BY <2>1, <2>2 DEF Planned
  <2>5. \A j \in 1 .. pos - 1 : ~Is(reqs[j], {"CLOSE"}, p)
    <3>1. SUFFICES ASSUME NEW j \in 1 .. pos - 1, reqs[j].type = "CLOSE", PathOf(reqs[j]) = p
                   PROVE  FALSE
      BY DEF Is
    <3>2. j \in DOMAIN reqs /\ pos \in j + 1 .. Len(reqs)
      BY <2>1, <2>2
    <3>3. \A m \in j + 1 .. Len(reqs) : PathOf(reqs[m]) # PathOf(reqs[j])
      BY <2>1, <3>1, <3>2 DEF Planned
    <3> QED
      BY <3>1, <3>2, <3>3
  <2> QED
    BY <2>1, <2>3, <2>4, <2>5 DEF SessionInv
<1> QED
  BY <1>1, CommandsInvariance, PTL

\* When everything is sent, only what the server refused to close stays open.
THEOREM NothingStaysOpen == CommandsSpec => []NothingLeftOpen
<1>1. CommandsInv => NothingLeftOpen
  BY DEF CommandsInv, SessionInv
<1> QED
  BY <1>1, CommandsInvariance, PTL

\* No call closes a file before the last call the user asked for on its path.
THEOREM FilesHeldUntilLastUse == CommandsSpec => HeldUntilLastUse
<1> DEFINE Kept == phase = "send" /\ <<phase, pos>>' # <<phase, pos>> =>
        \A p \in Paths :
            \/ hold'[p] # "closed" \/ hold[p] = "closed"
            \/ Is(reqs[pos], {"REMOVE"}, p)
            \/ ~\E j \in pos + 1 .. Len(reqs) : Is(reqs[j], UserTypes, p)
<1>1. CommandsInv /\ [CommandsNext]_cmdvars => [Kept]_cmdvars
  <2> SUFFICES ASSUME CommandsInv, CommandsNext, phase = "send",
                      <<phase, pos>>' # <<phase, pos>>,
                      NEW p \in Paths, hold'[p] = "closed", hold[p] # "closed",
                      ~Is(reqs[pos], {"REMOVE"}, p),
                      NEW j \in pos + 1 .. Len(reqs), Is(reqs[j], UserTypes, p)
               PROVE  FALSE
    OBVIOUS
  <2>1. send_requests
    BY DEF CommandsNext, Parse, ParseOver, expand_requests, add_open_create_requests, Pass,
       Connect, Lose, closeConnection
  <2>2. /\ pos \in DOMAIN reqs /\ reqs[pos] \in RequestType /\ Call(reqs[pos])
    BY <2>1, PassSteps DEF send_requests
  <2>3. /\ CommandsTypeOK /\ Planned(reqs, {}) /\ Single(reqs[pos])
    BY <2>2 DEF CommandsInv, PlanInv, ListsInv
  <2>4. Is(reqs[pos], {"CLOSE", "REMOVE"}, p)
    BY <2>2, <2>3, CallEffect
  <2>5. reqs[pos].type = "CLOSE" /\ PathOf(reqs[pos]) = p
    BY <2>4 DEF Is
  <2>6. PathOf(reqs[j]) # p
    BY <2>2, <2>3, <2>5 DEF Planned
  <2> QED
    BY <2>6 DEF Is
<1> QED
  BY <1>1, CommandsInvariance, PTL DEF CommandsSpec, HeldUntilLastUse

=============================================================================
