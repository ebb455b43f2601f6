----------------------- MODULE StorageAccountingProofs ----------------------
(***************************************************************************)
(* The counters of shared_state.c, for any number of workers and slots:    *)
(* current_storage and current_files account for every byte and file, and  *)
(* the storage exceeds its limit by one unchecked request per other worker *)
(* at most.                                                                *)
(*                                                                         *)
(* The sums are the SumFunction of the community modules, which is defined *)
(* by recursion over the subsets of the domain.  What it does under a      *)
(* change of one value is proved here by taking a smallest subset that     *)
(* would be a counterexample.                                              *)
(***************************************************************************)
EXTENDS StorageProofs, FiniteSetTheorems, WellFoundedInduction

----------------------------------------------------------------------------
(* Sums over a finite set.                                                 *)

\* A nonempty set of natural numbers has a least element.
LEMMA Smallest ==
  ASSUME NEW T \in SUBSET Nat, T # {}
  PROVE  \E n \in T : \A m \in T : n <= m
<1> DEFINE R == {ss \in Nat \X Nat : ss[1] < ss[2]}
<1>1. IsWellFoundedOn(R, Nat)
  BY NatLessThanWellFounded DEF OpToRel
<1> HIDE DEF R
<1>2. PICK n \in T : \A m \in T : ~(<<m, n>> \in R)
  BY <1>1, WFMin
<1>3. \A m \in T : ~(m < n)
  BY <1>2 DEF R
<1>4. QED
  BY <1>3

\* A nonempty set of subsets of a finite set has a smallest one.
LEMMA SmallestSubset ==
  ASSUME NEW S, IsFiniteSet(S), NEW T \in SUBSET (SUBSET S), T # {}
  PROVE  \E s \in T : \A r \in T : r \subseteq s => r = s
<1>1. FiniteSubsetsOf(S) = SUBSET S
  BY FS_FiniteSubsetsOfFinite
<1>2. IsWellFoundedOn(StrictSubsetOrdering(S), SUBSET S)
  BY <1>1, FS_StrictSubsetOrderingWellFounded
<1>3. PICK s \in T : \A r \in T : ~(<<r, s>> \in StrictSubsetOrdering(S))
  BY <1>2, WFMin
<1>4. QED
  BY <1>3 DEF StrictSubsetOrdering

\* The element SumFunction takes from a set next, what is left of the set, and
\* the sum over it in terms of the sums h over what is left.
Pick(s) == CHOOSE x \in s : TRUE
Rest(s) == s \ {Pick(s)}
Added(f, h, s) == IF s = {} THEN 0 ELSE f[Pick(s)] + h[Rest(s)]

\* Taking an element out of a nonempty set leaves a smaller one.
LEMMA PickIn == \A s : s # {} => Pick(s) \in s /\ Rest(s) \subseteq s /\ Rest(s) # s
  BY DEF Pick, Rest

\* The recursion SumFunction is defined by has a solution.
LEMMA PartialSums ==
  ASSUME NEW S, IsFiniteSet(S), NEW f \in [S -> Int]
  PROVE  \E h \in [SUBSET S -> Int] : \A s \in SUBSET S : h[s] = Added(f, h, s)
<1> DEFINE D(n) == {s \in SUBSET S : Cardinality(s) <= n}
           Good(n) == \E h \in [D(n) -> Int] : \A s \in D(n) : h[s] = Added(f, h, s)
           Bad == {n \in Nat : ~Good(n)}
<1>1. \A s \in SUBSET S : IsFiniteSet(s) /\ Cardinality(s) \in Nat
  BY FS_Subset, FS_CardinalityType
<1>2. Good(0)
  <2>1. \A s \in D(0) : s = {}
    BY <1>1, FS_EmptySet
  <2>2. [s \in D(0) |-> 0] \in [D(0) -> Int]
    OBVIOUS
  <2>3. QED
    BY <2>1, <2>2 DEF Added
<1>3. ASSUME NEW n \in Nat, Good(n) PROVE Good(n + 1)
  <2> HIDE DEF D
  <2>1. PICK h \in [D(n) -> Int] : \A s \in D(n) : h[s] = Added(f, h, s)
    BY <1>3
  <2> DEFINE g == [s \in D(n + 1) |-> Added(f, h, s)]
  <2>2. \A s \in D(n + 1) : s # {} => Pick(s) \in S /\ Rest(s) \in D(n)
    <3> TAKE s \in D(n + 1)
    <3> HAVE s # {}
    <3>1. s \in SUBSET S /\ Cardinality(s) <= n + 1 /\ Pick(s) \in s
      BY PickIn DEF D
    <3>2. Cardinality(Rest(s)) = Cardinality(s) - 1
      BY <1>1, <3>1, FS_RemoveElement DEF Rest
    <3>3. QED
      BY <1>1, <3>1, <3>2 DEF D, Rest
  <2>3. D(n) \subseteq D(n + 1)
    BY <1>1 DEF D
  <2>4. g \in [D(n + 1) -> Int]
    BY <2>1, <2>2 DEF Added
  <2>5. \A s \in D(n) : g[s] = h[s]
    BY <2>1, <2>3
  <2>6. \A s \in D(n + 1) : g[s] = Added(f, g, s)
    BY <2>2, <2>5 DEF Added
  <2>7. QED
    BY <2>4, <2>6
<1>4. \A n \in Nat : Good(n)
  <2> HIDE DEF Good
  <2>1. SUFFICES ASSUME Bad # {} PROVE FALSE
    OBVIOUS
  <2>2. PICK n \in Bad : \A m \in Bad : n <= m
    BY <2>1, Smallest
  <2>3. n - 1 \in Nat /\ Good(n - 1)
    BY <1>2, <2>2
  <2>4. QED
    BY <1>3, <2>2, <2>3
<1>5. D(Cardinality(S)) = SUBSET S /\ Cardinality(S) \in Nat
  BY <1>1, FS_Subset
<1>6. QED
  BY <1>4, <1>5

\* The sums over the subsets of the domain that SumFunction is defined by.
SumsOf(f) == CHOOSE h : h = [s \in SUBSET (DOMAIN f) |-> Added(f, h, s)]

\* SumFunction is the sum over the whole domain.
LEMMA SumIsSums == \A f : SumFunction(f) = SumsOf(f)[DOMAIN f]
  BY DEF SumFunction, SumFunctionOnSet, FoldFunctionOnSet, MapThenFoldSet, SumsOf, Added,
     Pick, Rest

\* h has the sums of f over all subsets of S.
AddsUp(h, f, S) ==
    /\ h \in [SUBSET S -> Int]
    /\ \A s \in SUBSET S :
          /\ s = {} => h[s] = 0
          /\ s # {} => /\ Pick(s) \in s /\ Rest(s) = s \ {Pick(s)}
                       /\ h[s] = f[Pick(s)] + h[Rest(s)]

\* The sum over every subset is that over a smaller one and one value more.
LEMMA SumsOfSubsets ==
  ASSUME NEW S, IsFiniteSet(S), NEW f \in [S -> Int]
  PROVE  AddsUp(SumsOf(f), f, S) /\ SumFunction(f) = SumsOf(f)[S]
<1> DEFINE IsSums(h) == h = [s \in SUBSET S |-> Added(f, h, s)]
           F == SumsOf(f)
           Bad == {s \in SUBSET S : F[s] \notin Int}
<1>1. PICK h \in [SUBSET S -> Int] : \A s \in SUBSET S : h[s] = Added(f, h, s)
  BY PartialSums
<1>2. IsSums(h)
  BY <1>1
<1>3. F = CHOOSE g : IsSums(g)
  BY DEF SumsOf
<1> HIDE DEF IsSums, F
<1>4. IsSums(F)
  BY <1>2, <1>3
<1>5. F = [s \in SUBSET S |-> Added(f, F, s)]
  BY <1>4 DEF IsSums
<1>6. \A s \in SUBSET S :
         /\ s = {} => F[s] = 0
         /\ s # {} => F[s] = f[Pick(s)] + F[Rest(s)]
  BY <1>5 DEF Added
<1>7. \A s \in SUBSET S : s # {} => Pick(s) \in s /\ Rest(s) = s \ {Pick(s)}
  BY PickIn DEF Rest
<1>8. ASSUME Bad # {} PROVE FALSE
  <2>1. Bad \in SUBSET (SUBSET S)
    OBVIOUS
  <2> HIDE DEF Bad
  <2>2. PICK s \in Bad : \A r \in Bad : r \subseteq s => r = s
    BY <1>8, <2>1, SmallestSubset
  <2>3. s \in SUBSET S /\ F[s] \notin Int
    BY <2>2 DEF Bad
  <2>4. s # {} /\ Pick(s) \in s /\ Rest(s) = s \ {Pick(s)}
    BY <1>6, <1>7, <2>3
  <2>5. F[Rest(s)] \in Int /\ f[Pick(s)] \in Int
    BY <2>2, <2>3, <2>4 DEF Bad
  <2>6. F[s] = f[Pick(s)] + F[Rest(s)]
    BY <1>6, <2>3, <2>4
  <2>7. QED
    BY <2>3, <2>5, <2>6
<1>9. F \in [SUBSET S -> Int]
  BY <1>5, <1>8
<1>10. AddsUp(F, f, S)
  BY <1>6, <1>7, <1>9 DEF AddsUp
<1>11. QED
  BY <1>10, SumIsSums DEF F

\* A sum of integers is an integer.
LEMMA SumType ==
  ASSUME NEW S, IsFiniteSet(S), NEW f \in [S -> Int]
  PROVE  SumFunction(f) \in Int
<1>1. AddsUp(SumsOf(f), f, S) /\ SumFunction(f) = SumsOf(f)[S]
  BY SumsOfSubsets
<1>2. QED
  BY <1>1 DEF AddsUp

\* Changing one value changes the sum by the difference.
LEMMA SumChange ==
  ASSUME NEW S, IsFiniteSet(S), NEW f \in [S -> Int], NEW g \in [S -> Int],
         NEW x \in S, \A y \in S \ {x} : g[y] = f[y]
  PROVE  SumFunction(g) = SumFunction(f) + g[x] - f[x]
<1> DEFINE F == SumsOf(f)
           G == SumsOf(g)
           Diff(s) == IF x \in s THEN g[x] - f[x] ELSE 0
           Bad == {s \in SUBSET S : G[s] # F[s] + Diff(s)}
<1>1. AddsUp(F, f, S) /\ SumFunction(f) = F[S]
  BY SumsOfSubsets
<1>2. AddsUp(G, g, S) /\ SumFunction(g) = G[S]
  BY SumsOfSubsets
<1> HIDE DEF F, G
<1>3. ASSUME Bad # {} PROVE FALSE
  <2>1. Bad \in SUBSET (SUBSET S)
    OBVIOUS
  <2> HIDE DEF Bad
  <2>2. PICK s \in Bad : \A r \in Bad : r \subseteq s => r = s
    BY <1>3, <2>1, SmallestSubset
  <2>3. s \in SUBSET S /\ G[s] # F[s] + Diff(s)
    BY <2>2 DEF Bad
  <2>4. s # {}
    BY <1>1, <1>2, <2>3 DEF AddsUp
  <2> DEFINE p == Pick(s)
             r == Rest(s)
  <2>5. p \in s /\ r = s \ {p} /\ r \in SUBSET S /\ p \in S
    BY <1>1, <2>3, <2>4 DEF AddsUp
  <2>6. F[s] = f[p] + F[r] /\ F[r] \in Int
    BY <1>1, <2>3, <2>4, <2>5 DEF AddsUp
  <2>7. G[s] = g[p] + G[r] /\ G[r] \in Int
    BY <1>2, <2>3, <2>4, <2>5 DEF AddsUp
  <2> HIDE DEF p, r
  <2>8. G[r] = F[r] + Diff(r)
    BY <2>2, <2>5 DEF Bad
  <2>9. f[p] \in Int /\ g[p] \in Int
    BY <2>5
  <2>10. CASE p = x
    BY <2>3, <2>5, <2>6, <2>7, <2>8, <2>9, <2>10
  <2>11. CASE p # x
    BY <2>3, <2>5, <2>6, <2>7, <2>8, <2>9, <2>11
  <2>12. QED
    BY <2>10, <2>11
<1>4. G[S] = F[S] + (g[x] - f[x])
  BY <1>3
<1>5. F[S] \in Int
  BY <1>1 DEF AddsUp
<1>6. QED
  BY <1>1, <1>2, <1>4, <1>5

\* The sum of zeros is zero.
LEMMA SumZero ==
  ASSUME NEW S, IsFiniteSet(S), NEW f \in [S -> Int], \A x \in S : f[x] = 0
  PROVE  SumFunction(f) = 0
<1> DEFINE F == SumsOf(f)
           Bad == {s \in SUBSET S : F[s] # 0}
<1>1. AddsUp(F, f, S) /\ SumFunction(f) = F[S]
  BY SumsOfSubsets
<1> HIDE DEF F
<1>2. ASSUME Bad # {} PROVE FALSE
  <2>1. Bad \in SUBSET (SUBSET S)
    OBVIOUS
  <2> HIDE DEF Bad
  <2>2. PICK s \in Bad : \A r \in Bad : r \subseteq s => r = s
    BY <1>2, <2>1, SmallestSubset
  <2>3. s \in SUBSET S /\ F[s] # 0
    BY <2>2 DEF Bad
  <2>4. s # {}
    BY <1>1, <2>3 DEF AddsUp
  <2>5. Pick(s) \in s /\ Rest(s) = s \ {Pick(s)} /\ F[s] = f[Pick(s)] + F[Rest(s)]
    BY <1>1, <2>3, <2>4 DEF AddsUp
  <2>6. F[Rest(s)] = 0
    BY <2>2, <2>3, <2>5 DEF Bad
  <2>7. QED
    BY <2>3, <2>5, <2>6
<1>3. QED
  BY <1>1, <1>2

\* A sum of values of at least 0 is at least 0.
LEMMA SumNonNegative ==
  ASSUME NEW S, IsFiniteSet(S), NEW f \in [S -> Int], \A x \in S : f[x] >= 0
  PROVE  SumFunction(f) >= 0
<1> DEFINE F == SumsOf(f)
           Bad == {s \in SUBSET S : ~(F[s] >= 0)}
<1>1. AddsUp(F, f, S) /\ SumFunction(f) = F[S]
  BY SumsOfSubsets
<1> HIDE DEF F
<1>2. ASSUME Bad # {} PROVE FALSE
  <2>1. Bad \in SUBSET (SUBSET S)
    OBVIOUS
  <2> HIDE DEF Bad
  <2>2. PICK s \in Bad : \A r \in Bad : r \subseteq s => r = s
    BY <1>2, <2>1, SmallestSubset
  <2>3. s \in SUBSET S /\ ~(F[s] >= 0)
    BY <2>2 DEF Bad
  <2>4. s # {}
    <3>1. s = {} => F[s] = 0
      BY <1>1, <2>3 DEF AddsUp
    <3>2. F[s] # 0
      BY <2>3
    <3>3. QED
      BY <3>1, <3>2
  <2>5. Pick(s) \in s /\ Rest(s) = s \ {Pick(s)} /\ F[s] = f[Pick(s)] + F[Rest(s)]
    BY <1>1, <2>3, <2>4 DEF AddsUp
  <2>6. F[Rest(s)] >= 0
    BY <2>2, <2>3, <2>5 DEF Bad
  <2>7. f[Pick(s)] \in Int /\ f[Pick(s)] >= 0 /\ F[Rest(s)] \in Int
    BY <1>1, <2>3, <2>5 DEF AddsUp
  <2>8. QED
    BY <2>3, <2>5, <2>6, <2>7
<1>3. QED
  BY <1>1, <1>2

\* A sum in which one value is at most 0 and no other exceeds M.
LEMMA SumBound ==
  ASSUME NEW S, IsFiniteSet(S), NEW f \in [S -> Int], NEW M \in Nat,
         NEW x \in S, f[x] <= 0, \A y \in S : f[y] <= M
  PROVE  SumFunction(f) <= (Cardinality(S) - 1) * M
<1> DEFINE F == SumsOf(f)
           N(s) == Cardinality(s \ {x})
           Bad == {s \in SUBSET S : ~(F[s] <= N(s) * M)}
<1>1. AddsUp(F, f, S) /\ SumFunction(f) = F[S]
  BY SumsOfSubsets
<1> HIDE DEF F
<1>2. ASSUME Bad # {} PROVE FALSE
  <2>1. Bad \in SUBSET (SUBSET S)
    OBVIOUS
  <2> HIDE DEF Bad
  <2>2. PICK s \in Bad : \A r \in Bad : r \subseteq s => r = s
    BY <1>2, <2>1, SmallestSubset
  <2>3. s \in SUBSET S /\ ~(F[s] <= N(s) * M)
    BY <2>2 DEF Bad
  <2>4. \A r \in SUBSET S : IsFiniteSet(r) /\ Cardinality(r) \in Nat
    BY FS_Subset, FS_CardinalityType
  <2>5. s # {}
    <3>1. ASSUME s = {} PROVE FALSE
      <4>1. F[s] = 0
        BY <1>1, <3>1 DEF AddsUp
      <4>2. N(s) = 0
        <5>1. s \ {x} = {}
          BY <3>1
        <5>2. QED
          BY <5>1, FS_EmptySet
      <4> HIDE DEF N
      <4>3. QED
        BY <2>3, <4>1, <4>2
    <3>2. QED
      BY <3>1
  <2> DEFINE p == Pick(s)
             r == Rest(s)
  <2>6. p \in s /\ r = s \ {p} /\ r \in SUBSET S /\ p \in S
    BY <1>1, <2>3, <2>5 DEF AddsUp
  <2>7. F[s] = f[p] + F[r] /\ F[r] \in Int
    BY <1>1, <2>3, <2>5, <2>6 DEF AddsUp
  <2> HIDE DEF p, r
  <2>8. F[r] <= N(r) * M
    BY <2>2, <2>6 DEF Bad
  <2>9. N(r) \in Nat /\ N(s) \in Nat /\ f[p] \in Int /\ f[p] <= M
    BY <2>3, <2>4, <2>6
  <2>10. CASE p = x
    <3>1. N(r) = N(s)
      <4>1. r \ {x} = s \ {x}
        BY <2>6, <2>10
      <4>2. QED
        BY <4>1
    <3> DEFINE b == N(s) * M
    <3>2. b \in Int
      BY <2>9
    <3> HIDE DEF b
    <3>3. F[r] <= b /\ ~(F[s] <= b)
      BY <2>3, <2>8, <3>1 DEF b
    <3>4. QED
      BY <2>7, <2>9, <2>10, <3>2, <3>3
  <2>11. CASE p # x
    <3>1. N(r) + 1 = N(s)
      <4>1. r \ {x} = (s \ {x}) \ {p} /\ p \in s \ {x} /\ s \ {x} \in SUBSET S
        BY <2>3, <2>6, <2>11
      <4>2. Cardinality((s \ {x}) \ {p}) = Cardinality(s \ {x}) - 1
        BY <2>4, <4>1, FS_RemoveElement
      <4>3. QED
        BY <2>4, <4>1, <4>2
    <3> DEFINE b == N(r) * M
               d == N(s) * M
    <3>2. b \in Int /\ d = b + M
      BY <2>9, <3>1
    <3> HIDE DEF b, d
    <3>3. F[r] <= b /\ ~(F[s] <= d)
      BY <2>3, <2>8 DEF b, d
    <3>4. QED
      BY <2>7, <2>9, <3>2, <3>3
  <2>12. QED
    BY <2>10, <2>11
<1>3. F[S] <= N(S) * M
  BY <1>2
<1>4. N(S) = Cardinality(S) - 1
  BY FS_RemoveElement
<1>5. QED
  BY <1>1, <1>3, <1>4

----------------------------------------------------------------------------
(* Bytes: a handler step moves them between a file, what its worker has in *)
(* flight and current_storage.                                             *)

InFlightPcs == {"apply", "release"} \union UnbookedClosePcs \union UnbookedRemovePcs

\* The bytes of one slot and those its worker has in flight change by as much
\* as current_storage does.
Balanced(t) ==
    \E i \in Slots :
       /\ \A j \in Slots \ {i} : files'[j] = files[j]
       /\ current_storage' = current_storage + (get_size(files'[i]) - get_size(files[i]))
                                + (InFlight(t)' - InFlight(t))

\* Bytes in flight are a natural number, and none outside InFlightPcs.
LEMMA InFlightType ==
  ASSUME BaseInv, NEW t \in Workers
  PROVE  /\ InFlight(t) \in Nat
         /\ thr[t].pc \notin InFlightPcs => InFlight(t) = 0
<1>1. thr[t].pc \in {"apply", "release"} => Req(t).size \in Nat
  BY BusyConn
<1>2. thr[t].size \in Nat
  BY DEF BaseInv, TypeOK, ThreadType
<1>3. QED
  BY <1>1, <1>2 DEF InFlight, InFlightPcs

\* What the ways of moving on leave in flight.
LEMMA InFlightMoved ==
  ASSUME BaseInv, NEW t \in Workers
  PROVE  /\ thr'[t].pc \notin InFlightPcs => InFlight(t)' = 0
         /\ Reply(t) => InFlight(t)' = 0
         /\ Goto(t, "apply") \/ Goto(t, "release") => InFlight(t)' = Req(t).size
         /\ \A l \in UnbookedClosePcs \union UnbookedRemovePcs : \A n :
              thr' = [thr EXCEPT ![t].pc = l, ![t].size = n] => InFlight(t)' = n
<1>1. thr'[t].pc \notin InFlightPcs => InFlight(t)' = 0
  BY DEF InFlight, InFlightPcs
<1>2. Reply(t) => InFlight(t)' = 0
  BY <1>1, Moved, IdleType DEF InFlightPcs, UnbookedClosePcs, UnbookedRemovePcs
<1>3. Goto(t, "apply") \/ Goto(t, "release") => InFlight(t)' = Req(t).size
  BY Moved DEF InFlight, Req
<1>4. ASSUME NEW l \in UnbookedClosePcs \union UnbookedRemovePcs, NEW n,
             thr' = [thr EXCEPT ![t].pc = l, ![t].size = n]
      PROVE  InFlight(t)' = n
  <2>1. thr'[t].pc = l /\ thr'[t].size = n
    BY <1>4 DEF BaseInv, TypeOK, ThreadType
  <2>2. l \notin {"apply", "release"}
    BY DEF UnbookedClosePcs, UnbookedRemovePcs
  <2>3. QED
    BY <2>1, <2>2 DEF InFlight
<1>5. QED
  BY <1>1, <1>2, <1>3, <1>4

\* A step that leaves the table alone is balanced when current_storage moves
\* with what is in flight.
LEMMA QuietBalanced ==
  ASSUME BaseInv, NEW t \in Workers, files' = files,
         current_storage' = current_storage + (InFlight(t)' - InFlight(t))
  PROVE  Balanced(t)
<1>1. 1 \in Slots /\ get_size(files[1]) \in Nat
  BY NextSlot, SizeOfSlot DEF BaseInv
<1>2. InFlight(t) \in Nat /\ current_storage \in Int
  BY InFlightType DEF BaseInv, TypeOK
<1>3. \A j \in Slots \ {1} : files'[j] = files[j]
  OBVIOUS
<1>4. current_storage' = current_storage + (get_size(files'[1]) - get_size(files[1]))
                                + (InFlight(t)' - InFlight(t))
  BY <1>1, <1>2
<1>5. QED
  BY <1>1, <1>3, <1>4 DEF Balanced

\* So is one that changes a slot without current_storage, when the slot's bytes
\* move with what is in flight.
LEMMA SlotBalanced ==
  ASSUME BaseInv, NEW t \in Workers, NEW i \in Slots, NEW g, SetFile(i, g),
         current_storage' = current_storage,
         get_size(g) \in Int, InFlight(t)' \in Int,
         get_size(g) + InFlight(t)' = get_size(files[i]) + InFlight(t)
  PROVE  Balanced(t)
<1>1. get_size(files[i]) \in Nat /\ InFlight(t) \in Nat /\ current_storage \in Int
  BY SizeOfSlot, InFlightType DEF BaseInv, TypeOK
<1>2. files'[i] = g /\ \A j \in Slots \ {i} : files'[j] = files[j]
  BY DEF SetFile, BaseInv, TypeOK
<1>3. current_storage' = current_storage + (get_size(files'[i]) - get_size(files[i]))
                                + (InFlight(t)' - InFlight(t))
  BY <1>1, <1>2
<1>4. QED
  BY <1>2, <1>3 DEF Balanced

\* Operations that do not touch the contents leave get_size as it is.
LEMMA SameSize ==
  ASSUME BaseInv, NEW i \in Slots
  PROVE  LET f == files[i] IN
         /\ \A x, w : get_size(create_file_struct(f, x, w)) = get_size(f)
         /\ \A w : get_size(open_file(f, w)) = get_size(f)
         /\ \A w : get_size([f EXCEPT !.owner = w]) = get_size(f)
  BY DEF BaseInv, TypeOK, FileType, get_size, create_file_struct, open_file

\* get_file and get_empty_slot move no byte.
LEMMA ScanBalanced ==
  ASSUME BaseInv, NEW t \in Workers, FileScan(t)
  PROVE  Balanced(t)
<1>1. ScanFlow(t) /\ current_storage' = current_storage /\ current_storage \in Int
  BY ScanFlows DEF FileScan, GetFile, CheckName, EmptySlot, counters, BaseInv, TypeOK
<1>2. thr[t].pc \notin InFlightPcs /\ thr'[t].pc \notin InFlightPcs
  BY <1>1, IdleType DEF ScanFlow, ScanPcs, SlotPcs, SimplePcs, InFlightPcs, UnbookedClosePcs,
     UnbookedRemovePcs
<1>3. InFlight(t) = 0 /\ InFlight(t)' = 0
  BY <1>2, InFlightType, InFlightMoved
<1>4. QED
  BY <1>1, <1>3, QuietBalanced DEF ScanFlow

\* Nor does _open_file_create: a new file is empty.
LEMMA CreateBalanced ==
  ASSUME BaseInv, NEW t \in Workers, CreateSteps(t)
  PROVE  Balanced(t)
<1>1. /\ current_storage' = current_storage /\ current_storage \in Int
      /\ thr[t].fex \in Slots /\ get_size(fslot(t)) \in Nat
  BY NextSlot, SizeOfSlot
     DEF CreateSteps, CreateFile, CountFile, CreateOpen, counters, BaseInv, TypeOK, fslot
<1>2. thr[t].pc \notin InFlightPcs /\ thr'[t].pc \notin InFlightPcs
  BY CreateFlows, IdleType DEF CreateFlow, CreatePcs, InFlightPcs, UnbookedClosePcs,
     UnbookedRemovePcs
<1>3. InFlight(t) = 0 /\ InFlight(t)' = 0
  BY <1>2, InFlightType, InFlightMoved
<1>4. CASE files' = files
  BY <1>1, <1>3, <1>4, QuietBalanced
<1>5. ASSUME NEW g, SetFile(thr[t].fex, g), get_size(g) = get_size(fslot(t))
      PROVE  Balanced(t)
  BY <1>1, <1>3, <1>5, SlotBalanced DEF fslot
<1>6. QED
  BY <1>1, <1>4, <1>5, SameSize DEF CreateSteps, CreateFile, CountFile, CreateOpen, fslot

\* close_file moves no byte either: compression saves none.
LEMMA CloseSlotBalanced ==
  ASSUME BaseInv, NEW t \in Workers, NEW l \in UnbookedClosePcs, CloseSlot(t, l),
         current_storage' = current_storage, thr[t].pc \notin InFlightPcs
  PROVE  Balanced(t)
<1> DEFINE f == fslot(t)
<1>1. /\ current_storage \in Int /\ InFlight(t) = 0
      /\ thr[t].fex \in Slots /\ get_size(f) \in Nat /\ Consistent(f)
  BY InFlightType, NextSlot, SizeOfSlot, SlotConsistent DEF BaseInv, TypeOK, fslot
<1>2. CASE CanClose(f, Conn(t))
  <2>1. is_existing_file(f) /\ close_difference(f) = 0 /\ get_size(close_file(f)) = get_size(f)
    BY <1>1, <1>2, CloseConsistent DEF CanClose, Accessible
  <2>2. SetFile(thr[t].fex, close_file(f)) /\ InFlight(t)' = 0
    BY <1>2, <2>1, InFlightMoved DEF CloseSlot
  <2>3. QED
    BY <1>1, <2>1, <2>2, SlotBalanced DEF fslot
<1>3. CASE ~CanClose(f, Conn(t))
  <2>1. files' = files /\ InFlight(t)' = 0
    BY <1>3, InFlightMoved DEF CloseSlot
  <2>2. QED
    BY <1>1, <2>1, QuietBalanced
<1>4. QED
  BY <1>2, <1>3

\* What was in flight is subtracted by the booking that follows.
LEMMA BookBalanced ==
  ASSUME BaseInv, NEW t \in Workers, thr[t].pc \in UnbookedClosePcs \union UnbookedRemovePcs,
         BookStorage(t), files' = files, thr'[t].pc \notin InFlightPcs
  PROVE  Balanced(t)
<1>1. InFlight(t) = thr[t].size
  BY DEF InFlight, UnbookedClosePcs, UnbookedRemovePcs
<1>2. InFlight(t)' = 0
  BY InFlightMoved
<1>3. thr[t].size \in Nat /\ current_storage \in Int
  BY DEF BaseInv, TypeOK, ThreadType
<1>4. QED
  BY <1>1, <1>2, <1>3, QuietBalanced DEF BookStorage

\* The handlers that end in one call on the slot are balanced.
LEMMA SimpleBalanced ==
  ASSUME BaseInv, NEW t \in Workers, SimpleSteps(t)
  PROVE  Balanced(t)
<1>1. current_storage \in Int /\ thr[t].fex \in Slots /\ get_size(fslot(t)) \in Nat
  BY NextSlot, SizeOfSlot DEF BaseInv, TypeOK, fslot
<1>2. CASE CloseBook(t)
  <2>1. thr[t].pc \in UnbookedClosePcs /\ thr'[t].pc \notin InFlightPcs
    BY <1>2, Moved, IdleType DEF CloseBook, At, InFlightPcs, UnbookedClosePcs, UnbookedRemovePcs
  <2>2. QED
    BY <1>2, <2>1, BookBalanced DEF CloseBook
<1>3. CASE ~CloseBook(t)
  <2>1. current_storage' = current_storage /\ thr[t].pc \notin InFlightPcs
    BY <1>3 DEF SimpleSteps, OpenFile, CloseFile, ReadFile, LockFile, UnlockFile, counters, At,
       InFlightPcs, UnbookedClosePcs, UnbookedRemovePcs
  <2>2. InFlight(t) = 0
    BY <2>1, InFlightType
  <2>3. CASE CloseFile(t) /\ CanClose(fslot(t), Conn(t))
    BY <2>1, <2>3, CloseSlotBalanced DEF CloseFile, UnbookedClosePcs
  <2>4. CASE ~(CloseFile(t) /\ CanClose(fslot(t), Conn(t)))
    <3>1. InFlight(t)' = 0
      BY <1>3, <2>4, InFlightMoved
         DEF SimpleSteps, OpenFile, CloseFile, ReadFile, LockFile, UnlockFile
    <3>2. CASE files' = files
      BY <1>1, <2>1, <2>2, <3>1, <3>2, QuietBalanced
    <3>3. ASSUME NEW g, SetFile(thr[t].fex, g), get_size(g) = get_size(fslot(t))
          PROVE  Balanced(t)
      BY <1>1, <2>1, <2>2, <3>1, <3>3, SlotBalanced DEF fslot
    <3>4. QED
      BY <1>1, <1>3, <2>4, <3>2, <3>3, SameSize
         DEF SimpleSteps, OpenFile, CloseFile, ReadFile, LockFile, UnlockFile, lock_file,
             unlock_file, fslot
  <2>5. QED
    BY <2>3, <2>4
<1>4. QED
  BY <1>2, <1>3

\* do_remove_file is balanced: the bytes of the file go in flight, then off.
LEMMA RemoveBalanced ==
  ASSUME BaseInv, NEW t \in Workers, RemoveSteps(t)
  PROVE  Balanced(t)
<1>1. current_storage \in Int /\ thr[t].fex \in Slots /\ get_size(fslot(t)) \in Nat
  BY NextSlot, SizeOfSlot DEF BaseInv, TypeOK, fslot
<1>2. CASE RemoveBook(t)
  <2>1. thr[t].pc \in UnbookedRemovePcs /\ thr'[t].pc \notin InFlightPcs
    BY <1>2, Moved, IdleType DEF RemoveBook, At, InFlightPcs, UnbookedClosePcs, UnbookedRemovePcs
  <2>2. QED
    BY <1>2, <2>1, BookBalanced DEF RemoveBook
<1>3. CASE RemoveCheck(t) \/ RemoveFile(t)
  <2>1. current_storage' = current_storage /\ thr[t].pc \notin InFlightPcs
    BY <1>3 DEF RemoveCheck, RemoveFile, counters, At, InFlightPcs, UnbookedClosePcs,
       UnbookedRemovePcs
  <2>2. InFlight(t) = 0
    BY <2>1, InFlightType
  <2>3. CASE RemoveFile(t) /\ CanRemove(fslot(t), Conn(t))
    <3>1. /\ SetFile(thr[t].fex, EmptyFile) /\ get_size(EmptyFile) = 0
          /\ InFlight(t)' = get_size(fslot(t))
      BY <2>3, EmptyConsistent, InFlightMoved DEF RemoveFile, UnbookedRemovePcs
    <3>2. QED
      BY <1>1, <2>1, <2>2, <3>1, SlotBalanced DEF fslot
  <2>4. CASE ~(RemoveFile(t) /\ CanRemove(fslot(t), Conn(t)))
    <3>1. files' = files /\ thr'[t].pc \notin InFlightPcs
      BY <1>3, <2>4, Moved, IdleType DEF RemoveCheck, RemoveFile, InFlightPcs,
         UnbookedClosePcs, UnbookedRemovePcs
    <3>2. QED
      BY <1>1, <2>1, <2>2, <3>1, InFlightMoved, QuietBalanced
  <2>5. QED
    BY <2>3, <2>4
<1>4. QED
  BY <1>2, <1>3 DEF RemoveSteps

\* do_write_file and do_append_file are balanced: the reservation is in flight
\* until it is applied or given back.
LEMMA WriteBalanced ==
  ASSUME BaseInv, NEW t \in Workers, WriteSteps(t)
  PROVE  Balanced(t)
<1> DEFINE n == Req(t).size
           f == fslot(t)
<1>1. /\ current_storage \in Int /\ thr[t].fex \in Slots /\ get_size(f) \in Nat
      /\ Consistent(f)
  BY NextSlot, SizeOfSlot, SlotConsistent DEF BaseInv, TypeOK, fslot
<1>2. n \in Nat
  BY BusyConn DEF WriteSteps, CheckCapacity, Reserve, Apply, Release, Refuse, At
<1>3. ~At(t, "apply") /\ ~At(t, "release") => InFlight(t) = 0
  BY InFlightType DEF WriteSteps, CheckCapacity, Reserve, Apply, Release, Refuse, At, InFlightPcs,
     UnbookedClosePcs, UnbookedRemovePcs
<1>4. At(t, "apply") \/ At(t, "release") => InFlight(t) = n
  BY DEF At, InFlight
<1>5. CASE CheckCapacity(t)
  <2>1. /\ current_storage' = current_storage /\ files' = files
        /\ InFlight(t) = 0 /\ thr'[t].pc \notin InFlightPcs
    BY <1>3, <1>5, Moved DEF CheckCapacity, counters, At, InFlightPcs, UnbookedClosePcs,
       UnbookedRemovePcs
  <2>2. QED
    BY <1>1, <2>1, InFlightMoved, QuietBalanced
<1>6. CASE Reserve(t)
  <2>1. /\ current_storage' = current_storage + n /\ files' = files
        /\ InFlight(t) = 0 /\ InFlight(t)' = n
    BY <1>3, <1>6, InFlightMoved DEF Reserve, At
  <2>2. QED
    BY <1>1, <1>2, <2>1, QuietBalanced
<1>7. CASE Apply(t) /\ ~CanApply(t)
  <2>1. /\ current_storage' = current_storage /\ files' = files
        /\ InFlight(t) = n /\ InFlight(t)' = n
    BY <1>4, <1>7, InFlightMoved DEF Apply, counters
  <2>2. QED
    BY <1>1, <1>2, <2>1, QuietBalanced
<1>8. CASE Apply(t) /\ CanApply(t)
  <2>1. /\ current_storage' = current_storage /\ SetFile(thr[t].fex, Applied(t))
        /\ InFlight(t) = n /\ InFlight(t)' = 0
    BY <1>4, <1>8, InFlightMoved DEF Apply, counters
  <2>2. is_existing_file(f)
    BY <1>8 DEF CanApply, CanWrite, CanAppend, Accessible, is_locked_file
  <2>3. get_size(Applied(t)) = get_size(f) + n
    <3>1. CASE Req(t).op = "WRITE_FILE"
      <4>1. f.open_size = 0
        BY <1>8, <3>1 DEF CanApply, CanWrite
      <4>2. QED
        BY <1>1, <1>2, <2>2, <3>1, <4>1, WriteConsistent DEF Applied
    <3>2. CASE Req(t).op # "WRITE_FILE"
      <4>1. is_open_file(f)
        BY <1>8, <3>2 DEF CanApply, CanAppend
      <4>2. QED
        BY <1>1, <1>2, <2>2, <3>2, <4>1, AppendConsistent DEF Applied
    <3>3. QED
      BY <3>1, <3>2
  <2>4. QED
    BY <1>1, <1>2, <2>1, <2>3, SlotBalanced DEF fslot
<1>9. CASE Release(t)
  <2>1. current_storage' = current_storage - n /\ files' = files /\ InFlight(t) = n
    BY <1>4, <1>9 DEF Release, Refuse
  <2>2. Reply(t) \/ Goto(t, "failed") \/ Goto(t, "aborted")
    BY <1>9 DEF Release, Refuse, Abort, Fail
  <2>3. Goto(t, "failed") \/ Goto(t, "aborted") => thr'[t].pc \notin InFlightPcs
    BY Moved DEF InFlightPcs, UnbookedClosePcs, UnbookedRemovePcs
  <2>4. InFlight(t)' = 0
    BY <2>2, <2>3, InFlightMoved
  <2>5. QED
    BY <1>1, <1>2, <2>1, <2>4, QuietBalanced
<1>10. QED
  BY <1>5, <1>6, <1>7, <1>8, <1>9 DEF WriteSteps

\* cache_miss and delete_evicted are balanced, as a removal is.
LEMMA EvictBalanced ==
  ASSUME BaseInv, EvictorExclusive, VictimOpen, NEW t \in Workers, EvictSteps(t)
  PROVE  Balanced(t)
<1> DEFINE f == vslot(t)
           i == thr[t].victim
<1> USE DEF InFlightPcs, UnbookedClosePcs, UnbookedRemovePcs
<1>1. current_storage \in Int /\ i \in Slots /\ get_size(f) \in Nat
  BY NextSlot, SizeOfSlot DEF BaseInv, TypeOK, vslot
<1>2. EvictFlow(t)
  BY EvictFlows
<1>3. CASE EvictBook(t)
  <2>1. thr[t].pc \in UnbookedRemovePcs /\ thr'[t].pc \notin InFlightPcs
    BY <1>3, EvictLeft DEF EvictBook, At
  <2>2. QED
    BY <1>3, <2>1, BookBalanced DEF EvictBook
<1>4. CASE ~EvictBook(t)
  <2>1. current_storage' = current_storage /\ thr[t].pc \notin InFlightPcs
    BY <1>4 DEF EvictSteps, EvictPick, EvictName, EvictSize, EvictUsage, EvictChoose, EvictNone,
       EvictForce, EvictOpen, EvictRemove, counters, At
  <2>2. InFlight(t) = 0
    BY <2>1, InFlightType
  <2>3. CASE EvictRemove(t) /\ CanRead(f, OWNER_ADMIN) /\ CanRemove(f, OWNER_ADMIN)
    <3>1. /\ SetFile(i, EmptyFile) /\ get_size(EmptyFile) = 0
          /\ InFlight(t)' = get_size(f)
      BY <2>3, EmptyConsistent, InFlightMoved DEF EvictRemove
    <3>2. QED
      BY <1>1, <2>1, <2>2, <3>1, SlotBalanced DEF vslot
  <2>4. CASE ~(EvictRemove(t) /\ CanRead(f, OWNER_ADMIN) /\ CanRemove(f, OWNER_ADMIN))
    <3>1. thr'[t].pc \notin InFlightPcs
      <4>1. CASE EvictPick(t)
        BY <4>1 DEF EvictPick, BaseInv, TypeOK, ThreadType
      <4>2. CASE EvictRemove(t)
        BY <2>4, <4>2, Moved DEF EvictRemove, Fail
      <4>3. QED
        BY <1>4, <4>1, <4>2, Moved, EvictLeft
           DEF EvictSteps, EvictName, EvictSize, EvictUsage, EvictNone, EvictForce, EvictOpen
    <3>2. InFlight(t)' = 0
      BY <3>1, InFlightMoved
    <3>3. CASE files' = files
      BY <1>1, <2>1, <2>2, <3>2, <3>3, QuietBalanced
    <3>4. ASSUME NEW g, SetFile(i, g), get_size(g) = get_size(f)
          PROVE  Balanced(t)
      BY <1>1, <2>1, <2>2, <3>2, <3>4, SlotBalanced DEF vslot
    <3>5. QED
      BY <1>1, <1>4, <2>4, <3>3, <3>4, SameSize
         DEF EvictSteps, EvictPick, EvictName, EvictSize, EvictUsage, EvictChoose, EvictNone,
             EvictForce, EvictOpen, EvictRemove, force_owner, vslot
  <2>5. QED
    BY <2>3, <2>4
<1>5. QED
  BY <1>3, <1>4

\* do_readn_files is balanced: it opens and closes.
LEMMA ReadNBalanced ==
  ASSUME BaseInv, NEW t \in Workers, ReadNSteps(t)
  PROVE  Balanced(t)
<1> USE DEF InFlightPcs, UnbookedClosePcs, UnbookedRemovePcs
<1>1. current_storage \in Int /\ thr[t].fex \in Slots /\ get_size(fslot(t)) \in Nat
  BY NextSlot, SizeOfSlot DEF BaseInv, TypeOK, fslot
<1>2. \A k : ReadNNext(t, k) => thr'[t].pc \notin InFlightPcs
  BY Moved, IdleType DEF ReadNNext, BaseInv, TypeOK, ThreadType
<1>3. \A ok : ReadNAfter(t, ok) => thr'[t].pc \notin InFlightPcs
  BY <1>2, Moved DEF ReadNAfter
<1>4. CASE ReadNBook(t)
  BY <1>3, <1>4, BookBalanced DEF ReadNBook, At
<1>5. CASE ReadNClose(t)
  <2>1. current_storage' = current_storage /\ thr[t].pc \notin InFlightPcs
    BY <1>5 DEF ReadNClose, counters, At
  <2>2. QED
    BY <1>5, <2>1, CloseSlotBalanced DEF ReadNClose
<1>6. CASE ReadNWasClosed(t) \/ ReadNOpen(t) \/ ReadNRead(t) \/ ReadNName(t)
  <2>1. current_storage' = current_storage /\ thr[t].pc \notin InFlightPcs
    BY <1>6 DEF ReadNWasClosed, ReadNOpen, ReadNRead, ReadNName, counters, At
  <2>2. thr'[t].pc \notin InFlightPcs
    <3>1. CASE ReadNWasClosed(t)
      BY <3>1 DEF ReadNWasClosed, BaseInv, TypeOK, ThreadType
    <3>2. CASE ReadNRead(t)
      <4>1. thr'[t].pc = "readn_close" \/ \E ok : ReadNAfter(t, ok)
        BY <3>2 DEF ReadNRead, BaseInv, TypeOK, ThreadType
      <4>2. QED
        BY <1>3, <4>1
    <3>3. CASE ReadNOpen(t) \/ ReadNName(t)
      BY <1>2, <3>3, Moved DEF ReadNOpen, ReadNName, Fail
    <3>4. QED
      BY <1>6, <3>1, <3>2, <3>3
  <2>3. InFlight(t) = 0 /\ InFlight(t)' = 0
    BY <2>1, <2>2, InFlightType, InFlightMoved
  <2>4. CASE files' = files
    BY <1>1, <2>1, <2>3, <2>4, QuietBalanced
  <2>5. CASE SetFile(thr[t].fex, open_file(fslot(t), Conn(t)))
    BY <1>1, <2>1, <2>3, <2>5, SameSize, SlotBalanced DEF fslot
  <2>6. QED
    BY <1>6, <2>4, <2>5 DEF ReadNWasClosed, ReadNOpen, ReadNRead, ReadNName
<1>7. QED
  BY <1>4, <1>5, <1>6 DEF ReadNSteps

\* So is do_close_connection: it closes.
LEMMA CloseConnBalanced ==
  ASSUME BaseInv, NEW t \in Workers, CloseConnSteps(t)
  PROVE  Balanced(t)
<1> USE DEF InFlightPcs, UnbookedClosePcs, UnbookedRemovePcs
<1>1. current_storage \in Int
  BY DEF BaseInv, TypeOK
<1>2. CConnNext(t) => thr'[t].pc \notin InFlightPcs
  BY Moved DEF CConnNext
<1>3. CASE CConnBook(t)
  BY <1>2, <1>3, BookBalanced DEF CConnBook, At
<1>4. CASE CConnClose(t)
  <2>1. current_storage' = current_storage /\ thr[t].pc \notin InFlightPcs
    BY <1>4 DEF CConnClose, counters, At
  <2>2. QED
    BY <1>4, <2>1, CloseSlotBalanced DEF CConnClose
<1>5. CASE CConnCheck(t) \/ CConnRemove(t)
  <2>1. /\ current_storage' = current_storage /\ files' = files
        /\ thr[t].pc \notin InFlightPcs /\ thr'[t].pc \notin InFlightPcs
    BY <1>2, <1>5, Moved, IdleType DEF CConnCheck, CConnRemove, counters, At
  <2>2. InFlight(t) = 0 /\ InFlight(t)' = 0
    BY <2>1, InFlightType, InFlightMoved
  <2>3. QED
    BY <1>1, <2>1, <2>2, QuietBalanced
<1>6. QED
  BY <1>3, <1>4, <1>5 DEF CloseConnSteps

\* Every handler step is balanced.
LEMMA HandlerBalanced ==
  ASSUME BaseInv, EvictorExclusive, VictimOpen, NEW t \in Workers, HandlerStep(t)
  PROVE  Balanced(t)
<1>1. CASE HandlerFailed(t)
  <2>1. /\ current_storage' = current_storage /\ current_storage \in Int /\ files' = files
        /\ thr[t].pc \notin InFlightPcs
    BY <1>1 DEF HandlerFailed, counters, At, InFlightPcs, UnbookedClosePcs, UnbookedRemovePcs,
       BaseInv, TypeOK
  <2>2. QED
    BY <1>1, <2>1, InFlightType, InFlightMoved, QuietBalanced DEF HandlerFailed
<1>2. QED
  BY <1>1, ScanBalanced, CreateBalanced, SimpleBalanced, RemoveBalanced, WriteBalanced,
     EvictBalanced, ReadNBalanced, CloseConnBalanced DEF HandlerStep

\* With the sums taken over all slots and all workers, the counter agrees with
\* them before and after.
LEMMA AccountingStep ==
  ASSUME IInv, StorageAccounting, NEW t \in Workers, HandlerStep(t)
  PROVE  StorageAccounting'
<1>1. BaseInv /\ BaseInv'
  BY HandlerBase DEF IInv, BaseInv
<1>2. PICK i \in Slots :
        /\ \A j \in Slots \ {i} : files'[j] = files[j]
        /\ current_storage' = current_storage + (get_size(files'[i]) - get_size(files[i]))
                                 + (InFlight(t)' - InFlight(t))
  BY <1>1, HandlerBalanced DEF IInv, Balanced
<1>3. /\ IsFiniteSet(Slots) /\ IsFiniteSet(Workers)
  BY StorageAssumption, FS_Interval DEF Slots
<1> DEFINE F == [j \in Slots |-> get_size(files[j])]
           G == [j \in Slots |-> get_size(files'[j])]
           P == [u \in Workers |-> InFlight(u)]
           Q == [u \in Workers |-> InFlight(u)']
<1>4. F \in [Slots -> Int] /\ G \in [Slots -> Int]
  <2>1. \A j \in Slots : get_size(files[j]) \in Int
    BY <1>1, SizeOfSlot
  <2>2. \A j \in Slots : get_size(files'[j]) \in Int
    BY <1>1 DEF BaseInv, TypeOK, FileType, get_size
  <2>3. QED
    BY <2>1, <2>2
<1>5. P \in [Workers -> Int] /\ Q \in [Workers -> Int]
  <2>1. \A u \in Workers : InFlight(u) \in Int
    BY <1>1, InFlightType
  <2>2. \A u \in Workers : u # t => InFlight(u)' = InFlight(u)
    BY <1>1, OthersKeep DEF InFlight, Req
  <2>3. InFlight(t)' \in Int
    <3>1. thr'[t].req \in Requests \union {NoRequest} /\ thr'[t].size \in Nat
      BY <1>1 DEF BaseInv, TypeOK, ThreadType
    <3>2. thr'[t].req.size \in Nat
      BY <3>1, RequestAssumption DEF RequestType, NoRequest
    <3>3. QED
      BY <3>1, <3>2 DEF InFlight, Req
  <2>4. QED
    BY <2>1, <2>2, <2>3
<1>6. \A u \in Workers \ {t} : Q[u] = P[u]
  BY <1>1, OthersKeep DEF InFlight, Req
<1>7. SumFunction(G) = SumFunction(F) + G[i] - F[i] /\ SumFunction(F) \in Int
  BY <1>2, <1>3, <1>4, SumChange, SumType
<1>8. SumFunction(Q) = SumFunction(P) + Q[t] - P[t] /\ SumFunction(P) \in Int
  <2> HIDE DEF P, Q
  <2>1. QED
    BY <1>3, <1>5, <1>6, SumChange, SumType
<1>9. current_storage = SumFunction(F) + SumFunction(P)
  BY DEF StorageAccounting, FileBytes, InFlightBytes
<1>10. /\ F[i] = get_size(files[i]) /\ G[i] = get_size(files'[i])
       /\ P[t] = InFlight(t) /\ Q[t] = InFlight(t)'
       /\ F[i] \in Int /\ G[i] \in Int /\ P[t] \in Int /\ Q[t] \in Int
  BY <1>4, <1>5
<1>11. (StorageAccounting)' <=> current_storage' = SumFunction(G) + SumFunction(Q)
  BY DEF StorageAccounting, FileBytes, InFlightBytes
<1> HIDE DEF F, G, P, Q
<1>12. current_storage' = SumFunction(G) + SumFunction(Q)
  BY <1>2, <1>7, <1>8, <1>9, <1>10
<1>13. QED
  BY <1>11, <1>12

----------------------------------------------------------------------------
(* Files: a handler step that creates or removes one leaves its worker at  *)
(* a label where it is still to be counted, and the next step counts it.   *)

\* The labels where current_files is behind.
CountPcs == {"count_file"} \union UnbookedRemovePcs

\* What a step of worker t does to the files and their counter.
FilesBooked(t) ==
    \/ /\ Existing' = Existing /\ current_files' = current_files
       /\ thr[t].pc \notin CountPcs /\ thr'[t].pc \notin CountPcs
    \/ \E i \in Slots \ Existing :
          /\ Existing' = Existing \union {i} /\ current_files' = current_files
          /\ thr[t].pc \notin CountPcs /\ thr'[t].pc = "count_file"
    \/ \E i \in Existing :
          /\ Existing' = Existing \ {i} /\ current_files' = current_files
          /\ thr[t].pc \notin CountPcs /\ thr'[t].pc \in UnbookedRemovePcs
    \/ /\ Existing' = Existing /\ current_files' = current_files + 1
       /\ thr[t].pc = "count_file" /\ thr'[t].pc \notin CountPcs
    \/ /\ Existing' = Existing /\ current_files' = current_files - 1
       /\ thr[t].pc \in UnbookedRemovePcs /\ thr'[t].pc \notin CountPcs

\* Writing a slot changes the set of files by that slot at most.
LEMMA ExistingChange ==
  ASSUME BaseInv, NEW i \in Slots, files' = [files EXCEPT ![i] = files'[i]]
  PROVE  /\ (is_existing_file(files[i]) <=> is_existing_file(files'[i])) => Existing' = Existing
         /\ is_existing_file(files'[i]) => Existing' = Existing \union {i}
         /\ ~is_existing_file(files'[i]) => Existing' = Existing \ {i}
<1>1. \A j \in Slots \ {i} : files'[j] = files[j]
  BY DEF BaseInv, TypeOK
<1>2. \A j \in Slots \ {i} : is_existing_file(files[j]) <=> is_existing_file(files'[j])
  BY <1>1
<1>3. Existing' = {j \in Slots : is_existing_file(files'[j])}
  BY DEF Existing
<1>4. QED
  BY <1>2, <1>3 DEF Existing

\* Away from creation, removal and eviction the set of files stays.
LEMMA PlainExisting ==
  ASSUME BaseInv, EvictorExclusive, NEW t \in Workers, HandlerStep(t),
         thr[t].pc \notin {"create_file", "remove_file", "evict_force"} \union EvictHoldPcs
  PROVE  Existing' = Existing
<1>1. CASE files' = files
  BY <1>1 DEF Existing
<1>2. CASE files' # files
  <2>1. PICK i \in Slots : ChangesOnly(i) /\ UsesIn(t, i)
    BY <1>2, HandlerFileFrame DEF FileFrame, CreatesIn, ForcesIn, EvictsIn, Holds, At
  <2>2. is_existing_file(files[i]) /\ files'[i].owner \in {OWNER_NULL, Conn(t)}
    BY <2>1 DEF UsesIn, At
  <2>3. is_existing_file(files'[i])
    BY <2>2, HandlerBusy, BusyConn, OwnerAssumption DEF is_existing_file, SpecialOwners
  <2>4. QED
    BY <2>1, <2>2, <2>3, ExistingChange DEF ChangesOnly
<1>3. QED
  BY <1>1, <1>2

\* The steps that neither create, remove nor evict book no file.
LEMMA PlainBooked ==
  ASSUME BaseInv, EvictorExclusive, VictimOpen, NEW t \in Workers, HandlerStep(t),
         ~CreateSteps(t), ~RemoveSteps(t), ~EvictSteps(t)
  PROVE  FilesBooked(t)
<1> USE DEF CountPcs, UnbookedRemovePcs
<1>1. current_files' = current_files
  <2>1. FileScan(t) \/ SimpleSteps(t) \/ WriteSteps(t) => current_files' = current_files
    BY DEF counters, FileScan, GetFile, CheckName, EmptySlot, SimpleSteps, OpenFile, CloseFile,
       CloseBook, ReadFile, LockFile, UnlockFile, WriteSteps, CheckCapacity, Reserve, Apply, Release, Refuse
  <2>2. ReadNSteps(t) \/ CloseConnSteps(t) \/ HandlerFailed(t) => current_files' = current_files
    BY DEF counters, ReadNSteps, ReadNWasClosed, ReadNOpen, ReadNRead, ReadNClose, ReadNBook,
       ReadNName, CloseConnSteps, CConnCheck, CConnClose, CConnBook, CConnRemove, HandlerFailed
  <2>3. QED
    BY <2>1, <2>2 DEF HandlerStep
<1>2. \/ ScanFlow(t) \/ SimpleFlow(t) \/ WriteFlow(t) \/ ReadNFlow(t) \/ CloseConnFlow(t)
      \/ thr'[t] = IdleThread /\ At(t, "failed")
  BY ScanFlows, SimpleFlows, WriteFlows, ReadNFlows, CloseConnFlows, Moved
     DEF HandlerStep, HandlerFailed
<1>3. /\ thr[t].pc \notin {"create_file", "remove_file", "evict_force"} \union EvictHoldPcs
      /\ thr[t].pc \notin CountPcs /\ thr'[t].pc \notin CountPcs
  BY <1>2, IdleType DEF ScanFlow, SimpleFlow, WriteFlow, ReadNFlow, CloseConnFlow, ScanPcs,
     SlotPcs, SimplePcs, WritePcs, ReadNPcs, ClosingPcs, CloseConnPcs, EvictHoldPcs, At
<1>4. QED
  BY <1>1, <1>3, PlainExisting DEF FilesBooked

\* _open_file_create puts one file in the table, then counts it.
LEMMA CreateBooked ==
  ASSUME BaseInv, EvictorExclusive, NEW t \in Workers, HandlerStep(t), CreateSteps(t)
  PROVE  FilesBooked(t)
<1> USE DEF CountPcs, UnbookedRemovePcs
<1>1. CASE CreateFile(t) /\ ~is_existing_file(fslot(t))
  <2>1. /\ SetFile(thr[t].fex, create_file_struct(fslot(t), Req(t).name, OpenOwner(t)))
        /\ Goto(t, "count_file") /\ At(t, "create_file") /\ current_files' = current_files
    BY <1>1 DEF CreateFile, counters
  <2>2. thr[t].fex \in Slots \ Existing
    BY <1>1, NextSlot DEF Existing, fslot, BaseInv
  <2>3. /\ thr'[t].pc = "count_file" /\ thr[t].pc \notin CountPcs
        /\ files' = [files EXCEPT ![thr[t].fex] = files'[thr[t].fex]]
        /\ files'[thr[t].fex].owner = OpenOwner(t)
    BY <2>1, <2>2, Moved, ZenonT(30) DEF At, SetFile, create_file_struct, fslot, BaseInv, TypeOK, FileType
  <2>4. OpenOwner(t) # OWNER_NEXIST
    BY <2>1, BusyConn, OwnerAssumption DEF At, SpecialOwners
  <2>5. Existing' = Existing \union {thr[t].fex}
    BY <2>2, <2>3, <2>4, ExistingChange DEF is_existing_file
  <2>6. QED
    BY <2>1, <2>2, <2>3, <2>5 DEF FilesBooked
<1>2. CASE CreateFile(t) /\ is_existing_file(fslot(t))
  <2>1. /\ files' = files /\ current_files' = current_files
        /\ thr[t].pc \notin CountPcs /\ thr'[t].pc \notin CountPcs
    BY <1>2, Moved, IdleType DEF CreateFile, counters, At
  <2>2. Existing' = Existing
    BY <2>1 DEF Existing
  <2>3. QED
    BY <2>1, <2>2 DEF FilesBooked
<1>3. CASE CountFile(t)
  <2>1. /\ files' = files /\ current_files' = current_files + 1
        /\ thr[t].pc = "count_file" /\ thr'[t].pc \notin CountPcs
    BY <1>3, Moved DEF CountFile, At
  <2>2. Existing' = Existing
    BY <2>1 DEF Existing
  <2>3. QED
    BY <2>1, <2>2 DEF FilesBooked
<1>4. CASE CreateOpen(t)
  <2>1. /\ current_files' = current_files /\ At(t, "create_open")
        /\ thr'[t].pc \notin CountPcs
    BY <1>4, Moved, IdleType DEF CreateOpen, Fail, counters
  <2>2. Existing' = Existing
    BY <2>1, PlainExisting DEF At, EvictHoldPcs
  <2>3. QED
    BY <2>1, <2>2 DEF FilesBooked, At
<1>5. QED
  BY <1>1, <1>2, <1>3, <1>4 DEF CreateSteps

\* A slot that is emptied is one file less.
LEMMA EmptiedSlot ==
  ASSUME BaseInv, NEW i \in Slots, is_existing_file(files[i]), SetFile(i, EmptyFile)
  PROVE  i \in Existing /\ Existing' = Existing \ {i}
<1>1. files' = [files EXCEPT ![i] = files'[i]] /\ files'[i] = EmptyFile
  BY DEF SetFile, BaseInv, TypeOK
<1>2. ~is_existing_file(files'[i])
  BY <1>1 DEF is_existing_file, EmptyFile
<1>3. QED
  BY <1>1, <1>2, ExistingChange DEF Existing

\* do_remove_file takes one file out of the table, then off the count.
LEMMA RemoveBooked ==
  ASSUME BaseInv, EvictorExclusive, NEW t \in Workers, HandlerStep(t), RemoveSteps(t)
  PROVE  FilesBooked(t)
<1> USE DEF CountPcs, UnbookedRemovePcs
<1>1. CASE RemoveFile(t) /\ CanRemove(fslot(t), Conn(t))
  <2>1. /\ SetFile(thr[t].fex, EmptyFile) /\ current_files' = current_files
        /\ thr[t].pc \notin CountPcs
        /\ thr' = [thr EXCEPT ![t].pc = "remove_book", ![t].size = get_size(fslot(t))]
        /\ is_existing_file(fslot(t)) /\ thr[t].fex \in Slots
    BY <1>1, NextSlot DEF RemoveFile, counters, CanRemove, is_locked_file, At, BaseInv
  <2>2. thr'[t].pc = "remove_book"
    BY <2>1, Moved
  <2>3. thr[t].fex \in Existing /\ Existing' = Existing \ {thr[t].fex}
    BY <2>1, EmptiedSlot DEF fslot
  <2>4. QED
    BY <2>1, <2>2, <2>3 DEF FilesBooked
<1>2. CASE RemoveCheck(t) \/ (RemoveFile(t) /\ ~CanRemove(fslot(t), Conn(t)))
  <2>1. /\ files' = files /\ current_files' = current_files
        /\ thr[t].pc \notin CountPcs /\ thr'[t].pc \notin CountPcs
    BY <1>2, Moved, IdleType DEF RemoveCheck, RemoveFile, counters, At
  <2>2. Existing' = Existing
    BY <2>1 DEF Existing
  <2>3. QED
    BY <2>1, <2>2 DEF FilesBooked
<1>3. CASE RemoveBook(t)
  <2>1. /\ files' = files /\ current_files' = current_files - 1
        /\ thr[t].pc \in UnbookedRemovePcs /\ thr'[t].pc \notin CountPcs
    BY <1>3, Moved, IdleType DEF RemoveBook, At
  <2>2. Existing' = Existing
    BY <2>1 DEF Existing
  <2>3. QED
    BY <2>1, <2>2 DEF FilesBooked
<1>4. QED
  BY <1>1, <1>2, <1>3 DEF RemoveSteps

\* So does an eviction.
LEMMA EvictBooked ==
  ASSUME BaseInv, EvictorExclusive, VictimOpen, NEW t \in Workers, HandlerStep(t), EvictSteps(t)
  PROVE  FilesBooked(t)
<1> DEFINE f == vslot(t)
           i == thr[t].victim
<1> USE DEF CountPcs, UnbookedRemovePcs
<1>1. i \in Slots /\ EvictFlow(t)
  BY NextSlot, EvictFlows DEF BaseInv
<1>2. CASE EvictBook(t)
  <2>1. /\ files' = files /\ current_files' = current_files - 1
        /\ thr[t].pc \in UnbookedRemovePcs /\ thr'[t].pc \notin CountPcs
    BY <1>2, EvictLeft DEF EvictBook, At
  <2>2. Existing' = Existing
    BY <2>1 DEF Existing
  <2>3. QED
    BY <2>1, <2>2 DEF FilesBooked
<1>3. CASE ~EvictBook(t)
  <2>1. current_files' = current_files /\ thr[t].pc \notin CountPcs
    BY <1>3 DEF EvictSteps, EvictPick, EvictName, EvictSize, EvictUsage, EvictChoose, EvictNone,
       EvictForce, EvictOpen, EvictRemove, counters, At
  <2>2. CASE thr'[t].pc = "evict_book"
    <3>1. EvictRemove(t) /\ CanRemove(f, OWNER_ADMIN)
      <4>1. ~EvictPick(t)
        BY <2>2 DEF EvictPick, BaseInv, TypeOK, ThreadType
      <4>2. QED
        BY <1>3, <2>2, <4>1, Moved, EvictLeft
           DEF EvictSteps, EvictName, EvictSize, EvictUsage, EvictNone, EvictForce, EvictOpen,
               EvictRemove, Fail
    <3>2. SetFile(i, EmptyFile) /\ is_existing_file(f)
      BY <3>1, <2>2, Moved DEF EvictRemove, Fail, CanRemove, is_locked_file
    <3>3. i \in Existing /\ Existing' = Existing \ {i}
      BY <1>1, <3>2, EmptiedSlot DEF vslot
    <3>4. QED
      BY <2>1, <2>2, <3>3 DEF FilesBooked
  <2>3. CASE thr'[t].pc # "evict_book"
    <3>1. thr'[t].pc \notin CountPcs
      BY <1>1, <2>3 DEF EvictFlow, EvictingPcs, EvictPickPcs, EvictHoldPcs
    <3>2. CASE files' = files
      BY <2>1, <3>1, <3>2 DEF FilesBooked, Existing
    <3>3. CASE files' # files
      <4>1. ChangesOnly(i) /\ (ForcesIn(t, i) \/ EvictsIn(t, i))
        BY <1>1, <3>3 DEF EvictFlow
      <4>2. files'[i].owner = OWNER_ADMIN /\ is_existing_file(files[i])
        BY <1>1, <2>3, <4>1, OwnerAssumption
           DEF ForcesIn, EvictsIn, force_owner, BaseInv, TypeOK, FileType, is_existing_file
      <4>3. is_existing_file(files'[i])
        BY <4>2, OwnerAssumption DEF is_existing_file
      <4>4. Existing' = Existing
        BY <1>1, <4>1, <4>2, <4>3, ExistingChange DEF ChangesOnly
      <4>5. QED
        BY <2>1, <3>1, <4>4 DEF FilesBooked
    <3>4. QED
      BY <3>2, <3>3
  <2>4. QED
    BY <2>2, <2>3
<1>4. QED
  BY <1>2, <1>3

\* Every handler step books its files.
LEMMA HandlerBooked ==
  ASSUME BaseInv, EvictorExclusive, VictimOpen, NEW t \in Workers, HandlerStep(t)
  PROVE  FilesBooked(t)
  BY PlainBooked, CreateBooked, RemoveBooked, EvictBooked

\* The counter agrees with the files before and after.
LEMMA FileAccountingStep ==
  ASSUME IInv, FileAccounting, NEW t \in Workers, HandlerStep(t)
  PROVE  FileAccounting'
<1>1. FilesBooked(t) /\ \A u \in Workers : u # t => thr'[u] = thr[u]
  BY HandlerBooked, OthersKeep DEF IInv, BaseInv
<1>2. /\ IsFiniteSet(Existing) /\ IsFiniteSet(Counting) /\ IsFiniteSet(Uncounting)
      /\ Cardinality(Existing) \in Nat /\ Cardinality(Counting) \in Nat
      /\ Cardinality(Uncounting) \in Nat /\ current_files \in Int
  <2>1. IsFiniteSet(Slots) /\ IsFiniteSet(Workers)
    BY StorageAssumption, FS_Interval DEF Slots
  <2>2. IsFiniteSet(Existing) /\ IsFiniteSet(Counting) /\ IsFiniteSet(Uncounting)
    BY <2>1, FS_Subset DEF Existing, Counting, Uncounting
  <2>3. QED
    BY <2>2, FS_CardinalityType DEF IInv, TypeOK
<1>3. /\ Counting' = {u \in Workers : thr'[u].pc = "count_file"}
      /\ Uncounting' = {u \in Workers : thr'[u].pc \in UnbookedRemovePcs}
  BY DEF Counting, Uncounting, At
<1>4. /\ thr'[t].pc = "count_file" => Counting' = Counting \union {t}
      /\ thr'[t].pc # "count_file" => Counting' = Counting \ {t}
      /\ thr'[t].pc \in UnbookedRemovePcs => Uncounting' = Uncounting \union {t}
      /\ thr'[t].pc \notin UnbookedRemovePcs => Uncounting' = Uncounting \ {t}
      /\ t \in Counting <=> thr[t].pc = "count_file"
      /\ t \in Uncounting <=> thr[t].pc \in UnbookedRemovePcs
  BY <1>1, <1>3 DEF Counting, Uncounting, At
<1>5. "count_file" \notin UnbookedRemovePcs
  BY DEF UnbookedRemovePcs
<1> DEFINE e == Cardinality(Existing)
           a == Cardinality(Counting)
           r == Cardinality(Uncounting)
<1>6. /\ thr[t].pc \notin CountPcs /\ thr'[t].pc \notin CountPcs
         => Counting' = Counting /\ Uncounting' = Uncounting
      /\ thr[t].pc \notin CountPcs /\ thr'[t].pc = "count_file"
         => Cardinality(Counting') = a + 1 /\ Uncounting' = Uncounting
      /\ thr[t].pc \notin CountPcs /\ thr'[t].pc \in UnbookedRemovePcs
         => Counting' = Counting /\ Cardinality(Uncounting') = r + 1
      /\ thr[t].pc = "count_file" /\ thr'[t].pc \notin CountPcs
         => Cardinality(Counting') = a - 1 /\ Uncounting' = Uncounting
      /\ thr[t].pc \in UnbookedRemovePcs /\ thr'[t].pc \notin CountPcs
         => Counting' = Counting /\ Cardinality(Uncounting') = r - 1
  <2>1. /\ t \notin Counting => Cardinality(Counting \union {t}) = a + 1
        /\ t \notin Uncounting => Cardinality(Uncounting \union {t}) = r + 1
        /\ t \in Counting => Cardinality(Counting \ {t}) = a - 1
        /\ t \in Uncounting => Cardinality(Uncounting \ {t}) = r - 1
    BY <1>2, FS_AddElement, FS_RemoveElement
  <2>2. /\ t \notin Counting => Counting \ {t} = Counting
        /\ t \notin Uncounting => Uncounting \ {t} = Uncounting
    OBVIOUS
  <2> HIDE DEF a, r
  <2>3. QED
    BY <1>4, <1>5, <2>1, <2>2 DEF CountPcs
<1>7. /\ \A i \in Slots \ Existing : Cardinality(Existing \union {i}) = e + 1
      /\ \A i \in Existing : Cardinality(Existing \ {i}) = e - 1
  BY <1>2, FS_AddElement, FS_RemoveElement
<1>8. current_files' = Cardinality(Existing') + Cardinality(Uncounting') - Cardinality(Counting')
  <2>1. current_files = e + r - a /\ e \in Nat /\ a \in Nat /\ r \in Nat
    BY <1>2 DEF FileAccounting
  <2> HIDE DEF e, a, r
  <2>2. Cardinality(Existing) = e /\ Cardinality(Counting) = a /\ Cardinality(Uncounting) = r
    BY DEF e, a, r
  <2>3. QED
    BY <1>1, <1>6, <1>7, <2>1, <2>2 DEF FilesBooked
<1>9. QED
  BY <1>8 DEF FileAccounting

----------------------------------------------------------------------------
(* The accounting holds for ever.                                          *)

\* A worker that starts a request has nothing in flight before or after, and
\* changes neither the table nor the counters.
LEMMA StartsAccounting ==
  ASSUME BaseInv, NEW t \in Workers, Starts(t)
  PROVE  /\ UNCHANGED <<files, counters>>
         /\ thr[t].pc = "idle"
         /\ thr'[t].pc \in {"get_file", "readn_wasclosed", "cconn_check"}
         /\ \A u \in Workers : u # t => thr'[u] = thr[u]
<1>1. PICK c \in clients, r \in Requests,
           l \in {"get_file", "readn_wasclosed", "cconn_check"} :
             thr' = [thr EXCEPT ![t] = [IdleThread EXCEPT !.pc = l, !.conn = c, !.req = r]]
  BY DEF Starts
<1> DEFINE s == [IdleThread EXCEPT !.pc = l, !.conn = c, !.req = r]
<1>2. s.pc = l
  BY DEF IdleThread
<1>3. thr'[t] = s /\ \A u \in Workers : u # t => thr'[u] = thr[u]
  BY <1>1 DEF BaseInv, TypeOK
<1>4. QED
  BY <1>2, <1>3 DEF Starts, At, counters

\* Steps that are not a handler's leave the accounts as they are.
LEMMA OtherAccounting ==
  ASSUME IInv, StorageAccounting, FileAccounting,
         \/ \E c \in Conns : AddClient(c)
         \/ \E t \in Workers : Receive(t)
         \/ UNCHANGED vars
  PROVE  StorageAccounting' /\ FileAccounting'
<1> DEFINE Same == /\ UNCHANGED <<files, counters>>
                   /\ \A u \in Workers : InFlight(u)' = InFlight(u)
                   /\ \A u \in Workers : thr'[u].pc = thr[u].pc
                         \/ (thr[u].pc \notin CountPcs /\ thr'[u].pc \notin CountPcs)
<1>1. BaseInv
  BY DEF IInv, BaseInv
<1>2. ASSUME UNCHANGED <<files, counters, thr>> PROVE Same
  BY <1>2 DEF InFlight, Req
<1>3. ASSUME NEW t \in Workers, Receive(t) PROVE Same
  <2>1. /\ UNCHANGED <<files, counters>> /\ thr[t].pc = "idle"
        /\ thr'[t].pc \in {"get_file", "readn_wasclosed", "cconn_check"}
        /\ \A u \in Workers : u # t => thr'[u] = thr[u]
    BY <1>1, <1>3, ReceiveStarts, StartsAccounting
  <2>2. /\ thr[t].pc \notin InFlightPcs \union CountPcs
        /\ thr'[t].pc \notin InFlightPcs \union CountPcs
    BY <2>1 DEF InFlightPcs, CountPcs, UnbookedClosePcs, UnbookedRemovePcs
  <2>3. InFlight(t)' = InFlight(t)
    BY <1>1, <2>2, InFlightType, InFlightMoved
  <2>4. QED
    BY <2>1, <2>2, <2>3 DEF InFlight, Req
<1>4. Same
  BY <1>2, <1>3 DEF AddClient, vars
<1>5. StorageAccounting'
  <2>1. FileBytes' = FileBytes /\ InFlightBytes' = InFlightBytes
    BY <1>4 DEF FileBytes, InFlightBytes
  <2>2. StorageAccounting' <=> current_storage' = SumFunction(FileBytes') + SumFunction(InFlightBytes')
    BY DEF StorageAccounting
  <2>3. QED
    BY <1>4, <2>1, <2>2 DEF StorageAccounting, counters
<1>6. FileAccounting'
  <2>1. Existing' = Existing /\ Counting' = Counting /\ Uncounting' = Uncounting
    BY <1>4 DEF Existing, Counting, Uncounting, At, CountPcs
  <2>2. QED
    BY <1>4, <2>1 DEF FileAccounting, counters
<1>7. QED
  BY <1>5, <1>6

\* Both counters are exact in the empty table.
LEMMA InitAccounting == Init => StorageAccounting /\ FileAccounting
<1> SUFFICES ASSUME Init PROVE StorageAccounting /\ FileAccounting
  OBVIOUS
<1>1. /\ \A i \in Slots : files[i] = EmptyFile
      /\ \A t \in Workers : thr[t] = IdleThread
      /\ current_storage = 0 /\ current_files = 0
  BY DEF Init
<1>2. IsFiniteSet(Slots) /\ IsFiniteSet(Workers)
  BY StorageAssumption, FS_Interval DEF Slots
<1>3. SumFunction(FileBytes) = 0
  <2>1. FileBytes \in [Slots -> Int] /\ \A i \in Slots : FileBytes[i] = 0
    BY <1>1, EmptyConsistent DEF FileBytes
  <2>2. QED
    BY <1>2, <2>1, SumZero
<1>4. SumFunction(InFlightBytes) = 0
  <2>1. InFlightBytes \in [Workers -> Int] /\ \A t \in Workers : InFlightBytes[t] = 0
    BY <1>1, IdleType DEF InFlightBytes, InFlight, UnbookedClosePcs, UnbookedRemovePcs
  <2>2. QED
    BY <1>2, <2>1, SumZero
<1>5. Existing = {} /\ Counting = {} /\ Uncounting = {}
  BY <1>1, IdleType DEF Existing, Counting, Uncounting, is_existing_file, EmptyFile, At,
     UnbookedRemovePcs
<1>6. Cardinality(Existing) = 0 /\ Cardinality(Counting) = 0 /\ Cardinality(Uncounting) = 0
  BY <1>5, FS_EmptySet
<1>7. QED
  BY <1>1, <1>3, <1>4, <1>6 DEF StorageAccounting, FileAccounting

\* No step puts a counter out of step with the table.
LEMMA Accounting == Spec => [](StorageAccounting /\ FileAccounting)
<1>1. IInv /\ StorageAccounting /\ FileAccounting /\ [Next]_vars
        => StorageAccounting' /\ FileAccounting'
  BY AccountingStep, FileAccountingStep, OtherAccounting DEF Next, WorkerStep
<1>2. QED
  BY <1>1, InitAccounting, Invariance, PTL DEF Spec

\* Any number of workers: current_storage is the bytes of the files and those
\* in flight, on every path of every handler.
THEOREM StorageAccounted == Spec => []StorageAccounting
  BY Accounting, PTL

\* Any number of workers: current_files is the number of files, up to those
\* being counted.
THEOREM FilesAccounted == Spec => []FileAccounting
  BY Accounting, PTL

----------------------------------------------------------------------------
(* The limit: what the workers have found room for and not reserved yet.   *)

\* Which steps move current_storage, and where the worker is then.
StorageFlow(t) ==
    \/ /\ At(t, "check_capacity") /\ current_storage' = current_storage
       /\ thr'[t].pc = "reserve" => Fits(Req(t).size)
    \/ /\ At(t, "reserve") /\ current_storage' = current_storage + Req(t).size
       /\ thr'[t].pc # "reserve"
    \/ /\ current_storage' =< current_storage
       /\ thr'[t].pc # "reserve"

\* A worker in the middle of a write takes a step of it.
LEMMA WriteAt ==
  ASSUME BaseInv, NEW t \in Workers, HandlerStep(t), thr[t].pc \in WritePcs
  PROVE  WriteSteps(t)
<1> SUFFICES ASSUME ~WriteSteps(t) PROVE FALSE
  OBVIOUS
<1>1. ~EvictSteps(t)
  BY DEF EvictSteps, EvictPick, EvictChoose, EvictNone, EvictName, EvictSize, EvictUsage,
     EvictForce, EvictOpen,
     EvictRemove, EvictBook, WritePcs, At
<1>2. ~HandlerFailed(t)
  BY DEF HandlerFailed, WritePcs, At
<1>3. QED
  BY <1>1, <1>2, ScanFlows, CreateFlows, SimpleFlows, RemoveFlows, ReadNFlows, CloseConnFlows
     DEF HandlerStep, ScanFlow, CreateFlow, SimpleFlow, RemoveFlow, ReadNFlow, CloseConnFlow,
         WritePcs, ScanPcs, CreatePcs, SimplePcs, RemovePcs, ReadNPcs, ClosingPcs, CloseConnPcs

\* A worker in the middle of a scan takes a step of it.
LEMMA ScanAt ==
  ASSUME BaseInv, NEW t \in Workers, HandlerStep(t), thr[t].pc \in ScanPcs
  PROVE  FileScan(t)
<1> SUFFICES ASSUME ~FileScan(t) PROVE FALSE
  OBVIOUS
<1>1. ~EvictSteps(t)
  BY DEF EvictSteps, EvictPick, EvictChoose, EvictNone, EvictName, EvictSize, EvictUsage,
     EvictForce, EvictOpen, EvictRemove, EvictBook, ScanPcs, At
<1>2. ~HandlerFailed(t)
  BY DEF HandlerFailed, ScanPcs, At
<1>3. QED
  BY <1>1, <1>2, CreateFlows, SimpleFlows, RemoveFlows, WriteFlows, ReadNFlows, CloseConnFlows
     DEF HandlerStep, CreateFlow, SimpleFlow, RemoveFlow, WriteFlow, ReadNFlow, CloseConnFlow,
         WritePcs, ScanPcs, CreatePcs, SimplePcs, RemovePcs, ReadNPcs, ClosingPcs, CloseConnPcs

\* What each step of a handler does to current_storage.
LEMMA StorageFlows ==
  ASSUME BaseInv, EvictorExclusive, VictimOpen, NEW t \in Workers, HandlerStep(t)
  PROVE  StorageFlow(t)
<1> USE DEF counters
<1>1. current_storage \in Int /\ thr[t].size \in Nat /\ Req(t).size \in Nat
  BY HandlerBusy, BusyConn DEF BaseInv, TypeOK, ThreadType
<1>2. CASE CheckCapacity(t)
  BY <1>2, Moved DEF CheckCapacity, StorageFlow
<1>3. CASE Reserve(t)
  BY <1>3, Moved DEF Reserve, StorageFlow
<1>4. CASE ~CheckCapacity(t) /\ ~Reserve(t)
  <2>1. thr'[t].pc # "reserve"
    <3>1. CASE EvictFlow(t)
      BY <3>1 DEF EvictFlow, EvictingPcs, EvictPickPcs, EvictHoldPcs
    <3>2. CASE WriteSteps(t)
      BY <1>4, <3>2, Moved, IdleType DEF WriteSteps, Apply, Release, Refuse, Abort, Fail
    <3>3. CASE PlainFlow(t) /\ ~WriteSteps(t)
      <4>1. ~WriteFlow(t)
        BY <3>3, WriteAt DEF WriteFlow
      <4>2. QED
        BY <3>3, <4>1, IdleType
           DEF PlainFlow, ScanFlow, CreateFlow, SimpleFlow, RemoveFlow, ReadNFlow, CloseConnFlow,
               ScanPcs, SlotPcs, SimplePcs, ReadNPcs
    <3>4. QED
      BY <3>1, <3>2, <3>3, HandlerFlows
  <2>2. current_storage' =< current_storage
    <3>1. FileScan(t) \/ CreateSteps(t) \/ HandlerFailed(t) => current_storage' = current_storage
      BY DEF FileScan, GetFile, CheckName, EmptySlot, CreateSteps, CreateFile, CountFile,
         CreateOpen, HandlerFailed
    <3>2. SimpleSteps(t) \/ RemoveSteps(t) => current_storage' =< current_storage
      BY <1>1 DEF SimpleSteps, OpenFile, CloseFile, CloseBook, ReadFile, LockFile, UnlockFile,
         RemoveSteps, RemoveCheck, RemoveFile, RemoveBook, BookStorage
    <3>3. WriteSteps(t) => current_storage' =< current_storage
      BY <1>1, <1>4 DEF WriteSteps, Apply, Release, Refuse
    <3>4. EvictSteps(t) => current_storage' =< current_storage
      BY <1>1 DEF EvictSteps, EvictPick, EvictChoose, EvictNone, EvictName, EvictSize,
         EvictUsage, EvictForce, EvictOpen,
         EvictRemove, EvictBook, BookStorage
    <3>5. ReadNSteps(t) \/ CloseConnSteps(t) => current_storage' =< current_storage
      BY <1>1 DEF ReadNSteps, ReadNWasClosed, ReadNOpen, ReadNRead, ReadNClose, ReadNBook,
         ReadNName, CloseConnSteps, CConnCheck, CConnClose, CConnBook, CConnRemove, BookStorage
    <3>6. QED
      BY <1>1, <3>1, <3>2, <3>3, <3>4, <3>5 DEF HandlerStep
  <2>3. QED
    BY <2>1, <2>2 DEF StorageFlow
<1>5. QED
  BY <1>2, <1>3, <1>4

\* MaxRequest is the largest payload that is not refused outright.
LEMMA MaxRequestBounds ==
  /\ MaxRequest \in Nat /\ MaxRequest =< MaxStorage
  /\ \A q \in Requests : q.op \in PutOps /\ ~TooBig(q) => q.size =< MaxRequest
<1> DEFINE S == PutSizes \union {0}
           T == {MaxStorage - x : x \in S}
<1>1. MaxStorage \in Nat
  BY StorageAssumption
<1>2. \A x \in S : x \in Nat /\ x =< MaxStorage
  BY <1>1, RequestAssumption DEF PutSizes, TooBig, RequestType
<1>3. T \in SUBSET Nat /\ T # {}
  BY <1>1, <1>2
<1>4. PICK n \in T : \A m \in T : n =< m
  BY <1>3, Smallest
<1>5. PICK x \in S : n = MaxStorage - x
  BY <1>4
<1>6. ASSUME NEW y \in S PROVE x >= y
  <2>1. MaxStorage - y \in T
    OBVIOUS
  <2>2. MaxStorage - x =< MaxStorage - y /\ x \in Nat /\ y \in Nat
    BY <1>2, <1>4, <1>5, <2>1
  <2>3. QED
    BY <1>1, <2>2
<1>7. MaxRequest \in S /\ \A y \in S : MaxRequest >= y
  BY <1>6 DEF MaxRequest, Max
<1>8. \A q \in Requests : q.op \in PutOps /\ ~TooBig(q) => q.size \in S
  BY DEF PutSizes
<1> HIDE DEF S
<1>9. QED
  BY <1>2, <1>7, <1>8

\* The bound of BoundedOvershoot is not below zero, whatever the number of
\* workers.
LEMMA OvershootNat == MaxStorage + (Cardinality(Workers) - 1) * MaxRequest \in Nat
<1>1. /\ MaxRequest \in Nat /\ MaxStorage \in Nat /\ MaxRequest =< MaxStorage
      /\ Cardinality(Workers) \in Nat
  BY StorageAssumption, MaxRequestBounds, FS_CardinalityType
<1>2. \A n \in Nat, m \in Nat : n * m \in Nat
  OBVIOUS
<1>3. CASE Cardinality(Workers) = 0
  BY <1>1, <1>3
<1>4. CASE Cardinality(Workers) # 0
  <2>1. Cardinality(Workers) - 1 \in Nat
    BY <1>1, <1>4
  <2>2. (Cardinality(Workers) - 1) * MaxRequest \in Nat
    BY <1>1, <1>2, <2>1
  <2>3. QED
    BY <1>1, <2>2
<1>5. QED
  BY <1>3, <1>4

\* get_file hands a slot to the write only for a payload that fits at all.
LEMMA ScanRoom ==
  ASSUME BaseInv, NEW t \in Workers, FileScan(t), thr'[t].pc \in RoomPcs
  PROVE  Req(t).op \in PutOps /\ ~TooBig(Req(t))
<1> USE DEF RoomPcs, WritePcs, EvictPickPcs, EvictHoldPcs
<1>1. ~FileNotFound(t)
  BY Moved, IdleType DEF FileNotFound
<1>2. ~GetFileNext(t)
  BY <1>1, Moved DEF GetFileNext
<1>3. CheckName(t) /\ FileFound(t)
  BY <1>1, <1>2, Moved, IdleType DEF FileScan, GetFile, CheckName, EmptySlot
<1>4. ~TooBig(Req(t)) /\ Goto(t, FirstStep[Req(t).op])
  BY <1>3, Moved, IdleType DEF FileFound
<1>5. Req(t).op \in NamedOps
  BY <1>3 DEF CheckName, At, BaseInv, ScanNamed, ScanPcs
<1>6. FirstStep[Req(t).op] \in RoomPcs
  BY <1>4, Moved
<1>7. QED
  BY <1>4, <1>5, <1>6 DEF FirstStep, NamedOps, PutOps

\* A handler step makes room only for such a payload.
LEMMA RoomStep ==
  ASSUME IInv, RoomWanted, NEW t \in Workers, HandlerStep(t)
  PROVE  RoomWanted'
<1>1. BaseInv
  BY DEF IInv, BaseInv
<1>2. /\ \A u \in Workers : u # t => thr'[u] = thr[u]
      /\ thr'[t] = IdleThread \/ Req(t)' = Req(t)
  BY <1>1, OthersKeep
<1>3. ASSUME thr'[t].pc \in RoomPcs
      PROVE  Req(t).op \in PutOps /\ ~TooBig(Req(t)) /\ Req(t)' = Req(t)
  <2>1. Req(t)' = Req(t)
    BY <1>2, <1>3, IdleType DEF RoomPcs, WritePcs, EvictPickPcs, EvictHoldPcs
  <2>2. CASE thr[t].pc \in RoomPcs
    BY <2>1, <2>2 DEF RoomWanted, RoomPcs
  <2>3. CASE thr[t].pc \notin RoomPcs
    <3>1. PlainFlow(t) /\ ~WriteFlow(t)
      BY <1>1, <2>3, HandlerFlows
         DEF IInv, EvictFlow, EvictingPcs, WriteFlow, RoomPcs
    <3>2. FileScan(t)
      <4>1. ScanFlow(t)
        BY <1>3, <3>1, IdleType
           DEF PlainFlow, CreateFlow, SimpleFlow, RemoveFlow, ReadNFlow, CloseConnFlow, RoomPcs,
               ReadNPcs, WritePcs, EvictPickPcs, EvictHoldPcs
      <4>2. QED
        BY <1>1, <4>1, ScanAt DEF ScanFlow
    <3>3. QED
      BY <1>1, <1>3, <2>1, <3>2, ScanRoom
  <2>4. QED
    BY <2>2, <2>3
<1>4. QED
  BY <1>2, <1>3 DEF RoomWanted, RoomPcs, Req

\* A worker about to reserve has a payload of MaxRequest at most.
LEMMA PendingBound ==
  ASSUME IInv, RoomWanted, NEW t \in Workers
  PROVE  Pending(t) \in Nat /\ Pending(t) =< MaxRequest
<1>1. CASE At(t, "reserve")
  <2>1. Req(t).op \in PutOps /\ ~TooBig(Req(t))
    BY <1>1 DEF RoomWanted, RoomPcs, WritePcs, At
  <2>2. Req(t) \in Requests /\ Req(t).size \in Nat
    BY <2>1, RequestAssumption
       DEF IInv, TypeOK, ThreadType, Req, NoRequest, PutOps, RequestType
  <2>3. QED
    BY <1>1, <2>1, <2>2, MaxRequestBounds DEF Pending
<1>2. CASE ~At(t, "reserve")
  BY <1>2, MaxRequestBounds DEF Pending
<1>3. QED
  BY <1>1, <1>2

\* One more worker that has found room overshoots by the others' payloads only.
LEMMA PendingStep ==
  ASSUME IInv, RoomWanted, RoomWanted', PendingBounded, IInv',
         NEW t \in Workers, HandlerStep(t)
  PROVE  PendingBounded'
<1>1. /\ BaseInv /\ IsFiniteSet(Workers) /\ Cardinality(Workers) \in Nat /\ MaxStorage \in Nat
      /\ MaxRequest \in Nat
  BY StorageAssumption, FS_CardinalityType, MaxRequestBounds DEF IInv, BaseInv
<1>2. StorageFlow(t)
  BY <1>1, StorageFlows DEF IInv
<1>3. /\ \A u \in Workers : u # t => thr'[u] = thr[u]
      /\ thr'[t] = IdleThread \/ Req(t)' = Req(t)
  BY <1>1, OthersKeep
<1> DEFINE P == [u \in Workers |-> Pending(u)]
           Q == [u \in Workers |-> Pending(u)']
           L == (Cardinality(Workers) - 1) * MaxRequest
<1>4. \A u \in Workers : Pending(u) \in Nat /\ Pending(u) =< MaxRequest
  BY PendingBound
<1>5. \A u \in Workers : u # t => Pending(u)' = Pending(u)
  BY <1>3 DEF Pending, At, Req
<1>6. /\ thr'[t].pc # "reserve" => Pending(t)' = 0
      /\ thr[t].pc # "reserve" => Pending(t) = 0
      /\ thr[t].pc = "reserve" => Pending(t) = Req(t).size
      /\ thr'[t].pc = "reserve" => Pending(t)' = Req(t).size
  BY <1>3, IdleType DEF Pending, At, Req
<1>7. Req(t).size \in Nat /\ current_storage \in Int /\ current_storage' \in Int
  BY <1>1, HandlerBusy, BusyConn, HandlerTyped DEF Typed, IInv, TypeOK
<1>8. P \in [Workers -> Int] /\ Q \in [Workers -> Int] /\ \A u \in Workers \ {t} : Q[u] = P[u]
  <2>1. Pending(t)' \in Int
    BY <1>6, <1>7
  <2>2. QED
    BY <1>4, <1>5, <2>1
<1>9. P[t] = Pending(t) /\ Q[t] = Pending(t)' /\ \A u \in Workers : P[u] =< MaxRequest
  BY <1>4
<1> HIDE DEF P, Q
<1>10. SumFunction(Q) = SumFunction(P) + Q[t] - P[t] /\ SumFunction(P) \in Int
  BY <1>1, <1>8, SumChange, SumType
<1>11. L \in Int
  BY <1>1
<1>12. current_storage + SumFunction(P) =< MaxStorage + L
  BY DEF PendingBounded, PendingBytes, P
<1>13. current_storage' + SumFunction(Q) =< MaxStorage + L
  <2> HIDE DEF L
  <2>1. CASE thr'[t].pc = "reserve"
    <3>1. current_storage' = current_storage /\ Fits(Req(t).size) /\ thr[t].pc # "reserve"
      BY <1>2, <2>1 DEF StorageFlow, At
    <3>2. P[t] = 0 /\ Q[t] = Req(t).size
      BY <1>6, <1>9, <2>1, <3>1
    <3>3. SumFunction(P) =< L
      BY <1>1, <1>8, <1>9, <3>2, SumBound DEF L
    <3>4. QED
      BY <1>1, <1>7, <1>10, <1>11, <3>1, <3>2, <3>3 DEF Fits
  <2>2. CASE thr'[t].pc # "reserve"
    <3>1. Q[t] = 0 /\ P[t] \in Nat
      BY <1>4, <1>6, <1>9, <2>2
    <3>2. current_storage' =< current_storage + P[t]
      BY <1>2, <1>6, <1>7, <1>9, <2>2, <3>1 DEF StorageFlow, At
    <3>3. QED
      BY <1>1, <1>7, <1>10, <1>11, <1>12, <3>1, <3>2
  <2>3. QED
    BY <2>1, <2>2
<1>14. PendingBounded' <=> current_storage' + SumFunction(Q) =< MaxStorage + L
  BY DEF PendingBounded, PendingBytes, Q
<1>15. QED
  BY <1>13, <1>14

\* The steps that are not a handler's reserve nothing.
LEMMA OtherPending ==
  ASSUME IInv, RoomWanted, PendingBounded,
         \/ \E c \in Conns : AddClient(c)
         \/ \E t \in Workers : Receive(t)
         \/ UNCHANGED vars
  PROVE  RoomWanted' /\ PendingBounded'
<1> DEFINE Same == /\ UNCHANGED current_storage
                   /\ \A u \in Workers :
                         \/ thr'[u] = thr[u]
                         \/ thr[u].pc \notin RoomPcs /\ thr'[u].pc \notin RoomPcs
<1>1. ASSUME NEW t \in Workers, Receive(t) PROVE Same
  <2>1. /\ UNCHANGED counters /\ thr[t].pc = "idle"
        /\ thr'[t].pc \in {"get_file", "readn_wasclosed", "cconn_check"}
        /\ \A u \in Workers : u # t => thr'[u] = thr[u]
    BY <1>1, ReceiveStarts, StartsAccounting DEF IInv, BaseInv
  <2>2. QED
    BY <2>1 DEF counters, RoomPcs, WritePcs, EvictPickPcs, EvictHoldPcs
<1>2. Same
  BY <1>1 DEF AddClient, vars, counters
<1>3. RoomWanted'
  BY <1>2 DEF RoomWanted, RoomPcs, Req
<1>4. PendingBytes' = PendingBytes
  BY <1>2 DEF PendingBytes, Pending, At, Req, RoomPcs, WritePcs
<1>5. PendingBounded' <=>
         current_storage' + SumFunction(PendingBytes')
           =< MaxStorage + (Cardinality(Workers) - 1) * MaxRequest
  BY DEF PendingBounded
<1>6. QED
  BY <1>2, <1>3, <1>4, <1>5 DEF PendingBounded

\* At the start nothing is stored and nobody is about to reserve.
LEMMA InitPending == Init => RoomWanted /\ PendingBounded
<1> SUFFICES ASSUME Init PROVE RoomWanted /\ PendingBounded
  OBVIOUS
<1>1. \A t \in Workers : thr[t] = IdleThread
  BY DEF Init
<1>2. RoomWanted
  BY <1>1, IdleType DEF RoomWanted, RoomPcs, WritePcs, EvictPickPcs,
     EvictHoldPcs
<1>3. IsFiniteSet(Workers) /\ MaxStorage \in Nat
  BY StorageAssumption
<1>4. PendingBytes \in [Workers -> Int] /\ \A t \in Workers : PendingBytes[t] = 0
  BY <1>1, IdleType DEF PendingBytes, Pending, At
<1>5. current_storage + SumFunction(PendingBytes) = 0
  BY <1>3, <1>4, SumZero DEF Init
<1>6. 0 =< MaxStorage + (Cardinality(Workers) - 1) * MaxRequest
  BY <1>3, OvershootNat
<1>7. QED
  BY <1>2, <1>5, <1>6 DEF PendingBounded

\* Both hold from the start on.
LEMMA RoomAndPending == Spec => [](IInv /\ RoomWanted /\ PendingBounded)
<1>1. IInv /\ IInv' /\ RoomWanted /\ PendingBounded /\ [Next]_vars
        => RoomWanted' /\ PendingBounded'
  BY RoomStep, PendingStep, OtherPending DEF Next, WorkerStep
<1>2. QED
  BY <1>1, InitPending, Invariance, PTL DEF Spec

\* A worker makes room only for a payload the storage can hold.
LEMMA RoomMade == Spec => []RoomWanted
  BY RoomAndPending, PTL

\* Any number of workers: the storage never exceeds its limit by more than one
\* payload for each worker but one.
THEOREM OvershootBounded == Spec => []BoundedOvershoot
<1>1. IInv /\ RoomWanted /\ PendingBounded => BoundedOvershoot
  <2> SUFFICES ASSUME IInv, RoomWanted, PendingBounded PROVE BoundedOvershoot
    OBVIOUS
  <2>1. IsFiniteSet(Workers) /\ PendingBytes \in [Workers -> Int]
        /\ \A t \in Workers : PendingBytes[t] >= 0
    BY StorageAssumption, PendingBound DEF PendingBytes
  <2>2. SumFunction(PendingBytes) \in Int /\ SumFunction(PendingBytes) >= 0
    BY <2>1, SumType, SumNonNegative
  <2>3. current_storage \in Int /\ MaxStorage + (Cardinality(Workers) - 1) * MaxRequest \in Nat
    BY OvershootNat DEF IInv, TypeOK
  <2>4. QED
    BY <2>2, <2>3 DEF PendingBounded, BoundedOvershoot
<1>2. QED
  BY <1>1, RoomAndPending, PTL
=============================================================================
