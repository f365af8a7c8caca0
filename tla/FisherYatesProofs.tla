-------------------------- MODULE FisherYatesProofs --------------------------
(***************************************************************************)
(* FisherYatesAllToAll gives a permutation of one cycle, for every size    *)
(* and every sequence of random numbers.                                   *)
(***************************************************************************)
EXTENDS FisherYates, NaturalsInduction, WellFoundedInduction, TLAPS

Entries == 0 .. Size - 1

\* Exchanging two entries of a permutation gives a permutation.
LEMMA ExchangeType ==
  ASSUME NEW a \in PermutationsOf(Size), NEW k \in Entries, NEW j \in Entries
  PROVE  Exchanged(a, k, j) \in PermutationsOf(Size)
<1>. DEFINE b == Exchanged(a, k, j)
<1>1. a \in [Entries -> Entries]
  BY DEF PermutationsOf, Entries
<1>2. b \in [Entries -> Entries]
  BY <1>1 DEF Exchanged
<1>3. \A x \in Entries : b[x] = IF x = j THEN a[k] ELSE IF x = k THEN a[j] ELSE a[x]
  BY <1>1 DEF Exchanged
<1>4. ASSUME NEW y \in Entries
      PROVE  \E x \in Entries : \A z \in Entries : b[z] = y <=> z = x
  <2>1. PICK x \in Entries : \A z \in Entries : a[z] = y <=> z = x
    BY DEF PermutationsOf, Entries
  <2>2. CASE x = j
    BY <1>3, <2>1, <2>2
  <2>3. CASE x = k
    BY <1>3, <2>1, <2>3
  <2>4. CASE x # j /\ x # k
    BY <1>3, <2>1, <2>4
  <2>. QED BY <2>2, <2>3, <2>4
<1>. QED BY <1>2, <1>4 DEF PermutationsOf, Entries

\* The step of the loop that visits entry k joins its cycle with that of an
\* entry before it, so the cycles stay open and apart.
LEMMA ExchangeCycles ==
  ASSUME NEW a \in PermutationsOf(Size), NEW k \in Entries, NEW j \in 0 .. k - 1,
         CyclesAreOpen(a, k), CyclesAreApart(a, k)
  PROVE  /\ CyclesAreOpen(Exchanged(a, k, j), k - 1)
         /\ CyclesAreApart(Exchanged(a, k, j), k - 1)
<1>. DEFINE b == Exchanged(a, k, j)
<1>1. a \in [Entries -> Entries]
  BY DEF PermutationsOf, Entries
<1>2. j \in Entries /\ j # k /\ k \in 0 .. k /\ j \in 0 .. k /\ k \in Int
  BY SizeAssumption DEF Entries
<1>3. \A x \in Entries : b[x] = IF x = j THEN a[k] ELSE IF x = k THEN a[j] ELSE a[x]
  BY <1>1, <1>2 DEF Exchanged
<1>4. \A x \in Entries : x \in Int
  BY SizeAssumption DEF Entries
<1>. HIDE DEF b
\* The cycle of k, which has no other entry up to k.
<1>5. PICK K \in SUBSET Entries :
        IsInvariant(K, a, Size) /\ K \intersect (0 .. k) = {k}
  BY <1>2 DEF CyclesAreApart, Entries
<1>6. PICK J \in SUBSET Entries :
        IsInvariant(J, a, Size) /\ J \intersect (0 .. k) = {j}
  BY <1>2 DEF CyclesAreApart, Entries
<1>7. j \notin K /\ k \in K /\ j \in J /\ k \notin J
  BY <1>2, <1>5, <1>6
<1>8. CyclesAreOpen(b, k - 1)
  <2>. SUFFICES ASSUME NEW S \in SUBSET Entries, S # {}, \A x \in S : b[x] \in S,
                       \A x \in S : ~(x <= k - 1)
                PROVE  FALSE
    BY DEF CyclesAreOpen, Entries
  <2>1. j \notin S
    BY <1>2
  <2>2. CASE k \notin S
    <3>1. \A x \in S : a[x] \in S
      BY <1>3, <2>1, <2>2
    <3>2. PICK x \in S : x <= k
      BY <3>1 DEF CyclesAreOpen, Entries
    <3>. QED BY <1>2, <1>4, <2>2, <3>2
  <2>3. CASE k \in S
    <3>. DEFINE D == S \ K
    <3>1. D \in SUBSET Entries
      OBVIOUS
    <3>2. a[j] \in D
      BY <1>2, <1>3, <1>5, <1>7, <2>3 DEF IsInvariant, Entries
    <3>3. \A x \in D : a[x] \in D
      <4>. SUFFICES ASSUME NEW x \in D PROVE a[x] \in D
        OBVIOUS
      <4>1. x # k /\ x # j
        BY <1>7, <2>1
      <4>. QED BY <1>3, <1>5, <4>1 DEF IsInvariant, Entries
    <3>4. PICK x \in D : x <= k
      <4>. HIDE DEF D
      <4>. QED BY <3>1, <3>2, <3>3 DEF CyclesAreOpen, Entries
    <3>. QED BY <1>2, <1>4, <1>7, <3>4
  <2>. QED BY <2>2, <2>3
<1>9. CyclesAreApart(b, k - 1)
  <2>. SUFFICES ASSUME NEW x \in 0 .. k - 1
                PROVE  \E S \in SUBSET Entries :
                         IsInvariant(S, b, Size) /\ S \intersect (0 .. k - 1) = {x}
    BY DEF CyclesAreApart, Entries
  <2>0. 0 .. k = (0 .. k - 1) \union {k}
    BY <1>2 DEF Entries
  <2>1. CASE x = j
    <3>1. IsInvariant(J \union K, b, Size)
      BY <1>2, <1>3, <1>5, <1>6, <1>7 DEF IsInvariant, Entries
    <3>2. (J \union K) \intersect (0 .. k - 1) = {j}
      <4>1. k \notin 0 .. k - 1
        BY <1>2
      <4>. QED BY <1>5, <1>6, <1>7, <2>0, <4>1
    <3>. QED BY <2>1, <3>1, <3>2
  <2>2. CASE x # j
    <3>1. PICK S \in SUBSET Entries :
            IsInvariant(S, a, Size) /\ S \intersect (0 .. k) = {x}
      BY <2>0 DEF CyclesAreApart, Entries
    <3>2. j \notin S /\ k \notin S
      BY <1>2, <2>2, <3>1
    <3>3. IsInvariant(S, b, Size)
      BY <1>2, <1>3, <3>1, <3>2 DEF IsInvariant, Entries
    <3>. QED BY <2>0, <3>1, <3>3
  <2>. QED BY <2>1, <2>2
<1>. QED BY <1>8, <1>9 DEF b

\* When one entry is left to visit there is one cycle.
LEMMA OneCycleLeft ==
  ASSUME NEW a \in PermutationsOf(Size), NEW k \in Int, k <= 0, CyclesAreOpen(a, k)
  PROVE  a \in Shuffles(Size)
<1>. SUFFICES ASSUME NEW S \in SUBSET Entries, S # {}, IsInvariant(S, a, Size),
                     S # Entries
              PROVE  FALSE
  BY DEF Shuffles, IsOneCycle, Entries
<1>1. \A T \in SUBSET Entries :
        T # {} /\ (\A x \in T : a[x] \in T) => 0 \in T
  <2>. SUFFICES ASSUME NEW T \in SUBSET Entries, T # {}, \A x \in T : a[x] \in T
                PROVE  0 \in T
    OBVIOUS
  <2>1. PICK x \in T : x <= k
    BY DEF CyclesAreOpen, Entries
  <2>2. x \in 0 .. Size - 1
    BY DEF Entries
  <2>. QED BY <2>1, <2>2, SizeAssumption
<1>2. \A x \in S : a[x] \in S
  BY DEF IsInvariant, Entries
<1>3. \A x \in Entries \ S : a[x] \in Entries \ S
  BY DEF IsInvariant, Entries, PermutationsOf
<1>4. 0 \in S
  BY <1>1, <1>2
<1>5. 0 \in Entries \ S
  BY <1>1, <1>3
<1>. QED BY <1>4, <1>5

\* The array starts as the identity, whose cycles are single entries.
LEMMA IdentityCycles ==
  /\ Identity \in PermutationsOf(Size)
  /\ CyclesAreOpen(Identity, Size - 1)
  /\ CyclesAreApart(Identity, Size - 1)
<1>1. \A x \in Entries : Identity[x] = x
  BY DEF Identity, Entries
<1>2. Identity \in [Entries -> Entries]
  BY DEF Identity, Entries
<1>3. Identity \in PermutationsOf(Size)
  BY <1>1, <1>2 DEF PermutationsOf, Entries
<1>4. CyclesAreOpen(Identity, Size - 1)
  <2>1. \A x \in 0 .. Size - 1 : x <= Size - 1
    BY SizeAssumption
  <2>. QED BY <2>1 DEF CyclesAreOpen
<1>5. CyclesAreApart(Identity, Size - 1)
  <2>. SUFFICES ASSUME NEW x \in Entries
                PROVE  \E S \in SUBSET Entries :
                         IsInvariant(S, Identity, Size) /\ S \intersect Entries = {x}
    BY DEF CyclesAreApart, Entries
  <2>. WITNESS {x} \in SUBSET Entries
  <2>. QED BY <1>1 DEF IsInvariant, Entries
<1>. QED BY <1>3, <1>4, <1>5

\* The loop keeps a permutation whose cycles are open and apart.
THEOREM Invariance == Spec => []IInv
<1>1. Init => IInv
  <2>. SUFFICES ASSUME Init PROVE IInv
    OBVIOUS
  <2>1. Size - 1 \in -1 .. Size - 1
    BY SizeAssumption
  <2>2. TypeOK
    BY <2>1, IdentityCycles, StreamsAssumption, MaxForeignAssumption
       DEF Init, TypeOK, Seeds
  <2>3. \A p \in Procs : /\ CyclesAreOpen(arr[p], i[p])
                         /\ CyclesAreApart(arr[p], i[p])
    BY IdentityCycles DEF Init
  <2>4. \A p \in Procs : DrawsBounded(p) /\ (pc[p] = "done" => i[p] <= 0)
    BY SizeAssumption DEF Init, DrawsBounded
  <2>. QED BY <2>2, <2>3, <2>4 DEF IInv
<1>2. IInv /\ [Next]_vars => IInv'
  <2>. SUFFICES ASSUME IInv, [Next]_vars PROVE IInv'
    OBVIOUS
  <2>. USE SizeAssumption, MaxForeignAssumption
  <2>0. TypeOK /\ \A p \in Procs : /\ CyclesAreOpen(arr[p], i[p])
                                   /\ CyclesAreApart(arr[p], i[p])
                                   /\ DrawsBounded(p)
                                   /\ pc[p] = "done" => i[p] <= 0
    BY DEF IInv
  <2>a. \A p \in Procs : /\ drawn[p] \in Nat /\ foreign[p] \in Nat /\ i[p] \in Int
                         /\ foreign[p] <= MaxForeign /\ i[p] <= Size - 1
                         /\ drawn[p] <= foreign[p] + Size - 1 - i[p]
    BY <2>0 DEF TypeOK, DrawsBounded
  <2>1. CASE UNCHANGED vars
    <3>1. TypeOK'
      BY <2>0, <2>1 DEF vars, rngVars, TypeOK
    <3>2. \A p \in Procs : DrawsBounded(p)'
      BY <2>0, <2>1 DEF vars, rngVars, DrawsBounded
    <3>. QED BY <2>0, <2>1, <3>1, <3>2 DEF vars, rngVars, IInv
  <2>2. ASSUME NEW p \in Procs, AppDraw(p) PROVE IInv'
    <3>1. TypeOK'
      <4>1. drawn' \in [Procs -> Nat]
        <5>1. drawn \in [Procs -> Nat] /\ drawn[p] + 1 \in Nat
          BY <2>0, <2>a DEF TypeOK
        <5>. QED BY <2>2, <5>1 DEF AppDraw, Draw
      <4>2. foreign[p] + 1 \in 0 .. MaxForeign
        BY <2>a, <2>2 DEF AppDraw
      <4>3. foreign' \in [Procs -> 0 .. MaxForeign]
        BY <2>0, <2>2, <4>2 DEF TypeOK, AppDraw
      <4>4. mixed' \in [Procs -> BOOLEAN]
        <5>1. mixed' = [mixed EXCEPT ![p] = mixed[p] \/ pc[p] = "loop"]
          BY <2>2 DEF AppDraw
        <5>2. mixed \in [Procs -> BOOLEAN]
          BY <2>0 DEF TypeOK
        <5>. QED BY <5>1, <5>2, Zenon
      <4>. QED BY <2>0, <2>2, <4>1, <4>3, <4>4 DEF TypeOK, AppDraw
    <3>2. \A q \in Procs : DrawsBounded(q)'
      <4>1. \A q \in Procs :
              /\ drawn'[q] = IF q = p THEN drawn[q] + 1 ELSE drawn[q]
              /\ foreign'[q] = IF q = p THEN foreign[q] + 1 ELSE foreign[q]
        BY <2>0, <2>2 DEF TypeOK, AppDraw, Draw
      <4>. QED BY <2>a, <2>2, <4>1 DEF AppDraw, DrawsBounded
    <3>. QED BY <2>0, <2>2, <3>1, <3>2 DEF AppDraw, IInv
  <2>3. ASSUME NEW p \in Procs, Srand(p) PROVE IInv'
    <3>1. TypeOK'
      BY <2>0, <2>3 DEF TypeOK, Srand, Seeds
    <3>2. \A q \in Procs : DrawsBounded(q)'
      <4>1. \A q \in Procs : drawn'[q] = IF q = p THEN 0 ELSE drawn[q]
        BY <2>0, <2>3 DEF TypeOK, Srand
      <4>. QED BY <2>a, <2>3, <4>1 DEF Srand, DrawsBounded
    <3>. QED BY <2>0, <2>3, <3>1, <3>2 DEF Srand, rngVars, IInv, TypeOK
  <2>4. ASSUME NEW p \in Procs, Swap(p) PROVE IInv'
    <3>. DEFINE k == i[p]
                j == rand(p) % k
    <3>1. k \in Entries /\ k > 0 /\ k \in Int
      BY <2>0, <2>4 DEF Swap, TypeOK, Entries
    <3>2. rand(p) \in Nat
      <4>1. drawn[p] \in 0 .. Size + MaxForeign
        BY <2>0, <3>1 DEF TypeOK, DrawsBounded, Entries
      <4>. QED BY <2>0, <4>1 DEF rand, TypeOK
    <3>3. j \in 0 .. k - 1
      BY <3>1, <3>2
    <3>4. j \in Entries
      BY <3>1, <3>3 DEF Entries
    <3>5. /\ arr' = [arr EXCEPT ![p] = Exchanged(arr[p], k, j)]
          /\ i' = [i EXCEPT ![p] = k - 1]
          /\ drawn' = [drawn EXCEPT ![p] = drawn[p] + 1]
          /\ pc[p] = "loop"
          /\ UNCHANGED <<stream, seed, foreign, mixed, pc>>
      BY <2>4 DEF Swap, Draw
    <3>6. arr[p] \in PermutationsOf(Size)
      BY <2>0 DEF TypeOK
    <3>. HIDE DEF j, k
    <3>7. Exchanged(arr[p], k, j) \in PermutationsOf(Size)
      BY <3>1, <3>4, <3>6, ExchangeType
    <3>8. /\ CyclesAreOpen(Exchanged(arr[p], k, j), k - 1)
          /\ CyclesAreApart(Exchanged(arr[p], k, j), k - 1)
      BY <2>0, <3>1, <3>3, <3>6, ExchangeCycles DEF k
    <3>9. TypeOK'
      <4>1. i' \in [Procs -> -1 .. Size - 1]
        BY <2>0, <3>1, <3>5 DEF TypeOK, Entries
      <4>2. drawn' \in [Procs -> Nat]
        <5>1. drawn \in [Procs -> Nat] /\ drawn[p] + 1 \in Nat
          BY <2>0, <2>a DEF TypeOK
        <5>. QED BY <3>5, <5>1
      <4>3. arr' \in [Procs -> PermutationsOf(Size)]
        BY <2>0, <3>5, <3>7 DEF TypeOK
      <4>. QED BY <2>0, <3>5, <4>1, <4>2, <4>3 DEF TypeOK
    <3>10. \A q \in Procs : /\ CyclesAreOpen(arr[q], i[q])'
                            /\ CyclesAreApart(arr[q], i[q])'
      <4>1. \A q \in Procs : IF q = p THEN arr'[q] = Exchanged(arr[p], k, j) /\ i'[q] = k - 1
                                      ELSE arr'[q] = arr[q] /\ i'[q] = i[q]
        BY <2>0, <3>5 DEF TypeOK
      <4>. QED BY <2>0, <3>8, <4>1
    <3>11. \A q \in Procs : DrawsBounded(q)'
      <4>1. \A q \in Procs :
              /\ drawn'[q] = IF q = p THEN drawn[q] + 1 ELSE drawn[q]
              /\ i'[q] = IF q = p THEN i[q] - 1 ELSE i[q]
        BY <2>0, <3>5 DEF TypeOK, k
      <4>. QED BY <2>a, <3>5, <4>1 DEF DrawsBounded
    <3>12. \A q \in Procs : pc'[q] = "done" => i'[q] <= 0
      BY <2>0, <3>5 DEF TypeOK
    <3>. QED BY <3>9, <3>10, <3>11, <3>12 DEF IInv
  <2>5. ASSUME NEW p \in Procs, Return(p) PROVE IInv'
    <3>1. TypeOK'
      BY <2>0, <2>5 DEF TypeOK, Return, rngVars
    <3>2. \A q \in Procs : DrawsBounded(q)'
      BY <2>0, <2>5 DEF TypeOK, Return, rngVars, DrawsBounded
    <3>. QED BY <2>0, <2>5, <3>1, <3>2 DEF Return, rngVars, IInv, TypeOK
  <2>. QED BY <2>1, <2>2, <2>3, <2>4, <2>5 DEF Next
<1>. QED BY <1>1, <1>2, PTL DEF Spec

\* Whatever the random numbers, and whoever else draws them, the loop ends with
\* a permutation of one cycle: the shuffles the schedules are proved for.
THEOREM ShuffleResult == Spec => []ResultIsShuffle
<1>1. IInv => ResultIsShuffle
  <2>. SUFFICES ASSUME IInv, NEW p \in Procs, pc[p] = "done"
                PROVE  arr[p] \in Shuffles(Size)
    BY DEF ResultIsShuffle
  <2>1. arr[p] \in PermutationsOf(Size) /\ i[p] \in Int /\ i[p] <= 0
    BY SizeAssumption DEF IInv, TypeOK
  <2>. QED BY <2>1, OneCycleLeft DEF IInv
<1>. QED BY <1>1, Invariance, PTL

-----------------------------------------------------------------------------
(* The processes that draw undisturbed get the same order.                 *)

\* Induction over the natural numbers, for a set of them.
LEMMA SetInduction ==
  ASSUME NEW S, 0 \in S, \A n \in Nat : n \in S => n + 1 \in S
  PROVE  Nat \subseteq S
<1>. DEFINE T == Nat \ S
<1>1. SUFFICES ASSUME T # {} PROVE FALSE
  OBVIOUS
<1>2. PICK x \in T : \A y \in T : ~ (<<y, x>> \in OpToRel(<, Nat))
  <2>. HIDE DEF T
  <2>1. T \subseteq Nat
    BY DEF T
  <2>. QED BY <1>1, <2>1, NatLessThanWellFounded, WFMin
<1>3. x # 0 /\ x \in Nat /\ x \notin S
  OBVIOUS
<1>4. x - 1 \in Nat /\ x - 1 < x
  BY <1>3
<1>5. x - 1 \notin S
  BY <1>3, <1>4
<1>6. <<x - 1, x>> \in OpToRel(<, Nat)
  BY <1>3, <1>4 DEF OpToRel
<1>. QED BY <1>2, <1>4, <1>5, <1>6

\* T[k] is the array when the loop, fed with the numbers f, has the entries up
\* to k still to visit; here down to entry low.
IsCourse(T, f, low) ==
  /\ T[Size - 1] = Identity
  /\ \A k \in 1 .. Size - 1 : k > low => T[k - 1] = Exchanged(T[k], k, f[Size - 1 - k] % k)

LEMMA CourseExists ==
  ASSUME NEW f
  PROVE  \E T : IsCourse(T, f, 0)
<1>. USE SizeAssumption
<1>. DEFINE S == {n \in Nat : \E T : IsCourse(T, f, Size - 1 - n)}
<1>1. 0 \in S
  <2>. DEFINE T == [k \in -1 .. Size - 1 |-> Identity]
  <2>1. IsCourse(T, f, Size - 1 - 0)
    BY DEF IsCourse
  <2>. QED BY <2>1
<1>2. ASSUME NEW n \in Nat, n \in S PROVE n + 1 \in S
  <2>1. PICK T : IsCourse(T, f, Size - 1 - n)
    BY <1>2
  <2>. DEFINE k == Size - 1 - n
              U == [x \in -1 .. Size - 1 |->
                     IF x = k - 1 THEN Exchanged(T[k], k, f[n] % k) ELSE T[x]]
  <2>2. CASE k < 1
    BY <2>1, <2>2 DEF IsCourse
  <2>3. CASE k >= 1
    <3>1. k \in 1 .. Size - 1 /\ n = Size - 1 - k
      BY <2>3
    <3>. HIDE DEF k
    <3>4. \A x \in k .. Size - 1 : U[x] = T[x]
      BY <3>1
    <3>5. U[k - 1] = Exchanged(U[k], k, f[n] % k)
      BY <3>1
    <3>6. IsCourse(T, f, k)
      BY <2>1 DEF k
    <3>. HIDE DEF U
    <3>7. IsCourse(U, f, k - 1)
      <4>1. U[Size - 1] = Identity
        BY <3>1, <3>4, <3>6 DEF IsCourse
      <4>2. ASSUME NEW x \in k .. Size - 1
            PROVE  U[x - 1] = Exchanged(U[x], x, f[Size - 1 - x] % x)
        <5>1. CASE x = k
          BY <3>1, <3>5, <5>1
        <5>2. CASE x > k
          BY <3>1, <3>4, <3>6, <5>2 DEF IsCourse
        <5>. QED BY <3>1, <5>1, <5>2
      <4>. QED BY <3>1, <4>1, <4>2 DEF IsCourse
    <3>. QED BY <3>1, <3>7 DEF k
  <2>. QED BY <2>2, <2>3
<1>. HIDE DEF S
<1>3. Size \in S
  BY <1>1, <1>2, SetInduction
<1>4. PICK T : IsCourse(T, f, Size - 1 - Size)
  BY <1>3 DEF S
<1>5. IsCourse(T, f, 0)
  BY <1>4 DEF IsCourse
<1>. QED BY <1>5

\* A process that nobody has disturbed is somewhere on the course that srand(size)
\* fixes.
OnCourse(p) ==
  /\ pc[p] = "call" => i[p] = Size - 1 /\ arr[p] = Identity
  /\ i[p] >= 0 \/ i[p] = Size - 1
  /\ pc[p] = "loop" /\ ~mixed[p] => seed[p] = "size" /\ drawn[p] = Size - 1 - i[p]
  /\ pc[p] \in {"loop", "done"} /\ ~mixed[p] =>
       \A T : IsCourse(T, stream["size"], 0) => arr[p] = T[i[p]]

\* The processes whose loop no other thread has disturbed get the same order,
\* whatever the numbers that follow srand(size), for every size.
THEOREM SameOrder == Spec => []Agreement
<1>. USE SizeAssumption
<1>. DEFINE Inv == \A p \in Procs : OnCourse(p)
<1>1. Init => Inv
  BY DEF Init, OnCourse
<1>2. IInv /\ Inv /\ [Next]_vars => Inv'
  <2>. SUFFICES ASSUME IInv, Inv, [Next]_vars, NEW q \in Procs PROVE OnCourse(q)'
    OBVIOUS
  <2>0. TypeOK /\ OnCourse(q) /\ (pc[q] = "done" => i[q] <= 0)
    BY DEF IInv
  <2>. HIDE DEF Inv
  <2>. DEFINE Same(p) == /\ pc'[q] = pc[q] /\ i'[q] = i[q] /\ arr'[q] = arr[q]
                         /\ mixed'[q] = mixed[q] /\ seed'[q] = seed[q]
                         /\ drawn'[q] = drawn[q] /\ stream' = stream
  <2>s. ASSUME Same(q) PROVE OnCourse(q)'
    BY <2>0, <2>s DEF OnCourse
  <2>1. CASE UNCHANGED vars
    BY <2>1, <2>s DEF vars, rngVars
  <2>2. ASSUME NEW p \in Procs, AppDraw(p) PROVE OnCourse(q)'
    <3>1. CASE p # q
      BY <2>0, <2>2, <2>s, <3>1 DEF AppDraw, Draw, TypeOK
    <3>2. CASE p = q
      <4>1. /\ pc' = pc /\ i' = i /\ arr' = arr /\ stream' = stream /\ seed' = seed
            /\ mixed'[q] <=> mixed[q] \/ pc[q] = "loop"
        BY <2>0, <2>2, <3>2 DEF AppDraw, TypeOK
      <4>. QED BY <2>0, <4>1 DEF OnCourse
    <3>. QED BY <3>1, <3>2
  <2>3. ASSUME NEW p \in Procs, Srand(p) PROVE OnCourse(q)'
    <3>1. CASE p # q
      BY <2>0, <2>3, <2>s, <3>1 DEF Srand, TypeOK
    <3>2. CASE p = q
      <4>1. /\ pc[q] = "call" /\ pc'[q] = "loop" /\ seed'[q] = "size" /\ drawn'[q] = 0
            /\ UNCHANGED <<stream, mixed, arr, i>>
        BY <2>0, <2>3, <3>2 DEF Srand, TypeOK
      <4>2. i[q] = Size - 1 /\ arr[q] = Identity
        BY <2>0, <4>1 DEF OnCourse
      <4>. QED BY <4>1, <4>2 DEF OnCourse, IsCourse
    <3>. QED BY <3>1, <3>2
  <2>4. ASSUME NEW p \in Procs, Swap(p) PROVE OnCourse(q)'
    <3>1. CASE p # q
      BY <2>0, <2>4, <2>s, <3>1 DEF Swap, Draw, rngVars, TypeOK
    <3>2. CASE p = q
      <4>. DEFINE k == i[q]
      <4>1. k \in 1 .. Size - 1
        BY <2>0, <2>4, <3>2 DEF Swap, TypeOK
      <4>2. /\ pc[q] = "loop" /\ pc'[q] = "loop"
            /\ arr'[q] = Exchanged(arr[q], k, rand(q) % k)
            /\ i'[q] = k - 1
            /\ drawn'[q] = drawn[q] + 1
            /\ UNCHANGED <<stream, seed, mixed>>
        BY <2>0, <2>4, <3>2 DEF Swap, Draw, TypeOK
      <4>3. ASSUME ~mixed[q]
            PROVE  seed'[q] = "size" /\ drawn'[q] = Size - 1 - i'[q]
        BY <2>0, <4>1, <4>2, <4>3 DEF OnCourse, TypeOK
      <4>4. ASSUME ~mixed[q], NEW T, IsCourse(T, stream["size"], 0)
            PROVE  arr'[q] = T[i'[q]]
        <5>1. arr[q] = T[k] /\ seed[q] = "size" /\ drawn[q] = Size - 1 - k
          BY <2>0, <4>2, <4>4 DEF OnCourse
        <5>2. T[k - 1] = Exchanged(T[k], k, stream["size"][Size - 1 - k] % k)
          BY <4>1, <4>4 DEF IsCourse
        <5>. QED BY <4>2, <5>1, <5>2 DEF rand
      <4>. QED BY <4>1, <4>2, <4>3, <4>4 DEF OnCourse
    <3>. QED BY <3>1, <3>2
  <2>5. ASSUME NEW p \in Procs, Return(p) PROVE OnCourse(q)'
    <3>1. CASE p # q
      BY <2>0, <2>5, <2>s, <3>1 DEF Return, rngVars, TypeOK
    <3>2. CASE p = q
      <4>1. pc[q] = "loop" /\ pc'[q] = "done" /\ UNCHANGED <<rngVars, arr, i>>
        BY <2>0, <2>5, <3>2 DEF Return, TypeOK
      <4>. QED BY <2>0, <4>1 DEF OnCourse, rngVars
    <3>. QED BY <3>1, <3>2
  <2>. QED BY <2>1, <2>2, <2>3, <2>4, <2>5 DEF Next
<1>3. IInv /\ Inv => Agreement
  <2>. SUFFICES ASSUME IInv, Inv, NEW p \in Procs, NEW q \in Procs,
                       pc[p] = "done", pc[q] = "done", ~mixed[p], ~mixed[q]
                PROVE  arr[p] = arr[q]
    BY DEF Agreement
  <2>1. i[p] = i[q]
    <3>1. /\ i[p] <= 0 /\ i[p] \in -1 .. Size - 1 /\ (i[p] >= 0 \/ i[p] = Size - 1)
          /\ i[q] <= 0 /\ i[q] \in -1 .. Size - 1 /\ (i[q] >= 0 \/ i[q] = Size - 1)
      BY DEF IInv, TypeOK, OnCourse
    <3>. QED BY <3>1
  <2>2. PICK T : IsCourse(T, stream["size"], 0)
    BY CourseExists
  <2>. QED BY <2>1, <2>2 DEF OnCourse
<1>. QED BY <1>1, <1>2, <1>3, Invariance, PTL DEF Spec
=============================================================================
