----------------------- MODULE PairwiseAlltoallProofs -----------------------
(***************************************************************************)
(* Theorems about the schedules, and about PairwiseAlltoall for every      *)
(* number of ranks and of calls, proved from the inductive invariant IInv. *)
(***************************************************************************)
EXTENDS PairwiseAlltoall, TLAPS

-----------------------------------------------------------------------------
(* The loops of the four modes are all-to-all schedules, for every number  *)
(* of ranks and every shuffle (mode 2 when the ranks fill the switches).   *)

\* A quotient and a remainder are determined by the number they make up.
LEMMA DivMod ==
  ASSUME NEW b \in Nat \ {0}, NEW q \in Nat, NEW x \in 0 .. b - 1
  PROVE  (b * q + x) \div b = q /\ (b * q + x) % b = x
OBVIOUS

\* Every number is made up of its quotient and its remainder.
LEMMA DivModOf ==
  ASSUME NEW a \in Nat, NEW b \in Nat \ {0}
  PROVE  /\ a = b * (a \div b) + (a % b)
         /\ a \div b \in Nat /\ a % b \in 0 .. b - 1
<1>0. b \in Nat /\ b > 0
  OBVIOUS
<1>1. a = b * (a \div b) + (a % b)
  BY <1>0, SMTT(30)
<1>2. a % b \in 0 .. b - 1
  OBVIOUS
<1>3. a \div b \in Nat
  OBVIOUS
<1>. QED BY <1>1, <1>2, <1>3

LEMMA ProductBound ==
  ASSUME NEW a \in Nat, NEW b \in Nat \ {0}, NEW c \in Nat, a < b * c
  PROVE  a \div b < c
<1>1. PICK q \in Nat : q = a \div b /\ b * q <= a
  BY DivModOf
<1>2. ASSUME q >= c PROVE FALSE
  <2>1. PICK e \in Nat : q = c + e
    <3>1. q - c \in Nat /\ q = c + (q - c)
      BY <1>2
    <3>. QED BY <3>1
  <2>2. b * q = b * c + b * e
    BY <2>1
  <2>3. b * e \in Nat /\ b * c \in Nat
    OBVIOUS
  <2>. QED BY <1>1, <2>2, <2>3
<1>. QED BY <1>1, <1>2

-----------------------------------------------------------------------------
(* Modes 0, 1 and 2: a loop is an all-to-all schedule when its steps are   *)
(* the distances 0 .. N - 1, each once; N counts as 0.                     *)

Distance(x) == IF x = N THEN 0 ELSE x

LEMMA RingPartners ==
  ASSUME NEW r \in Ranks, NEW x \in 0 .. N
  PROVE  /\ (r + x) % N = IF r + x < N THEN r + x ELSE r + x - N
         /\ (r + N - x) % N = IF x > r THEN r + N - x ELSE r - x
<1>. USE NAssumption DEF Ranks
<1>1. ASSUME NEW y \in 0 .. N - 1 PROVE y % N = y /\ (N + y) % N = y
  <2>1. y = N * 0 + y /\ N + y = N * 1 + y
    OBVIOUS
  <2>. QED BY <2>1, DivMod
<1>2. (r + x) % N = IF r + x < N THEN r + x ELSE r + x - N
  <2>1. CASE r + x < N
    BY <1>1, <2>1
  <2>2. CASE r + x >= N
    <3>1. r + x - N \in 0 .. N - 1 /\ r + x = N + (r + x - N)
      BY <2>2
    <3>. QED BY <1>1, <2>2, <3>1
  <2>. QED BY <2>1, <2>2
<1>3. (r + N - x) % N = IF x > r THEN r + N - x ELSE r - x
  <2>1. CASE x > r
    <3>1. r + N - x \in 0 .. N - 1
      BY <2>1
    <3>. QED BY <1>1, <2>1, <3>1
  <2>2. CASE x <= r
    <3>1. r - x \in 0 .. N - 1 /\ r + N - x = N + (r - x)
      BY <2>2
    <3>. QED BY <1>1, <2>2, <3>1
  <2>. QED BY <2>1, <2>2
<1>. QED BY <1>2, <1>3

LEMMA RingSchedule ==
  ASSUME NEW mode \in {0, 1, 2}, NEW rnd, NEW r \in Ranks,
         \A k \in Iterations(mode) :
           Exchanges(mode, rnd, r, k) => StepOf(mode, rnd, k) \in 0 .. N,
         \A x \in 0 .. N - 1 : \E k \in Iterations(mode) :
           Exchanges(mode, rnd, r, k) /\ Distance(StepOf(mode, rnd, k)) = x,
         \A k, l \in Iterations(mode) :
           /\ Exchanges(mode, rnd, r, k) /\ Exchanges(mode, rnd, r, l)
           /\ Distance(StepOf(mode, rnd, k)) = Distance(StepOf(mode, rnd, l))
           => k = l
  PROVE  Regular(mode, rnd, r)
<1>. DEFINE Dist(k) == Distance(StepOf(mode, rnd, k))
            Ex(k) == Exchanges(mode, rnd, r, k)
            To(k) == SendTo(mode, rnd, r, k)
            From(k) == RecvFrom(mode, rnd, r, k)
<1>1. ASSUME NEW k \in Iterations(mode), Ex(k)
      PROVE  /\ Dist(k) \in 0 .. N - 1
             /\ To(k) = IF r + Dist(k) < N THEN r + Dist(k) ELSE r + Dist(k) - N
             /\ From(k) = IF Dist(k) > r THEN r + N - Dist(k) ELSE r - Dist(k)
  <2>1. PICK x \in 0 .. N : x = StepOf(mode, rnd, k)
    BY <1>1
  <2>2. To(k) = (r + x) % N /\ From(k) = (r + N - x) % N
    BY <2>1 DEF SendTo, RecvFrom
  <2>3. Dist(k) = IF x = N THEN 0 ELSE x
    BY <2>1 DEF Distance
  <2>4. /\ To(k) = IF r + x < N THEN r + x ELSE r + x - N
        /\ From(k) = IF x > r THEN r + N - x ELSE r - x
    BY <2>2, RingPartners
  <2>. HIDE DEF Dist, To, From
  <2>5. CASE x = N
    BY <2>3, <2>4, <2>5, NAssumption DEF Ranks
  <2>6. CASE x # N
    BY <2>3, <2>4, <2>6, NAssumption DEF Ranks
  <2>. QED BY <2>5, <2>6
<1>2. \A x \in 0 .. N - 1 : \E k \in Iterations(mode) : Ex(k) /\ Dist(k) = x
  OBVIOUS
<1>3. \A k, l \in Iterations(mode) : Ex(k) /\ Ex(l) /\ Dist(k) = Dist(l) => k = l
  OBVIOUS
<1>. HIDE DEF Dist, Ex, To, From
<1>4. \A d \in Ranks : \E k \in Iterations(mode) : Ex(k) /\ To(k) = d
  <2>. SUFFICES ASSUME NEW d \in Ranks
                PROVE  \E k \in Iterations(mode) : Ex(k) /\ To(k) = d
    OBVIOUS
  <2>1. PICK x \in 0 .. N - 1 : x = IF d >= r THEN d - r ELSE d - r + N
    <3>1. (IF d >= r THEN d - r ELSE d - r + N) \in 0 .. N - 1
      BY NAssumption DEF Ranks
    <3>. QED BY <3>1
  <2>2. PICK k \in Iterations(mode) : Ex(k) /\ Dist(k) = x
    BY <1>2
  <2>. QED BY <1>1, <2>1, <2>2, NAssumption DEF Ranks
<1>5. \A d \in Ranks : \E k \in Iterations(mode) : Ex(k) /\ From(k) = d
  <2>. SUFFICES ASSUME NEW d \in Ranks
                PROVE  \E k \in Iterations(mode) : Ex(k) /\ From(k) = d
    OBVIOUS
  <2>1. PICK x \in 0 .. N - 1 : x = IF d <= r THEN r - d ELSE r - d + N
    <3>1. (IF d <= r THEN r - d ELSE r - d + N) \in 0 .. N - 1
      BY NAssumption DEF Ranks
    <3>. QED BY <3>1
  <2>2. PICK k \in Iterations(mode) : Ex(k) /\ Dist(k) = x
    BY <1>2
  <2>. QED BY <1>1, <2>1, <2>2, NAssumption DEF Ranks
<1>6. ASSUME NEW k \in Iterations(mode), NEW l \in Iterations(mode), Ex(k), Ex(l),
             To(k) = To(l) \/ From(k) = From(l)
      PROVE  k = l
  <2>1. Dist(k) = Dist(l)
    BY <1>1, <1>6, NAssumption DEF Ranks
  <2>. QED BY <1>3, <1>6, <2>1
<1>7. ASSUME NEW k \in Iterations(mode), Ex(k)
      PROVE  /\ To(k) \in Ranks /\ From(k) \in Ranks
             /\ To(k) = r <=> From(k) = r
  BY <1>1, <1>7, NAssumption DEF Ranks
<1>. QED BY <1>4, <1>5, <1>6, <1>7 DEF Regular, Covers, Ex, To, From

-----------------------------------------------------------------------------
(* The modes one by one.                                                   *)

\* Mode 0 takes the steps 1, 2, ..., N in turn.
THEOREM BaseIsRegular ==
  ASSUME NEW rnd, NEW r \in Ranks PROVE Regular(0, rnd, r)
<1>1. /\ Iterations(0) = 0 .. N - 1
      /\ \A k \in 0 .. N - 1 : Exchanges(0, rnd, r, k) /\ StepOf(0, rnd, k) = k + 1
  BY NAssumption DEF Iterations, Last, Exchanges, Skips, StepOf
<1>2. \A x \in 0 .. N - 1 : \E k \in 0 .. N - 1 : Distance(k + 1) = x
  <2>. SUFFICES ASSUME NEW x \in 0 .. N - 1
                PROVE  \E k \in 0 .. N - 1 : Distance(k + 1) = x
    OBVIOUS
  <2>1. CASE x = 0
    <3>1. N - 1 \in 0 .. N - 1 /\ Distance(N - 1 + 1) = 0
      BY NAssumption DEF Distance
    <3>. QED BY <2>1, <3>1
  <2>2. CASE x # 0
    <3>1. x - 1 \in 0 .. N - 1 /\ Distance(x - 1 + 1) = x
      BY <2>2, NAssumption DEF Distance
    <3>. QED BY <3>1
  <2>. QED BY <2>1, <2>2
<1>3. \A k, l \in 0 .. N - 1 : Distance(k + 1) = Distance(l + 1) => k = l
  BY NAssumption DEF Distance
<1>4. \A k \in 0 .. N - 1 : k + 1 \in 0 .. N
  BY NAssumption
<1>5. \A k \in Iterations(0) :
        Exchanges(0, rnd, r, k) => StepOf(0, rnd, k) \in 0 .. N
  BY <1>1, <1>4
<1>6. \A x \in 0 .. N - 1 : \E k \in Iterations(0) :
        Exchanges(0, rnd, r, k) /\ Distance(StepOf(0, rnd, k)) = x
  BY <1>1, <1>2
<1>7. \A k, l \in Iterations(0) :
        /\ Exchanges(0, rnd, r, k) /\ Exchanges(0, rnd, r, l)
        /\ Distance(StepOf(0, rnd, k)) = Distance(StepOf(0, rnd, l))
        => k = l
  BY <1>1, <1>3
<1>. QED BY <1>5, <1>6, <1>7, RingSchedule

\* A shuffle reaches every number, and none twice.
LEMMA ShufflesAreOneToOne ==
  ASSUME NEW n \in Nat, NEW p \in Shuffles(n)
  PROVE  /\ p \in [0 .. n - 1 -> 0 .. n - 1]
         /\ \A x, y \in 0 .. n - 1 : p[x] = p[y] => x = y
         /\ \A y \in 0 .. n - 1 : \E x \in 0 .. n - 1 : p[x] = y
<1>1. p \in [0 .. n - 1 -> 0 .. n - 1]
  BY DEF Shuffles, PermutationsOf
<1>2. \A y \in 0 .. n - 1 : \E x \in 0 .. n - 1 : \A z \in 0 .. n - 1 :
        p[z] = y <=> z = x
  BY DEF Shuffles, PermutationsOf
<1>3. ASSUME NEW x \in 0 .. n - 1, NEW y \in 0 .. n - 1, p[x] = p[y] PROVE x = y
  <2>1. p[x] \in 0 .. n - 1
    BY <1>1
  <2>2. PICK w \in 0 .. n - 1 : \A z \in 0 .. n - 1 : p[z] = p[x] <=> z = w
    BY <1>2, <2>1
  <2>. QED BY <1>3, <2>2
<1>4. \A y \in 0 .. n - 1 : \E x \in 0 .. n - 1 : p[x] = y
  BY <1>2
<1>. QED BY <1>1, <1>3, <1>4

\* Mode 1 takes the steps 1, ..., N - 1 in a shuffled order, then N.
THEOREM RandomIsRegular ==
  ASSUME NEW rnd, rnd.steps \in Shuffles(N - 1), NEW r \in Ranks
  PROVE  Regular(1, rnd, r)
<1>. DEFINE p == rnd.steps
            st(k) == IF k < N - 1 THEN p[k] + 1 ELSE N
<1>1. /\ Iterations(1) = 0 .. N - 1
      /\ \A k \in 0 .. N - 1 : Exchanges(1, rnd, r, k) /\ StepOf(1, rnd, k) = st(k)
  BY NAssumption DEF Iterations, Last, Exchanges, Skips, StepOf
<1>2. /\ p \in [0 .. N - 2 -> 0 .. N - 2]
      /\ \A x, y \in 0 .. N - 2 : p[x] = p[y] => x = y
      /\ \A y \in 0 .. N - 2 : \E x \in 0 .. N - 2 : p[x] = y
  <2>1. N - 1 \in Nat /\ N - 1 - 1 = N - 2
    BY NAssumption
  <2>2. /\ p \in [0 .. N - 1 - 1 -> 0 .. N - 1 - 1]
        /\ \A x, y \in 0 .. N - 1 - 1 : p[x] = p[y] => x = y
        /\ \A y \in 0 .. N - 1 - 1 : \E x \in 0 .. N - 1 - 1 : p[x] = y
    BY <2>1, ShufflesAreOneToOne
  <2>. HIDE DEF p
  <2>. QED BY <2>1, <2>2
<1>. HIDE DEF p
<1>3. \A k \in 0 .. N - 1 :
        /\ st(k) \in 0 .. N /\ st(k) \in 1 .. N
        /\ k < N - 1 => k \in 0 .. N - 2 /\ st(k) = p[k] + 1 /\ st(k) < N
        /\ ~(k < N - 1) => k = N - 1 /\ st(k) = N
  <2>. SUFFICES ASSUME NEW k \in 0 .. N - 1
                PROVE  /\ st(k) \in 0 .. N /\ st(k) \in 1 .. N
                       /\ k < N - 1 => /\ k \in 0 .. N - 2
                                       /\ st(k) = p[k] + 1 /\ st(k) < N
                       /\ ~(k < N - 1) => k = N - 1 /\ st(k) = N
    OBVIOUS
  <2>1. CASE k < N - 1
    <3>1. k \in 0 .. N - 2
      BY <2>1, NAssumption
    <3>2. p[k] \in 0 .. N - 2
      BY <1>2, <3>1
    <3>3. st(k) = p[k] + 1
      BY <2>1
    <3>. HIDE DEF st
    <3>. QED BY <2>1, <3>1, <3>2, <3>3, NAssumption
  <2>2. CASE ~(k < N - 1)
    <3>1. st(k) = N
      BY <2>2
    <3>. HIDE DEF st
    <3>. QED BY <2>2, <3>1, NAssumption
  <2>. QED BY <2>1, <2>2
<1>4. \A x \in 0 .. N - 1 : \E k \in 0 .. N - 1 : Distance(st(k)) = x
  <2>. SUFFICES ASSUME NEW x \in 0 .. N - 1
                PROVE  \E k \in 0 .. N - 1 : Distance(st(k)) = x
    OBVIOUS
  <2>1. CASE x = 0
    <3>1. N - 1 \in 0 .. N - 1 /\ Distance(st(N - 1)) = 0
      BY NAssumption DEF Distance
    <3>. QED BY <2>1, <3>1
  <2>2. CASE x # 0
    <3>1. PICK k \in 0 .. N - 2 : p[k] = x - 1
      BY <1>2, <2>2, NAssumption
    <3>2. k \in 0 .. N - 1 /\ st(k) = x
      BY <3>1, NAssumption
    <3>3. Distance(st(k)) = x
      BY <3>2, NAssumption DEF Distance
    <3>. QED BY <3>2, <3>3
  <2>. QED BY <2>1, <2>2
<1>5. \A k, l \in 0 .. N - 1 : Distance(st(k)) = Distance(st(l)) => k = l
  <2>. SUFFICES ASSUME NEW k \in 0 .. N - 1, NEW l \in 0 .. N - 1,
                       Distance(st(k)) = Distance(st(l))
                PROVE  k = l
    OBVIOUS
  <2>1. st(k) \in 1 .. N /\ st(l) \in 1 .. N
    BY <1>3
  <2>2. st(k) = st(l)
    <3>. HIDE DEF st
    <3>. QED BY <2>1, NAssumption DEF Distance
  <2>3. CASE k < N - 1 /\ l < N - 1
    <3>1. /\ k \in 0 .. N - 2 /\ st(k) = p[k] + 1
          /\ l \in 0 .. N - 2 /\ st(l) = p[l] + 1
      BY <1>3, <2>3
    <3>2. p[k] = p[l]
      <4>. HIDE DEF st
      <4>1. p[k] \in Int /\ p[l] \in Int
        BY <1>2, <3>1, NAssumption
      <4>2. p[k] + 1 = p[l] + 1
        BY <2>2, <3>1
      <4>. QED BY <4>1, <4>2
    <3>. QED BY <1>2, <3>1, <3>2
  <2>4. CASE ~(k < N - 1 /\ l < N - 1)
    <3>. HIDE DEF st
    <3>. QED BY <1>3, <2>2, <2>4, NAssumption
  <2>. QED BY <2>3, <2>4
<1>. HIDE DEF st
<1>6. \A k \in Iterations(1) :
        Exchanges(1, rnd, r, k) => StepOf(1, rnd, k) \in 0 .. N
  BY <1>1, <1>3
<1>7. \A x \in 0 .. N - 1 : \E k \in Iterations(1) :
        Exchanges(1, rnd, r, k) /\ Distance(StepOf(1, rnd, k)) = x
  BY <1>1, <1>4
<1>8. \A k, l \in Iterations(1) :
        /\ Exchanges(1, rnd, r, k) /\ Exchanges(1, rnd, r, l)
        /\ Distance(StepOf(1, rnd, k)) = Distance(StepOf(1, rnd, l))
        => k = l
  BY <1>1, <1>5
<1>. QED BY <1>6, <1>7, <1>8, RingSchedule

\* The cells of a table of a rows and b columns, numbered row by row.
LEMMA TableIndex ==
  ASSUME NEW a \in Nat \ {0}, NEW b \in Nat \ {0},
         NEW i \in 0 .. a - 1, NEW j \in 0 .. b - 1
  PROVE  b * i + j \in 0 .. a * b - 1
<1>1. PICK e \in Nat : a = i + 1 + e
  <2>1. a - i - 1 \in Nat /\ a = i + 1 + (a - i - 1)
    OBVIOUS
  <2>. QED BY <2>1
<1>2. a * b = b * i + b + b * e
  BY <1>1
<1>3. b * i \in Nat /\ b * e \in Nat
  BY <1>1
<1>. QED BY <1>2, <1>3

\* Mode 2 takes the steps 1, ..., N - 1 switch place by switch place, then 0,
\* provided the ranks fill the switches.
THEOREM CustomIsRegular ==
  ASSUME PerSwitch * switches = N, NEW rnd, NEW r \in Ranks
  PROVE  Regular(2, rnd, r)
<1>. DEFINE P == PerSwitch
            m == switches
            st(k) == IF k < N THEN P * (k % m) + (k \div m) ELSE 0
<1>0. P \in Nat \ {0} /\ m \in Nat \ {0} /\ P * m = N /\ N \in Nat /\ N > 1 /\ m * P = N
  <2>1. PICK x \in Nat \ {0} : x = PerSwitch
    BY PerSwitchAssumption
  <2>2. switches \in Nat
    BY <2>1, NAssumption DEF switches
  <2>3. switches # 0
    <3>1. x * 0 = 0
      BY <2>1
    <3>. QED BY <2>1, <3>1, NAssumption
  <2>4. x * switches = switches * x
    BY <2>1, <2>2
  <2>. QED BY <2>1, <2>2, <2>3, <2>4, NAssumption
<1>. HIDE DEF P, m
<1>1. /\ Iterations(2) = 0 .. N
      /\ \A k \in 0 .. N : StepOf(2, rnd, k) = st(k)
  BY <1>0 DEF Iterations, Last, StepOf, P, m
<1>2. \A k \in 0 .. N - 1 : /\ k % m \in 0 .. m - 1 /\ k \div m \in 0 .. P - 1
                            /\ k = m * (k \div m) + (k % m)
                            /\ st(k) = P * (k % m) + (k \div m)
                            /\ st(k) \in 0 .. N - 1
  <2>. SUFFICES ASSUME NEW k \in 0 .. N - 1
                PROVE  /\ k % m \in 0 .. m - 1 /\ k \div m \in 0 .. P - 1
                       /\ k = m * (k \div m) + (k % m)
                       /\ st(k) = P * (k % m) + (k \div m)
                       /\ st(k) \in 0 .. N - 1
    OBVIOUS
  <2>0. k \in Nat /\ k < N
    BY <1>0
  <2>1. /\ k % m \in 0 .. m - 1 /\ k \div m \in Nat
        /\ k = m * (k \div m) + (k % m)
    BY <1>0, <2>0, DivModOf
  <2>2. k \div m < P
    BY <1>0, <2>0, ProductBound
  <2>3. st(k) = P * (k % m) + (k \div m)
    BY <2>0
  <2>4. k \div m \in 0 .. P - 1
    BY <1>0, <2>1, <2>2
  <2>5. P * (k % m) + (k \div m) \in 0 .. m * P - 1
    BY <1>0, <2>1, <2>4, TableIndex
  <2>. HIDE DEF st
  <2>. QED BY <1>0, <2>1, <2>3, <2>4, <2>5
<1>3. st(N) = 0
  BY <1>0
<1>. HIDE DEF st
<1>4. \A k \in 0 .. N : Exchanges(2, rnd, r, k) <=> k = N \/ st(k) # 0
  <2>. SUFFICES ASSUME NEW k \in 0 .. N
                PROVE  Exchanges(2, rnd, r, k) <=> k = N \/ st(k) # 0
    OBVIOUS
  <2>1. Exchanges(2, rnd, r, k) <=> ~(k < N /\ (st(k) = 0 \/ st(k) > N))
    BY <1>0, <1>1 DEF Exchanges, Skips, P, m
  <2>2. k < N => k \in 0 .. N - 1 /\ ~(st(k) > N)
    BY <1>0, <1>2
  <2>3. k < N \/ k = N
    BY <1>0
  <2>4. N < N <=> FALSE
    BY <1>0
  <2>. QED BY <2>1, <2>2, <2>3, <2>4
<1>5. \A k \in Iterations(2) :
        Exchanges(2, rnd, r, k) => StepOf(2, rnd, k) \in 0 .. N
  <2>. SUFFICES ASSUME NEW k \in 0 .. N PROVE st(k) \in 0 .. N
    BY <1>1
  <2>1. CASE k = N
    BY <1>0, <1>3, <2>1
  <2>2. CASE k # N
    <3>1. k \in 0 .. N - 1
      BY <1>0, <2>2
    <3>2. st(k) \in 0 .. N - 1
      BY <1>2, <3>1
    <3>. QED BY <1>0, <3>2
  <2>. QED BY <2>1, <2>2
<1>6. \A x \in 0 .. N - 1 : \E k \in Iterations(2) :
        Exchanges(2, rnd, r, k) /\ Distance(StepOf(2, rnd, k)) = x
  <2>. SUFFICES ASSUME NEW x \in 0 .. N - 1
                PROVE  \E k \in 0 .. N :
                         Exchanges(2, rnd, r, k) /\ Distance(st(k)) = x
    BY <1>1
  <2>1. CASE x = 0
    <3>1. N \in 0 .. N /\ Distance(st(N)) = 0
      BY <1>0, <1>3 DEF Distance
    <3>. QED BY <1>4, <2>1, <3>1
  <2>2. CASE x # 0
    <3>0. x \in Nat /\ x < P * m
      BY <1>0
    <3>1. PICK i \in 0 .. P - 1, j \in 0 .. m - 1 : x = P * j + i
      <4>1. /\ x = P * (x \div P) + (x % P)
            /\ x \div P \in Nat /\ x % P \in 0 .. P - 1
        BY <1>0, <3>0, DivModOf
      <4>2. x \div P < m
        BY <1>0, <3>0, ProductBound
      <4>3. x \div P \in 0 .. m - 1
        BY <1>0, <4>1, <4>2
      <4>. QED BY <4>1, <4>3
    <3>2. PICK k \in 0 .. N - 1 : k = m * i + j
      BY <1>0, TableIndex
    <3>3. k \div m = i /\ k % m = j
      <4>1. i \in Nat
        BY <1>0
      <4>. QED BY <1>0, <3>2, <4>1, DivMod
    <3>4. st(k) = x
      BY <1>2, <3>1, <3>3
    <3>5. k \in 0 .. N /\ Distance(st(k)) = x
      BY <1>0, <3>4 DEF Distance
    <3>. QED BY <1>4, <2>2, <3>4, <3>5
  <2>. QED BY <2>1, <2>2
<1>7. \A k, l \in Iterations(2) :
        /\ Exchanges(2, rnd, r, k) /\ Exchanges(2, rnd, r, l)
        /\ Distance(StepOf(2, rnd, k)) = Distance(StepOf(2, rnd, l))
        => k = l
  <2>. SUFFICES ASSUME NEW k \in 0 .. N, NEW l \in 0 .. N,
                       k = N \/ st(k) # 0, l = N \/ st(l) # 0,
                       Distance(st(k)) = Distance(st(l))
                PROVE  k = l
    BY <1>1, <1>4
  <2>1. st(k) = st(l)
    BY <1>0, <1>2, <1>3 DEF Distance
  <2>2. CASE k = N \/ l = N
    BY <1>3, <2>1, <2>2
  <2>3. CASE k # N /\ l # N
    <3>1. k \in 0 .. N - 1 /\ l \in 0 .. N - 1
      BY <1>0, <2>3
    <3>2. ASSUME NEW x \in 0 .. N - 1
          PROVE  st(x) \div P = x % m /\ st(x) % P = x \div m
      <4>1. PICK i \in Nat, j \in 0 .. P - 1 :
              i = x % m /\ j = x \div m /\ st(x) = P * i + j
        <5>1. /\ x % m \in 0 .. m - 1 /\ x \div m \in 0 .. P - 1
              /\ st(x) = P * (x % m) + (x \div m)
          BY <1>2
        <5>2. x % m \in Nat
          BY <1>0, <5>1
        <5>. QED BY <5>1, <5>2
      <4>2. (P * i + j) \div P = i /\ (P * i + j) % P = j
        BY <1>0, DivMod
      <4>. QED BY <4>1, <4>2
    <3>. QED BY <1>2, <2>1, <3>1, <3>2
  <2>. QED BY <2>2, <2>3
<1>. QED BY <1>5, <1>6, <1>7, RingSchedule

-----------------------------------------------------------------------------
(* Mode 3: every pair of ranks has one cell of the grid, in the row of the *)
(* lower rank.                                                             *)

THEOREM GridIsRegular ==
  ASSUME NEW rnd, rnd.grid \in [Ranks -> Shuffles(N)], NEW r \in Ranks
  PROVE  Regular(3, rnd, r)
<1>. DEFINE G == rnd.grid
            row(k) == GridRow(k)
            col(k) == GridCol(k)
            cell(k) == GridCell(rnd, k)
            Ex(k) == Exchanges(3, rnd, r, k)
            To(k) == SendTo(3, rnd, r, k)
<1>0. N \in Nat \ {0} /\ Iterations(3) = 0 .. N * N - 1 /\ N * N \in Nat
  BY NAssumption DEF Iterations, Last
<1>1. \A i \in Ranks :
        /\ \A j \in Ranks : G[i][j] \in Ranks
        /\ \A x, y \in Ranks : G[i][x] = G[i][y] => x = y
        /\ \A y \in Ranks : \E x \in Ranks : G[i][x] = y
  <2>. SUFFICES ASSUME NEW i \in Ranks
                PROVE  /\ \A j \in Ranks : G[i][j] \in Ranks
                       /\ \A x, y \in Ranks : G[i][x] = G[i][y] => x = y
                       /\ \A y \in Ranks : \E x \in Ranks : G[i][x] = y
    OBVIOUS
  <2>1. G[i] \in Shuffles(N)
    OBVIOUS
  <2>. DEFINE g == G[i]
  <2>. HIDE DEF g
  <2>2. g \in Shuffles(N) /\ N \in Nat
    BY <1>0, <2>1 DEF g
  <2>3. /\ g \in [0 .. N - 1 -> 0 .. N - 1]
        /\ \A x, y \in 0 .. N - 1 : g[x] = g[y] => x = y
        /\ \A y \in 0 .. N - 1 : \E x \in 0 .. N - 1 : g[x] = y
    BY <2>2, ShufflesAreOneToOne
  <2>. QED BY <2>3 DEF g, Ranks
<1>2. \A k \in 0 .. N * N - 1 :
        /\ row(k) \in Ranks /\ col(k) \in Ranks /\ k = N * col(k) + row(k)
        /\ cell(k) = IF G[row(k)][col(k)] < row(k) THEN -1 ELSE G[row(k)][col(k)]
  <2>. SUFFICES ASSUME NEW k \in 0 .. N * N - 1
                PROVE  /\ row(k) \in Ranks /\ col(k) \in Ranks
                       /\ k = N * col(k) + row(k)
                       /\ cell(k) = IF G[row(k)][col(k)] < row(k)
                                    THEN -1 ELSE G[row(k)][col(k)]
    OBVIOUS
  <2>0. k \in Nat /\ k < N * N
    BY <1>0
  <2>1. k = N * (k \div N) + (k % N) /\ k \div N \in Nat /\ k % N \in 0 .. N - 1
    BY <1>0, <2>0, DivModOf
  <2>2. k \div N < N
    BY <1>0, <2>0, ProductBound
  <2>3. row(k) = k % N /\ col(k) = k \div N
    BY DEF GridRow, GridCol
  <2>4. cell(k) = IF G[row(k)][col(k)] < row(k) THEN -1 ELSE G[row(k)][col(k)]
    BY DEF GridCell, Cell
  <2>. HIDE DEF row, col, cell, G
  <2>. QED BY <1>0, <2>1, <2>2, <2>3, <2>4 DEF Ranks
<1>3. \A k \in 0 .. N * N - 1 :
        /\ Ex(k) <=> cell(k) # -1 /\ (r = row(k) \/ r = cell(k))
        /\ To(k) = IF r = row(k) THEN cell(k) ELSE row(k)
        /\ RecvFrom(3, rnd, r, k) = To(k)
  BY <1>0 DEF Exchanges, Skips, SendTo, RecvFrom, GridPeer
<1>. HIDE DEF G, row, col, cell, Ex, To
<1>4. \A k \in 0 .. N * N - 1 : Ex(k) =>
        /\ cell(k) \in Ranks /\ row(k) <= cell(k)
        /\ cell(k) = G[row(k)][col(k)]
        /\ To(k) \in Ranks
        /\ row(k) = IF To(k) < r THEN To(k) ELSE r
        /\ cell(k) = IF To(k) < r THEN r ELSE To(k)
  <2>. SUFFICES ASSUME NEW k \in 0 .. N * N - 1, Ex(k)
                PROVE  /\ cell(k) \in Ranks /\ row(k) <= cell(k)
                       /\ cell(k) = G[row(k)][col(k)]
                       /\ To(k) \in Ranks
                       /\ row(k) = IF To(k) < r THEN To(k) ELSE r
                       /\ cell(k) = IF To(k) < r THEN r ELSE To(k)
    OBVIOUS
  <2>1. row(k) \in Ranks /\ G[row(k)][col(k)] \in Ranks /\ cell(k) # -1
    BY <1>1, <1>2, <1>3
  <2>2. cell(k) = G[row(k)][col(k)] /\ ~(G[row(k)][col(k)] < row(k))
    BY <1>2, <2>1
  <2>3. cell(k) \in Ranks /\ row(k) <= cell(k)
    BY <2>1, <2>2, <1>0 DEF Ranks
  <2>4. /\ r = row(k) \/ r = cell(k)
        /\ To(k) = IF r = row(k) THEN cell(k) ELSE row(k)
    BY <1>3
  <2>. QED BY <2>1, <2>2, <2>3, <2>4, <1>0 DEF Ranks
<1>5. \A d \in Ranks : \E k \in 0 .. N * N - 1 : Ex(k) /\ To(k) = d
  <2>. SUFFICES ASSUME NEW d \in Ranks
                PROVE  \E k \in 0 .. N * N - 1 : Ex(k) /\ To(k) = d
    OBVIOUS
  <2>1. PICK lo \in Ranks, hi \in Ranks :
          lo <= hi /\ ((lo = r /\ hi = d) \/ (lo = d /\ hi = r))
    <3>1. r <= d \/ d <= r
      BY <1>0 DEF Ranks
    <3>2. CASE r <= d
      BY <3>2
    <3>3. CASE d <= r
      BY <3>3
    <3>. QED BY <3>1, <3>2, <3>3
  <2>2. PICK j \in Ranks : G[lo][j] = hi
    BY <1>1
  <2>3. PICK k \in 0 .. N * N - 1 : k = N * j + lo
    BY <1>0, TableIndex DEF Ranks
  <2>4. row(k) = lo /\ col(k) = j
    <3>1. j \in Nat /\ lo \in 0 .. N - 1
      BY <1>0 DEF Ranks
    <3>2. (N * j + lo) \div N = j /\ (N * j + lo) % N = lo
      BY <1>0, <3>1, DivMod
    <3>. QED BY <2>3, <3>2 DEF row, col, GridRow, GridCol
  <2>5. cell(k) = hi /\ hi # -1
    BY <1>0, <1>2, <2>1, <2>2, <2>4 DEF Ranks
  <2>. QED BY <1>3, <2>1, <2>4, <2>5
<1>6. \A k, l \in 0 .. N * N - 1 : Ex(k) /\ Ex(l) /\ To(k) = To(l) => k = l
  <2>. SUFFICES ASSUME NEW k \in 0 .. N * N - 1, NEW l \in 0 .. N * N - 1,
                       Ex(k), Ex(l), To(k) = To(l)
                PROVE  k = l
    OBVIOUS
  <2>1. row(k) = row(l) /\ cell(k) = cell(l)
    BY <1>4
  <2>2. G[row(k)][col(k)] = G[row(k)][col(l)]
    BY <1>4, <2>1
  <2>3. col(k) = col(l)
    <3>1. row(k) \in Ranks /\ col(k) \in Ranks /\ col(l) \in Ranks
      BY <1>2
    <3>. QED BY <1>1, <2>2, <3>1
  <2>. QED BY <1>2, <2>1, <2>3
<1>. QED BY <1>0, <1>3, <1>4, <1>5, <1>6 DEF Regular, Covers, Ex, To

-----------------------------------------------------------------------------
(* The exchange.                                                           *)

\* The number of iterations of a loop is a natural number in every mode.
LEMMA LastType == \A m : Last(m) \in Int /\ Last(m) >= -1
<1>1. N * N \in Nat
  BY NAssumption
<1>2. PerSwitch * switches \in Nat
  <2>1. switches \in Nat
    BY NAssumption, PerSwitchAssumption DEF switches
  <2>. QED BY <2>1, PerSwitchAssumption
<1>. QED BY <1>1, <1>2, NAssumption DEF Last

LEMMA LoopEndType == \A r : LoopEnd(r) \in Nat
BY LastType DEF LoopEnd

\* Every variable keeps its type, whatever the schedules.
THEOREM TypeCorrect == Spec => []TypeOK
<1>1. Init => TypeOK
  <2>. SUFFICES ASSUME Init PROVE TypeOK
    OBVIOUS
  <2>1. \A r \in Ranks : LoopEnd(r) \in 0 .. LoopEnd(r)
    BY LoopEndType
  <2>2. pos \in [Ranks -> Int] /\ \A r \in Ranks : pos[r] \in 0 .. LoopEnd(r)
    BY <2>1, LoopEndType DEF Init
  <2>. QED BY <2>2, BoundsAssumption DEF Init, TypeOK
<1>2. TypeOK /\ [Next]_vars => TypeOK'
  <2>. SUFFICES ASSUME TypeOK, [Next]_vars PROVE TypeOK'
    OBVIOUS
  <2>. USE DEF TypeOK, rankVars, pmlVars, LoopEnd
  <2>1. ASSUME NEW r \in Ranks, NEW k, GoToNext(r, k)
        PROVE  /\ pos' \in [Ranks -> Int]
               /\ \A q \in Ranks : pos'[q] \in 0 .. Last(plan[q].mode) + 1
    BY <2>1 DEF GoToNext
  <2>2. CASE UNCHANGED vars
    BY <2>2 DEF vars
  <2>3. ASSUME NEW r \in Ranks, Enter(r) PROVE TypeOK'
    <3>1. call' \in [Ranks -> 0 .. Calls]
      BY <2>3, BoundsAssumption DEF Enter
    <3>. QED BY <2>1, <2>3, <3>1 DEF Enter
  <2>4. ASSUME NEW r \in Ranks, LocalCopy(r) PROVE TypeOK'
    BY <2>1, <2>4 DEF LocalCopy, Block, Blocks
  <2>5. ASSUME NEW r \in Ranks, Irecv(r) PROVE TypeOK'
    BY <2>5 DEF Irecv
  <2>6. ASSUME NEW r \in Ranks, Isend(r) PROVE TypeOK'
    <3>1. PICK p \in Protocols :
            /\ wire' = [wire EXCEPT ![r][sendto(r)] =
                          Append(@, [block |-> Block(r, sendto(r), call[r]),
                                     protocol |-> p])]
            /\ sreq' = [sreq EXCEPT ![r] =
                          IF p = "eager" THEN "done" ELSE "active"]
      BY <2>6 DEF Isend
    <3>2. wire' \in [Ranks -> [Ranks -> Seq(Messages)]]
      <4>1. CASE sendto(r) \in Ranks
        <5>1. [block |-> Block(r, sendto(r), call[r]), protocol |-> p] \in Messages
          BY <4>1 DEF Messages, Blocks, Block
        <5>2. wire[r][sendto(r)] \in Seq(Messages)
          BY <4>1
        <5>3. Append(wire[r][sendto(r)],
                     [block |-> Block(r, sendto(r), call[r]), protocol |-> p])
                \in Seq(Messages)
          BY <5>1, <5>2
        <5>. QED BY <3>1, <4>1, <5>3
      <4>2. CASE sendto(r) \notin Ranks
        BY <3>1, <4>2
      <4>. QED BY <4>1, <4>2
    <3>3. sreq' \in [Ranks -> {"none", "active", "done"}]
      BY <3>1
    <3>. QED BY <2>6, <3>2, <3>3 DEF Isend
  <2>7. ASSUME NEW r \in Ranks, WaitAll(r) PROVE TypeOK'
    BY <2>1, <2>7 DEF WaitAll
  <2>8. ASSUME NEW r \in Ranks, Return(r) PROVE TypeOK'
    BY <2>8 DEF Return
  <2>9. ASSUME NEW r \in Ranks, Fail(r) PROVE TypeOK'
    BY <2>9, BoundsAssumption DEF Fail
  <2>10. ASSUME NEW s \in Ranks, NEW d \in Ranks, Match(s, d) PROVE TypeOK'
    <3>1. /\ Head(wire[s][d]) \in Messages
          /\ Tail(wire[s][d]) \in Seq(Messages)
      BY <2>10 DEF Match
    <3>2. Head(wire[s][d]).block \in Blocks
      BY <3>1 DEF Messages
    <3>3. wire' \in [Ranks -> [Ranks -> Seq(Messages)]]
      BY <2>10, <3>1 DEF Match
    <3>4. rbuf' \in [Ranks -> [Ranks -> Blocks \union {NoBlock}]]
      BY <2>10, <3>2 DEF Match
    <3>. QED BY <2>10, <3>3, <3>4 DEF Match
  <2>11. CASE Finished
    BY <2>11 DEF Finished, vars
  <2>. QED BY <2>2, <2>3, <2>4, <2>5, <2>6, <2>7, <2>8, <2>9, <2>10, <2>11
           DEF Next, RankStep
<1>. QED BY <1>1, <1>2, PTL DEF Spec

-----------------------------------------------------------------------------
(* The loops of all the ranks are all-to-all schedules.                    *)

AllRegular == \A r \in Ranks : \A x \in Plans : Regular(x.mode, x, r)

\* The exchanges before the position a rank moves to are those up to the one it
\* leaves.
LEMMA Advance ==
  ASSUME TypeOK, NEW r \in Ranks, NEW k \in Int, GoToNext(r, k), plan' = plan
  PROVE  /\ \A l \in Iterations(plan[r].mode) :
              Exchanges(plan[r].mode, plan[r], r, l) => (l < pos'[r] <=> l <= k)
         /\ Exchanges(plan[r].mode, plan[r], r, pos'[r]) \/ pos'[r] = LoopEnd(r)
         /\ pos' = [pos EXCEPT ![r] = pos'[r]]
         /\ pos'[r] > k
<1>1. PICK n \in 0 .. LoopEnd(r) : /\ IsNext(plan[r].mode, plan[r], r, k, n)
                                  /\ pos' = [pos EXCEPT ![r] = n]
  BY DEF GoToNext
<1>2. pos'[r] = n
  BY <1>1 DEF TypeOK
<1>3. ASSUME NEW l \in Iterations(plan[r].mode), Exchanges(plan[r].mode, plan[r], r, l)
      PROVE  l < n <=> l <= k
  <2>1. l \in Int
    BY DEF Iterations
  <2>2. n \in Int /\ n > k
    BY <1>1 DEF IsNext
  <2>3. ~(l > k /\ l < n)
    BY <1>1, <1>3, <2>1, <2>2 DEF IsNext, Exchanges
  <2>. QED BY <2>1, <2>2, <2>3
<1>4. Exchanges(plan[r].mode, plan[r], r, n) \/ n = LoopEnd(r)
  BY <1>1, LastType DEF IsNext, Exchanges, LoopEnd, Iterations
<1>. QED BY <1>1, <1>2, <1>3, <1>4 DEF IsNext

\* The partners of an exchange are ranks, and the exchange is the only one of
\* the call with either of them.
LEMMA Partners ==
  ASSUME AllRegular, TypeOK, NEW r \in Ranks, AtExchange(r)
  PROVE  /\ sendto(r) \in Ranks /\ recvfrom(r) \in Ranks
         /\ IsLocal(r) <=> sendto(r) = r
         /\ IsLocal(r) <=> recvfrom(r) = r
         /\ HasSent(r, sendto(r)) <=> pc[r] = "wait"
         /\ HasReceived(r, recvfrom(r)) <=> rreq[r] = "done"
<1>1. Regular(plan[r].mode, plan[r], r)
  BY DEF AllRegular, TypeOK
<1>2. pos[r] \in Iterations(plan[r].mode) /\ pos[r] \in Int
  BY DEF AtExchange, Exchanges, TypeOK
<1>3. /\ sendto(r) \in Ranks /\ recvfrom(r) \in Ranks
      /\ sendto(r) = r <=> recvfrom(r) = r
  BY <1>1, <1>2 DEF AtExchange, Regular, sendto, recvfrom
<1>4. HasSent(r, sendto(r)) <=> pc[r] = "wait"
  <2>1. \A k \in Iterations(plan[r].mode) :
          /\ Exchanges(plan[r].mode, plan[r], r, k)
          /\ SendTo(plan[r].mode, plan[r], r, k) = sendto(r)
          => k = pos[r]
    BY <1>1, <1>2 DEF Regular, Covers, AtExchange, sendto
  <2>. QED BY <1>2, <2>1 DEF HasSent, AtExchange, sendto
<1>5. HasReceived(r, recvfrom(r)) <=> rreq[r] = "done"
  <2>1. \A k \in Iterations(plan[r].mode) :
          /\ Exchanges(plan[r].mode, plan[r], r, k)
          /\ RecvFrom(plan[r].mode, plan[r], r, k) = recvfrom(r)
          => k = pos[r]
    BY <1>1, <1>2 DEF Regular, Covers, AtExchange, recvfrom
  <2>. QED BY <1>2, <2>1 DEF HasReceived, AtExchange, recvfrom
<1>. QED BY <1>3, <1>4, <1>5 DEF IsLocal

\* At the end of its loop a rank has sent to every rank and received from every
\* rank.
LEMMA AllDone ==
  ASSUME AllRegular, TypeOK, NEW r \in Ranks, pos[r] = LoopEnd(r)
  PROVE  \A d \in Ranks : HasSent(r, d) /\ HasReceived(r, d)
<1>1. Regular(plan[r].mode, plan[r], r)
  BY DEF AllRegular, TypeOK
<1>2. \A k \in Iterations(plan[r].mode) : k < pos[r]
  BY LastType DEF Iterations, LoopEnd
<1>. QED BY <1>1, <1>2 DEF Regular, Covers, HasSent, HasReceived

\* The counts of what was sent and received are integers.
LEMMA CountsAreIntegers ==
  ASSUME TypeOK, NEW s \in Ranks, NEW d \in Ranks
  PROVE  call[s] \in Int /\ Sent(s, d) \in Int /\ Received(s, d) \in Int
<1>1. call[s] \in Int
  BY DEF TypeOK
<1>. QED BY <1>1 DEF Sent, Received

\* What a rank has sent and received changes only with its own variables.
LEMMA SameSent ==
  ASSUME NEW s, NEW d, plan' = plan, pos'[s] = pos[s], call'[s] = call[s],
         pc'[s] = "wait" <=> pc[s] = "wait"
  PROVE  (HasSent(s, d)' <=> HasSent(s, d)) /\ Sent(s, d)' = Sent(s, d)
BY DEF HasSent, Sent

LEMMA SameReceived ==
  ASSUME NEW d, NEW s, plan' = plan, pos'[d] = pos[d], call'[d] = call[d],
         rreq'[d] = "done" <=> rreq[d] = "done"
  PROVE  /\ HasReceived(d, s)' <=> HasReceived(d, s)
         /\ Received(d, s)' = Received(d, s)
BY DEF HasReceived, Received

LEMMA SamePartners ==
  ASSUME NEW r, plan' = plan, pos'[r] = pos[r]
  PROVE  (AtExchange(r)' <=> AtExchange(r)) /\ (IsLocal(r)' <=> IsLocal(r))
BY DEF AtExchange, IsLocal, sendto, recvfrom

\* WireOK says nothing but this of a step that leaves the messages alone.
LEMMA SameWire ==
  ASSUME WireOK, wire' = wire,
         \A s, d \in Ranks : s # d => /\ Sent(s, d)' = Sent(s, d)
                                      /\ Received(d, s)' = Received(d, s)
  PROVE  WireOK'
BY DEF WireOK, Block

\* A rank whose own variables a step leaves alone stays as it is.
LEMMA RankFrame ==
  ASSUME NEW r, RankOK(r), plan' = plan, pos'[r] = pos[r], call'[r] = call[r],
         pc'[r] = pc[r], rreq'[r] = rreq[r], sreq'[r] = sreq[r]
  PROVE  RankOK(r)'
BY SamePartners DEF RankOK, LoopEnd

\* A step of a rank that was not waiting, or whose send is complete, cannot
\* disturb a rendezvous.
LEMMA SameRendezvous ==
  ASSUME TypeOK, RendezvousOK, NEW r \in Ranks, wire' = wire, plan' = plan,
         pc[r] # "wait" \/ sreq[r] # "active",
         \A q \in Ranks \ {r} : /\ pc'[q] = pc[q] /\ sreq'[q] = sreq[q]
                                /\ pos'[q] = pos[q]
  PROVE  RendezvousOK'
<1>. SUFFICES ASSUME NEW s \in Ranks, NEW d \in Ranks, NEW i \in 1 .. Len(wire[s][d]),
                     wire[s][d][i].protocol = "rndv"
              PROVE  IsPending(s, d, i)'
  BY DEF RendezvousOK
<1>1. IsPending(s, d, i) /\ s # r
  BY DEF RendezvousOK, IsPending
<1>. QED BY <1>1 DEF IsPending, sendto

LEMMA InitInv == ASSUME AllRegular, Init PROVE IInv
<1>1. TypeOK
  <2>1. \A r \in Ranks : LoopEnd(r) \in 0 .. LoopEnd(r)
    BY LoopEndType
  <2>2. pos \in [Ranks -> Int] /\ \A r \in Ranks : pos[r] \in 0 .. LoopEnd(r)
    BY <2>1, LoopEndType DEF Init
  <2>. QED BY <2>2, BoundsAssumption DEF Init, TypeOK
<1>2. RequestsOK
  BY DEF Init, RequestsOK, RankOK
<1>3. \A s, d \in Ranks : HasSent(s, d) /\ HasReceived(d, s)
  BY <1>1, AllDone DEF Init
<1>4. WireOK
  BY <1>3 DEF Init, WireOK, Sent, Received
<1>5. ReceivedInPlace
  BY DEF Init, ReceivedInPlace
<1>6. RendezvousOK
  BY DEF Init, RendezvousOK
<1>. QED BY <1>1, <1>2, <1>4, <1>5, <1>6 DEF IInv

LEMMA EnterInv ==
  ASSUME AllRegular, IInv, TypeOK', NEW r \in Ranks, Enter(r) PROVE IInv'
<1>. USE DEF IInv
<1>0. call[r] \in Int /\ call'[r] = call[r] + 1
  BY DEF Enter, TypeOK
<1>1. /\ pc[r] = "out" /\ pos[r] = LoopEnd(r)
      /\ rreq[r] = "none" /\ sreq[r] = "none"
  BY DEF Enter, RequestsOK, RankOK
<1>2. /\ \A l \in Iterations(plan[r].mode) :
           Exchanges(plan[r].mode, plan[r], r, l) => (l < pos'[r] <=> l <= -1)
      /\ Exchanges(plan[r].mode, plan[r], r, pos'[r]) \/ pos'[r] = LoopEnd(r)
      /\ pos' = [pos EXCEPT ![r] = pos'[r]]
  BY Advance DEF Enter
<1>3. \A d : ~HasSent(r, d)' /\ ~HasReceived(r, d)'
  BY <1>1, <1>2, LastType DEF Enter, HasSent, HasReceived, Iterations, TypeOK, pmlVars
<1>4. \A d \in Ranks : HasSent(r, d) /\ HasReceived(r, d)
  BY <1>1, AllDone
<1>5. \A s, d \in Ranks : /\ Sent(s, d)' = Sent(s, d)
                          /\ Received(d, s)' = Received(d, s)
  <2>1. ASSUME NEW s \in Ranks, NEW d \in Ranks PROVE Sent(s, d)' = Sent(s, d)
    <3>1. CASE s = r
      <4>1. Sent(r, d) = call[r] /\ Sent(r, d)' = call'[r] - 1
        BY <1>3, <1>4 DEF Sent
      <4>. QED BY <1>0, <3>1, <4>1
    <3>2. CASE s # r
      BY <1>2, <3>2, SameSent DEF Enter, TypeOK
    <3>. QED BY <3>1, <3>2
  <2>2. ASSUME NEW s \in Ranks, NEW d \in Ranks
        PROVE  Received(d, s)' = Received(d, s)
    <3>1. CASE d = r
      <4>1. Received(r, s) = call[r] /\ Received(r, s)' = call'[r] - 1
        BY <1>3, <1>4 DEF Received
      <4>. QED BY <1>0, <3>1, <4>1
    <3>2. CASE d # r
      BY <1>2, <3>2, SameReceived DEF Enter, TypeOK, pmlVars
    <3>. QED BY <3>1, <3>2
  <2>. QED BY <2>1, <2>2
<1>6. WireOK'
  BY <1>5, SameWire DEF Enter, pmlVars
<1>7. RequestsOK'
  <2>1. ASSUME NEW q \in Ranks PROVE RankOK(q)'
    <3>1. CASE q = r
      BY <1>1, <1>2, <3>1 DEF RankOK, Enter, pmlVars, TypeOK, AtExchange, LoopEnd
    <3>2. CASE q # r
      BY <1>2, <3>2, RankFrame DEF RequestsOK, Enter, pmlVars, TypeOK
    <3>. QED BY <3>1, <3>2
  <2>. QED BY <2>1 DEF RequestsOK
<1>8. ReceivedInPlace'
  <2>1. ASSUME NEW d \in Ranks, NEW s \in Ranks,
               HasReceived(d, s)', call'[d] > 0
        PROVE  rbuf'[d][s] = Block(s, d, call'[d])
    <3>1. d # r
      BY <1>3, <2>1
    <3>2. (HasReceived(d, s)' <=> HasReceived(d, s)) /\ call'[d] = call[d]
      BY <1>2, <3>1, SameReceived DEF Enter, TypeOK, pmlVars
    <3>. QED BY <2>1, <3>2 DEF ReceivedInPlace, Enter, pmlVars
  <2>. QED BY <2>1 DEF ReceivedInPlace, Block
<1>9. RendezvousOK'
  BY <1>1, <1>2, SameRendezvous DEF Enter, pmlVars, TypeOK
<1>. QED BY <1>6, <1>7, <1>8, <1>9

LEMMA LocalCopyInv ==
  ASSUME AllRegular, IInv, TypeOK', NEW r \in Ranks, LocalCopy(r) PROVE IInv'
<1>. USE DEF IInv
<1>1. /\ rreq[r] = "none" /\ sreq[r] = "none" /\ pc[r] = "exchange"
      /\ sendto(r) = r /\ recvfrom(r) = r /\ call[r] > 0
      /\ AtExchange(r)
  BY Partners DEF LocalCopy, RequestsOK, RankOK
<1>2. /\ \A l \in Iterations(plan[r].mode) :
           Exchanges(plan[r].mode, plan[r], r, l) => (l < pos'[r] <=> l <= pos[r])
      /\ Exchanges(plan[r].mode, plan[r], r, pos'[r]) \/ pos'[r] = LoopEnd(r)
      /\ pos' = [pos EXCEPT ![r] = pos'[r]]
  BY Advance DEF LocalCopy, TypeOK
<1>3. \A d \in Ranks \ {r} : /\ HasSent(r, d)' <=> HasSent(r, d)
                             /\ HasReceived(r, d)' <=> HasReceived(r, d)
  <2>. SUFFICES ASSUME NEW d \in Ranks \ {r}
                PROVE  /\ HasSent(r, d)' <=> HasSent(r, d)
                       /\ HasReceived(r, d)' <=> HasReceived(r, d)
    OBVIOUS
  <2>1. /\ \A l \in Iterations(plan[r].mode) : l \in Int
        /\ pos[r] \in Int /\ pos'[r] \in Int
    BY DEF Iterations, TypeOK
  <2>2. pc'[r] = pc[r] /\ rreq'[r] = rreq[r] /\ plan' = plan
    BY DEF LocalCopy
  <2>3. HasSent(r, d)' <=> HasSent(r, d)
    BY <1>1, <1>2, <2>1, <2>2 DEF HasSent, sendto
  <2>4. HasReceived(r, d)' <=> HasReceived(r, d)
    BY <1>1, <1>2, <2>1, <2>2 DEF HasReceived, recvfrom
  <2>. QED BY <2>3, <2>4
<1>4. \A s, d \in Ranks : s # d => /\ Sent(s, d)' = Sent(s, d)
                                   /\ Received(d, s)' = Received(d, s)
  <2>. SUFFICES ASSUME NEW s \in Ranks, NEW d \in Ranks, s # d
                PROVE  Sent(s, d)' = Sent(s, d) /\ Received(d, s)' = Received(d, s)
    OBVIOUS
  <2>1. Sent(s, d)' = Sent(s, d)
    <3>1. CASE s = r
      BY <1>3, <3>1 DEF Sent, LocalCopy
    <3>2. CASE s # r
      BY <1>2, <3>2, SameSent DEF LocalCopy, TypeOK
    <3>. QED BY <3>1, <3>2
  <2>2. Received(d, s)' = Received(d, s)
    <3>1. CASE d = r
      BY <1>3, <3>1 DEF Received, LocalCopy
    <3>2. CASE d # r
      BY <1>2, <3>2, SameReceived DEF LocalCopy, TypeOK
    <3>. QED BY <3>1, <3>2
  <2>. QED BY <2>1, <2>2
<1>5. WireOK'
  BY <1>4, SameWire DEF LocalCopy
<1>6. RequestsOK'
  <2>1. ASSUME NEW q \in Ranks PROVE RankOK(q)'
    <3>1. CASE q = r
      BY <1>1, <1>2, <3>1 DEF RankOK, LocalCopy, TypeOK, AtExchange, LoopEnd
    <3>2. CASE q # r
      BY <1>2, <3>2, RankFrame DEF RequestsOK, LocalCopy, TypeOK
    <3>. QED BY <3>1, <3>2
  <2>. QED BY <2>1 DEF RequestsOK
<1>7. ReceivedInPlace'
  <2>1. ASSUME NEW d \in Ranks, NEW s \in Ranks,
               HasReceived(d, s)', call'[d] > 0
        PROVE  rbuf'[d][s] = Block(s, d, call'[d])
    <3>1. CASE d = r /\ s = r
      BY <3>1 DEF LocalCopy, TypeOK
    <3>2. CASE ~(d = r /\ s = r)
      <4>1. HasReceived(d, s)
        <5>1. CASE d = r
          BY <1>3, <2>1, <3>2, <5>1
        <5>2. CASE d # r
          BY <1>2, <2>1, <5>2, SameReceived DEF LocalCopy, TypeOK
        <5>. QED BY <5>1, <5>2
      <4>2. rbuf'[d][s] = rbuf[d][s] /\ call'[d] = call[d]
        BY <3>2 DEF LocalCopy, TypeOK
      <4>. QED BY <2>1, <4>1, <4>2 DEF ReceivedInPlace
    <3>. QED BY <3>1, <3>2
  <2>. QED BY <2>1 DEF ReceivedInPlace, Block
<1>8. RendezvousOK'
  BY <1>1, <1>2, SameRendezvous DEF LocalCopy, TypeOK
<1>. QED BY <1>5, <1>6, <1>7, <1>8

\* The steps that neither move a rank nor complete a request or a message.
LEMMA QuietInv ==
  ASSUME IInv, TypeOK', RequestsOK', plan' = plan, pos' = pos, call' = call,
         rbuf' = rbuf, wire' = wire, sreq' = sreq,
         \A q \in Ranks : /\ pc'[q] = "wait" <=> pc[q] = "wait"
                          /\ rreq'[q] = "done" <=> rreq[q] = "done"
  PROVE  IInv'
<1>. USE DEF IInv
<1>1. \A s, d \in Ranks : /\ Sent(s, d)' = Sent(s, d)
                          /\ Received(d, s)' = Received(d, s)
                          /\ HasReceived(d, s)' <=> HasReceived(d, s)
  BY SameSent, SameReceived
<1>2. WireOK'
  BY <1>1, SameWire
<1>3. ReceivedInPlace'
  BY <1>1 DEF ReceivedInPlace, Block
<1>4. RendezvousOK'
  BY DEF RendezvousOK, IsPending, sendto
<1>. QED BY <1>2, <1>3, <1>4

LEMMA IrecvInv ==
  ASSUME AllRegular, IInv, TypeOK', NEW r \in Ranks, Irecv(r) PROVE IInv'
<1>1. RequestsOK'
  <2>1. ASSUME NEW q \in Ranks PROVE RankOK(q)'
    <3>1. RankOK(q)
      BY DEF IInv, RequestsOK
    <3>2. (AtExchange(q)' <=> AtExchange(q)) /\ (IsLocal(q)' <=> IsLocal(q))
      BY SamePartners DEF Irecv
    <3>. QED BY <3>1, <3>2 DEF IInv, RankOK, Irecv, TypeOK, LoopEnd
  <2>. QED BY <2>1 DEF RequestsOK
<1>2. /\ plan' = plan /\ pos' = pos /\ call' = call /\ rbuf' = rbuf /\ wire' = wire
      /\ sreq' = sreq
      /\ \A q \in Ranks : /\ pc'[q] = "wait" <=> pc[q] = "wait"
                          /\ rreq'[q] = "done" <=> rreq[q] = "done"
  BY DEF Irecv, IInv, TypeOK, RequestsOK, RankOK
<1>. QED BY <1>1, <1>2, QuietInv

LEMMA ReturnInv ==
  ASSUME IInv, TypeOK', NEW r \in Ranks, Return(r) PROVE IInv'
<1>1. RequestsOK'
  <2>1. ASSUME NEW q \in Ranks PROVE RankOK(q)'
    <3>1. RankOK(q)
      BY DEF IInv, RequestsOK
    <3>2. (AtExchange(q)' <=> AtExchange(q)) /\ (IsLocal(q)' <=> IsLocal(q))
      BY SamePartners DEF Return
    <3>. QED BY <3>1, <3>2 DEF IInv, RankOK, Return, pmlVars, TypeOK, LoopEnd
  <2>. QED BY <2>1 DEF RequestsOK
<1>. QED BY <1>1, QuietInv DEF Return, pmlVars, IInv, TypeOK

LEMMA FailInv ==
  ASSUME IInv, TypeOK', NEW r \in Ranks, Fail(r) PROVE IInv'
<1>1. RequestsOK'
  <2>1. ASSUME NEW q \in Ranks PROVE RankOK(q)'
    <3>1. RankOK(q)
      BY DEF IInv, RequestsOK
    <3>2. (AtExchange(q)' <=> AtExchange(q)) /\ (IsLocal(q)' <=> IsLocal(q))
      BY SamePartners DEF Fail
    <3>. QED BY <3>1, <3>2 DEF IInv, RankOK, Fail, pmlVars, TypeOK, LoopEnd
  <2>. QED BY <2>1 DEF RequestsOK
<1>. QED BY <1>1, QuietInv DEF Fail, pmlVars, IInv, TypeOK

LEMMA WaitAllInv ==
  ASSUME AllRegular, IInv, TypeOK', NEW r \in Ranks, WaitAll(r) PROVE IInv'
<1>. USE DEF IInv
<1>1. /\ \A l \in Iterations(plan[r].mode) :
           Exchanges(plan[r].mode, plan[r], r, l) => (l < pos'[r] <=> l <= pos[r])
      /\ Exchanges(plan[r].mode, plan[r], r, pos'[r]) \/ pos'[r] = LoopEnd(r)
      /\ pos' = [pos EXCEPT ![r] = pos'[r]]
  BY Advance DEF WaitAll, TypeOK
<1>2. \A d : /\ HasSent(r, d)' <=> HasSent(r, d)
             /\ HasReceived(r, d)' <=> HasReceived(r, d)
  <2>1. /\ \A l \in Iterations(plan[r].mode) : l \in Int
        /\ pos[r] \in Int /\ pos'[r] \in Int
    BY DEF Iterations, TypeOK
  <2>2. /\ pc[r] = "wait" /\ pc'[r] = "exchange" /\ plan' = plan
        /\ rreq[r] = "done" /\ rreq'[r] = "none"
    BY DEF WaitAll, TypeOK
  <2>3. ASSUME NEW d PROVE HasSent(r, d)' <=> HasSent(r, d)
    BY <1>1, <2>1, <2>2 DEF HasSent
  <2>4. ASSUME NEW d PROVE HasReceived(r, d)' <=> HasReceived(r, d)
    BY <1>1, <2>1, <2>2 DEF HasReceived
  <2>. QED BY <2>3, <2>4
<1>3. \A s, d \in Ranks : /\ Sent(s, d)' = Sent(s, d)
                          /\ Received(d, s)' = Received(d, s)
                          /\ HasReceived(d, s)' <=> HasReceived(d, s)
  <2>. SUFFICES ASSUME NEW s \in Ranks, NEW d \in Ranks
                PROVE  /\ Sent(s, d)' = Sent(s, d)
                       /\ Received(d, s)' = Received(d, s)
                       /\ HasReceived(d, s)' <=> HasReceived(d, s)
    OBVIOUS
  <2>1. Sent(s, d)' = Sent(s, d)
    <3>1. CASE s = r
      BY <1>2, <3>1 DEF Sent, WaitAll
    <3>2. CASE s # r
      BY <1>1, <3>2, SameSent DEF WaitAll, TypeOK
    <3>. QED BY <3>1, <3>2
  <2>2. /\ Received(d, s)' = Received(d, s)
        /\ HasReceived(d, s)' <=> HasReceived(d, s)
    <3>1. CASE d = r
      BY <1>2, <3>1 DEF Received, WaitAll
    <3>2. CASE d # r
      <4>1. /\ plan' = plan /\ pos'[d] = pos[d] /\ call'[d] = call[d] /\ rreq'[d] = rreq[d]
        BY <1>1, <3>2 DEF WaitAll, TypeOK
      <4>. QED BY <4>1, SameReceived
    <3>. QED BY <3>1, <3>2
  <2>. QED BY <2>1, <2>2
<1>4. WireOK'
  BY <1>3, SameWire DEF WaitAll
<1>5. RequestsOK'
  <2>1. ASSUME NEW q \in Ranks PROVE RankOK(q)'
    <3>0. RankOK(q)
      BY DEF RequestsOK
    <3>1. CASE q = r
      BY <1>1, <3>0, <3>1 DEF RankOK, WaitAll, TypeOK, AtExchange, LoopEnd
    <3>2. CASE q # r
      BY <1>1, <3>0, <3>2, RankFrame DEF WaitAll, TypeOK
    <3>. QED BY <3>1, <3>2
  <2>. QED BY <2>1 DEF RequestsOK
<1>6. ReceivedInPlace'
  BY <1>3 DEF ReceivedInPlace, Block, WaitAll
<1>7. RendezvousOK'
  BY <1>1, SameRendezvous DEF WaitAll, TypeOK
<1>. QED BY <1>4, <1>5, <1>6, <1>7

LEMMA IsendInv ==
  ASSUME AllRegular, IInv, TypeOK', NEW r \in Ranks, Isend(r) PROVE IInv'
<1>. USE DEF IInv
<1>0. PICK to \in Ranks : to = sendto(r)
  BY Partners DEF Isend, RequestsOK, RankOK
<1>1. /\ pc[r] = "isend" /\ AtExchange(r) /\ to \in Ranks /\ to # r
      /\ ~HasSent(r, to)
  BY <1>0, Partners DEF Isend, RequestsOK, RankOK
<1>2. PICK p \in Protocols :
        wire' = [wire EXCEPT ![r][to] =
                   Append(@, [block |-> Block(r, to, call[r]), protocol |-> p])]
  BY <1>0 DEF Isend
<1>3. \A d, s \in Ranks : /\ Received(d, s)' = Received(d, s)
                          /\ HasReceived(d, s)' <=> HasReceived(d, s)
  BY SameReceived DEF Isend
<1>4. \A s, d \in Ranks : ~(s = r /\ d = to) => Sent(s, d)' = Sent(s, d)
  <2>. SUFFICES ASSUME NEW s \in Ranks, NEW d \in Ranks, ~(s = r /\ d = to)
                PROVE  Sent(s, d)' = Sent(s, d)
    OBVIOUS
  <2>1. CASE s # r
    BY <2>1, SameSent DEF Isend, TypeOK
  <2>2. CASE s = r
    <3>1. HasSent(r, d)' <=> HasSent(r, d)
      BY <1>0, <2>2 DEF HasSent, Isend, sendto, TypeOK
    <3>. QED BY <2>2, <3>1 DEF Sent, Isend
  <2>. QED BY <2>1, <2>2
<1>5. Sent(r, to) = call[r] - 1 /\ Sent(r, to)' = call[r]
  <2>1. HasSent(r, to)'
    BY <1>0, <1>1 DEF HasSent, Isend, sendto, AtExchange, Exchanges, TypeOK
  <2>. QED BY <1>1, <2>1 DEF Sent, Isend
<1>6. WireOK'
  <2>. SUFFICES ASSUME NEW s \in Ranks, NEW d \in Ranks, s # d
                PROVE  /\ Len(wire'[s][d]) = Sent(s, d)' - Received(d, s)'
                       /\ \A i \in 1 .. Len(wire'[s][d]) :
                            wire'[s][d][i].block = Block(s, d, Received(d, s)' + i)
    BY DEF WireOK, Block
  <2>1. /\ Len(wire[s][d]) = Sent(s, d) - Received(d, s)
        /\ \A i \in 1 .. Len(wire[s][d]) :
             wire[s][d][i].block = Block(s, d, Received(d, s) + i)
        /\ wire[s][d] \in Seq(Messages)
    BY DEF WireOK, TypeOK
  <2>2. CASE s = r /\ d = to
    <3>. DEFINE m == [block |-> Block(r, to, call[r]), protocol |-> p]
    <3>1. wire'[s][d] = Append(wire[s][d], m)
      BY <1>1, <1>2, <2>2 DEF TypeOK
    <3>2. /\ Len(wire'[s][d]) = Len(wire[s][d]) + 1
          /\ \A i \in 1 .. Len(wire[s][d]) : wire'[s][d][i] = wire[s][d][i]
          /\ wire'[s][d][Len(wire[s][d]) + 1] = m
      <4>. HIDE DEF m
      <4>. QED BY <2>1, <3>1
    <3>3. Received(d, s) \in Int /\ call[r] \in Int
      BY CountsAreIntegers
    <3>4. Received(d, s) + Len(wire[s][d]) + 1 = call[r]
      BY <1>5, <2>1, <2>2, <3>3
    <3>5. m.block = Block(s, d, Received(d, s) + Len(wire[s][d]) + 1)
      BY <2>2, <3>4
    <3>6. Len(wire[s][d]) \in Nat
      BY <2>1
    <3>7. \A i \in 1 .. Len(wire[s][d]) + 1 :
            wire'[s][d][i].block = Block(s, d, Received(d, s) + i)
      <4>. SUFFICES ASSUME NEW i \in 1 .. Len(wire[s][d]) + 1
                    PROVE  wire'[s][d][i].block = Block(s, d, Received(d, s) + i)
        OBVIOUS
      <4>1. CASE i \in 1 .. Len(wire[s][d])
        BY <2>1, <3>2, <4>1
      <4>2. CASE i = Len(wire[s][d]) + 1
        <5>1. Received(d, s) + i = Received(d, s) + Len(wire[s][d]) + 1
          <6>1. PICK l \in Nat, n \in Int : l = Len(wire[s][d]) /\ n = Received(d, s)
            BY <3>3, <3>6
          <6>2. n + (l + 1) = n + l + 1
            OBVIOUS
          <6>. QED BY <4>2, <6>1, <6>2
        <5>. HIDE DEF m
        <5>. QED BY <3>2, <3>5, <4>2, <5>1
      <4>. QED BY <3>6, <4>1, <4>2
    <3>8. Received(d, s)' = Received(d, s) /\ Sent(s, d)' = Sent(s, d) + 1
      <4>1. Sent(s, d) = call[r] - 1 /\ Sent(s, d)' = call[r]
        BY <1>5, <2>2
      <4>. QED BY <1>3, <3>3, <4>1
    <3>9. Len(wire'[s][d]) = Sent(s, d)' - Received(d, s)'
      <4>1. Sent(s, d) \in Int
        BY CountsAreIntegers
      <4>. HIDE DEF m
      <4>. QED BY <2>1, <3>2, <3>3, <3>8, <4>1
    <3>. HIDE DEF m
    <3>. QED BY <3>2, <3>7, <3>8, <3>9
  <2>3. CASE ~(s = r /\ d = to)
    <3>1. wire'[s][d] = wire[s][d]
      BY <1>2, <2>3 DEF TypeOK
    <3>. QED BY <1>3, <1>4, <2>1, <2>3, <3>1
  <2>. QED BY <2>2, <2>3
<1>7. RequestsOK'
  <2>1. ASSUME NEW q \in Ranks PROVE RankOK(q)'
    <3>1. RankOK(q)
      BY DEF RequestsOK
    <3>2. (AtExchange(q)' <=> AtExchange(q)) /\ (IsLocal(q)' <=> IsLocal(q))
      BY SamePartners DEF Isend
    <3>3. sreq' = [sreq EXCEPT ![r] = sreq'[r]]
      BY DEF Isend, TypeOK
    <3>. QED BY <3>1, <3>2, <3>3 DEF RankOK, Isend, TypeOK, LoopEnd
  <2>. QED BY <2>1 DEF RequestsOK
<1>8. ReceivedInPlace'
  BY <1>3 DEF ReceivedInPlace, Block, Isend
<1>9. RendezvousOK'
  <2>. SUFFICES ASSUME NEW s \in Ranks, NEW d \in Ranks,
                       NEW i \in 1 .. Len(wire'[s][d]),
                       wire'[s][d][i].protocol = "rndv"
                PROVE  IsPending(s, d, i)'
    BY DEF RendezvousOK
  <2>1. wire[s][d] \in Seq(Messages)
    BY DEF TypeOK
  <2>2. CASE s = r /\ d = to
    <3>. DEFINE m == [block |-> Block(r, to, call[r]), protocol |-> p]
    <3>1. wire'[s][d] = Append(wire[s][d], m)
      BY <1>1, <1>2, <2>2 DEF TypeOK
    <3>2. /\ Len(wire'[s][d]) = Len(wire[s][d]) + 1
          /\ \A j \in 1 .. Len(wire[s][d]) : wire'[s][d][j] = wire[s][d][j]
          /\ wire'[s][d][Len(wire[s][d]) + 1] = m
          /\ Len(wire[s][d]) \in Nat
      <4>. HIDE DEF m
      <4>. QED BY <2>1, <3>1
    <3>3. \A j \in 1 .. Len(wire[s][d]) : wire[s][d][j].protocol # "rndv"
      BY <1>1, <2>2 DEF RendezvousOK, IsPending
    <3>4. i = Len(wire[s][d]) + 1
      <4>1. i \in 1 .. Len(wire[s][d]) + 1
        BY <3>2
      <4>2. i \notin 1 .. Len(wire[s][d])
        BY <3>2, <3>3
      <4>. QED BY <3>2, <4>1, <4>2
    <3>5. m.protocol = "rndv"
      <4>. HIDE DEF m
      <4>. QED BY <3>2, <3>4
    <3>6. wire'[r][to] = Append(wire[r][to], m) /\ p = "rndv"
      BY <2>2, <3>1, <3>5
    <3>7. sreq' = [sreq EXCEPT ![r] = "active"]
      <4>1. wire'[r][to][Len(wire[r][to]) + 1] = m
        BY <2>2, <3>2
      <4>2. PICK x \in Protocols :
              /\ wire' = [wire EXCEPT ![r][to] =
                   Append(@, [block |-> Block(r, to, call[r]), protocol |-> x])]
              /\ sreq' = [sreq EXCEPT ![r] = IF x = "eager" THEN "done" ELSE "active"]
        BY <1>0 DEF Isend
      <4>. DEFINE n == [block |-> Block(r, to, call[r]), protocol |-> x]
      <4>3. wire'[r][to] = Append(wire[r][to], n)
        BY <1>1, <4>2 DEF TypeOK
      <4>4. wire'[r][to][Len(wire[r][to]) + 1] = n
        <5>. HIDE DEF n
        <5>. QED BY <2>1, <2>2, <4>3
      <4>5. n.protocol = m.protocol
        <5>. HIDE DEF n, m
        <5>. QED BY <4>1, <4>4
      <4>. QED BY <4>2, <4>5, <3>5
    <3>8. pc'[r] = "wait" /\ sreq'[r] = "active" /\ sendto(r)' = to
      BY <1>0, <3>7 DEF Isend, TypeOK, sendto
    <3>. QED BY <2>2, <3>2, <3>4, <3>8 DEF IsPending
  <2>3. CASE s = r /\ d # to
    <3>1. wire'[s][d] = wire[s][d]
      BY <1>2, <2>3 DEF TypeOK
    <3>. QED BY <1>1, <2>3, <3>1 DEF RendezvousOK, IsPending
  <2>4. CASE s # r
    <3>1. wire'[s][d] = wire[s][d]
      BY <1>2, <2>4 DEF TypeOK
    <3>2. IsPending(s, d, i)
      BY <3>1 DEF RendezvousOK
    <3>3. pc'[s] = pc[s] /\ sreq'[s] = sreq[s] /\ sendto(s)' = sendto(s)
      BY <2>4 DEF Isend, TypeOK, sendto
    <3>. QED BY <3>1, <3>2, <3>3 DEF IsPending
  <2>. QED BY <2>2, <2>3, <2>4
<1>. QED BY <1>6, <1>7, <1>8, <1>9

\* The message at the head of a channel is the one the posted receive is for.
LEMMA HeadIsForThisCall ==
  ASSUME AllRegular, IInv, NEW s \in Ranks, NEW d \in Ranks, Match(s, d)
  PROVE  /\ s # d /\ AtExchange(d) /\ ~HasReceived(d, s)
         /\ Received(d, s) = call[d] - 1
         /\ Head(wire[s][d]).block = Block(s, d, call[d])
         /\ call[s] >= call[d] /\ call[d] > 0
<1>. USE DEF IInv
<1>1. AtExchange(d) /\ ~IsLocal(d) /\ recvfrom(d) = s
  BY DEF Match, RequestsOK, RankOK
<1>2. s # d /\ ~HasReceived(d, s)
  BY <1>1, Partners DEF Match
<1>3. Received(d, s) = call[d] - 1 /\ call[d] \in Nat /\ call[s] \in Nat
  BY <1>2 DEF Received, TypeOK
<1>4. wire[s][d] \in Seq(Messages) /\ wire[s][d] # <<>>
  BY DEF Match, TypeOK
<1>5. Len(wire[s][d]) > 0 /\ Head(wire[s][d]) = wire[s][d][1]
  BY <1>4
<1>6. Head(wire[s][d]).block = Block(s, d, Received(d, s) + 1)
  BY <1>2, <1>4, <1>5 DEF WireOK
<1>7. Received(d, s) + 1 = call[d]
  BY <1>3
<1>8. Sent(s, d) > Received(d, s) /\ Sent(s, d) <= call[s]
  BY <1>2, <1>3, <1>5 DEF WireOK, Sent
<1>9. call[d] > 0
  BY <1>1, <1>3 DEF Match, RequestsOK, RankOK, TypeOK
<1>10. call[s] >= call[d]
  BY <1>3, <1>8 DEF Sent
<1>. QED BY <1>1, <1>2, <1>3, <1>6, <1>7, <1>9, <1>10

LEMMA MatchInv ==
  ASSUME AllRegular, IInv, TypeOK', NEW s \in Ranks, NEW d \in Ranks, Match(s, d)
  PROVE  IInv'
<1>. USE DEF IInv
<1>1. /\ s # d /\ AtExchange(d) /\ ~HasReceived(d, s)
      /\ Received(d, s) = call[d] - 1
      /\ Head(wire[s][d]).block = Block(s, d, call[d])
      /\ call[d] > 0
  BY HeadIsForThisCall
<1>2. \A a, b \in Ranks : Sent(a, b)' = Sent(a, b)
  BY SameSent DEF Match, rankVars
<1>3. \A a, b \in Ranks : ~(a = s /\ b = d) =>
        /\ Received(b, a)' = Received(b, a)
        /\ HasReceived(b, a)' <=> HasReceived(b, a)
  <2>. SUFFICES ASSUME NEW a \in Ranks, NEW b \in Ranks, ~(a = s /\ b = d)
                PROVE  /\ Received(b, a)' = Received(b, a)
                       /\ HasReceived(b, a)' <=> HasReceived(b, a)
    OBVIOUS
  <2>1. CASE b # d
    <3>1. rreq'[b] = rreq[b] /\ plan' = plan /\ pos' = pos /\ call' = call
      BY <2>1 DEF Match, rankVars, TypeOK
    <3>. QED BY <3>1, SameReceived
  <2>2. CASE b = d
    <3>1. HasReceived(d, a)' <=> HasReceived(d, a)
      BY <2>2 DEF HasReceived, Match, rankVars, recvfrom, TypeOK
    <3>. QED BY <2>2, <3>1 DEF Received, Match, rankVars
  <2>. QED BY <2>1, <2>2
<1>4. Received(d, s)' = call[d]
  <2>1. HasReceived(d, s)'
    <3>1. plan'[d] = plan[d] /\ pos'[d] = pos[d] /\ rreq'[d] = "done"
      BY DEF Match, rankVars, TypeOK
    <3>2. /\ pos[d] \in Iterations(plan[d].mode)
          /\ Exchanges(plan[d].mode, plan[d], d, pos[d])
          /\ RecvFrom(plan[d].mode, plan[d], d, pos[d]) = s
      BY <1>1 DEF Match, recvfrom, AtExchange, Exchanges
    <3>. QED BY <3>1, <3>2 DEF HasReceived
  <2>. QED BY <2>1 DEF Received, Match, rankVars
<1>5. WireOK'
  <2>. SUFFICES ASSUME NEW a \in Ranks, NEW b \in Ranks, a # b
                PROVE  /\ Len(wire'[a][b]) = Sent(a, b)' - Received(b, a)'
                       /\ \A i \in 1 .. Len(wire'[a][b]) :
                            wire'[a][b][i].block = Block(a, b, Received(b, a)' + i)
    BY DEF WireOK, Block
  <2>1. /\ Len(wire[a][b]) = Sent(a, b) - Received(b, a)
        /\ \A i \in 1 .. Len(wire[a][b]) :
             wire[a][b][i].block = Block(a, b, Received(b, a) + i)
        /\ wire[a][b] \in Seq(Messages)
    BY DEF WireOK, TypeOK
  <2>2. CASE a = s /\ b = d
    <3>1. wire'[a][b] = Tail(wire[a][b]) /\ wire[a][b] # <<>>
      BY <2>2 DEF Match, TypeOK
    <3>2. /\ Len(wire'[a][b]) = Len(wire[a][b]) - 1
          /\ \A i \in 1 .. Len(wire'[a][b]) : wire'[a][b][i] = wire[a][b][i + 1]
      BY <2>1, <3>1
    <3>3. Received(b, a) \in Int /\ call[d] \in Int /\ Sent(a, b) \in Int
      BY CountsAreIntegers
    <3>4. Received(b, a)' = Received(b, a) + 1
      BY <1>1, <1>4, <2>2, <3>3
    <3>5. Len(wire[a][b]) \in Nat
      BY <2>1
    <3>6. ASSUME NEW i \in 1 .. Len(wire'[a][b])
          PROVE  wire'[a][b][i].block = Block(a, b, Received(b, a)' + i)
      <4>1. i + 1 \in 1 .. Len(wire[a][b])
        BY <3>2, <3>5
      <4>2. Received(b, a) + (i + 1) = Received(b, a)' + i
        BY <3>3, <3>4
      <4>. QED BY <2>1, <3>2, <4>1, <4>2
    <3>. QED BY <1>2, <2>1, <3>2, <3>3, <3>4, <3>6
  <2>3. CASE ~(a = s /\ b = d)
    <3>1. wire'[a][b] = wire[a][b]
      BY <2>3 DEF Match, TypeOK
    <3>. QED BY <1>2, <1>3, <2>1, <2>3, <3>1
  <2>. QED BY <2>2, <2>3
<1>8. /\ wire[s][d] \in Seq(Messages) /\ wire[s][d] # <<>>
      /\ Head(wire[s][d]) = wire[s][d][1]
      /\ Head(wire[s][d]).protocol = "rndv" => IsPending(s, d, 1)
  <2>1. wire[s][d] \in Seq(Messages) /\ wire[s][d] # <<>>
    BY DEF Match, TypeOK
  <2>2. Head(wire[s][d]) = wire[s][d][1] /\ 1 \in 1 .. Len(wire[s][d])
    BY <2>1
  <2>. QED BY <2>1, <2>2 DEF RendezvousOK
<1>6. RequestsOK'
  <2>1. ASSUME NEW q \in Ranks PROVE RankOK(q)'
    <3>1. RankOK(q)
      BY DEF RequestsOK
    <3>2. (AtExchange(q)' <=> AtExchange(q)) /\ (IsLocal(q)' <=> IsLocal(q))
      BY SamePartners DEF Match, rankVars
    <3>3. sreq'[q] = "none" \/ pc[q] = "wait" \/ sreq'[q] = sreq[q]
      BY <1>8 DEF Match, TypeOK, IsPending
    <3>4. /\ pc' = pc /\ call' = call /\ pos' = pos /\ LoopEnd(q)' = LoopEnd(q)
          /\ rreq'[q] = rreq[q] \/ (rreq[q] = "posted" /\ rreq'[q] = "done")
      BY DEF Match, rankVars, TypeOK, LoopEnd
    <3>. QED BY <3>1, <3>2, <3>3, <3>4 DEF RankOK
  <2>. QED BY <2>1 DEF RequestsOK
<1>7. ReceivedInPlace'
  <2>1. ASSUME NEW b \in Ranks, NEW a \in Ranks,
               HasReceived(b, a)', call'[b] > 0
        PROVE  rbuf'[b][a] = Block(a, b, call'[b])
    <3>1. CASE a = s /\ b = d
      BY <1>1, <3>1 DEF Match, rankVars, TypeOK
    <3>2. CASE ~(a = s /\ b = d)
      <4>1. HasReceived(b, a) /\ call[b] > 0 /\ call'[b] = call[b]
        BY <1>3, <2>1, <3>2 DEF Match, rankVars
      <4>2. rbuf'[b][a] = rbuf[b][a]
        BY <3>2 DEF Match, TypeOK
      <4>. QED BY <4>1, <4>2 DEF ReceivedInPlace
    <3>. QED BY <3>1, <3>2
  <2>. QED BY <2>1 DEF ReceivedInPlace, Block
<1>9. RendezvousOK'
  <2>. SUFFICES ASSUME NEW a \in Ranks, NEW b \in Ranks,
                       NEW i \in 1 .. Len(wire'[a][b]),
                       wire'[a][b][i].protocol = "rndv"
                PROVE  IsPending(a, b, i)'
    BY DEF RendezvousOK
  <2>0. pc' = pc /\ sendto(a)' = sendto(a)
    BY DEF Match, rankVars, sendto
  <2>1. CASE a = s /\ b = d
    <3>1. wire'[a][b] = Tail(wire[a][b])
      BY <2>1 DEF Match, TypeOK
    <3>2. /\ Len(wire'[a][b]) = Len(wire[a][b]) - 1
          /\ i + 1 \in 1 .. Len(wire[a][b])
          /\ wire'[a][b][i] = wire[a][b][i + 1]
      BY <1>8, <2>1, <3>1
    <3>3. IsPending(a, b, i + 1)
      BY <3>2 DEF RendezvousOK
    <3>4. i \in Int /\ i > 0 /\ Len(wire[a][b]) \in Nat
      BY <1>8, <2>1
    <3>5. Head(wire[s][d]).protocol # "rndv"
      <4>1. i + 1 = Len(wire[s][d]) /\ i + 1 # 1
        BY <2>1, <3>3, <3>4 DEF IsPending
      <4>. QED BY <1>8, <4>1 DEF IsPending
    <3>6. sreq' = sreq
      BY <3>5 DEF Match, TypeOK
    <3>. QED BY <2>0, <3>2, <3>3, <3>4, <3>6 DEF IsPending
  <2>2. CASE ~(a = s /\ b = d)
    <3>1. wire'[a][b] = wire[a][b]
      BY <2>2 DEF Match, TypeOK
    <3>2. IsPending(a, b, i)
      BY <3>1 DEF RendezvousOK
    <3>3. sreq'[a] = sreq[a]
      <4>1. CASE a # s
        BY <4>1 DEF Match, TypeOK
      <4>2. CASE a = s
        <5>1. Head(wire[s][d]).protocol # "rndv"
          BY <1>8, <2>2, <3>2, <4>2 DEF IsPending
        <5>. QED BY <4>2, <5>1 DEF Match, TypeOK
      <4>. QED BY <4>1, <4>2
    <3>. QED BY <2>0, <3>1, <3>2, <3>3 DEF IsPending
  <2>. QED BY <2>1, <2>2
<1>. QED BY <1>5, <1>6, <1>7, <1>9

-----------------------------------------------------------------------------
(* The theorems.                                                           *)

\* IInv holds of every behaviour when every rank's loop is an all-to-all
\* schedule; the modes and the shuffles of the ranks need not agree.
THEOREM Invariance == ASSUME AllRegular PROVE Spec => []IInv
<1>1. Init => IInv
  BY InitInv
<1>2. IInv /\ TypeOK' /\ [Next]_vars => IInv'
  <2>. SUFFICES ASSUME IInv, TypeOK', [Next]_vars PROVE IInv'
    OBVIOUS
  <2>1. ASSUME UNCHANGED vars PROVE IInv'
    <3>1. \A q \in Ranks : RankOK(q)'
      BY <2>1, RankFrame DEF IInv, RequestsOK, vars, rankVars, pmlVars
    <3>. QED BY <2>1, <3>1, QuietInv DEF RequestsOK, vars, rankVars, pmlVars
  <2>2. CASE Finished
    BY <2>1, <2>2 DEF Finished
  <2>3. ASSUME NEW r \in Ranks, RankStep(r) \/ Fail(r) PROVE IInv'
    BY <2>3, EnterInv, LocalCopyInv, IrecvInv, IsendInv, WaitAllInv, ReturnInv,
       FailInv DEF RankStep
  <2>4. ASSUME NEW s \in Ranks, NEW d \in Ranks, Match(s, d) PROVE IInv'
    BY <2>4, MatchInv
  <2>. QED BY <2>1, <2>2, <2>3, <2>4 DEF Next
<1>. QED BY <1>1, <1>2, TypeCorrect, PTL DEF Spec

\* A call that returns MPI_SUCCESS has every block of its own call in place.
THEOREM Completeness == ASSUME AllRegular PROVE Spec => []Complete
<1>1. IInv => Complete
  <2>. SUFFICES ASSUME IInv, NEW r \in Ranks, pc[r] = "out", call[r] > 0,
                       NEW s \in Ranks
                PROVE  rbuf[r][s] = Block(s, r, call[r])
    BY DEF Complete
  <2>1. HasReceived(r, s)
    BY AllDone DEF IInv, RequestsOK, RankOK
  <2>. QED BY <2>1 DEF IInv, ReceivedInPlace
<1>. QED BY <1>1, Invariance, PTL

\* A call cannot end before every rank has entered it.
THEOREM Synchronises == ASSUME AllRegular PROVE Spec => []NoneLeavesEarly
<1>1. IInv => NoneLeavesEarly
  <2>. SUFFICES ASSUME IInv, NEW r \in Ranks, NEW s \in Ranks, pc[r] = "out"
                PROVE  call[s] >= call[r]
    BY DEF NoneLeavesEarly
  <2>0. call[s] \in Int /\ call[r] \in Int
    BY DEF IInv, TypeOK
  <2>1. CASE r = s
    BY <2>0, <2>1
  <2>2. CASE r # s
    <3>1. Received(r, s) = call[r]
      BY AllDone DEF IInv, RequestsOK, RankOK, Received
    <3>2. Len(wire[s][r]) = Sent(s, r) - Received(r, s) /\ Len(wire[s][r]) >= 0
      BY <2>2 DEF IInv, WireOK, TypeOK
    <3>3. Sent(s, r) <= call[s] /\ Sent(s, r) \in Int
      BY <2>0 DEF Sent
    <3>. QED BY <2>0, <3>1, <3>2, <3>3
  <2>. QED BY <2>1, <2>2
<1>. QED BY <1>1, Invariance, PTL

\* "so the local copy is last": in modes 0 and 1 the step of the last iteration is
\* the size, so a rank that copies its own block has been through all the others and
\* has received every other block of the call.
THEOREM LocalCopyIsLast == ASSUME AllRegular PROVE Spec => LocalCopyLast
<1>1. IInv /\ [Next]_vars =>
        [\A r \in Ranks : LocalCopy(r) /\ plan[r].mode \in {0, 1} =>
           \A s \in Ranks \ {r} : rbuf[r][s] = Block(s, r, call[r])]_vars
  <2>. SUFFICES ASSUME IInv, NEW r \in Ranks, LocalCopy(r), plan[r].mode \in {0, 1},
                       NEW s \in Ranks \ {r}
                PROVE  rbuf[r][s] = Block(s, r, call[r])
    OBVIOUS
  <2>. DEFINE m == plan[r].mode
  <2>1. Regular(m, plan[r], r)
    BY DEF AllRegular, IInv, TypeOK
  <2>2. /\ Iterations(m) = 0 .. N - 1 /\ N - 1 \in 0 .. N - 1
        /\ \A k \in 0 .. N - 1 : Exchanges(m, plan[r], r, k)
        /\ StepOf(m, plan[r], N - 1) = N
    BY NAssumption DEF Iterations, Last, Exchanges, Skips, StepOf
  <2>3. RecvFrom(m, plan[r], r, N - 1) = r
    <3>1. N \in 0 .. N
      BY NAssumption
    <3>2. (r + N - N) % N = r
      BY <3>1, RingPartners, NAssumption DEF Ranks
    <3>. QED BY <2>2, <3>2 DEF RecvFrom
  \* Its own block is that of the last iteration, and of no other.
  <2>4. pos[r] = N - 1
    <3>1. pos[r] \in Iterations(m) /\ RecvFrom(m, plan[r], r, pos[r]) = r
      BY DEF LocalCopy, AtExchange, Exchanges, IsLocal, recvfrom
    <3>2. \A k, l \in Iterations(m) :
            /\ Exchanges(m, plan[r], r, k) /\ Exchanges(m, plan[r], r, l)
            /\ RecvFrom(m, plan[r], r, k) = RecvFrom(m, plan[r], r, l)
            => k = l
      BY <2>1 DEF Regular, Covers
    <3>. QED BY <2>2, <2>3, <3>1, <3>2
  <2>5. HasReceived(r, s)
    <3>1. PICK k \in Iterations(m) :
            Exchanges(m, plan[r], r, k) /\ RecvFrom(m, plan[r], r, k) = s
      BY <2>1 DEF Regular, Covers
    <3>2. k < pos[r]
      BY <2>2, <2>3, <2>4, <3>1, NAssumption
    <3>. QED BY <3>1, <3>2 DEF HasReceived
  <2>6. call[r] > 0
    BY DEF LocalCopy, IInv, RequestsOK, RankOK
  <2>. QED BY <2>5, <2>6 DEF IInv, ReceivedInPlace
<1>. QED BY <1>1, Invariance, PTL DEF Spec, LocalCopyLast

\* A call that returned has left nothing behind in the buffers it was given.
THEOREM ReleasesBuffers == ASSUME AllRegular PROVE Spec => []BuffersReleased
<1>1. IInv => BuffersReleased
  BY DEF IInv, RequestsOK, RankOK, RendezvousOK, IsPending, BuffersReleased
<1>. QED BY <1>1, Invariance, PTL

\* A peer never holds more than two unexpected messages of a rank.
THEOREM BoundsUnexpected == ASSUME AllRegular PROVE Spec => []UnexpectedBound
<1>1. IInv => UnexpectedBound
  <2>. SUFFICES ASSUME IInv, NEW s \in Ranks, NEW d \in Ranks, s # d
                PROVE  Len(wire[s][d]) <= 2
    BY DEF UnexpectedBound
  <2>1. \A q \in Ranks : call[q] \in Int
    BY DEF IInv, TypeOK
  <2>2. ASSUME NEW a \in Ranks, NEW b \in Ranks, a # b
        PROVE  /\ Len(wire[a][b]) = Sent(a, b) - Received(b, a)
               /\ Len(wire[a][b]) >= 0
               /\ Sent(a, b) \in Int /\ Sent(a, b) <= call[a]
               /\ Received(b, a) \in Int /\ Received(b, a) >= call[b] - 1
    <3>1. /\ Len(wire[a][b]) = Sent(a, b) - Received(b, a)
          /\ Len(wire[a][b]) >= 0
      BY <2>2 DEF IInv, WireOK, TypeOK
    <3>2. Sent(a, b) \in Int /\ Sent(a, b) <= call[a]
      BY <2>1 DEF Sent
    <3>3. Received(b, a) \in Int /\ Received(b, a) >= call[b] - 1
      BY <2>1 DEF Received
    <3>. QED BY <3>1, <3>2, <3>3
  <2>3. call[s] - 1 <= call[d]
    <3>1. PICK n \in Int, m \in Int : n = Sent(d, s) /\ m = Received(s, d)
      BY <2>2
    <3>2. n - m >= 0 /\ n <= call[d] /\ m >= call[s] - 1
      BY <2>2, <3>1
    <3>. QED BY <2>1, <3>2
  <2>4. PICK n \in Int, m \in Int : n = Sent(s, d) /\ m = Received(d, s)
    BY <2>2
  <2>5. Len(wire[s][d]) = n - m /\ n <= call[s] /\ m >= call[d] - 1
    BY <2>2, <2>4
  <2>. QED BY <2>1, <2>3, <2>5
<1>. QED BY <1>1, Invariance, PTL

-----------------------------------------------------------------------------
(* The modes of the code.                                                  *)

\* The modes the code knows; mode 2 needs the ranks to fill the switches.
Supported(m) == m \in {0, 1, 3} \/ (m = 2 /\ PerSwitch * switches = N)

LEMMA SupportedIsRegular ==
  ASSUME \A x \in Plans : Supported(x.mode) PROVE AllRegular
<1>. SUFFICES ASSUME NEW r \in Ranks, NEW x \in Plans
              PROVE  Regular(x.mode, x, r)
  BY DEF AllRegular
<1>1. x.steps \in Shuffles(N - 1) /\ x.grid \in [Ranks -> Shuffles(N)]
  BY PlansAssumption
<1>. QED BY <1>1, BaseIsRegular, RandomIsRegular, CustomIsRegular, GridIsRegular
         DEF Supported

\* MPI_Alltoall is complete in every mode the code knows, for any number of
\* ranks and calls and whatever the shuffles.
THEOREM PairwiseComplete ==
  ASSUME \A x \in Plans : Supported(x.mode) PROVE Spec => []Complete
BY SupportedIsRegular, Completeness

\* The pairwise exchange implements the contract of MPI_Alltoall.
THEOREM Refinement == ASSUME AllRegular PROVE Spec => ImplementsContract
<1>. USE DEF Contract!Ranks
<1>1. Init => Contract!Init
  BY DEF Init, Contract!Init, NoBlock, Contract!NoBlock, Ranks
<1>2. IInv /\ [Next]_vars => [Contract!Next]_Contract!vars
  <2>. SUFFICES ASSUME IInv, [Next]_vars
                PROVE  [Contract!Next]_Contract!vars
    OBVIOUS
  <2>. DEFINE stage == [r \in Ranks |-> IF pc[r] \in {"out", "failed"}
                                        THEN pc[r] ELSE "in"]
  <2>0. TypeOK
    BY DEF IInv
  <2>1. CASE UNCHANGED vars
    BY <2>1 DEF vars, rankVars, pmlVars, Contract!vars
  <2>2. CASE Finished
    BY <2>2 DEF Finished, vars, rankVars, pmlVars, Contract!vars
  <2>3. ASSUME NEW r \in Ranks, Enter(r) PROVE Contract!Enter(r)
    BY <2>0, <2>3 DEF Enter, Contract!Enter, TypeOK, pmlVars
  <2>4. ASSUME NEW r \in Ranks, LocalCopy(r) PROVE Contract!Deliver(r, r)
    BY <2>0, <2>4 DEF LocalCopy, Contract!Deliver, TypeOK, Block, Contract!Block
  <2>5. ASSUME NEW r \in Ranks, Irecv(r) \/ Isend(r) \/ WaitAll(r)
        PROVE  UNCHANGED Contract!vars
    BY <2>0, <2>5 DEF Irecv, Isend, WaitAll, Contract!vars, TypeOK
  <2>6. ASSUME NEW r \in Ranks, Return(r) PROVE Contract!Return(r)
    <3>1. \A s \in Ranks : rbuf[r][s] = Block(s, r, call[r])
      <4>1. pos[r] = LoopEnd(r) /\ call[r] > 0
        BY <2>6 DEF Return, IInv, RequestsOK, RankOK
      <4>. QED BY <4>1, AllDone DEF IInv, ReceivedInPlace
    <3>2. Contract!Filled(r)
      BY <3>1 DEF Contract!Filled, Ranks, Block, Contract!Block
    <3>3. stage[r] = "in" /\ stage' = [stage EXCEPT ![r] = "out"]
      BY <2>0, <2>6 DEF Return, TypeOK
    <3>4. call' = call /\ rbuf' = rbuf
      BY <2>6 DEF Return, pmlVars
    <3>. HIDE DEF stage
    <3>. QED BY <3>2, <3>3, <3>4 DEF Contract!Return, stage
  <2>7. ASSUME NEW r \in Ranks, Fail(r) PROVE Contract!Fail(r)
    BY <2>0, <2>7 DEF Fail, Contract!Fail, TypeOK, pmlVars
  <2>8. ASSUME NEW s \in Ranks, NEW d \in Ranks, Match(s, d)
        PROVE  Contract!Deliver(d, s)
    <3>1. /\ Head(wire[s][d]).block = Block(s, d, call[d])
          /\ call[s] >= call[d]
      BY <2>8, HeadIsForThisCall
    <3>2. pc[d] # "out"
      BY <2>8 DEF Match, IInv, RequestsOK, RankOK
    <3>. QED BY <2>0, <2>8, <3>1, <3>2
             DEF Match, Contract!Deliver, TypeOK, rankVars, Block, Contract!Block
  <2>. QED BY <2>1, <2>2, <2>3, <2>4, <2>5, <2>6, <2>7, <2>8
           DEF Next, RankStep, Contract!Next, Ranks
<1>. QED BY <1>1, <1>2, Invariance, PTL DEF Spec, ImplementsContract, Contract!Spec

=============================================================================
