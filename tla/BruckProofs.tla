---------------------------- MODULE BruckProofs ----------------------------
(***************************************************************************)
(* Bruck's algorithm delivers every block, for every number of ranks and   *)
(* every order of the distances that all the ranks share: lemmas about the *)
(* bits of a number, the partners of a round, and the invariant.           *)
(***************************************************************************)
EXTENDS BruckAlltoall, FiniteSetTheorems, WellFoundedInduction, NaturalsInduction, TLAPS

-----------------------------------------------------------------------------
(* Powers of two.                                                          *)

LEMMA LeastNumber ==
  ASSUME NEW S \in SUBSET Nat, S # {}
  PROVE  \E x \in S : \A y \in S : x <= y
<1>1. PICK x \in S : \A y \in S : ~(<<y, x>> \in OpToRel(<, Nat))
  BY NatLessThanWellFounded, WFMin
<1>2. \A y \in S : ~(y < x)
  BY <1>1 DEF OpToRel
<1>. QED BY <1>2

\* Induction over the natural numbers, for a set of them.
LEMMA SetInduction ==
  ASSUME NEW S, 0 \in S, \A n \in Nat : n \in S => n + 1 \in S
  PROVE  \A n \in Nat : n \in S
<1>. DEFINE T == Nat \ S
<1>1. SUFFICES ASSUME T # {} PROVE FALSE
  OBVIOUS
<1>2. PICK x \in T : \A y \in T : x <= y
  <2>. HIDE DEF T
  <2>1. T \in SUBSET Nat
    BY DEF T
  <2>. QED BY <1>1, <2>1, LeastNumber
<1>3. x # 0 /\ x \in Nat /\ x \notin S
  OBVIOUS
<1>4. x - 1 \in Nat /\ x - 1 \notin T
  BY <1>2, <1>3
<1>. QED BY <1>3, <1>4

\* f is the powers of two up to that of n.
ArePowers(f, n) == f[0] = 1 /\ \A k \in 0 .. n - 1 : f[k + 1] = 2 * f[k]

LEMMA PowersExist ==
  ASSUME NEW n \in Nat
  PROVE  \E f : ArePowers(f, n)
<1>. DEFINE S == {k \in Nat : \E f : ArePowers(f, k)}
<1>1. 0 \in S
  <2>1. ArePowers([k \in 0 .. 0 |-> 1], 0)
    BY DEF ArePowers
  <2>. QED BY <2>1
<1>2. ASSUME NEW k \in Nat, k \in S PROVE k + 1 \in S
  <2>1. PICK f : ArePowers(f, k)
    BY <1>2
  <2>. DEFINE g == [x \in 0 .. k + 1 |-> IF x = k + 1 THEN 2 * f[k] ELSE f[x]]
  <2>2. \A x \in 0 .. k : g[x] = f[x]
    OBVIOUS
  <2>3. g[k + 1] = 2 * f[k]
    OBVIOUS
  <2>. HIDE DEF g
  <2>4. g[0] = 1
    BY <2>1, <2>2 DEF ArePowers
  <2>5. ASSUME NEW x \in 0 .. k PROVE g[x + 1] = 2 * g[x]
    <3>1. CASE x = k
      BY <2>2, <2>3, <3>1
    <3>2. CASE x # k
      BY <2>1, <2>2, <3>2 DEF ArePowers
    <3>. QED BY <3>1, <3>2
  <2>6. ArePowers(g, k + 1)
    BY <2>4, <2>5 DEF ArePowers
  <2>. QED BY <2>6
<1>. HIDE DEF S
<1>3. n \in S
  BY <1>1, <1>2, SetInduction
<1>. QED BY <1>3 DEF S

LEMMA PowersAgree ==
  ASSUME NEW n \in Nat, NEW f, NEW g, ArePowers(f, n), ArePowers(g, n)
  PROVE  \A k \in 0 .. n : f[k] = g[k] /\ f[k] \in Nat \ {0}
<1>. DEFINE S == {k \in Nat : k <= n => f[k] = g[k] /\ f[k] \in Nat \ {0}}
<1>1. 0 \in S
  BY DEF ArePowers
<1>2. ASSUME NEW k \in Nat, k \in S PROVE k + 1 \in S
  <2>. SUFFICES ASSUME k + 1 <= n PROVE f[k + 1] = g[k + 1] /\ f[k + 1] \in Nat \ {0}
    OBVIOUS
  <2>1. f[k] = g[k] /\ f[k] \in Nat \ {0}
    BY <1>2
  <2>2. f[k + 1] = 2 * f[k] /\ g[k + 1] = 2 * g[k]
    BY DEF ArePowers
  <2>. QED BY <2>1, <2>2
<1>. HIDE DEF S
<1>3. \A k \in Nat : k \in S
  BY <1>1, <1>2, SetInduction
<1>. QED BY <1>3 DEF S

\* The recursive function is what it says.
LEMMA PowerDef ==
  /\ Power[0] = 1
  /\ \A n \in Nat : Power[n] \in Nat \ {0} /\ Power[n + 1] = 2 * Power[n]
<1>. DEFINE f(n) == CHOOSE f : ArePowers(f, n)
            P == [n \in Nat |-> f(n)[n]]
<1>1. \A n \in Nat : ArePowers(f(n), n)
  BY PowersExist
<1>. HIDE DEF f
<1>2. P[0] = 1
  BY <1>1 DEF ArePowers
<1>3. ASSUME NEW n \in Nat PROVE P[n] \in Nat \ {0} /\ P[n + 1] = 2 * P[n]
  <2>1. ArePowers(f(n), n) /\ ArePowers(f(n + 1), n + 1)
    BY <1>1
  <2>2. ArePowers(f(n + 1), n)
    BY <2>1 DEF ArePowers
  <2>3. f(n)[n] = f(n + 1)[n] /\ f(n)[n] \in Nat \ {0}
    BY <2>1, <2>2, PowersAgree
  <2>4. f(n + 1)[n + 1] = 2 * f(n + 1)[n]
    BY <2>1 DEF ArePowers
  <2>5. P[n] = f(n)[n] /\ P[n + 1] = f(n + 1)[n + 1]
    OBVIOUS
  <2>. QED BY <2>3, <2>4, <2>5
<1>4. DOMAIN P = Nat /\ P = [n \in Nat |-> P[n]]
  OBVIOUS
<1>. HIDE DEF P
<1>5. \A b \in Nat : P[b] = IF b = 0 THEN 1 ELSE 2 * P[b - 1]
  <2>. SUFFICES ASSUME NEW b \in Nat, b # 0 PROVE P[b] = 2 * P[b - 1]
    BY <1>2
  <2>1. b - 1 \in Nat /\ (b - 1) + 1 = b
    OBVIOUS
  <2>. QED BY <1>3, <2>1
<1>6. P = [b \in Nat |-> IF b = 0 THEN 1 ELSE 2 * P[b - 1]]
  BY <1>4, <1>5
<1>7. Power = [b \in Nat |-> IF b = 0 THEN 1 ELSE 2 * Power[b - 1]]
  BY <1>6 DEF Power
<1>. DEFINE Q == Power
<1>8. Q = [b \in Nat |-> IF b = 0 THEN 1 ELSE 2 * Q[b - 1]]
  BY <1>7
<1>. HIDE DEF Q
<1>9. Q[0] = 1 /\ \A n \in Nat : Q[n + 1] = 2 * Q[n]
  <2>1. \A b \in Nat : Q[b] = IF b = 0 THEN 1 ELSE 2 * Q[b - 1]
    BY <1>8
  <2>2. ASSUME NEW n \in Nat PROVE Q[n + 1] = 2 * Q[n]
    <3>1. n + 1 \in Nat /\ n + 1 # 0 /\ (n + 1) - 1 = n
      OBVIOUS
    <3>. QED BY <2>1, <3>1
  <2>. QED BY <2>1, <2>2
<1>10. \A n \in Nat : Q[n] \in Nat \ {0}
  <2>1. \A n \in Nat : ArePowers(Q, n)
    BY <1>9 DEF ArePowers
  <2>. QED BY <2>1, PowersAgree
<1>. QED BY <1>9, <1>10 DEF Q

LEMMA PowersIncrease ==
  \A a, b \in Nat : a < b => Power[a] < Power[b]
<1>. SUFFICES ASSUME NEW a \in Nat PROVE \A b \in Nat : a < b => Power[a] < Power[b]
  OBVIOUS
<1>. DEFINE S == {b \in Nat : a < b => Power[a] < Power[b]}
<1>1. 0 \in S
  OBVIOUS
<1>2. ASSUME NEW b \in Nat, b \in S PROVE b + 1 \in S
  <2>1. /\ Power[b] \in Nat \ {0} /\ Power[b + 1] = 2 * Power[b]
        /\ Power[a] \in Nat
    BY PowerDef
  <2>2. Power[b + 1] > Power[b]
    BY <2>1
  <2>3. a < b + 1 => a < b \/ a = b
    OBVIOUS
  <2>4. a < b + 1 => Power[a] < Power[b + 1]
    <3>1. CASE a = b
      BY <2>2, <3>1
    <3>2. CASE a < b
      <4>1. Power[a] < Power[b]
        BY <1>2, <3>2
      <4>2. Power[b + 1] \in Nat
        BY <2>1
      <4>. QED BY <2>1, <2>2, <4>1, <4>2
    <3>. QED BY <2>3, <3>1, <3>2
  <2>. QED BY <2>4
<1>. HIDE DEF S
<1>3. \A b \in Nat : b \in S
  BY <1>1, <1>2, SetInduction
<1>. QED BY <1>3 DEF S

LEMMA PowersAreLarge == \A b \in Nat : b < Power[b]
<1>. DEFINE S == {b \in Nat : b < Power[b]}
<1>1. 0 \in S
  BY PowerDef
<1>2. ASSUME NEW b \in Nat, b \in S PROVE b + 1 \in S
  <2>1. Power[b] \in Nat \ {0} /\ Power[b + 1] = 2 * Power[b] /\ b < Power[b]
    BY <1>2, PowerDef
  <2>. QED BY <2>1
<1>. HIDE DEF S
<1>3. \A b \in Nat : b \in S
  BY <1>1, <1>2, SetInduction
<1>. QED BY <1>3 DEF S

-----------------------------------------------------------------------------
(* The bits of a number.                                                   *)

\* A quotient and a remainder are determined by the number they make up.
LEMMA DivMod ==
  ASSUME NEW b \in Nat \ {0}, NEW q \in Nat, NEW x \in 0 .. b - 1
  PROVE  (b * q + x) \div b = q /\ (b * q + x) % b = x
OBVIOUS

\* Every number is made up of its quotient and its remainder.
LEMMA DivModOf ==
  ASSUME NEW a \in Nat, NEW b \in Nat \ {0}
  PROVE  /\ a = b * (a \div b) + (a % b)
         /\ a \div b \in Nat /\ a % b \in 0 .. b - 1
<1>0. b \in Nat /\ b > 0
  OBVIOUS
<1>1. a = b * (a \div b) + (a % b)
  BY <1>0, SMTT(30)
<1>2. a % b \in 0 .. b - 1
  OBVIOUS
<1>3. a \div b \in Nat
  OBVIOUS
<1>. QED BY <1>1, <1>2, <1>3

\* To divide by 2 * p is to divide by 2 and then by p.
LEMMA DivTwice ==
  ASSUME NEW m \in Nat, NEW p \in Nat \ {0}
  PROVE  m \div (2 * p) = (m \div 2) \div p
<1>1. PICK h \in Nat, e \in 0 .. 1 : h = m \div 2 /\ m = 2 * h + e
  BY DivModOf
<1>2. PICK q \in Nat, x \in 0 .. p - 1 : q = h \div p /\ h = p * q + x
  BY DivModOf
<1>3. 2 * p \in Nat \ {0} /\ 2 * x + e \in 0 .. (2 * p) - 1
  OBVIOUS
<1>4. PICK t \in Nat : t = p * q
  OBVIOUS
<1>5. m = 2 * t + (2 * x + e)
  <2>1. h = t + x
    BY <1>2, <1>4
  <2>. QED BY <1>1, <2>1
<1>6. 2 * t = (2 * p) * q
  BY <1>4
<1>7. m = (2 * p) * q + (2 * x + e)
  BY <1>5, <1>6
<1>8. m \div (2 * p) = q
  BY <1>3, <1>7, DivMod
<1>. QED BY <1>1, <1>2, <1>8

\* The lowest bit, and the others.
LEMMA BitsOf ==
  ASSUME NEW m \in Nat
  PROVE  /\ Has(m, Power[0]) <=> m % 2 = 1
         /\ \A b \in Nat : Has(m, Power[b + 1]) <=> Has(m \div 2, Power[b])
<1>1. m \div 1 = m
  OBVIOUS
<1>2. ASSUME NEW b \in Nat PROVE Has(m, Power[b + 1]) <=> Has(m \div 2, Power[b])
  <2>1. Power[b] \in Nat \ {0} /\ Power[b + 1] = 2 * Power[b]
    BY PowerDef
  <2>2. m \div Power[b + 1] = (m \div 2) \div Power[b]
    BY <2>1, DivTwice
  <2>. QED BY <2>2 DEF Has
<1>. QED BY <1>1, <1>2, PowerDef DEF Has

\* To take away a power of two that a number has is to clear a bit.
LEMMA ClearBit ==
  ASSUME NEW m \in Nat, NEW b \in Nat, Has(m, Power[b])
  PROVE  /\ Power[b] <= m /\ m - Power[b] \in Nat
         /\ \A c \in Nat : Has(m - Power[b], Power[c]) <=> Has(m, Power[c]) /\ c # b
<1>. DEFINE Clears(n, x) ==
              /\ Power[x] <= n
              /\ \A c \in Nat : Has(n - Power[x], Power[c]) <=> Has(n, Power[c]) /\ c # x
            S == {x \in Nat : \A n \in Nat : Has(n, Power[x]) => Clears(n, x)}
<1>1. 0 \in S
  <2>. SUFFICES ASSUME NEW n \in Nat, Has(n, Power[0]) PROVE Clears(n, 0)
    OBVIOUS
  <2>1. n % 2 = 1 /\ Power[0] = 1
    BY BitsOf, PowerDef
  <2>2. n - 1 \in Nat /\ 1 <= n /\ (n - 1) % 2 = 0 /\ (n - 1) \div 2 = n \div 2
    BY <2>1
  <2>3. ASSUME NEW c \in Nat PROVE Has(n - 1, Power[c]) <=> Has(n, Power[c]) /\ c # 0
    <3>1. CASE c = 0
      BY <2>2, <3>1, BitsOf
    <3>2. CASE c # 0
      <4>1. PICK x \in Nat : c = x + 1
        <5>1. c - 1 \in Nat /\ c = (c - 1) + 1
          BY <3>2
        <5>. QED BY <5>1
      <4>2. Has(n - 1, Power[x + 1]) <=> Has((n - 1) \div 2, Power[x])
        BY <2>2, BitsOf
      <4>3. Has(n, Power[x + 1]) <=> Has(n \div 2, Power[x])
        BY BitsOf
      <4>. QED BY <2>2, <3>2, <4>1, <4>2, <4>3
    <3>. QED BY <3>1, <3>2
  <2>. QED BY <2>1, <2>2, <2>3
<1>2. ASSUME NEW x \in Nat, x \in S PROVE x + 1 \in S
  <2>. SUFFICES ASSUME NEW n \in Nat, Has(n, Power[x + 1]) PROVE Clears(n, x + 1)
    OBVIOUS
  <2>1. PICK h \in Nat, e \in 0 .. 1 : h = n \div 2 /\ n = 2 * h + e /\ e = n % 2
    <3>1. n = 2 * (n \div 2) + (n % 2) /\ n \div 2 \in Nat /\ n % 2 \in 0 .. 1
      OBVIOUS
    <3>. QED BY <3>1
  <2>2. Has(h, Power[x])
    BY <2>1, BitsOf
  <2>3. Clears(h, x)
    BY <1>2, <2>2
  <2>4. PICK p \in Nat : p = Power[x] /\ Power[x + 1] = 2 * p
    BY PowerDef
  <2>5. p <= h /\ h - p \in Nat
    BY <2>3, <2>4
  <2>6. /\ n - 2 * p \in Nat /\ 2 * p <= n
        /\ (n - 2 * p) % 2 = e /\ (n - 2 * p) \div 2 = h - p
    BY <2>1, <2>5
  <2>7. ASSUME NEW c \in Nat
        PROVE  Has(n - 2 * p, Power[c]) <=> Has(n, Power[c]) /\ c # x + 1
    <3>1. CASE c = 0
      BY <2>1, <2>6, <3>1, BitsOf
    <3>2. CASE c # 0
      <4>1. PICK y \in Nat : c = y + 1
        <5>1. c - 1 \in Nat /\ c = (c - 1) + 1
          BY <3>2
        <5>. QED BY <5>1
      <4>2. Has(n - 2 * p, Power[y + 1]) <=> Has(h - p, Power[y])
        BY <2>6, BitsOf
      <4>3. Has(n, Power[y + 1]) <=> Has(h, Power[y])
        BY <2>1, BitsOf
      <4>4. Has(h - p, Power[y]) <=> Has(h, Power[y]) /\ y # x
        BY <2>3, <2>4
      <4>5. y # x <=> c # x + 1
        BY <4>1
      <4>. QED BY <4>1, <4>2, <4>3, <4>4, <4>5
    <3>. QED BY <3>1, <3>2
  <2>. QED BY <2>4, <2>6, <2>7
<1>. HIDE DEF S
<1>3. b \in S
  BY <1>1, <1>2, SetInduction
<1>4. Clears(m, b)
  BY <1>3 DEF S
<1>5. Power[b] \in Nat
  BY PowerDef
<1>. QED BY <1>4, <1>5

\* A number without a bit is 0.
LEMMA NoBits ==
  ASSUME NEW m \in Nat, \A b \in Nat : ~Has(m, Power[b])
  PROVE  m = 0
<1>. DEFINE S == {n \in Nat : n # 0 /\ \A b \in Nat : ~Has(n, Power[b])}
<1>1. SUFFICES ASSUME S # {} PROVE FALSE
  OBVIOUS
<1>2. PICK n \in S : \A y \in S : n <= y
  <2>1. S \in SUBSET Nat
    OBVIOUS
  <2>. HIDE DEF S
  <2>. QED BY <1>1, <2>1, LeastNumber
<1>3. n \in Nat /\ n # 0 /\ \A b \in Nat : ~Has(n, Power[b])
  OBVIOUS
<1>4. n % 2 = 0
  BY <1>3, BitsOf
<1>5. n \div 2 \in Nat /\ n \div 2 # 0 /\ n \div 2 < n
  BY <1>3, <1>4
<1>6. \A b \in Nat : ~Has(n \div 2, Power[b])
  BY <1>3, BitsOf
<1>7. n \div 2 \in S
  BY <1>5, <1>6
<1>. QED BY <1>2, <1>5, <1>7

\* A number has no bit above it.
LEMMA HighBits ==
  ASSUME NEW b \in Nat, NEW m \in Nat, m < Power[b]
  PROVE  ~Has(m, Power[b])
<1>1. PICK p \in Nat \ {0} : p = Power[b]
  BY PowerDef
<1>2. m \div p = 0
  <2>1. m = p * 0 + m /\ m \in 0 .. p - 1
    BY <1>1
  <2>. QED BY <2>1, DivMod
<1>. QED BY <1>1, <1>2 DEF Has

-----------------------------------------------------------------------------
(* The rounds of a rank.                                                   *)

\* There are as many rounds as powers of two below the number of ranks.
LEMMA Rounds ==
  /\ len \in Nat
  /\ \A b \in Nat : Power[b] < N <=> b < len
<1>. USE NAssumption
<1>. DEFINE B == {b \in 0 .. N - 1 : Power[b] < N}
            U == {b \in Nat : ~(Power[b] < N)}
<1>1. \A b \in Nat : Power[b] \in Nat /\ b < Power[b]
  BY PowerDef, PowersAreLarge
<1>2. PICK n \in U : \A y \in U : n <= y
  <2>1. N \in U
    BY <1>1
  <2>2. U \in SUBSET Nat
    OBVIOUS
  <2>. HIDE DEF U
  <2>. QED BY <2>1, <2>2, LeastNumber
<1>3. n \in Nat /\ ~(Power[n] < N)
  OBVIOUS
<1>4. ASSUME NEW b \in Nat PROVE Power[b] < N <=> b < n
  <2>1. b < n => Power[b] < N
    BY <1>2, <1>3
  <2>2. b = n => ~(Power[b] < N)
    BY <1>3
  <2>3. n < b => ~(Power[b] < N)
    BY <1>1, <1>3, PowersIncrease
  <2>. QED BY <1>3, <2>1, <2>2, <2>3
<1>5. B = 0 .. n - 1
  <2>1. ASSUME NEW b \in B PROVE b \in 0 .. n - 1
    BY <1>3, <1>4
  <2>2. ASSUME NEW b \in 0 .. n - 1 PROVE b \in B
    <3>1. Power[b] < N /\ b \in Nat
      BY <1>3, <1>4
    <3>2. b < N
      BY <1>1, <3>1
    <3>. QED BY <3>1, <3>2
  <2>. HIDE DEF B
  <2>. QED BY <2>1, <2>2
<1>6. Cardinality(0 .. n - 1) = n
  BY <1>3, FS_Interval
<1>7. len = n
  BY <1>5, <1>6 DEF len
<1>. QED BY <1>3, <1>4, <1>7

\* An order has each power once.
LEMMA OrderOnto ==
  ASSUME NEW o \in Orders
  PROVE  /\ o \in [0 .. len - 1 -> 0 .. len - 1]
         /\ \A b \in 0 .. len - 1 : \E k \in 0 .. len - 1 : o[k] = b
         /\ \A k, l \in 0 .. len - 1 : o[k] = o[l] => k = l
<1>1. o \in PermutationsOf(len)
  BY OrdersAssumption DEF Shuffles
<1>2. /\ o \in [0 .. len - 1 -> 0 .. len - 1]
      /\ \A y \in 0 .. len - 1 : \E x \in 0 .. len - 1 : \A z \in 0 .. len - 1 :
           o[z] = y <=> z = x
  BY <1>1 DEF PermutationsOf
<1>3. \A b \in 0 .. len - 1 : \E k \in 0 .. len - 1 : o[k] = b
  BY <1>2
<1>4. ASSUME NEW k \in 0 .. len - 1, NEW l \in 0 .. len - 1, o[k] = o[l]
      PROVE  k = l
  <2>1. o[k] \in 0 .. len - 1
    BY <1>2
  <2>2. PICK x \in 0 .. len - 1 : \A z \in 0 .. len - 1 : o[z] = o[k] <=> z = x
    BY <1>2, <2>1
  <2>3. k = x /\ l = x
    BY <1>4, <2>2
  <2>. QED BY <2>3
<1>. QED BY <1>2, <1>3, <1>4

\* A distance is one of the powers below N, each of one round.
LEMMA Distances ==
  ASSUME NEW r, idx[r] \in Orders
  PROVE  /\ \A k \in 0 .. len - 1 :
              /\ idx[r][k] \in 0 .. len - 1
              /\ Distance(r, k) \in 1 .. N - 1 /\ Distance(r, k) = Power[idx[r][k]]
         /\ \A k, l \in 0 .. len - 1 : Distance(r, k) = Distance(r, l) => k = l
<1>1. \A k \in 0 .. len - 1 : idx[r][k] \in 0 .. len - 1
  BY OrderOnto
<1>2. ASSUME NEW k \in 0 .. len - 1 PROVE Distance(r, k) \in 1 .. N - 1
  <2>1. idx[r][k] \in Nat /\ idx[r][k] < len
    BY <1>1, Rounds
  <2>2. Power[idx[r][k]] \in Nat \ {0} /\ Power[idx[r][k]] < N
    BY <2>1, PowerDef, Rounds
  <2>. QED BY <2>2, NAssumption DEF Distance
<1>3. ASSUME NEW k \in 0 .. len - 1, NEW l \in 0 .. len - 1,
             Distance(r, k) = Distance(r, l)
      PROVE  k = l
  <2>1. idx[r][k] \in Nat /\ idx[r][l] \in Nat
    BY <1>1, Rounds
  <2>2. ASSUME NEW a \in Nat, NEW b \in Nat, Power[a] = Power[b] PROVE a = b
    <3>1. Power[a] \in Nat /\ Power[b] \in Nat
      BY PowerDef
    <3>2. ~(a < b) /\ ~(b < a)
      BY <2>2, <3>1, PowersIncrease
    <3>. QED BY <3>2
  <2>3. idx[r][k] = idx[r][l]
    BY <1>3, <2>1, <2>2 DEF Distance
  <2>. QED BY <2>3, OrderOnto
<1>. QED BY <1>1, <1>2, <1>3 DEF Distance

\* Around the ring of the ranks.
LEMMA Ring ==
  ASSUME NEW x \in Int, -N <= x, x < 2 * N
  PROVE  x % N = IF x < 0 THEN x + N ELSE IF x < N THEN x ELSE x - N
<1>. USE NAssumption
<1>1. ASSUME NEW y \in 0 .. N - 1
      PROVE  y % N = y /\ (y + N) % N = y /\ (y - N) % N = y
  OBVIOUS
<1>2. CASE x < 0
  <2>1. x + N \in 0 .. N - 1 /\ x = (x + N) - N
    BY <1>2
  <2>. QED BY <1>1, <1>2, <2>1
<1>3. CASE 0 <= x /\ x < N
  <2>1. x \in 0 .. N - 1
    BY <1>3
  <2>. QED BY <1>1, <1>3, <2>1
<1>4. CASE N <= x
  <2>1. x - N \in 0 .. N - 1 /\ x = (x - N) + N
    BY <1>4
  <2>. QED BY <1>1, <1>4, <2>1
<1>. QED BY <1>2, <1>3, <1>4

\* The partners of a rank in a round, when all draw the same order: the sender
\* of one is the receiver of the other, and each is met in one round.
LEMMA Partners ==
  ASSUME NEW s \in Ranks, NEW d \in Ranks, idx[s] \in Orders, idx[s] = idx[d],
         NEW k \in 0 .. len - 1
  PROVE  /\ SendTo(s, k) \in Ranks /\ SendTo(s, k) # s
         /\ RecvFrom(d, k) \in Ranks /\ RecvFrom(d, k) # d
         /\ SendTo(s, k) = d <=> RecvFrom(d, k) = s
         /\ SendTo(s, k) = d <=> (d - s) % N = Distance(s, k)
         /\ Distance(s, k) = Distance(d, k)
<1>. USE NAssumption DEF Ranks
<1>1. PICK x \in 1 .. N - 1 : x = Distance(s, k)
  BY Distances
<1>2. Distance(d, k) = x
  BY <1>1 DEF Distance
<1>3. SendTo(s, k) = IF s + x < N THEN s + x ELSE s + x - N
  BY <1>1, Ring DEF SendTo
<1>4. RecvFrom(d, k) = IF d - x + N < N THEN d - x + N ELSE d - x
  <2>1. d - x + N \in Int /\ -N <= d - x + N /\ d - x + N < 2 * N /\ ~(d - x + N < 0)
    BY <1>1
  <2>2. (d - x + N) % N = IF d - x + N < N THEN d - x + N ELSE (d - x + N) - N
    BY <2>1, Ring
  <2>. QED BY <1>2, <2>2 DEF RecvFrom
<1>5. (d - s) % N = IF d - s < 0 THEN d - s + N ELSE d - s
  BY Ring
<1>. QED BY <1>1, <1>2, <1>3, <1>4, <1>5

LEMMA OneMeeting ==
  ASSUME NEW s \in Ranks, idx[s] \in Orders,
         NEW k \in 0 .. len - 1, NEW l \in 0 .. len - 1, SendTo(s, k) = SendTo(s, l)
  PROVE  k = l
<1>. USE NAssumption DEF Ranks
<1>1. PICK x \in 1 .. N - 1, y \in 1 .. N - 1 : x = Distance(s, k) /\ y = Distance(s, l)
  BY Distances
<1>2. SendTo(s, k) = IF s + x < N THEN s + x ELSE s + x - N
  BY <1>1, Ring DEF SendTo
<1>3. SendTo(s, l) = IF s + y < N THEN s + y ELSE s + y - N
  BY <1>1, Ring DEF SendTo
<1>4. x = y
  <2>1. (IF s + x < N THEN s + x ELSE s + x - N) = (IF s + y < N THEN s + y ELSE s + y - N)
    BY <1>2, <1>3
  <2>2. N \in Nat /\ s \in Nat /\ x \in Nat /\ y \in Nat /\ x < N /\ y < N /\ x > 0 /\ y > 0
    OBVIOUS
  <2>3. CASE s + x < N /\ s + y < N
    BY <2>1, <2>2, <2>3
  <2>4. CASE ~(s + x < N) /\ ~(s + y < N)
    BY <2>1, <2>2, <2>4
  <2>5. CASE s + x < N /\ ~(s + y < N)
    BY <2>1, <2>2, <2>5
  <2>6. CASE ~(s + x < N) /\ s + y < N
    BY <2>1, <2>2, <2>6
  <2>. QED BY <2>3, <2>4, <2>5, <2>6
<1>5. Distance(s, k) = Distance(s, l)
  BY <1>1, <1>4
<1>6. \A a, b \in 0 .. len - 1 : Distance(s, a) = Distance(s, b) => a = b
  BY Distances
<1>. QED BY <1>5, <1>6

-----------------------------------------------------------------------------
(* The way of a block.                                                     *)

\* In the round of a distance, slot i of the next rank gets what slot i of this
\* rank had, if i has the distance in it.
LEMMA Travel ==
  ASSUME NEW s \in Ranks, NEW d \in Ranks, idx[s] \in Orders, idx[s] = idx[d],
         NEW k \in 0 .. len - 1, SendTo(s, k) = d, NEW i \in Ranks, NEW c,
         Has(i, Distance(s, k)), NEW block, IsInSlot(block, i, s, Made(idx[s], k), c)
  PROVE  IsInSlot(block, i, d, Made(idx[d], k + 1), c)
<1>. USE NAssumption DEF Ranks
<1>1. PICK m \in Ranks : /\ IsRest(m, i, Made(idx[s], k))
                         /\ block = Block((s + m - i) % N, (s + m) % N, c)
  BY DEF IsInSlot
<1>2. PICK a \in 0 .. len - 1 : a = idx[s][k]
  BY Distances
<1>3. a \in Nat /\ k \in Nat /\ len \in Nat
  BY Rounds
<1>4. Distance(s, k) = Power[a]
  BY <1>2 DEF Distance
<1>5. Power[a] \notin Made(idx[s], k)
  <2>1. ASSUME NEW l \in 0 .. k - 1 PROVE Power[idx[s][l]] # Distance(s, k)
    <3>1. l \in 0 .. len - 1 /\ l # k
      BY <1>3
    <3>. QED BY <3>1, Distances DEF Distance
  <2>. QED BY <1>4, <2>1 DEF Made
<1>6. Has(m, Power[a])
  BY <1>1, <1>4, <1>5 DEF IsRest
<1>7. PICK p \in 1 .. N - 1 : p = Power[a]
  BY <1>4, Distances
<1>8. /\ m - p \in Ranks
      /\ \A b \in Nat : Has(m - p, Power[b]) <=> Has(m, Power[b]) /\ b # a
  <2>1. p <= m /\ \A b \in Nat : Has(m - p, Power[b]) <=> Has(m, Power[b]) /\ b # a
    BY <1>3, <1>6, <1>7, ClearBit
  <2>. QED BY <2>1
<1>9. Made(idx[d], k + 1) = Made(idx[s], k) \cup {Power[a]}
  <2>1. 0 .. (k + 1) - 1 = (0 .. k - 1) \cup {k}
    BY <1>3
  <2>. QED BY <1>4, <2>1 DEF Made, Distance
<1>10. IsRest(m - p, i, Made(idx[d], k + 1))
  <2>1. ASSUME NEW b \in 0 .. len - 1
        PROVE  Has(m - p, Power[b]) <=> Has(i, Power[b]) /\ Power[b] \notin Made(idx[d], k + 1)
    <3>0. b \in Nat
      BY <1>3
    <3>1. Has(m, Power[b]) <=> Has(i, Power[b]) /\ Power[b] \notin Made(idx[s], k)
      BY <1>1 DEF IsRest
    <3>2. Power[b] = Power[a] <=> b = a
      <4>1. Power[a] \in Nat /\ Power[b] \in Nat
        BY <1>3, <3>0, PowerDef
      <4>2. a < b => Power[a] < Power[b]
        BY <1>3, <3>0, PowersIncrease
      <4>3. b < a => Power[b] < Power[a]
        BY <1>3, <3>0, PowersIncrease
      <4>. QED BY <1>3, <3>0, <4>1, <4>2, <4>3
    <3>3. Has(m - p, Power[b]) <=> Has(m, Power[b]) /\ b # a
      BY <1>8, <3>0
    <3>. QED BY <1>9, <3>1, <3>2, <3>3
  <2>. QED BY <2>1 DEF IsRest
<1>11. d = (s + p) % N
  BY <1>4, <1>7 DEF SendTo
<1>12. (d + (m - p)) % N = (s + m) % N /\ (d + (m - p) - i) % N = (s + m - i) % N
  <2>1. d = s + p \/ d = s + p - N
    BY <1>7, <1>11, Ring
  <2>2. CASE d = s + p
    <3>1. d + (m - p) = s + m /\ d + (m - p) - i = s + m - i
      BY <1>7, <2>2
    <3>. QED BY <3>1
  <2>3. CASE d = s + p - N
    <3>1. d + (m - p) = s + m - N /\ d + (m - p) - i = s + m - i - N
      BY <1>7, <2>3
    <3>2. p <= m
      BY <1>7, <1>8
    <3>3. s + m >= N /\ s + m < 2 * N /\ s + m - N \in 0 .. N - 1
      BY <1>7, <2>3, <3>2
    <3>4. (s + m) % N = s + m - N /\ (s + m - N) % N = s + m - N
      BY <3>3, Ring
    <3>5. /\ s + m - i \in Int /\ s + m - i - N \in Int
          /\ -N <= s + m - i - N /\ s + m - i < 2 * N /\ s + m - i > 0
      BY <3>3
    <3>6. (s + m - i) % N = IF s + m - i < N THEN s + m - i ELSE s + m - i - N
      BY <3>5, Ring
    <3>7. (s + m - i - N) % N = IF s + m - i < N THEN s + m - i ELSE s + m - i - N
      BY <3>5, Ring
    <3>. QED BY <3>1, <3>4, <3>6, <3>7
  <2>. QED BY <2>1, <2>2, <2>3
<1>. QED BY <1>1, <1>8, <1>10, <1>12 DEF IsInSlot

\* The other slots keep their block.
LEMMA Stay ==
  ASSUME NEW r \in Ranks, idx[r] \in Orders, NEW k \in 0 .. len - 1, NEW i \in Ranks,
         NEW c, ~Has(i, Distance(r, k)), NEW block, IsInSlot(block, i, r, Made(idx[r], k), c)
  PROVE  IsInSlot(block, i, r, Made(idx[r], k + 1), c)
<1>1. PICK m \in Ranks : /\ IsRest(m, i, Made(idx[r], k))
                         /\ block = Block((r + m - i) % N, (r + m) % N, c)
  BY DEF IsInSlot
<1>2. Made(idx[r], k + 1) = Made(idx[r], k) \cup {Distance(r, k)}
  <2>1. 0 .. (k + 1) - 1 = (0 .. k - 1) \cup {k}
    BY Rounds
  <2>. QED BY <2>1 DEF Made, Distance
<1>3. IsRest(m, i, Made(idx[r], k + 1))
  BY <1>1, <1>2 DEF IsRest
<1>. QED BY <1>1, <1>3 DEF IsInSlot

\* When a call begins, a block is with its sender.
LEMMA Start ==
  ASSUME NEW r \in Ranks, NEW i \in Ranks, NEW c, NEW order
  PROVE  IsInSlot(Block(r, (r + i) % N, c), i, r, Made(order, 0), c)
<1>1. Made(order, 0) = {}
  BY DEF Made
<1>2. IsRest(i, i, Made(order, 0))
  BY <1>1 DEF IsRest
<1>3. (r + i - i) % N = r
  BY NAssumption, Ring DEF Ranks
<1>. QED BY <1>2, <1>3 DEF IsInSlot

\* When all the rounds are made, it is with the rank it is for.
LEMMA Arrival ==
  ASSUME NEW r \in Ranks, idx[r] \in Orders, NEW i \in Ranks, NEW c, NEW block,
         IsInSlot(block, i, r, Made(idx[r], len), c)
  PROVE  block = Block((r - i) % N, r, c)
<1>1. PICK m \in Ranks : /\ IsRest(m, i, Made(idx[r], len))
                         /\ block = Block((r + m - i) % N, (r + m) % N, c)
  BY DEF IsInSlot
<1>2. \A b \in 0 .. len - 1 : Power[b] \in Made(idx[r], len)
  BY OrderOnto DEF Made
<1>3. \A b \in 0 .. len - 1 : ~Has(m, Power[b])
  BY <1>1, <1>2 DEF IsRest
<1>4. ASSUME NEW b \in Nat PROVE ~Has(m, Power[b])
  <2>1. CASE b < len
    <3>1. b \in 0 .. len - 1
      BY <2>1, Rounds
    <3>. QED BY <1>3, <3>1
  <2>2. CASE ~(b < len)
    <3>1. ~(Power[b] < N) /\ Power[b] \in Nat
      BY <2>2, Rounds, PowerDef
    <3>2. m \in Nat /\ m < Power[b]
      BY <3>1, NAssumption DEF Ranks
    <3>. QED BY <3>2, HighBits
  <2>. QED BY <2>1, <2>2
<1>5. m = 0
  BY <1>4, NoBits, NAssumption DEF Ranks
<1>6. r + m - i = r - i /\ (r + m) % N = r
  BY <1>5, Ring, NAssumption DEF Ranks
<1>. QED BY <1>1, <1>6

-----------------------------------------------------------------------------
(* The invariant.                                                          *)

Messages == [data : [Ranks -> Blocks], protocol : Protocols]

\* A rank meets another in the same rounds as long as its order is the same.
LEMMA SameMeetings ==
  ASSUME idx' = idx
  PROVE  /\ \A s, d : Meetings(s, d)' = Meetings(s, d)
         /\ \A s, k : SendTo(s, k)' = SendTo(s, k)
         /\ \A s, k : RecvFrom(s, k)' = RecvFrom(s, k)
         /\ \A s, k : Distance(s, k)' = Distance(s, k)
BY DEF Meetings, SendTo, RecvFrom, Distance

\* The account of two ranks, as the proofs use it.
LEMMA CountTypes ==
  ASSUME TypeOK, NEW r \in Ranks
  PROVE  /\ len \in Nat /\ round[r] \in 0 .. len /\ round[r] \in Int
         /\ call[r] \in Nat /\ idx[r] \in Orders
         /\ \A k : Sent(r, k) \in Int /\ Received(r, k) \in Int
<1>1. len \in Nat /\ round[r] \in 0 .. len
  BY Rounds DEF TypeOK
<1>2. call[r] \in Nat
  BY BoundsAssumption DEF TypeOK
<1>. QED BY <1>1, <1>2 DEF TypeOK, Sent, Received

\* A step that leaves the messages and the accounts alone.
LEMMA ChannelFrame ==
  ASSUME NEW s, NEW d, ChannelOK(s, d), idx' = idx, wire'[s][d] = wire[s][d],
         \A k \in Meetings(s, d) : Sent(s, k)' = Sent(s, k) /\ Received(d, k)' = Received(d, k)
  PROVE  ChannelOK(s, d)'
<1>1. Meetings(s, d)' = Meetings(s, d)
  BY SameMeetings
<1>. QED BY <1>1 DEF ChannelOK

\* A block that exists goes on existing.
LEMMA StillBegun ==
  ASSUME TypeOK, \A q \in Ranks : call'[q] \in Int /\ call'[q] >= call[q],
         NEW b \in Blocks \union {NoBlock}, HasBegun(b)
  PROVE  b # NoBlock => b[3] <= call'[b[1]]
<1>. SUFFICES ASSUME b # NoBlock PROVE b[3] <= call'[b[1]]
  OBVIOUS
<1>1. b[1] \in Ranks /\ b[3] \in Int
  BY DEF Blocks
<1>2. b[3] <= call[b[1]] /\ call[b[1]] \in Int
  BY <1>1, CountTypes DEF HasBegun
<1>. QED BY <1>1, <1>2

LEMMA BlockType ==
  ASSUME NEW s \in Ranks, NEW d \in Ranks, NEW c \in 0 .. Calls
  PROVE  /\ Block(s, d, c) \in Blocks /\ Block(s, d, c) # NoBlock
         /\ Block(s, d, c)[1] = s /\ Block(s, d, c)[3] = c
BY DEF Block, Blocks, NoBlock

LEMMA BlocksAreBlocks == NoBlock \notin Blocks
BY DEF Blocks, NoBlock

\* What a rank has in its temporary buffer during a call.
LEMMA FullBuffer ==
  ASSUME TypeOK, NEW r \in Ranks, TmpbufOK(r), pc[r] # "out"
  PROVE  tmpbuf[r] \in [Ranks -> Blocks]
<1>1. call[r] \in 0 .. Calls
  BY DEF TypeOK
<1>2. ASSUME NEW i \in Ranks PROVE tmpbuf[r][i] \in Blocks
  <2>1. IsInSlot(tmpbuf[r][i], i, r, Made(idx[r], round[r]), call[r])
    BY DEF TmpbufOK
  <2>2. PICK m \in Ranks :
          tmpbuf[r][i] = Block((r + m - i) % N, (r + m) % N, call[r])
    BY <2>1 DEF IsInSlot
  <2>3. (r + m - i) % N \in Ranks /\ (r + m) % N \in Ranks
    BY NAssumption DEF Ranks
  <2>. QED BY <1>1, <2>2, <2>3, BlockType
<1>. QED BY <1>2 DEF TypeOK

\* What a rank has sent and received changes only with its own variables.
LEMMA SameSent ==
  ASSUME NEW r, round'[r] = round[r], call'[r] = call[r], pc'[r] = "wait" <=> pc[r] = "wait"
  PROVE  \A k : Sent(r, k)' = Sent(r, k)
BY DEF HasSent, Sent

LEMMA SameReceived ==
  ASSUME NEW r, round'[r] = round[r], call'[r] = call[r],
         rreq'[r] = "done" <=> rreq[r] = "done"
  PROVE  \A k : Received(r, k)' = Received(r, k)
BY DEF HasReceived, Received

\* A rank whose own variables a step leaves alone stays as it is.
LEMMA RankFrame ==
  ASSUME NEW r, idx' = idx, pc'[r] = pc[r], call'[r] = call[r], round'[r] = round[r],
         tmpbuf'[r] = tmpbuf[r], rbuf'[r] = rbuf[r], rreq'[r] = rreq[r], sreq'[r] = sreq[r],
         RequestsOK(r), TmpbufOK(r), ReceivedOK(r)
  PROVE  RequestsOK(r)' /\ TmpbufOK(r)' /\ ReceivedOK(r)'
<1>1. RequestsOK(r)'
  BY DEF RequestsOK
<1>2. TmpbufOK(r)'
  BY DEF TmpbufOK
<1>3. ReceivedOK(r)'
  BY DEF ReceivedOK, Moves, Distance
<1>. QED BY <1>1, <1>2, <1>3

\* A rank that has no rendezvous under way cannot disturb one.
LEMMA RendezvousFrame ==
  ASSUME TypeOK, \A s, d \in Ranks : RendezvousOK(s, d), NEW r \in Ranks,
         pc[r] # "wait" \/ sreq[r] # "active", idx' = idx, wire' = wire,
         \A q \in Ranks \ {r} : /\ pc'[q] = pc[q] /\ sreq'[q] = sreq[q]
                                /\ round'[q] = round[q] /\ tmpbuf'[q] = tmpbuf[q]
  PROVE  \A s, d \in Ranks : RendezvousOK(s, d)'
<1>. SUFFICES ASSUME NEW s \in Ranks, NEW d \in Ranks, NEW n \in 1 .. Len(wire[s][d]),
                     wire[s][d][n].protocol = "rndv"
              PROVE  /\ n = Len(wire[s][d])
                     /\ pc'[s] = "wait" /\ sreq'[s] = "active" /\ SendTo(s, round[s])' = d
                     /\ wire[s][d][n].data = tmpbuf'[s]
  BY DEF RendezvousOK
<1>1. /\ n = Len(wire[s][d])
      /\ pc[s] = "wait" /\ sreq[s] = "active" /\ SendTo(s, round[s]) = d
      /\ wire[s][d][n].data = tmpbuf[s]
  BY DEF RendezvousOK
<1>2. s \in Ranks \ {r}
  BY <1>1
<1>. QED BY <1>1, <1>2 DEF SendTo, Distance

\* The blocks on the way and in the buffers, after a step that only moves blocks.
LEMMA OriginsFrame ==
  ASSUME TypeOK, \A q \in Ranks : OriginsOK(q), \A q \in Ranks : call'[q] \in Int /\ call'[q] >= call[q],
         NEW r \in Ranks, wire'[r] = wire[r],
         \A i \in Ranks :
           /\ tmpbuf'[r][i] # NoBlock => tmpbuf'[r][i][3] <= call'[tmpbuf'[r][i][1]]
           /\ rbuf'[r][i] # NoBlock => rbuf'[r][i][3] <= call'[rbuf'[r][i][1]]
  PROVE  OriginsOK(r)'
<1>1. ASSUME NEW d \in Ranks, NEW n \in 1 .. Len(wire[r][d]), NEW i \in Ranks
      PROVE  LET b == wire[r][d][n].data[i] IN b # NoBlock => b[3] <= call'[b[1]]
  <2>0. wire[r][d] \in Seq(Messages)
    BY DEF TypeOK, Messages
  <2>1. wire[r][d][n] \in Messages
    BY <2>0
  <2>2. wire[r][d][n].data[i] \in Blocks \union {NoBlock}
    BY <2>1 DEF Messages
  <2>3. HasBegun(wire[r][d][n].data[i])
    BY DEF OriginsOK
  <2>. QED BY <2>2, <2>3, StillBegun
<1>. QED BY <1>1 DEF OriginsOK, HasBegun

LEMMA InitInv == ASSUME SameOrders, Init PROVE IInv
<1>0. len \in Nat
  BY Rounds
<1>1. TypeOK
  BY <1>0, BoundsAssumption DEF Init, TypeOK
<1>2. \A r, s \in Ranks : idx[r] = idx[s]
  BY DEF Init
<1>3. ASSUME NEW r \in Ranks
      PROVE  RequestsOK(r) /\ TmpbufOK(r) /\ ReceivedOK(r) /\ OriginsOK(r)
  BY <1>3 DEF Init, RequestsOK, TmpbufOK, ReceivedOK, OriginsOK, HasBegun
<1>4. ASSUME NEW s \in Ranks, NEW d \in Ranks PROVE ChannelOK(s, d) /\ RendezvousOK(s, d)
  <2>1. ASSUME NEW k \in Meetings(s, d) PROVE Sent(s, k) = 0 /\ Received(d, k) = 0
    <3>1. k \in 0 .. len - 1
      BY DEF Meetings
    <3>2. k < len
      BY <1>0, <3>1
    <3>. QED BY <3>2 DEF Init, Sent, Received, HasSent, HasReceived
  <2>2. wire[s][d] = <<>> /\ Len(wire[s][d]) = 0
    BY DEF Init
  <2>. QED BY <2>1, <2>2 DEF ChannelOK, RendezvousOK
<1>5. Complete
  BY DEF Init, Complete
<1>. QED BY <1>1, <1>2, <1>3, <1>4, <1>5 DEF IInv

LEMMA EnterInv ==
  ASSUME SameOrders, IInv, NEW r \in Ranks, Enter(r)
  PROVE  IInv'
<1>. USE DEF IInv
<1>0. /\ pc[r] = "out" /\ call[r] < Calls /\ call' = [call EXCEPT ![r] = call[r] + 1]
      /\ tmpbuf' = [tmpbuf EXCEPT ![r] = [i \in Ranks |-> Block(r, (r + i) % N, call[r] + 1)]]
      /\ round' = [round EXCEPT ![r] = 0] /\ pc' = [pc EXCEPT ![r] = "irecv"]
      /\ idx' = idx /\ rbuf' = rbuf /\ rreq' = rreq /\ sreq' = sreq /\ wire' = wire
      /\ faults' = faults
  BY DEF Enter, pmlVars
<1>1. /\ round[r] = len /\ rreq[r] = "none" /\ sreq[r] = "none" /\ len \in Nat
      /\ call[r] \in Nat /\ call[r] + 1 \in 0 .. Calls
  BY <1>0, CountTypes, BoundsAssumption DEF RequestsOK
<1>2. \A i \in Ranks : (r + i) % N \in Ranks
  BY NAssumption DEF Ranks
<1>3. \A i \in Ranks : LET b == Block(r, (r + i) % N, call[r] + 1) IN
        b \in Blocks /\ b # NoBlock /\ b[1] = r /\ b[3] = call[r] + 1
  BY <1>1, <1>2, BlockType
<1>4. TypeOK'
  <2>1. tmpbuf' \in [Ranks -> [Ranks -> Blocks \union {NoBlock}]]
    BY <1>0, <1>3 DEF TypeOK
  <2>2. call' \in [Ranks -> 0 .. Calls]
    BY <1>0, <1>1 DEF TypeOK
  <2>3. round' \in [Ranks -> 0 .. len]
    BY <1>0, <1>1 DEF TypeOK
  <2>4. pc' \in [Ranks -> {"out", "irecv", "isend", "wait", "failed"}]
    BY <1>0 DEF TypeOK
  <2>. QED BY <1>0, <2>1, <2>2, <2>3, <2>4 DEF TypeOK
<1>5. \A q \in Ranks : call'[q] \in Int /\ call'[q] >= call[q]
  <2>1. \A q \in Ranks : call'[q] = IF q = r THEN call[r] + 1 ELSE call[q]
    BY <1>0 DEF TypeOK
  <2>2. \A q \in Ranks : call[q] \in Nat
    BY CountTypes
  <2>. QED BY <2>1, <2>2
<1>6. \A q \in Ranks \ {r} : /\ pc'[q] = pc[q] /\ call'[q] = call[q]
                            /\ round'[q] = round[q] /\ tmpbuf'[q] = tmpbuf[q]
  BY <1>0 DEF TypeOK
<1>7. ASSUME NEW k \in 0 .. len - 1
      PROVE  Sent(r, k)' = Sent(r, k) /\ Received(r, k)' = Received(r, k)
  <2>1. k \in Int /\ k < len /\ ~(k < 0)
    BY <1>1
  <2>2. HasSent(r, k) /\ HasReceived(r, k)
    BY <1>1, <2>1 DEF HasSent, HasReceived
  <2>3. round'[r] = 0 /\ pc'[r] = "irecv" /\ rreq'[r] = "none" /\ call'[r] = call[r] + 1
    BY <1>0, <1>1 DEF TypeOK
  <2>4. ~HasSent(r, k)' /\ ~HasReceived(r, k)'
    BY <2>1, <2>3 DEF HasSent, HasReceived
  <2>. QED BY <1>1, <2>2, <2>3, <2>4 DEF Sent, Received
<1>8. ASSUME NEW s \in Ranks, NEW d \in Ranks PROVE ChannelOK(s, d)'
  <2>1. ASSUME NEW k \in Meetings(s, d)
        PROVE  Sent(s, k)' = Sent(s, k) /\ Received(d, k)' = Received(d, k)
    <3>1. k \in 0 .. len - 1
      BY DEF Meetings
    <3>2. Sent(s, k)' = Sent(s, k)
      BY <1>6, <1>7, <3>1, SameSent
    <3>3. Received(d, k)' = Received(d, k)
      BY <1>0, <1>6, <1>7, <3>1, SameReceived
    <3>. QED BY <3>2, <3>3
  <2>. QED BY <1>0, <2>1, ChannelFrame
<1>9. \A s, d \in Ranks : RendezvousOK(s, d)'
  BY <1>0, <1>6, RendezvousFrame
<1>10. ASSUME NEW q \in Ranks PROVE RequestsOK(q)' /\ TmpbufOK(q)' /\ ReceivedOK(q)'
  <2>1. CASE q = r
    <3>1. /\ pc'[r] = "irecv" /\ call'[r] = call[r] + 1 /\ round'[r] = 0
          /\ rreq'[r] = "none" /\ sreq'[r] = "none"
          /\ \A i \in Ranks : tmpbuf'[r][i] = Block(r, (r + i) % N, call[r] + 1)
      BY <1>0, <1>1 DEF TypeOK
    <3>2. RequestsOK(r)'
      BY <1>1, <3>1 DEF RequestsOK
    <3>3. \A i \in Ranks : IsInSlot(tmpbuf'[r][i], i, r, Made(idx[r], 0), call[r] + 1)
      BY <3>1, Start
    <3>4. TmpbufOK(r)'
      BY <1>0, <3>1, <3>3 DEF TmpbufOK
    <3>5. ReceivedOK(r)'
      BY <3>1 DEF ReceivedOK
    <3>. QED BY <2>1, <3>2, <3>4, <3>5
  <2>2. CASE q # r
    BY <1>0, <1>6, <2>2, RankFrame
  <2>. QED BY <2>1, <2>2
<1>11. ASSUME NEW q \in Ranks PROVE OriginsOK(q)'
  <2>1. ASSUME NEW i \in Ranks
        PROVE  /\ tmpbuf'[q][i] # NoBlock => tmpbuf'[q][i][3] <= call'[tmpbuf'[q][i][1]]
               /\ rbuf'[q][i] # NoBlock => rbuf'[q][i][3] <= call'[rbuf'[q][i][1]]
    <3>1. /\ tmpbuf[q][i] \in Blocks \union {NoBlock} /\ HasBegun(tmpbuf[q][i])
          /\ rbuf[q][i] \in Blocks \union {NoBlock} /\ HasBegun(rbuf[q][i])
      BY DEF TypeOK, OriginsOK
    <3>2. rbuf'[q][i] # NoBlock => rbuf'[q][i][3] <= call'[rbuf'[q][i][1]]
      BY <1>0, <1>5, <3>1, StillBegun
    <3>3. CASE q = r
      <4>1. tmpbuf'[r][i] = Block(r, (r + i) % N, call[r] + 1) /\ call'[r] = call[r] + 1
        BY <1>0 DEF TypeOK
      <4>2. tmpbuf'[r][i][1] = r /\ tmpbuf'[r][i][3] = call[r] + 1
        BY <1>3, <4>1
      <4>. QED BY <1>1, <3>2, <3>3, <4>1, <4>2
    <3>4. CASE q # r
      BY <1>5, <1>6, <3>1, <3>2, <3>4, StillBegun
    <3>. QED BY <3>3, <3>4
  <2>. QED BY <1>0, <1>5, <2>1, OriginsFrame
<1>12. Complete'
  <2>1. ASSUME NEW q \in Ranks, pc'[q] = "out" PROVE q # r
    BY <1>0, <2>1 DEF TypeOK
  <2>. QED BY <1>0, <1>6, <2>1 DEF Complete
<1>. QED BY <1>0, <1>4, <1>8, <1>9, <1>10, <1>11, <1>12

\* The steps that only move a rank within the function, or post its receive.
LEMMA QuietInv ==
  ASSUME IInv, TypeOK', idx' = idx, call' = call, round' = round, tmpbuf' = tmpbuf,
         rbuf' = rbuf, sreq' = sreq, wire' = wire, NEW r \in Ranks, pc[r] # "wait",
         \A q \in Ranks \ {r} : pc'[q] = pc[q] /\ rreq'[q] = rreq[q],
         pc[r] # "out", pc'[r] # "wait", pc'[r] # "out", rreq'[r] = "done" <=> rreq[r] = "done",
         RequestsOK(r)'
  PROVE  IInv'
<1>. USE DEF IInv
<1>1. \A q \in Ranks : /\ pc'[q] = "wait" <=> pc[q] = "wait"
                       /\ rreq'[q] = "done" <=> rreq[q] = "done"
  OBVIOUS
<1>2. ASSUME NEW s \in Ranks, NEW d \in Ranks PROVE ChannelOK(s, d)'
  <2>1. \A k : Sent(s, k)' = Sent(s, k)
    BY <1>1, SameSent
  <2>2. \A k : Received(d, k)' = Received(d, k)
    BY <1>1, SameReceived
  <2>. QED BY <2>1, <2>2, ChannelFrame
<1>3. \A s, d \in Ranks : RendezvousOK(s, d)'
  BY RendezvousFrame
<1>4. ASSUME NEW q \in Ranks PROVE RequestsOK(q)' /\ TmpbufOK(q)' /\ ReceivedOK(q)'
  <2>1. CASE q = r
    <3>1. TmpbufOK(r)'
      BY DEF TmpbufOK
    <3>2. ReceivedOK(r)'
      BY DEF ReceivedOK, Moves, Distance
    <3>. QED BY <2>1, <3>1, <3>2
  <2>2. CASE q # r
    BY <2>2, RankFrame
  <2>. QED BY <2>1, <2>2
<1>5. ASSUME NEW q \in Ranks PROVE OriginsOK(q)'
  BY DEF OriginsOK, HasBegun
<1>6. Complete'
  BY DEF Complete
<1>. QED BY <1>2, <1>3, <1>4, <1>5, <1>6

LEMMA IrecvInv ==
  ASSUME SameOrders, IInv, NEW r \in Ranks, Irecv(r)
  PROVE  IInv'
<1>0. /\ pc[r] = "irecv" /\ round[r] < len /\ rreq' = [rreq EXCEPT ![r] = "posted"]
      /\ pc' = [pc EXCEPT ![r] = "isend"]
      /\ idx' = idx /\ call' = call /\ round' = round /\ tmpbuf' = tmpbuf /\ rbuf' = rbuf
      /\ sreq' = sreq /\ wire' = wire /\ faults' = faults
  BY DEF Irecv
<1>1. TypeOK'
  BY <1>0 DEF IInv, TypeOK
<1>2. pc'[r] = "isend" /\ rreq'[r] = "posted" /\ rreq[r] = "none"
  BY <1>0 DEF IInv, TypeOK, RequestsOK
<1>3. \A q \in Ranks \ {r} : pc'[q] = pc[q] /\ rreq'[q] = rreq[q]
  BY <1>0 DEF IInv, TypeOK
<1>4. RequestsOK(r)'
  BY <1>0, <1>2 DEF IInv, RequestsOK
<1>. QED BY <1>0, <1>1, <1>2, <1>3, <1>4, QuietInv

LEMMA FailInv ==
  ASSUME SameOrders, IInv, NEW r \in Ranks, Fail(r)
  PROVE  IInv'
<1>0. /\ faults < MaxFaults /\ faults' = faults + 1
      /\ \/ pc[r] = "irecv" /\ round[r] < len
         \/ pc[r] = "isend"
      /\ pc' = [pc EXCEPT ![r] = "failed"] /\ rreq' = rreq
      /\ idx' = idx /\ call' = call /\ round' = round /\ tmpbuf' = tmpbuf /\ rbuf' = rbuf
      /\ sreq' = sreq /\ wire' = wire
  BY DEF Fail, pmlVars
<1>1. TypeOK'
  <2>1. faults' \in 0 .. MaxFaults
    BY <1>0, BoundsAssumption DEF IInv, TypeOK
  <2>2. pc' \in [Ranks -> {"out", "irecv", "isend", "wait", "failed"}]
    BY <1>0 DEF IInv, TypeOK
  <2>. QED BY <1>0, <2>1, <2>2 DEF IInv, TypeOK
<1>2. pc'[r] = "failed" /\ pc[r] # "wait" /\ pc[r] # "out" /\ round[r] < len
  BY <1>0 DEF IInv, TypeOK, RequestsOK
<1>3. \A q \in Ranks \ {r} : pc'[q] = pc[q]
  BY <1>0 DEF IInv, TypeOK
<1>4. RequestsOK(r)'
  BY <1>0, <1>2 DEF IInv, RequestsOK
<1>. QED BY <1>0, <1>1, <1>2, <1>3, <1>4, QuietInv

LEMMA ReturnInv ==
  ASSUME SameOrders, IInv, NEW r \in Ranks, Return(r)
  PROVE  IInv'
<1>. USE DEF IInv
<1>0. /\ pc[r] = "irecv" /\ round[r] = len /\ pc' = [pc EXCEPT ![r] = "out"]
      /\ rbuf' = [rbuf EXCEPT ![r] = [s \in Ranks |-> tmpbuf[r][(r - s + N) % N]]]
      /\ idx' = idx /\ call' = call /\ round' = round /\ tmpbuf' = tmpbuf /\ rreq' = rreq
      /\ sreq' = sreq /\ wire' = wire /\ faults' = faults
  BY DEF Return, pmlVars
<1>1. \A s \in Ranks : (r - s + N) % N \in Ranks
  BY NAssumption DEF Ranks
<1>2. TypeOK'
  <2>1. rbuf' \in [Ranks -> [Ranks -> Blocks \union {NoBlock}]]
    BY <1>0, <1>1 DEF TypeOK
  <2>. QED BY <1>0, <2>1 DEF TypeOK
<1>3. /\ pc'[r] = "out" /\ \A q \in Ranks \ {r} : pc'[q] = pc[q] /\ rbuf'[q] = rbuf[q]
      /\ \A s \in Ranks : rbuf'[r][s] = tmpbuf[r][(r - s + N) % N]
  BY <1>0 DEF TypeOK
<1>4. \A q \in Ranks : pc'[q] = "wait" <=> pc[q] = "wait"
  BY <1>0, <1>3
<1>5. ASSUME NEW s \in Ranks, NEW d \in Ranks PROVE ChannelOK(s, d)'
  <2>1. \A k : Sent(s, k)' = Sent(s, k)
    BY <1>0, <1>4, SameSent
  <2>2. \A k : Received(d, k)' = Received(d, k)
    BY <1>0, SameReceived
  <2>. QED BY <1>0, <2>1, <2>2, ChannelFrame
<1>6. \A s, d \in Ranks : RendezvousOK(s, d)'
  BY <1>0, <1>3, RendezvousFrame
<1>7. rreq[r] = "none" /\ sreq[r] = "none"
  BY <1>0 DEF RequestsOK
<1>8. ASSUME NEW q \in Ranks PROVE RequestsOK(q)' /\ TmpbufOK(q)' /\ ReceivedOK(q)'
  <2>1. CASE q = r
    BY <1>0, <1>3, <1>7, <2>1 DEF RequestsOK, TmpbufOK, ReceivedOK
  <2>2. CASE q # r
    BY <1>0, <1>3, <2>2, RankFrame
  <2>. QED BY <2>1, <2>2
<1>9. ASSUME NEW q \in Ranks PROVE OriginsOK(q)'
  <2>1. \A i \in Ranks : HasBegun(tmpbuf[q][i]) /\ HasBegun(rbuf'[q][i])
    <3>1. CASE q = r
      BY <1>1, <1>3, <3>1 DEF OriginsOK
    <3>2. CASE q # r
      BY <1>3, <3>2 DEF OriginsOK
    <3>. QED BY <3>1, <3>2
  <2>. QED BY <1>0, <2>1 DEF OriginsOK, HasBegun
<1>10. Complete'
  <2>1. ASSUME NEW s \in Ranks PROVE rbuf'[r][s] = Block(s, r, call[r])
    <3>. DEFINE i == (r - s + N) % N
    <3>1. i \in Ranks
      BY <1>1
    <3>2. IsInSlot(tmpbuf[r][i], i, r, Made(idx[r], len), call[r])
      BY <1>0, <3>1 DEF TmpbufOK
    <3>3. tmpbuf[r][i] = Block((r - i) % N, r, call[r])
      <4>. HIDE DEF i
      <4>. QED BY <3>1, <3>2, CountTypes, Arrival
    <3>4. i = IF r < s THEN r - s + N ELSE r - s
      <4>1. r - s + N \in Int /\ -N <= r - s + N /\ r - s + N < 2 * N /\ ~(r - s + N < 0)
        BY NAssumption DEF Ranks
      <4>. QED BY <4>1, Ring, NAssumption DEF Ranks
    <3>5. (r - i) % N = s
      <4>. HIDE DEF i
      <4>1. r - i \in Int /\ -N <= r - i /\ r - i < 2 * N
        BY <3>1, NAssumption DEF Ranks
      <4>2. (r - i) % N = IF r - i < 0 THEN r - i + N ELSE IF r - i < N THEN r - i ELSE r - i - N
        BY <4>1, Ring
      <4>. QED BY <3>4, <4>2, NAssumption DEF Ranks
    <3>. QED BY <1>3, <3>3, <3>5
  <2>2. ASSUME NEW q \in Ranks, q # r, pc'[q] = "out", call'[q] > 0, NEW s \in Ranks
        PROVE  rbuf'[q][s] = Block(s, q, call'[q])
    BY <1>0, <1>3, <2>2 DEF Complete
  <2>. QED BY <1>0, <2>1, <2>2 DEF Complete, Block
<1>. QED BY <1>0, <1>2, <1>5, <1>6, <1>8, <1>9, <1>10

\* The messages of a channel after one more.
LEMMA OneMore ==
  ASSUME NEW S, NEW s \in Seq(S), NEW e \in S
  PROVE  /\ Append(s, e) \in Seq(S) /\ Len(s) \in Nat /\ Len(Append(s, e)) = Len(s) + 1
         /\ \A n \in 1 .. Len(s) : Append(s, e)[n] = s[n]
         /\ Append(s, e)[Len(s) + 1] = e
OBVIOUS

LEMMA IsendInv ==
  ASSUME SameOrders, IInv, NEW r \in Ranks, Isend(r)
  PROVE  IInv'
<1>. USE DEF IInv
<1>0. PICK p \in Protocols :
        /\ wire' = [wire EXCEPT ![r][SendTo(r, round[r])] =
                      Append(@, [data |-> tmpbuf[r], protocol |-> p])]
        /\ sreq' = [sreq EXCEPT ![r] = IF p = "eager" THEN "done" ELSE "active"]
  BY DEF Isend
<1>1. /\ pc[r] = "isend" /\ pc' = [pc EXCEPT ![r] = "wait"]
      /\ idx' = idx /\ call' = call /\ round' = round /\ tmpbuf' = tmpbuf /\ rbuf' = rbuf
      /\ rreq' = rreq /\ faults' = faults
  BY DEF Isend
<1>2. /\ round[r] \in 0 .. len - 1 /\ round[r] \in Int /\ call[r] \in Nat /\ call[r] > 0 /\ idx[r] \in Orders
      /\ rreq[r] # "none" /\ sreq[r] = "none"
  BY <1>1, CountTypes DEF RequestsOK
<1>3. PICK k \in 0 .. len - 1, to \in Ranks : k = round[r] /\ to = SendTo(r, k) /\ to # r
  BY <1>2, Partners
<1>4. p = "eager" \/ p = "rndv"
  BY ProtocolsAssumption
<1>5. PICK msg \in Messages : msg = [data |-> tmpbuf[r], protocol |-> p]
  <2>1. tmpbuf[r] \in [Ranks -> Blocks]
    BY <1>1, FullBuffer
  <2>. QED BY <2>1 DEF Messages
<1>51. msg.data = tmpbuf[r] /\ msg.protocol = p
  BY <1>5
<1>6. wire \in [Ranks -> [Ranks -> Seq(Messages)]]
  BY DEF TypeOK, Messages
<1>7. /\ wire'[r][to] = Append(wire[r][to], msg)
      /\ \A s, d \in Ranks : ~(s = r /\ d = to) => wire'[s][d] = wire[s][d]
      /\ wire' \in [Ranks -> [Ranks -> Seq(Messages)]]
  <2>1. wire[r][to] \in Seq(Messages)
    BY <1>3, <1>6
  <2>2. Append(wire[r][to], msg) \in Seq(Messages)
    BY <2>1, OneMore
  <2>3. wire' = [wire EXCEPT ![r][to] = Append(@, msg)]
    BY <1>0, <1>3, <1>5
  <2>. QED BY <1>3, <1>6, <2>2, <2>3
<1>8. TypeOK'
  <2>1. sreq' \in [Ranks -> {"none", "active", "done"}]
    BY <1>0, <1>4 DEF TypeOK
  <2>2. pc' \in [Ranks -> {"out", "irecv", "isend", "wait", "failed"}]
    BY <1>1 DEF TypeOK
  <2>3. wire' \in [Ranks -> [Ranks -> Seq([data : [Ranks -> Blocks], protocol : Protocols])]]
    BY <1>7 DEF Messages
  <2>. QED BY <1>1, <2>1, <2>2, <2>3 DEF TypeOK
<1>9. /\ pc'[r] = "wait" /\ sreq'[r] = (IF p = "eager" THEN "done" ELSE "active")
      /\ \A q \in Ranks \ {r} : pc'[q] = pc[q] /\ sreq'[q] = sreq[q]
  BY <1>0, <1>1 DEF TypeOK
<1>10. ASSUME NEW q \in Ranks PROVE \A l : Received(q, l)' = Received(q, l)
  BY <1>1, SameReceived
<1>11. /\ Sent(r, k)' = call[r] /\ Sent(r, k) = call[r] - 1
       /\ \A l \in Int : l # k => Sent(r, l)' = Sent(r, l)
  <2>1. k \in Int
    OBVIOUS
  <2>2. HasSent(r, k)' /\ ~HasSent(r, k)
    BY <1>1, <1>2, <1>3, <1>9 DEF HasSent
  <2>3. ASSUME NEW l \in Int, l # k PROVE HasSent(r, l)' <=> HasSent(r, l)
    BY <1>1, <1>3, <2>3 DEF HasSent
  <2>. QED BY <1>1, <2>2, <2>3 DEF Sent
<1>17. /\ wire[r][to] \in Seq(Messages) /\ Len(wire[r][to]) \in Nat
       /\ Len(wire'[r][to]) = Len(wire[r][to]) + 1
       /\ \A n \in 1 .. Len(wire[r][to]) : wire'[r][to][n] = wire[r][to][n]
       /\ wire'[r][to][Len(wire[r][to]) + 1] = msg
  <2>1. wire[r][to] \in Seq(Messages)
    BY <1>6
  <2>. QED BY <1>7, <2>1, OneMore
<1>12. ASSUME NEW s \in Ranks, NEW d \in Ranks PROVE ChannelOK(s, d)'
  <2>1. CASE s # r
    <3>1. \A l : Sent(s, l)' = Sent(s, l)
      BY <1>1, <1>9, <2>1, SameSent
    <3>. QED BY <1>1, <1>7, <1>10, <2>1, <3>1, ChannelFrame
  <2>2. CASE s = r /\ d # to
    <3>1. ASSUME NEW l \in Meetings(r, d) PROVE l \in Int /\ l # k
      BY <1>3, <2>2, <3>1 DEF Meetings
    <3>. QED BY <1>1, <1>7, <1>10, <1>11, <2>2, <3>1, ChannelFrame
  <2>3. CASE s = r /\ d = to
    <3>1. k \in Meetings(r, to) /\ \A l \in Meetings(r, to) : l = k
      BY <1>2, <1>3, OneMeeting DEF Meetings
    <3>2. Meetings(r, to)' = Meetings(r, to)
      BY <1>1, SameMeetings
    <3>5. Sent(r, k)' = call[r] /\ Sent(r, k) = call[r] - 1 /\ Received(to, k)' = Received(to, k)
      BY <1>10, <1>11
    <3>6. Received(to, k) \in Int /\ Received(to, k) + (Len(wire[r][to]) + 1) = call[r]
          /\ Len(wire[r][to]) = Sent(r, k) - Received(to, k)
      <4>1. Len(wire[r][to]) = Sent(r, k) - Received(to, k)
        BY <3>1 DEF ChannelOK
      <4>. QED BY <1>2, <1>11, <4>1, CountTypes
    <3>7. Len(wire'[r][to]) = Sent(r, k)' - Received(to, k)'
      BY <1>2, <1>17, <3>5, <3>6
    <3>8. ASSUME NEW n \in 1 .. Len(wire'[r][to]), NEW i \in Slots(r, to)
          PROVE  IsInSlot(wire'[r][to][n].data[i], i, r, Made(idx[r], k), Received(to, k) + n)
      <4>1. CASE n \in 1 .. Len(wire[r][to])
        <5>1. IsInSlot(wire[r][to][n].data[i], i, r, Made(idx[r], k), Received(to, k) + n)
          BY <3>1, <4>1 DEF ChannelOK
        <5>. QED BY <1>17, <4>1, <5>1
      <4>2. CASE n = Len(wire[r][to]) + 1
        <5>1. wire'[r][to][n].data = tmpbuf[r]
          BY <1>17, <1>51, <4>2
        <5>2. i \in Ranks
          BY DEF Slots
        <5>3. IsInSlot(tmpbuf[r][i], i, r, Made(idx[r], k), call[r])
          BY <1>1, <1>3, <5>2 DEF TmpbufOK
        <5>. QED BY <3>6, <4>2, <5>1, <5>3
      <4>. QED BY <1>17, <4>1, <4>2
    <3>9. ChannelOK(r, to)'
      <4>1. \A i : i \in Slots(r, to)' <=> i \in Slots(r, to)
        BY DEF Slots
      <4>. QED BY <1>1, <3>1, <3>2, <3>5, <3>7, <3>8, <4>1 DEF ChannelOK
    <3>. QED BY <2>3, <3>9
  <2>. QED BY <2>1, <2>2, <2>3
<1>13. ASSUME NEW s \in Ranks, NEW d \in Ranks PROVE RendezvousOK(s, d)'
  <2>. SUFFICES ASSUME NEW n \in 1 .. Len(wire'[s][d]), wire'[s][d][n].protocol = "rndv"
                PROVE  /\ n = Len(wire'[s][d])
                       /\ pc'[s] = "wait" /\ sreq'[s] = "active" /\ SendTo(s, round[s])' = d
                       /\ wire'[s][d][n].data = tmpbuf'[s]
    BY DEF RendezvousOK
  <2>1. CASE s # r
    <3>1. wire'[s][d] = wire[s][d]
      BY <1>7, <2>1
    <3>2. /\ n = Len(wire[s][d])
          /\ pc[s] = "wait" /\ sreq[s] = "active" /\ SendTo(s, round[s]) = d
          /\ wire[s][d][n].data = tmpbuf[s]
      BY <3>1 DEF RendezvousOK
    <3>. QED BY <1>1, <1>9, <2>1, <3>1, <3>2, SameMeetings
  <2>2. CASE s = r
    <3>1. \A m \in 1 .. Len(wire[r][d]) : wire[r][d][m].protocol # "rndv"
      BY <1>1 DEF RendezvousOK
    <3>2. d = to
      BY <1>7, <2>2, <3>1
    <3>3. n = Len(wire[r][to]) + 1
      <4>1. n \in 1 .. Len(wire'[r][to]) /\ wire'[r][to][n].protocol = "rndv"
        BY <2>2, <3>2
      <4>2. n \notin 1 .. Len(wire[r][to])
        BY <1>17, <3>1, <3>2, <4>1
      <4>. QED BY <1>17, <4>1, <4>2
    <3>6. p = "rndv" /\ wire'[r][to][n].data = tmpbuf[r]
      BY <1>17, <1>51, <2>2, <3>2, <3>3
    <3>8. SendTo(r, round[r])' = to
      BY <1>1, <1>3 DEF SendTo, Distance
    <3>. QED BY <1>1, <1>9, <1>17, <2>2, <3>2, <3>3, <3>6, <3>8
  <2>. QED BY <2>1, <2>2
<1>14. ASSUME NEW q \in Ranks PROVE RequestsOK(q)' /\ TmpbufOK(q)' /\ ReceivedOK(q)'
  <2>1. CASE q = r
    <3>1. RequestsOK(r)'
      BY <1>1, <1>2, <1>9 DEF RequestsOK
    <3>2. TmpbufOK(r)'
      BY <1>1, <1>9 DEF TmpbufOK
    <3>3. ReceivedOK(r)'
      BY <1>1 DEF ReceivedOK, Moves, Distance
    <3>. QED BY <2>1, <3>1, <3>2, <3>3
  <2>2. CASE q # r
    BY <1>1, <1>9, <2>2, RankFrame
  <2>. QED BY <2>1, <2>2
<1>15. ASSUME NEW q \in Ranks PROVE OriginsOK(q)'
  <2>1. ASSUME NEW d \in Ranks, NEW n \in 1 .. Len(wire'[q][d]), NEW i \in Ranks
        PROVE  HasBegun(wire'[q][d][n].data[i])
    <3>1. CASE ~(q = r /\ d = to)
      <4>1. wire'[q][d] = wire[q][d]
        BY <1>7, <3>1
      <4>. QED BY <4>1 DEF OriginsOK
    <3>2. CASE q = r /\ d = to
      <4>3. CASE n \in 1 .. Len(wire[r][to])
        BY <1>17, <3>2, <4>3 DEF OriginsOK
      <4>4. CASE n = Len(wire[r][to]) + 1
        <5>1. wire'[q][d][n].data = tmpbuf[r]
          BY <1>17, <1>51, <3>2, <4>4
        <5>. QED BY <5>1 DEF OriginsOK
      <4>. QED BY <1>17, <3>2, <4>3, <4>4
    <3>. QED BY <3>1, <3>2
  <2>. QED BY <1>1, <2>1 DEF OriginsOK, HasBegun
<1>16. Complete'
  <2>1. \A q \in Ranks : pc'[q] = "out" => pc[q] = "out"
    BY <1>9
  <2>. QED BY <1>1, <2>1 DEF Complete
<1>. QED BY <1>1, <1>8, <1>12, <1>13, <1>14, <1>15, <1>16

LEMMA WaitAllInv ==
  ASSUME SameOrders, IInv, NEW r \in Ranks, WaitAll(r)
  PROVE  IInv'
<1>. USE DEF IInv
<1>1. /\ pc[r] = "wait" /\ rreq[r] = "done" /\ sreq[r] = "done"
      /\ rreq' = [rreq EXCEPT ![r] = "none"] /\ sreq' = [sreq EXCEPT ![r] = "none"]
      /\ tmpbuf' = [tmpbuf EXCEPT ![r] =
                      [i \in Ranks |-> IF Moves(r, i) THEN rbuf[r][i] ELSE tmpbuf[r][i]]]
      /\ round' = [round EXCEPT ![r] = round[r] + 1] /\ pc' = [pc EXCEPT ![r] = "irecv"]
      /\ idx' = idx /\ call' = call /\ rbuf' = rbuf /\ wire' = wire /\ faults' = faults
  BY DEF WaitAll
<1>2. /\ round[r] \in 0 .. len - 1 /\ round[r] \in Int /\ len \in Nat
      /\ call[r] > 0 /\ idx[r] \in Orders
  BY <1>1, CountTypes DEF RequestsOK
<1>3. PICK k \in 0 .. len - 1 : k = round[r]
  BY <1>2
<1>4. /\ pc'[r] = "irecv" /\ rreq'[r] = "none" /\ sreq'[r] = "none" /\ round'[r] = k + 1
      /\ \A q \in Ranks \ {r} : /\ pc'[q] = pc[q] /\ rreq'[q] = rreq[q] /\ sreq'[q] = sreq[q]
                                /\ round'[q] = round[q] /\ tmpbuf'[q] = tmpbuf[q]
      /\ \A i \in Ranks :
           tmpbuf'[r][i] = IF Has(i, Distance(r, k)) THEN rbuf[r][i] ELSE tmpbuf[r][i]
  BY <1>1, <1>3 DEF TypeOK, Moves
<1>5. TypeOK'
  <2>1. tmpbuf' \in [Ranks -> [Ranks -> Blocks \union {NoBlock}]]
    BY <1>1 DEF TypeOK
  <2>2. k + 1 \in 0 .. len
    BY <1>2
  <2>3. round' \in [Ranks -> 0 .. len]
    BY <1>1, <1>3, <2>2 DEF TypeOK
  <2>4. pc' \in [Ranks -> {"out", "irecv", "isend", "wait", "failed"}]
    BY <1>1 DEF TypeOK
  <2>5. rreq' \in [Ranks -> {"none", "posted", "done"}]
    BY <1>1 DEF TypeOK
  <2>6. sreq' \in [Ranks -> {"none", "active", "done"}]
    BY <1>1 DEF TypeOK
  <2>. QED BY <1>1, <2>1, <2>3, <2>4, <2>5, <2>6 DEF TypeOK
<1>6. ASSUME NEW q \in Ranks, NEW l \in Int
      PROVE  Sent(q, l)' = Sent(q, l) /\ Received(q, l)' = Received(q, l)
  <2>1. CASE q = r
    <3>1. HasSent(r, l)' <=> HasSent(r, l)
      <4>1. HasSent(r, l)' <=> l < k + 1
        BY <1>4 DEF HasSent
      <4>2. HasSent(r, l) <=> l < k \/ l = k
        BY <1>1, <1>3 DEF HasSent
      <4>. QED BY <4>1, <4>2
    <3>2. HasReceived(r, l)' <=> HasReceived(r, l)
      <4>1. HasReceived(r, l)' <=> l < k + 1
        BY <1>4 DEF HasReceived
      <4>2. HasReceived(r, l) <=> l < k \/ l = k
        BY <1>1, <1>3 DEF HasReceived
      <4>. QED BY <4>1, <4>2
    <3>. QED BY <1>1, <2>1, <3>1, <3>2 DEF Sent, Received
  <2>2. CASE q # r
    <3>1. /\ round'[q] = round[q] /\ call'[q] = call[q] /\ pc'[q] = pc[q] /\ rreq'[q] = rreq[q]
      BY <1>1, <1>4, <2>2
    <3>2. Sent(q, l)' = Sent(q, l)
      BY <3>1, SameSent
    <3>3. Received(q, l)' = Received(q, l)
      BY <3>1, SameReceived
    <3>. QED BY <3>2, <3>3
  <2>. QED BY <2>1, <2>2
<1>7. ASSUME NEW s \in Ranks, NEW d \in Ranks PROVE ChannelOK(s, d)'
  <2>1. \A l \in Meetings(s, d) : l \in Int
    BY DEF Meetings
  <2>. QED BY <1>1, <1>6, <2>1, ChannelFrame
<1>8. \A s, d \in Ranks : RendezvousOK(s, d)'
  BY <1>1, <1>4, RendezvousFrame
<1>9. ASSUME NEW q \in Ranks PROVE RequestsOK(q)' /\ TmpbufOK(q)' /\ ReceivedOK(q)'
  <2>1. CASE q = r
    <3>1. RequestsOK(r)'
      BY <1>1, <1>2, <1>4 DEF RequestsOK
    <3>2. ASSUME NEW i \in Ranks
          PROVE  IsInSlot(tmpbuf'[r][i], i, r, Made(idx[r], k + 1), call[r])
      <4>1. CASE Has(i, Distance(r, k))
        BY <1>1, <1>3, <1>4, <4>1 DEF ReceivedOK, Moves
      <4>2. CASE ~Has(i, Distance(r, k))
        <5>1. IsInSlot(tmpbuf[r][i], i, r, Made(idx[r], k), call[r])
          BY <1>1, <1>3 DEF TmpbufOK
        <5>. QED BY <1>2, <1>4, <4>2, <5>1, Stay
      <4>. QED BY <4>1, <4>2
    <3>3. TmpbufOK(r)'
      BY <1>1, <1>4, <3>2 DEF TmpbufOK
    <3>4. ReceivedOK(r)'
      BY <1>4 DEF ReceivedOK
    <3>. QED BY <2>1, <3>1, <3>3, <3>4
  <2>2. CASE q # r
    BY <1>1, <1>4, <2>2, RankFrame
  <2>. QED BY <2>1, <2>2
<1>10. ASSUME NEW q \in Ranks PROVE OriginsOK(q)'
  <2>1. \A i \in Ranks : HasBegun(tmpbuf'[q][i]) /\ HasBegun(rbuf[q][i])
    <3>1. CASE q = r
      BY <1>4, <3>1 DEF OriginsOK
    <3>2. CASE q # r
      BY <1>4, <3>2 DEF OriginsOK
    <3>. QED BY <3>1, <3>2
  <2>. QED BY <1>1, <2>1 DEF OriginsOK, HasBegun
<1>11. Complete'
  <2>1. \A q \in Ranks : pc'[q] = "out" => pc[q] = "out"
    BY <1>4
  <2>. QED BY <1>1, <2>1 DEF Complete
<1>. QED BY <1>1, <1>5, <1>7, <1>8, <1>9, <1>10, <1>11

\* The messages of a channel after one less.
LEMMA OneLess ==
  ASSUME NEW S, NEW s \in Seq(S), s # <<>>
  PROVE  /\ Head(s) = s[1] /\ Head(s) \in S /\ 1 \in 1 .. Len(s)
         /\ Tail(s) \in Seq(S) /\ Len(s) \in Nat /\ Len(Tail(s)) = Len(s) - 1
         /\ \A n \in 1 .. Len(Tail(s)) : n + 1 \in 1 .. Len(s) /\ Tail(s)[n] = s[n + 1]
OBVIOUS

LEMMA MatchInv ==
  ASSUME SameOrders, IInv, NEW s \in Ranks, NEW d \in Ranks, Match(s, d)
  PROVE  IInv'
<1>. USE DEF IInv
<1>1. /\ wire[s][d] # <<>> /\ rreq[d] = "posted" /\ RecvFrom(d, round[d]) = s
      /\ rreq' = [rreq EXCEPT ![d] = "done"] /\ wire' = [wire EXCEPT ![s][d] = Tail(wire[s][d])]
      /\ idx' = idx /\ pc' = pc /\ call' = call /\ round' = round /\ tmpbuf' = tmpbuf
      /\ faults' = faults
  BY DEF Match
<1>2. wire \in [Ranks -> [Ranks -> Seq(Messages)]] /\ wire[s][d] \in Seq(Messages)
  BY DEF TypeOK, Messages
<1>3. PICK m \in Messages : m = Head(wire[s][d]) /\ m = wire[s][d][1] /\ 1 \in 1 .. Len(wire[s][d])
  BY <1>1, <1>2, OneLess
<1>4. m.protocol = "rndv" => /\ 1 = Len(wire[s][d]) /\ pc[s] = "wait" /\ sreq[s] = "active"
                             /\ SendTo(s, round[s]) = d /\ m.data = tmpbuf[s]
  <2>1. RendezvousOK(s, d)
    OBVIOUS
  <2>. QED BY <1>3, <2>1 DEF RendezvousOK
<1>5. /\ rbuf' = [rbuf EXCEPT ![d] =
                   [i \in Ranks |-> IF i \in Slots(s, d) THEN m.data[i] ELSE rbuf[d][i]]]
      /\ sreq' = [sreq EXCEPT ![s] = IF m.protocol = "rndv" THEN "done" ELSE sreq[s]]
  BY <1>3, <1>4 DEF Match
<1>6. /\ pc[d] \in {"isend", "wait", "failed"} /\ round[d] \in 0 .. len - 1 /\ round[d] \in Int
      /\ call[d] \in Nat /\ call[d] > 0 /\ idx[s] \in Orders /\ idx[d] \in Orders
      /\ len \in Nat
  <2>1. pc[d] \in {"isend", "wait", "failed"}
    BY <1>1 DEF TypeOK, RequestsOK
  <2>. QED BY <2>1, CountTypes DEF RequestsOK
<1>7. PICK k \in 0 .. len - 1 : k = round[d]
  BY <1>6
<1>8. /\ SendTo(s, k) = d /\ s # d /\ Distance(d, k) = (d - s) % N /\ idx[s] = idx[d]
      /\ Distance(s, k) = Distance(d, k)
      /\ \A q \in Ranks : SendTo(q, k) = d => q = s
  <2>1. \A q \in Ranks : idx[q] = idx[d] /\ idx[q] \in Orders
    BY <1>6
  <2>. QED BY <1>1, <1>6, <1>7, <2>1, Partners
<1>9. k \in Meetings(s, d) /\ \A l \in Meetings(s, d) : l = k
  BY <1>6, <1>8, OneMeeting DEF Meetings
<1>10. /\ wire' \in [Ranks -> [Ranks -> Seq(Messages)]]
       /\ wire'[s][d] = Tail(wire[s][d])
       /\ \A q, e \in Ranks : ~(q = s /\ e = d) => wire'[q][e] = wire[q][e]
       /\ Len(wire[s][d]) \in Nat /\ Len(wire'[s][d]) = Len(wire[s][d]) - 1
       /\ \A n \in 1 .. Len(wire'[s][d]) :
            n + 1 \in 1 .. Len(wire[s][d]) /\ wire'[s][d][n] = wire[s][d][n + 1]
  <2>1. Tail(wire[s][d]) \in Seq(Messages)
    BY <1>1, <1>2, OneLess
  <2>2. /\ wire' \in [Ranks -> [Ranks -> Seq(Messages)]]
        /\ wire'[s][d] = Tail(wire[s][d])
        /\ \A q, e \in Ranks : ~(q = s /\ e = d) => wire'[q][e] = wire[q][e]
    BY <1>1, <1>2, <2>1
  <2>. QED BY <1>1, <1>2, <2>2, OneLess
<1>11. /\ rreq'[d] = "done" /\ \A q \in Ranks \ {d} : rreq'[q] = rreq[q] /\ rbuf'[q] = rbuf[q]
       /\ sreq'[s] = (IF m.protocol = "rndv" THEN "done" ELSE sreq[s])
       /\ \A q \in Ranks \ {s} : sreq'[q] = sreq[q]
       /\ \A i \in Ranks : rbuf'[d][i] = IF i \in Slots(s, d) THEN m.data[i] ELSE rbuf[d][i]
  BY <1>1, <1>5 DEF TypeOK
<1>12. TypeOK'
  <2>1. \A i \in Ranks : m.data[i] \in Blocks
    BY DEF Messages
  <2>2. rbuf' \in [Ranks -> [Ranks -> Blocks \union {NoBlock}]]
    BY <1>5, <2>1 DEF TypeOK
  <2>3. rreq' \in [Ranks -> {"none", "posted", "done"}]
    BY <1>1 DEF TypeOK
  <2>4. sreq' \in [Ranks -> {"none", "active", "done"}]
    BY <1>5 DEF TypeOK
  <2>5. wire' \in [Ranks -> [Ranks -> Seq([data : [Ranks -> Blocks], protocol : Protocols])]]
    BY <1>10 DEF Messages
  <2>. QED BY <1>1, <2>2, <2>3, <2>4, <2>5 DEF TypeOK
<1>13. ASSUME NEW q \in Ranks PROVE \A l : Sent(q, l)' = Sent(q, l)
  BY <1>1, SameSent
<1>14. /\ Received(d, k) = call[d] - 1 /\ Received(d, k)' = call[d]
       /\ \A l \in Int : l # k => Received(d, l)' = Received(d, l)
  <2>1. ~HasReceived(d, k) /\ HasReceived(d, k)'
    BY <1>1, <1>7, <1>11 DEF HasReceived
  <2>2. ASSUME NEW l \in Int, l # k PROVE HasReceived(d, l)' <=> HasReceived(d, l)
    BY <1>1, <1>7, <2>2 DEF HasReceived
  <2>. QED BY <1>1, <2>1, <2>2 DEF Received
<1>15. ASSUME NEW q \in Ranks, NEW e \in Ranks PROVE ChannelOK(q, e)'
  <2>1. CASE e # d
    <3>1. \A l : Received(e, l)' = Received(e, l)
      <4>1. rreq'[e] = rreq[e]
        BY <1>11, <2>1
      <4>. QED BY <1>1, <4>1, SameReceived
    <3>. QED BY <1>1, <1>10, <1>13, <2>1, <3>1, ChannelFrame
  <2>2. CASE e = d /\ q # s
    <3>1. ASSUME NEW l \in Meetings(q, d) PROVE l \in Int /\ l # k
      BY <1>8, <2>2, <3>1 DEF Meetings
    <3>. QED BY <1>1, <1>10, <1>13, <1>14, <2>2, <3>1, ChannelFrame
  <2>3. CASE e = d /\ q = s
    <3>1. Meetings(s, d)' = Meetings(s, d) /\ \A i : i \in Slots(s, d)' <=> i \in Slots(s, d)
      BY <1>1, SameMeetings DEF Slots
    <3>2. Len(wire[s][d]) = Sent(s, k) - Received(d, k) /\ Sent(s, k)' = Sent(s, k)
      BY <1>9, <1>13 DEF ChannelOK
    <3>3. Len(wire'[s][d]) = Sent(s, k)' - Received(d, k)'
      <4>1. Sent(s, k) \in Int
        BY CountTypes
      <4>2. PICK a \in Int, c \in Nat : a = Sent(s, k) /\ c = call[d]
        BY <1>6, <4>1
      <4>3. Received(d, k) = c - 1 /\ Received(d, k)' = c /\ Sent(s, k)' = a
        BY <1>14, <3>2, <4>2
      <4>4. Len(wire[s][d]) = a - (c - 1) /\ Len(wire'[s][d]) = Len(wire[s][d]) - 1
        BY <1>10, <3>2, <4>2, <4>3
      <4>5. (a - (c - 1)) - 1 = a - c
        OBVIOUS
      <4>. QED BY <4>3, <4>4, <4>5
    <3>4. ASSUME NEW n \in 1 .. Len(wire'[s][d]), NEW i \in Slots(s, d)
          PROVE  IsInSlot(wire'[s][d][n].data[i], i, s, Made(idx[s], k), call[d] + n)
      <4>1. n + 1 \in 1 .. Len(wire[s][d]) /\ wire'[s][d][n] = wire[s][d][n + 1]
        BY <1>10
      <4>2. IsInSlot(wire[s][d][n + 1].data[i], i, s, Made(idx[s], k), Received(d, k) + (n + 1))
        BY <1>9, <4>1 DEF ChannelOK
      <4>3. Received(d, k) + (n + 1) = call[d] + n
        BY <1>6, <1>14
      <4>. QED BY <4>1, <4>2, <4>3
    <3>5. ChannelOK(s, d)'
      BY <1>1, <1>9, <1>14, <3>1, <3>3, <3>4 DEF ChannelOK
    <3>. QED BY <2>3, <3>5
  <2>. QED BY <2>1, <2>2, <2>3
<1>16. ASSUME NEW q \in Ranks, NEW e \in Ranks PROVE RendezvousOK(q, e)'
  <2>. SUFFICES ASSUME NEW n \in 1 .. Len(wire'[q][e]), wire'[q][e][n].protocol = "rndv"
                PROVE  /\ n = Len(wire'[q][e])
                       /\ pc'[q] = "wait" /\ sreq'[q] = "active" /\ SendTo(q, round[q])' = e
                       /\ wire'[q][e][n].data = tmpbuf'[q]
    BY DEF RendezvousOK
  <2>0. SendTo(q, round[q])' = SendTo(q, round[q])
    BY <1>1 DEF SendTo, Distance
  <2>1. CASE q = s /\ e = d
    <3>1. /\ n + 1 \in 1 .. Len(wire[s][d]) /\ wire'[s][d][n] = wire[s][d][n + 1]
          /\ wire[s][d][n + 1].protocol = "rndv"
      BY <1>10, <2>1
    <3>2. /\ n + 1 = Len(wire[s][d])
          /\ pc[s] = "wait" /\ sreq[s] = "active" /\ SendTo(s, round[s]) = d
          /\ wire[s][d][n + 1].data = tmpbuf[s]
      BY <3>1 DEF RendezvousOK
    <3>3. n \in Nat /\ n > 0
      OBVIOUS
    <3>4. m.protocol # "rndv"
      BY <1>4, <3>2, <3>3
    <3>5. n = Len(wire'[s][d])
      <4>1. Len(wire'[s][d]) = Len(wire[s][d]) - 1 /\ n + 1 = Len(wire[s][d])
        BY <1>10, <3>2
      <4>2. PICK l \in Nat : l = Len(wire[s][d])
        BY <1>10
      <4>3. l = n + 1 /\ Len(wire'[s][d]) = l - 1
        BY <4>1, <4>2
      <4>4. l - 1 = n
        BY <3>3, <4>3
      <4>. QED BY <4>3, <4>4
    <3>. QED BY <1>1, <1>11, <2>0, <2>1, <3>1, <3>2, <3>4, <3>5
  <2>2. CASE ~(q = s /\ e = d)
    <3>1. wire'[q][e] = wire[q][e]
      BY <1>10, <2>2
    <3>2. /\ n = Len(wire[q][e])
          /\ pc[q] = "wait" /\ sreq[q] = "active" /\ SendTo(q, round[q]) = e
          /\ wire[q][e][n].data = tmpbuf[q]
      BY <3>1 DEF RendezvousOK
    <3>3. sreq'[q] = sreq[q]
      BY <1>4, <1>11, <2>2, <3>2
    <3>. QED BY <1>1, <2>0, <3>1, <3>2, <3>3
  <2>. QED BY <2>1, <2>2
<1>17. ASSUME NEW q \in Ranks PROVE RequestsOK(q)' /\ TmpbufOK(q)' /\ ReceivedOK(q)'
  <2>1. rreq'[q] # "none" <=> rreq[q] # "none"
    BY <1>1, <1>11
  <2>2. sreq'[q] # "none" <=> sreq[q] # "none"
    BY <1>4, <1>11
  <2>3. RequestsOK(q)'
    BY <1>1, <2>1, <2>2 DEF RequestsOK
  <2>4. TmpbufOK(q)'
    BY <1>1 DEF TmpbufOK
  <2>5. CASE q = d
    <3>1. ASSUME NEW i \in Ranks, Has(i, Distance(d, k))
          PROVE  IsInSlot(rbuf'[d][i], i, d, Made(idx[d], k + 1), call[d])
      <4>1. i \in Slots(s, d)
        BY <1>8, <3>1 DEF Slots
      <4>2. IsInSlot(m.data[i], i, s, Made(idx[s], k), Received(d, k) + 1)
        BY <1>3, <1>9, <4>1 DEF ChannelOK
      <4>3. Received(d, k) + 1 = call[d]
        BY <1>6, <1>14
      <4>4. rbuf'[d][i] = m.data[i] /\ IsInSlot(m.data[i], i, s, Made(idx[s], k), call[d])
        BY <1>11, <4>1, <4>2, <4>3
      <4>. QED BY <1>6, <1>8, <3>1, <4>4, Travel
    <3>2. ReceivedOK(d)'
      BY <1>1, <1>7, <3>1 DEF ReceivedOK, Moves, Distance
    <3>. QED BY <2>3, <2>4, <2>5, <3>2
  <2>6. CASE q # d
    <3>1. ReceivedOK(q)'
      BY <1>1, <1>11, <2>6 DEF ReceivedOK, Moves, Distance
    <3>. QED BY <2>3, <2>4, <3>1
  <2>. QED BY <2>5, <2>6
<1>18. ASSUME NEW q \in Ranks PROVE OriginsOK(q)'
  <2>1. \A i \in Ranks : HasBegun(m.data[i])
    BY <1>3 DEF OriginsOK
  <2>2. \A i \in Ranks : HasBegun(tmpbuf[q][i]) /\ HasBegun(rbuf'[q][i])
    <3>1. CASE q = d
      BY <1>11, <2>1, <3>1 DEF OriginsOK
    <3>2. CASE q # d
      BY <1>11, <3>2 DEF OriginsOK
    <3>. QED BY <3>1, <3>2
  <2>3. ASSUME NEW e \in Ranks, NEW n \in 1 .. Len(wire'[q][e]), NEW i \in Ranks
        PROVE  HasBegun(wire'[q][e][n].data[i])
    <3>1. CASE q = s /\ e = d
      <4>1. /\ n \in 1 .. Len(wire'[s][d]) /\ n + 1 \in 1 .. Len(wire[s][d])
            /\ wire'[s][d][n] = wire[s][d][n + 1]
        BY <1>10, <3>1
      <4>2. HasBegun(wire[s][d][n + 1].data[i])
        BY <4>1 DEF OriginsOK
      <4>. QED BY <3>1, <4>1, <4>2
    <3>2. CASE ~(q = s /\ e = d)
      <4>1. wire'[q][e] = wire[q][e]
        BY <1>10, <3>2
      <4>. QED BY <4>1 DEF OriginsOK
    <3>. QED BY <3>1, <3>2
  <2>. QED BY <1>1, <2>2, <2>3 DEF OriginsOK, HasBegun
<1>19. Complete'
  <2>1. ASSUME NEW q \in Ranks, pc'[q] = "out" PROVE rbuf'[q] = rbuf[q] /\ pc[q] = "out"
    BY <1>1, <1>6, <1>11, <2>1
  <2>. QED BY <1>1, <2>1 DEF Complete
<1>. QED BY <1>1, <1>12, <1>15, <1>16, <1>17, <1>18, <1>19

-----------------------------------------------------------------------------
(* The theorems.                                                           *)

\* The types hold, and each block is where the rounds made so far have brought it,
\* with as many messages on the way as the accounts of their two ranks say; for
\* every number of ranks and every order of the distances, the same for all.
THEOREM Invariance == ASSUME SameOrders PROVE Spec => []IInv
<1>1. Init => IInv
  BY InitInv
<1>2. IInv /\ [Next]_vars => IInv'
  <2>. SUFFICES ASSUME IInv, [Next]_vars PROVE IInv'
    OBVIOUS
  <2>1. ASSUME NEW r \in Ranks, RankStep(r) \/ Fail(r) PROVE IInv'
    BY <2>1, EnterInv, IrecvInv, IsendInv, WaitAllInv, ReturnInv, FailInv DEF RankStep
  <2>2. ASSUME NEW s \in Ranks, NEW d \in Ranks, Match(s, d) PROVE IInv'
    BY <2>2, MatchInv
  <2>3. CASE UNCHANGED vars
    <3>1. /\ idx' = idx /\ pc' = pc /\ call' = call /\ round' = round /\ tmpbuf' = tmpbuf
          /\ rbuf' = rbuf /\ rreq' = rreq /\ sreq' = sreq /\ wire' = wire /\ faults' = faults
      BY <2>3 DEF vars, pmlVars
    <3>2. TypeOK'
      BY <3>1 DEF IInv, TypeOK
    <3>3. ASSUME NEW r \in Ranks PROVE RequestsOK(r)' /\ TmpbufOK(r)' /\ ReceivedOK(r)'
      <4>1. RequestsOK(r) /\ TmpbufOK(r) /\ ReceivedOK(r)
        BY DEF IInv
      <4>. QED BY <3>1, <4>1, RankFrame
    <3>4. ASSUME NEW r \in Ranks PROVE OriginsOK(r)'
      <4>1. OriginsOK(r)
        BY DEF IInv
      <4>. QED BY <3>1, <4>1 DEF OriginsOK, HasBegun
    <3>5. ASSUME NEW s \in Ranks, NEW d \in Ranks PROVE ChannelOK(s, d)' /\ RendezvousOK(s, d)'
      <4>1. ChannelOK(s, d) /\ RendezvousOK(s, d)
        BY DEF IInv
      <4>2. ChannelOK(s, d)'
        BY <3>1, <4>1, ChannelFrame, SameSent, SameReceived
      <4>3. RendezvousOK(s, d)'
        BY <3>1, <4>1 DEF RendezvousOK, SendTo, Distance
      <4>. QED BY <4>2, <4>3
    <3>6. Complete'
      BY <3>1 DEF IInv, Complete
    <3>. QED BY <3>1, <3>2, <3>3, <3>4, <3>5, <3>6 DEF IInv
  <2>. QED BY <2>1, <2>2, <2>3 DEF Next, Finished
<1>. QED BY <1>1, <1>2, PTL DEF Spec

\* A call that returned MPI_SUCCESS has every block that was addressed to its
\* rank, and from the same call, through however many ranks it came (Step 3).
THEOREM Completeness == ASSUME SameOrders PROVE Spec => []Complete
<1>1. IInv => Complete
  BY DEF IInv
<1>. QED BY <1>1, Invariance, PTL

\* No rank is through with a call that another has not entered.
THEOREM Synchronises == ASSUME SameOrders PROVE Spec => []NoneLeavesEarly
<1>1. IInv => NoneLeavesEarly
  <2>. SUFFICES ASSUME IInv, NEW r \in Ranks, NEW s \in Ranks, pc[r] = "out"
                PROVE  call[s] >= call[r]
    BY DEF NoneLeavesEarly
  <2>0. TypeOK /\ call[r] \in 0 .. Calls /\ call[r] \in Nat /\ call[s] \in Nat
    BY CountTypes DEF IInv, TypeOK
  <2>1. CASE call[r] = 0
    BY <2>0, <2>1
  <2>2. CASE call[r] > 0
    <3>1. rbuf[r][s] = Block(s, r, call[r]) /\ HasBegun(rbuf[r][s])
      BY <2>2 DEF IInv, Complete, OriginsOK
    <3>2. call[r] <= call[s]
      BY <2>0, <3>1, BlockType DEF HasBegun
    <3>. QED BY <2>0, <3>2
  <2>. QED BY <2>0, <2>1, <2>2
<1>. QED BY <1>1, Invariance, PTL

=============================================================================
