-------------------------- MODULE CollectiveProofs --------------------------
(***************************************************************************)
(* What holds of every collective whose annotations are proper: however    *)
(* the ranks are interleaved, over any number of calls, with or without    *)
(* rendezvous, and wherever a request fails.                               *)
(***************************************************************************)
EXTENDS Annotated, FiniteSetTheorems, SequenceTheorems, TLAPS

-----------------------------------------------------------------------------
(* Counting.                                                               *)

\* Rounds are finitely many, and so are those up to one.
LEMMA UptoType ==
  ASSUME NEW n \in Nat, NEW rounds \in SUBSET (1 .. n), NEW i \in Int
  PROVE  /\ IsFiniteSet(rounds)
         /\ Cardinality(rounds) \in Nat
         /\ IsFiniteSet({x \in rounds : x <= i})
         /\ Upto(rounds, i) \in Nat
         /\ Upto(rounds, i) <= Cardinality(rounds)
<1>1. IsFiniteSet(1 .. n)
  BY FS_Interval
<1>2. IsFiniteSet(rounds)
  BY <1>1, FS_Subset
<1>3. /\ IsFiniteSet({x \in rounds : x <= i})
      /\ Cardinality({x \in rounds : x <= i}) <= Cardinality(rounds)
  BY <1>2, FS_Subset
<1>4. Cardinality(rounds) \in Nat /\ Cardinality({x \in rounds : x <= i}) \in Nat
  BY <1>2, <1>3, FS_CardinalityType
<1> QED
  BY <1>2, <1>3, <1>4 DEF Upto

\* The number of rounds grows by one at each of them and nowhere else.
LEMMA UptoStep ==
  ASSUME NEW n \in Nat, NEW rounds \in SUBSET (1 .. n), NEW i \in Int
  PROVE  /\ i \in rounds => Upto(rounds, i) = Upto(rounds, i - 1) + 1
         /\ i \notin rounds => Upto(rounds, i) = Upto(rounds, i - 1)
<1> DEFINE Before == {x \in rounds : x <= i - 1}
<1>0. \A x \in rounds : x \in Int
  OBVIOUS
<1>1. IsFiniteSet(Before)
  BY UptoType
<1>2. CASE i \in rounds
  <2>1. {x \in rounds : x <= i} = Before \union {i}
    <3>1. \A x \in rounds : x <= i <=> (x <= i - 1 \/ x = i)
      BY <1>0
    <3> QED
      BY <1>2, <3>1
  <2>2. i \notin Before
    OBVIOUS
  <2>3. Cardinality(Before \union {i}) = Cardinality(Before) + 1
    BY <1>1, <2>2, FS_AddElement
  <2> QED
    BY <1>2, <2>1, <2>3 DEF Upto
<1>3. CASE i \notin rounds
  <2>1. {x \in rounds : x <= i} = Before
    <3>1. \A x \in rounds : x <= i <=> x <= i - 1
      BY <1>0, <1>3
    <3> QED
      BY <3>1
  <2> QED
    BY <1>3, <2>1 DEF Upto
<1> QED
  BY <1>2, <1>3

\* It never falls, and rises up to a round.
LEMMA UptoOrder ==
  ASSUME NEW n \in Nat, NEW rounds \in SUBSET (1 .. n), NEW i \in Int, NEW k \in Int
  PROVE  /\ i <= k => Upto(rounds, i) <= Upto(rounds, k)
         /\ i < k /\ k \in rounds => Upto(rounds, i) < Upto(rounds, k)
<1>1. ASSUME NEW a \in Int, NEW b \in Int, a <= b
      PROVE  Upto(rounds, a) <= Upto(rounds, b)
  <2>1. {x \in rounds : x <= a} \subseteq {x \in rounds : x <= b}
    <3>1. \A x \in rounds : x \in Int
      OBVIOUS
    <3>2. \A x \in rounds : x <= a => x <= b
      BY <1>1, <3>1
    <3> QED
      BY <3>2
  <2>2. IsFiniteSet({x \in rounds : x <= b})
    BY UptoType
  <2> QED
    BY <2>1, <2>2, FS_Subset DEF Upto
<1>2. ASSUME i < k, k \in rounds
      PROVE  Upto(rounds, i) < Upto(rounds, k)
  <2>1. Upto(rounds, i) <= Upto(rounds, k - 1)
    BY <1>1, <1>2
  <2>2. Upto(rounds, k) = Upto(rounds, k - 1) + 1
    BY <1>2, UptoStep
  <2>3. Upto(rounds, i) \in Nat /\ Upto(rounds, k - 1) \in Nat
    <3>1. k - 1 \in Int
      OBVIOUS
    <3> QED
      BY <3>1, UptoType
  <2> QED
    BY <2>1, <2>2, <2>3
<1> QED
  BY <1>1, <1>2

\* There are none before the first round, and all by the last.
LEMMA UptoEnds ==
  ASSUME NEW n \in Nat, NEW rounds \in SUBSET (1 .. n)
  PROVE  /\ Upto(rounds, 0) = 0
         /\ Upto(rounds, n) = Cardinality(rounds)
         /\ \A i \in rounds : Upto(rounds, i) >= 1
<1>0. \A x \in rounds : x \in Int /\ 0 < x /\ x <= n
  OBVIOUS
<1>1. {x \in rounds : x <= 0} = {} /\ {x \in rounds : x <= n} = rounds
  <2>1. \A x \in rounds : ~(x <= 0) /\ x <= n
    BY <1>0
  <2> QED
    BY <2>1
<1>2. Upto(rounds, 0) = 0
  BY <1>1, FS_EmptySet DEF Upto
<1>3. ASSUME NEW i \in rounds
      PROVE  Upto(rounds, i) >= 1
  <2>1. i \in Int /\ 0 < i
    BY <1>0
  <2>2. Upto(rounds, 0) < Upto(rounds, i)
    BY <2>1, UptoOrder
  <2>3. Upto(rounds, i) \in Nat
    BY <2>1, UptoType
  <2> QED
    BY <1>2, <2>2, <2>3
<1> QED
  BY <1>1, <1>2, <1>3 DEF Upto

\* Different rounds of a set have different numbers.
LEMMA UptoInjective ==
  ASSUME NEW n \in Nat, NEW rounds \in SUBSET (1 .. n), NEW i \in rounds, NEW k \in rounds,
         Upto(rounds, i) = Upto(rounds, k)
  PROVE  i = k
<1>1. i \in Int /\ k \in Int
  OBVIOUS
<1>2. Upto(rounds, i) \in Nat /\ Upto(rounds, k) \in Nat
  BY <1>1, UptoType
<1>3. ASSUME NEW a \in rounds, NEW b \in rounds, a < b
      PROVE  Upto(rounds, a) < Upto(rounds, b)
  <2>1. a \in Int /\ b \in Int
    OBVIOUS
  <2> QED
    BY <1>3, <2>1, UptoOrder
<1>4. ~(i < k) /\ ~(k < i)
  BY <1>2, <1>3
<1> QED
  BY <1>1, <1>4

\* A number tells the call and the place in the call.
LEMMA NumberUnique ==
  ASSUME NEW total \in Nat, NEW c \in Nat, NEW e \in Nat,
         NEW i \in 1 .. total, NEW k \in 1 .. total,
         (c - 1) * total + i = (e - 1) * total + k
  PROVE  c = e /\ i = k
<1>1. ASSUME NEW a \in Nat, NEW b \in Nat, NEW p \in 1 .. total, NEW q \in 1 .. total,
             (a - 1) * total + p = (b - 1) * total + q
      PROVE  ~(a < b)
  <2>1. SUFFICES ASSUME a < b PROVE FALSE
    OBVIOUS
  <2>2. PICK m \in Nat : b = a + 1 + m
    <3>1. b - a - 1 \in Nat /\ b = a + 1 + (b - a - 1)
      BY <2>1
    <3> QED
      BY <3>1
  <2>3. (b - 1) * total = (a - 1) * total + total + m * total
    BY <2>2
  <2>4. m * total \in Nat /\ (a - 1) * total \in Int
    OBVIOUS
  <2> QED
    BY <1>1, <2>3, <2>4
<1>2. c = e
  BY <1>1
<1> QED
  BY <1>2

\* The number of a request lies in its call.
LEMMA NumberType ==
  ASSUME NEW n \in Nat, NEW rounds \in SUBSET (1 .. n), NEW c \in Nat, NEW i \in Int
  PROVE  /\ Number(rounds, c, i) \in Int
         /\ Number(rounds, c, i) = (c - 1) * Cardinality(rounds) + Upto(rounds, i)
         /\ Number(rounds, c, i) <= c * Cardinality(rounds)
         /\ Number(rounds, c, i) >= (c - 1) * Cardinality(rounds)
         /\ c * Cardinality(rounds) = (c - 1) * Cardinality(rounds) + Cardinality(rounds)
<1>1. Cardinality(rounds) \in Nat /\ Upto(rounds, i) \in Nat /\ Upto(rounds, i) <= Cardinality(rounds)
  BY UptoType
<1>2. c * Cardinality(rounds) = (c - 1) * Cardinality(rounds) + Cardinality(rounds)
  BY <1>1
<1>3. (c - 1) * Cardinality(rounds) \in Int
  BY <1>1
<1> QED
  BY <1>1, <1>2, <1>3 DEF Number

-----------------------------------------------------------------------------
(* Lists of receives.                                                      *)

\* Of a list of n, the places that are waited for in a round, and where the k-th
\* of those that are kept has been.
Waits(round, n) == round.behind + 1 .. n - round.ahead
Was(round, n, k) == IF round.behind + round.ahead >= n \/ k <= round.behind THEN k
                    ELSE k + n - round.ahead - round.behind

\* The first b and the last a members of a list, without those between.
Ends(list, b, a) == SubSeq(list, 1, b) \o SubSeq(list, Len(list) - a + 1, Len(list))

LEMMA EndsPlaces ==
  ASSUME NEW S, NEW list \in Seq(S), NEW b \in Nat, NEW a \in Nat, b + a < Len(list)
  PROVE  /\ Ends(list, b, a) \in Seq(S)
         /\ Len(Ends(list, b, a)) = b + a
         /\ \A k \in 1 .. b + a :
              Ends(list, b, a)[k] = list[IF k <= b THEN k ELSE k + Len(list) - a - b]
<1>0. PICK n, kept : n = Len(list) /\ kept = Ends(list, b, a)
  OBVIOUS
<1>1. n \in Nat /\ b + a < n /\ \A i \in 1 .. n : list[i] \in S
  BY <1>0, LenProperties, ElementOfSeq
<1>2. PICK first : first = SubSeq(list, 1, b)
  OBVIOUS
<1>3. /\ first \in Seq(S) /\ Len(first) = b
      /\ \A i \in 1 .. b : first[i] = list[i]
  <2>1. \A i \in 1 .. b : list[i] \in S
    BY <1>1
  <2>2. /\ first \in Seq(S)
        /\ Len(first) = IF 1 <= b THEN b - 1 + 1 ELSE 0
        /\ \A i \in 1 .. b - 1 + 1 : first[i] = list[1 + i - 1]
    BY <1>2, <2>1, SubSeqProperties
  <2> QED
    BY <2>2
<1>4. PICK last, m : m = n - a + 1 /\ last = SubSeq(list, m, n)
  OBVIOUS
<1>5. m \in Int /\ n \in Int /\ n - m + 1 = a /\ 1 <= m
  BY <1>1, <1>4
<1>6. /\ last \in Seq(S) /\ Len(last) = a
      /\ \A i \in 1 .. a : last[i] = list[m + i - 1]
  <2>1. \A i \in m .. n : list[i] \in S
    BY <1>1, <1>5
  <2>2. /\ last \in Seq(S)
        /\ Len(last) = IF m <= n THEN n - m + 1 ELSE 0
        /\ \A i \in 1 .. n - m + 1 : last[i] = list[m + i - 1]
    <3>1. m \in Int /\ n \in Int /\ last = SubSeq(list, m, n)
      BY <1>4, <1>5
    <3> QED
      BY <2>1, <3>1, SubSeqProperties
  <2> QED
    BY <1>1, <1>5, <2>2
<1>7. /\ kept \in Seq(S) /\ Len(kept) = b + a
      /\ \A k \in 1 .. b + a : kept[k] = IF k <= b THEN first[k] ELSE last[k - b]
  <2>1. kept = first \o last
    BY <1>0, <1>2, <1>4, Zenon DEF Ends
  <2>2. first \in Seq(S) /\ last \in Seq(S)
    BY <1>3, <1>6
  <2>3. /\ first \o last \in Seq(S) /\ Len(first \o last) = Len(first) + Len(last)
        /\ \A k \in 1 .. Len(first) + Len(last) :
             (first \o last)[k] = IF k <= Len(first) THEN first[k] ELSE last[k - Len(first)]
    BY <2>2, ConcatProperties, Zenon
  <2>4. /\ kept \in Seq(S) /\ Len(kept) = Len(first) + Len(last)
        /\ \A k \in 1 .. Len(first) + Len(last) :
             kept[k] = IF k <= Len(first) THEN first[k] ELSE last[k - Len(first)]
    BY <2>1, <2>3, Zenon
  <2> QED
    BY <1>3, <1>6, <2>4
<1>8. ASSUME NEW k \in 1 .. b + a
      PROVE  kept[k] = list[IF k <= b THEN k ELSE k + n - a - b]
  <2>1. CASE k <= b
    BY <1>3, <1>7, <2>1
  <2>2. CASE k > b
    <3>1. k - b \in 1 .. a /\ m + (k - b) - 1 = k + n - a - b /\ ~(k <= b)
      BY <1>1, <1>4, <2>2
    <3>2. kept[k] = last[k - b]
      BY <1>7, <3>1
    <3>3. last[k - b] = list[m + (k - b) - 1]
      BY <1>6, <3>1, Zenon
    <3> QED
      BY <3>1, <3>2, <3>3, Zenon
  <2> QED
    BY <2>1, <2>2
<1> QED
  BY <1>0, <1>7, <1>8

\* What Kept keeps is what is not waited for, in its order.
LEMMA KeptPlaces ==
  ASSUME NEW S, NEW list \in Seq(S),
         NEW round, round.behind \in Nat, round.ahead \in Nat
  PROVE  /\ Kept(list, round) \in Seq(S)
         /\ Len(Kept(list, round)) =
              IF round.behind + round.ahead >= Len(list) THEN Len(list)
              ELSE round.behind + round.ahead
         /\ \A k \in 1 .. Len(Kept(list, round)) :
              Kept(list, round)[k] = list[Was(round, Len(list), k)]
<1>1. PICK n, b, a, kept : n = Len(list) /\ b = round.behind /\ a = round.ahead
                           /\ kept = Kept(list, round)
  OBVIOUS
<1>2. n \in Nat /\ b \in Nat /\ a \in Nat
  BY <1>1, LenProperties
<1>3. CASE b + a >= n
  <2>1. kept = list
    BY <1>1, <1>3 DEF Kept
  <2>2. \A k : Was(round, n, k) = k
    BY <1>1, <1>3 DEF Was
  <2> QED
    BY <1>1, <1>3, <2>1, <2>2
<1>4. CASE b + a < n
  <2>0. ~(b + a >= n)
    BY <1>2, <1>4
  <2>1. kept = Ends(list, b, a)
    BY <1>1, <2>0, Zenon DEF Kept, Ends
  <2>2. /\ kept \in Seq(S) /\ Len(kept) = b + a
        /\ \A k \in 1 .. b + a : kept[k] = list[IF k <= b THEN k ELSE k + n - a - b]
    <3>1. b + a < Len(list)
      BY <1>1, <1>4, Zenon
    <3>2. /\ Ends(list, b, a) \in Seq(S)
          /\ Len(Ends(list, b, a)) = b + a
          /\ \A k \in 1 .. b + a :
               Ends(list, b, a)[k] = list[IF k <= b THEN k ELSE k + Len(list) - a - b]
      BY <1>2, <3>1, EndsPlaces
    <3> QED
      BY <1>1, <2>1, <3>2
  <2>3. \A k \in 1 .. b + a : Was(round, n, k) = IF k <= b THEN k ELSE k + n - a - b
    BY <1>1, <1>2, <1>4 DEF Was
  <2> QED
    BY <1>1, <1>2, <1>4, <2>2, <2>3
<1> QED
  BY <1>2, <1>3, <1>4

\* The places that are kept are those not waited for, and they stay in order.
LEMMA WasPlaces ==
  ASSUME NEW n \in Nat, NEW round, round.behind \in Nat, round.ahead \in Nat,
         NEW m, m = IF round.behind + round.ahead >= n THEN n ELSE round.behind + round.ahead
  PROVE  /\ m \in Nat
         /\ \A k \in 1 .. m : Was(round, n, k) \in 1 .. n \ Waits(round, n)
         /\ \A k, l \in 1 .. m : k < l => Was(round, n, k) < Was(round, n, l)
         /\ \A i \in 1 .. n \ Waits(round, n) : \E k \in 1 .. m : Was(round, n, k) = i
<1> DEFINE b == round.behind
           a == round.ahead
<1>1. b \in Nat /\ a \in Nat /\ m \in Nat
  OBVIOUS
<1>2. CASE b + a >= n
  <2>1. Waits(round, n) = {}
    BY <1>1, <1>2 DEF Waits
  <2>2. \A k : Was(round, n, k) = k
    BY <1>2 DEF Was
  <2> QED
    BY <1>1, <1>2, <2>1, <2>2
<1>3. CASE b + a < n
  <2>1. m = b + a
    BY <1>1, <1>3
  <2>2. \A k \in 1 .. m : Was(round, n, k) = IF k <= b THEN k ELSE k + n - a - b
    BY <1>1, <1>3 DEF Was
  <2>3. \A i \in 1 .. n : i \in Waits(round, n) <=> b < i /\ i <= n - a
    BY <1>1, <1>3 DEF Waits
  <2>4. \A k \in 1 .. m : Was(round, n, k) \in 1 .. n /\ Was(round, n, k) \notin Waits(round, n)
    BY <1>1, <1>3, <2>1, <2>2, <2>3
  <2>5. \A k, l \in 1 .. m : k < l => Was(round, n, k) < Was(round, n, l)
    BY <1>1, <1>3, <2>1, <2>2
  <2>6. ASSUME NEW i \in 1 .. n, i \notin Waits(round, n)
        PROVE  \E k \in 1 .. m : Was(round, n, k) = i
    <3>1. CASE i <= b
      BY <1>1, <1>3, <2>1, <2>2, <3>1
    <3>2. CASE i > n - a
      <4>1. i - n + a + b \in 1 .. m /\ i - n + a + b > b
        BY <1>1, <1>3, <2>1, <3>2
      <4>2. Was(round, n, i - n + a + b) = i
        BY <1>1, <2>2, <4>1
      <4> QED
        BY <4>1, <4>2
    <3> QED
      BY <1>1, <1>3, <2>3, <2>6, <3>1, <3>2
  <2> QED
    BY <1>1, <2>4, <2>5, <2>6
<1> QED
  BY <1>1, <1>2, <1>3

-----------------------------------------------------------------------------
(* The job, and the types.                                                 *)

JobIsOne == \E j \in DOMAIN Job : job = Job[j]

\* What is assumed of every job.
LEMMA JobFacts ==
  ASSUME JobIsOne
  PROVE  /\ job.size \in Nat \ {0} /\ job.calls \in Nat /\ job.faults \in Nat
         /\ Ranks = All(job) /\ \A r \in Ranks : r \in Nat
         /\ \A r \in Ranks :
              /\ Len(Program(r)) \in Nat \ {0} /\ DOMAIN Program(r) = 1 .. Len(Program(r))
              /\ Program(r) = job.program[r] /\ job.needs[r] \subseteq Ranks
              /\ Program(r)[Len(Program(r))].ahead = 0 /\ Program(r)[Len(Program(r))].behind = 0
<1>1. PICK j \in DOMAIN Job : job = Job[j]
  BY DEF JobIsOne
<1>2. job.size \in Nat \ {0} /\ job.calls \in Nat /\ job.faults \in Nat
  BY <1>1, JobAssumption
<1>3. Ranks = All(job) /\ \A r \in Ranks : r \in Nat
  BY <1>2 DEF Ranks, All
<1>4. ASSUME NEW r \in Ranks
      PROVE  /\ Len(Program(r)) \in Nat \ {0} /\ DOMAIN Program(r) = 1 .. Len(Program(r))
             /\ Program(r) = job.program[r] /\ job.needs[r] \subseteq Ranks
             /\ Program(r)[Len(Program(r))].ahead = 0 /\ Program(r)[Len(Program(r))].behind = 0
  BY <1>1, JobAssumption, Zenon DEF Ranks, Program
<1> QED
  BY <1>2, <1>3, <1>4

\* What is assumed of a round.
LEMMA RoundFacts ==
  ASSUME JobIsOne, NEW r \in Ranks, NEW i \in DOMAIN Program(r)
  PROVE  LET round == Program(r)[i] IN
         /\ round.recv \in Seq(Receive) /\ round.send \in Seq(Sending)
         /\ DifferentPeers(round.recv) /\ DifferentPeers(round.send)
         /\ round.ahead \in Nat /\ round.behind \in Nat
<1>1. PICK j \in DOMAIN Job : job = Job[j]
  BY DEF JobIsOne
<1> QED
  BY <1>1, JobAssumption, Zenon DEF Ranks, Program

\* A list of anything is a list of its own members.
LEMMA OwnMembers ==
  ASSUME NEW S, NEW list \in Seq(S)
  PROVE  list \in Seq(Range(list))
<1>1. \A k \in 1 .. Len(list) : list[k] \in Range(list)
  BY LenProperties DEF Range
<1>2. DOMAIN list = 1 .. Len(list) /\ Len(list) \in Nat
  BY LenProperties
<1>3. list = [k \in 1 .. Len(list) |-> list[k]]
  BY <1>2
<1> QED
  BY <1>1, <1>2, <1>3, IsASeq

-----------------------------------------------------------------------------
(* What the steps do, in terms of the ranks.                               *)

LEMMA TypeFacts ==
  ASSUME JobIsOne, TypeOK, NEW r \in Ranks
  PROVE  /\ pc[r] \in Int /\ pc[r] <= Len(Program(r)) /\ pc[r] >= -Len(Program(r))
         /\ call[r] \in 0 .. job.calls /\ call[r] \in Nat
         /\ recvs[r] \in Seq(PostedReceive) /\ DOMAIN recvs[r] = 1 .. Len(recvs[r])
         /\ \A d \in Ranks : /\ wire[r][d] \in Seq(Range(wire[r][d]))
                             /\ Len(wire[r][d]) \in Nat
                             /\ DOMAIN wire[r][d] = 1 .. Len(wire[r][d])
<1>1. Len(Program(r)) \in Nat
  BY JobFacts
<1>2. /\ pc[r] \in Int /\ pc[r] <= Len(Program(r)) /\ pc[r] >= -Len(Program(r))
      /\ call[r] \in 0 .. job.calls
      /\ recvs[r] \in Seq(PostedReceive)
      /\ \A d \in Ranks : wire[r][d] \in Seq(Range(wire[r][d]))
  BY <1>1 DEF TypeOK
<1>3. call[r] \in Nat
  BY <1>2
<1> QED
  BY <1>2, <1>3, LenProperties

\* No other rank than r does anything.
Alone(r) == \A s \in Ranks \ {r} :
  pc'[s] = pc[s] /\ call'[s] = call[s] /\ recvs'[s] = recvs[s] /\ wire'[s] = wire[s] /\ mem'[s] = mem[s]

\* Rank r posts n receives and m sends of round i.
Posting(r, i, c, open, buffers, n, m) ==
  LET round == Program(r)[i] IN
  /\ pc'[r] \in {i, -i}
  /\ pc'[r] = i => n = Len(round.recv) /\ m = Len(round.send)
  /\ Len(recvs'[r]) = Len(open) + n
  /\ \A k \in 1 .. Len(open) : recvs'[r][k] = open[k]
  /\ \A k \in 1 .. n : recvs'[r][Len(open) + k] = Posted(i, k, round.recv[k])
  /\ \A d \in Ranks :
       \/ wire'[r][d] = wire[r][d] /\ \A k \in 1 .. m : round.send[k].peer # d
       \/ \E k \in 1 .. m : /\ round.send[k].peer = d
                            /\ wire'[r][d] = Append(wire[r][d], Message(round.send[k], i, c, buffers))
  /\ mem'[r] = buffers

LEMMA PostEffect ==
  ASSUME JobIsOne, TypeOK, NEW r \in Ranks, NEW i \in DOMAIN Program(r), NEW c,
         NEW open \in Seq(PostedReceive), NEW buffers,
         Post(r, i, c, open, buffers)
  PROVE  /\ \E n \in 0 .. Len(Program(r)[i].recv), m \in 0 .. Len(Program(r)[i].send) :
              Posting(r, i, c, open, buffers, n, m)
         /\ faults' \in 0 .. job.faults
         /\ pc' \in [Ranks -> Int] /\ recvs' \in [Ranks -> Seq(PostedReceive)]
         /\ DOMAIN wire' = Ranks /\ DOMAIN mem' = Ranks /\ DOMAIN wire'[r] = Ranks
         /\ \A s \in Ranks \ {r} :
              pc'[s] = pc[s] /\ recvs'[s] = recvs[s] /\ wire'[s] = wire[s] /\ mem'[s] = mem[s]
<1> DEFINE round == Program(r)[i]
<1>1. PICK n \in 0 .. Len(round.recv), m \in 0 .. Len(round.send) :
        LET To(d) == {k \in 1 .. m : round.send[k].peer = d}
            all == n = Len(round.recv) /\ m = Len(round.send)
        IN /\ \/ all /\ pc' = [pc EXCEPT ![r] = i] /\ faults' = faults
              \/ /\ ~all /\ faults < job.faults
                 /\ pc' = [pc EXCEPT ![r] = -i]
                 /\ faults' = faults + 1
           /\ recvs' = [recvs EXCEPT ![r] = open \o [k \in 1 .. n |-> Posted(i, k, round.recv[k])]]
           /\ wire' = [wire EXCEPT ![r] = [d \in Ranks |->
                         IF To(d) = {} THEN @[d]
                         ELSE Append(@[d], Message(round.send[CHOOSE k \in To(d) : TRUE], i, c, buffers))]]
           /\ mem' = [mem EXCEPT ![r] = buffers]
  BY Zenon DEF Post
<1>2. /\ round.recv \in Seq(Receive) /\ round.send \in Seq(Sending)
      /\ i \in Nat \ {0} /\ r \in Nat /\ job.faults \in Nat
  BY RoundFacts, JobFacts
<1>3. n \in Nat /\ m \in Nat /\ n <= Len(round.recv) /\ m <= Len(round.send)
  <2>1. Len(round.recv) \in Nat /\ Len(round.send) \in Nat
    BY <1>2, LenProperties
  <2> QED
    BY <2>1
<1>4. pc \in [Ranks -> Int] /\ recvs \in [Ranks -> Seq(PostedReceive)]
      /\ DOMAIN wire = Ranks /\ DOMAIN mem = Ranks /\ faults \in 0 .. job.faults
  BY DEF TypeOK
<1> DEFINE new == [k \in 1 .. n |-> Posted(i, k, round.recv[k])]
<1>5. new \in Seq(PostedReceive) /\ Len(new) = n /\ \A k \in 1 .. n : new[k] = Posted(i, k, round.recv[k])
  <2>1. ASSUME NEW k \in 1 .. n
        PROVE  Posted(i, k, round.recv[k]) \in PostedReceive
    <3>1. round.recv[k] \in Receive
      BY <1>2, <1>3, ElementOfSeq
    <3>2. k \in Nat /\ i \in Nat
      BY <1>2, <1>3
    <3> QED
      BY <3>1, <3>2 DEF Receive, PostedReceive, Posted
  <2>2. new \in Seq(PostedReceive)
    BY <1>3, <2>1, IsASeq
  <2>3. DOMAIN new = 1 .. n
    OBVIOUS
  <2>4. Len(new) = n
    BY <1>3, <2>2, <2>3, LenProperties
  <2> QED
    BY <2>2, <2>4
<1> HIDE DEF new
<1>6. /\ open \o new \in Seq(PostedReceive) /\ Len(open \o new) = Len(open) + n
      /\ \A k \in 1 .. Len(open) : (open \o new)[k] = open[k]
      /\ \A k \in 1 .. n : (open \o new)[Len(open) + k] = Posted(i, k, round.recv[k])
  <2>1. /\ open \o new \in Seq(PostedReceive) /\ Len(open \o new) = Len(open) + Len(new)
        /\ \A k \in 1 .. Len(open) + Len(new) :
             (open \o new)[k] = IF k <= Len(open) THEN open[k] ELSE new[k - Len(open)]
    BY <1>5, ConcatProperties, Zenon
  <2>2. Len(open) \in Nat
    BY LenProperties
  <2>3. PICK l, both : l = Len(open) /\ both = open \o new
    OBVIOUS
  <2>4. \A k \in 1 .. n : l + k \in 1 .. l + n /\ ~(l + k <= l) /\ l + k - l = k
    BY <1>3, <2>2, <2>3
  <2>5. \A k \in 1 .. l : k \in 1 .. l + n /\ k <= l
    BY <1>3, <2>2, <2>3
  <2>6. /\ both \in Seq(PostedReceive) /\ Len(both) = l + n
        /\ \A k \in 1 .. l + n : both[k] = IF k <= l THEN open[k] ELSE new[k - l]
    BY <1>5, <2>1, <2>3, Zenon
  <2>7. \A k \in 1 .. l : both[k] = open[k]
    BY <2>5, <2>6
  <2>8. ASSUME NEW k \in 1 .. n
        PROVE  both[l + k] = Posted(i, k, round.recv[k])
    <3>0. l + k \in 1 .. l + n /\ ~(l + k <= l)
      BY <2>4
    <3>1. PICK p : p = l + k
      OBVIOUS
    <3>2. p \in 1 .. l + n /\ ~(p <= l) /\ p - l = k
      BY <2>2, <2>3, <3>0, <3>1
    <3>3. both[p] = new[p - l]
      BY <2>6, <3>2
    <3> QED
      BY <1>5, <3>1, <3>2, <3>3, Zenon
  <2> QED
    BY <2>3, <2>6, <2>7, <2>8, Zenon
<1>7. recvs' = [recvs EXCEPT ![r] = open \o new]
  BY <1>1, Zenon DEF new
<1>8. /\ recvs' \in [Ranks -> Seq(PostedReceive)] /\ recvs'[r] = open \o new
      /\ \A s \in Ranks \ {r} : recvs'[s] = recvs[s]
  BY <1>4, <1>6, <1>7
<1>9. ASSUME NEW d \in Ranks
      PROVE  \/ wire'[r][d] = wire[r][d] /\ \A k \in 1 .. m : round.send[k].peer # d
             \/ \E k \in 1 .. m : /\ round.send[k].peer = d
                                  /\ wire'[r][d] = Append(wire[r][d], Message(round.send[k], i, c, buffers))
  <2> DEFINE To == {k \in 1 .. m : round.send[k].peer = d}
  <2>1. wire'[r][d] = IF To = {} THEN wire[r][d]
                      ELSE Append(wire[r][d], Message(round.send[CHOOSE k \in To : TRUE], i, c, buffers))
    BY <1>1, <1>4
  <2>2. CASE To = {}
    BY <2>1, <2>2
  <2>3. CASE To # {}
    <3>1. (CHOOSE k \in To : TRUE) \in To
      BY <2>3
    <3>2. PICK k : k \in To /\ k = (CHOOSE l \in To : TRUE)
      BY <3>1
    <3> QED
      BY <2>1, <2>3, <3>2
  <2> QED
    BY <2>2, <2>3
<1>10. /\ DOMAIN wire' = Ranks /\ DOMAIN wire'[r] = Ranks
       /\ \A s \in Ranks \ {r} : wire'[s] = wire[s]
  BY <1>1, <1>4
<1>11. DOMAIN mem' = Ranks /\ mem'[r] = buffers /\ \A s \in Ranks \ {r} : mem'[s] = mem[s]
  BY <1>1, <1>4
<1>12. /\ pc' \in [Ranks -> Int] /\ pc'[r] \in {i, -i}
       /\ pc'[r] = i => n = Len(round.recv) /\ m = Len(round.send)
       /\ \A s \in Ranks \ {r} : pc'[s] = pc[s]
       /\ faults' \in 0 .. job.faults
  <2>1. i # -i /\ -i \in Int
    BY <1>2
  <2>2. CASE n = Len(round.recv) /\ m = Len(round.send) /\ pc' = [pc EXCEPT ![r] = i] /\ faults' = faults
    BY <1>2, <1>4, <2>2
  <2>3. CASE faults < job.faults /\ pc' = [pc EXCEPT ![r] = -i] /\ faults' = faults + 1
    BY <1>2, <1>4, <2>1, <2>3
  <2> QED
    BY <1>1, <2>2, <2>3
<1>13. Posting(r, i, c, open, buffers, n, m)
  BY <1>6, <1>8, <1>9, <1>11, <1>12, Zenon DEF Posting
<1> QED
  BY <1>8, <1>10, <1>11, <1>12, <1>13

\* Receive k of d meets the first message of s.
Meeting(s, d, k) ==
  LET message == Head(wire[s][d])
      data == IF message.rndv THEN Values(mem[s], message.slots) ELSE message.values
  IN /\ Meets(s, d, k)
     /\ Len(recvs'[d]) = Len(recvs[d])
     /\ \A l \in DOMAIN recvs[d] :
          /\ recvs'[d][l].at = recvs[d][l].at /\ recvs'[d][l].peer = recvs[d][l].peer
          /\ recvs'[d][l].slots = recvs[d][l].slots
          /\ recvs'[d][l].done = (l = k \/ recvs[d][l].done)
     /\ mem'[d] = Write(mem[d], recvs[d][k].slots, data)
     /\ Len(wire'[s][d]) = Len(wire[s][d]) - 1
     /\ \A n \in 1 .. Len(wire[s][d]) - 1 : wire'[s][d][n] = wire[s][d][n + 1]

LEMMA MatchEffect ==
  ASSUME JobIsOne, TypeOK, NEW s \in Ranks, NEW d \in Ranks, Match(s, d)
  PROVE  /\ \E k \in 1 .. Len(recvs[d]) : Meeting(s, d, k)
         /\ recvs' \in [Ranks -> Seq(PostedReceive)]
         /\ DOMAIN wire' = Ranks /\ DOMAIN mem' = Ranks
         /\ \A q \in Ranks : DOMAIN wire'[q] = Ranks
         /\ wire[s][d] # <<>> /\ wire'[s][d] = Tail(wire[s][d])
         /\ \A q, t \in Ranks : <<q, t>> # <<s, d>> => wire'[q][t] = wire[q][t]
         /\ \A q \in Ranks \ {d} : recvs'[q] = recvs[q] /\ mem'[q] = mem[q]
<1> DEFINE message == Head(wire[s][d])
           data == IF message.rndv THEN Values(mem[s], message.slots) ELSE message.values
<1>1. PICK k \in DOMAIN recvs[d] :
           /\ Meets(s, d, k)
           /\ recvs' = [recvs EXCEPT ![d][k].done = TRUE]
           /\ mem' = [mem EXCEPT ![d] = Write(@, recvs[d][k].slots, data)]
  BY Zenon DEF Match
<1>2. wire' = [wire EXCEPT ![s][d] = Tail(@)]
  BY DEF Match
<1>3. recvs[d] \in Seq(PostedReceive) /\ DOMAIN recvs[d] = 1 .. Len(recvs[d]) /\ Len(recvs[d]) \in Nat
  BY TypeFacts, LenProperties
<1>4. recvs \in [Ranks -> Seq(PostedReceive)]
      /\ DOMAIN wire = Ranks /\ DOMAIN mem = Ranks /\ \A q \in Ranks : DOMAIN wire[q] = Ranks
  BY DEF TypeOK
<1>5. recvs[d][k] \in PostedReceive
  BY <1>3, ElementOfSeq
<1> DEFINE now == [recvs[d] EXCEPT ![k].done = TRUE]
           item == [recvs[d][k] EXCEPT !.done = TRUE]
<1>6. /\ item \in PostedReceive /\ item.at = recvs[d][k].at /\ item.peer = recvs[d][k].peer
      /\ item.slots = recvs[d][k].slots /\ item.done = TRUE
  BY <1>5 DEF PostedReceive
<1>7. now = [recvs[d] EXCEPT ![k] = item]
  BY <1>1, <1>3
<1> HIDE DEF item
<1>8. /\ now \in Seq(PostedReceive) /\ Len(now) = Len(recvs[d])
      /\ \A l \in DOMAIN recvs[d] : now[l] = IF l = k THEN item ELSE recvs[d][l]
  <2>1. k \in 1 .. Len(recvs[d])
    BY <1>1, <1>3
  <2>2. /\ [recvs[d] EXCEPT ![k] = item] \in Seq(PostedReceive)
        /\ Len([recvs[d] EXCEPT ![k] = item]) = Len(recvs[d])
        /\ \A l \in 1 .. Len(recvs[d]) :
             [recvs[d] EXCEPT ![k] = item][l] = IF l = k THEN item ELSE recvs[d][l]
    BY <1>3, <1>6, <2>1, ExceptSeq
  <2> QED
    BY <1>3, <1>7, <2>2, Zenon
<1> HIDE DEF now
<1>9. recvs'[d] = now /\ \A q \in Ranks \ {d} : recvs'[q] = recvs[q]
  BY <1>1, <1>4 DEF now
<1>10. recvs' \in [Ranks -> Seq(PostedReceive)]
  <2>1. DOMAIN recvs' = Ranks /\ recvs' = [q \in Ranks |-> recvs'[q]]
    BY <1>1, <1>4
  <2>2. \A q \in Ranks : recvs'[q] \in Seq(PostedReceive)
    BY <1>4, <1>8, <1>9
  <2> QED
    BY <2>1, <2>2
<1>11. \A l \in DOMAIN recvs[d] :
          /\ recvs'[d][l].at = recvs[d][l].at /\ recvs'[d][l].peer = recvs[d][l].peer
          /\ recvs'[d][l].slots = recvs[d][l].slots
          /\ recvs'[d][l].done = (l = k \/ recvs[d][l].done)
  <2>1. TAKE l \in DOMAIN recvs[d]
  <2>2. recvs[d][l].done \in BOOLEAN
    <3>1. recvs[d][l] \in PostedReceive
      BY <1>3, ElementOfSeq
    <3> QED
      BY <3>1 DEF PostedReceive
  <2>3. CASE l = k
    BY <1>6, <1>8, <1>9, <2>3
  <2>4. CASE l # k
    <3>1. recvs'[d][l] = recvs[d][l]
      BY <1>8, <1>9, <2>4
    <3>2. recvs[d][l].done = (l = k \/ recvs[d][l].done)
      BY <2>2, <2>4, Zenon
    <3> QED
      BY <3>1, <3>2, Zenon
  <2> QED
    BY <2>3, <2>4
<1>12. /\ DOMAIN wire' = Ranks /\ wire'[s][d] = Tail(wire[s][d])
       /\ \A q \in Ranks : DOMAIN wire'[q] = Ranks
       /\ \A q, t \in Ranks : <<q, t>> # <<s, d>> => wire'[q][t] = wire[q][t]
  BY <1>2, <1>4
<1>13. DOMAIN mem' = Ranks /\ mem'[d] = Write(mem[d], recvs[d][k].slots, data)
       /\ \A q \in Ranks \ {d} : mem'[q] = mem[q]
  BY <1>1, <1>4
<1>14. wire[s][d] # <<>> /\ wire[s][d] \in Seq(Range(wire[s][d]))
  BY <1>1, TypeFacts DEF Meets
<1>15. /\ Len(wire'[s][d]) = Len(wire[s][d]) - 1
       /\ \A n \in 1 .. Len(wire[s][d]) - 1 : wire'[s][d][n] = wire[s][d][n + 1]
  BY <1>12, <1>14, HeadTailProperties
<1>16. Meeting(s, d, k)
  BY <1>1, <1>8, <1>9, <1>11, <1>13, <1>15, Zenon DEF Meeting
<1> QED
  BY <1>1, <1>3, <1>9, <1>10, <1>12, <1>13, <1>14, <1>16, Zenon

-----------------------------------------------------------------------------
(* The job never changes, and the types are right.                         *)

\* The ranks run one and the same collective, one of Job, in all their calls.
THEOREM JobStays == Spec => []JobIsOne
<1>1. Init => JobIsOne
  BY DEF Init, JobIsOne
<1>2. JobIsOne /\ [Next]_vars => JobIsOne'
  <2>1. SUFFICES ASSUME JobIsOne, [Next]_vars PROVE job' = job
    BY DEF JobIsOne
  <2> QED
    BY <2>1 DEF Next, RankStep, Enter, Advance, Return, Match, Finished, vars
<1> QED
  BY <1>1, <1>2, PTL DEF Spec

\* What the wait leaves of the receives is a list of receives.
LEMMA OpenType ==
  ASSUME JobIsOne, TypeOK, NEW r \in Ranks, Waited(r)
  PROVE  Open(r) \in Seq(PostedReceive) /\ pc[r] \in DOMAIN Program(r) /\ pc[r] \in Nat
<1>1. pc[r] \in Int /\ pc[r] > 0 /\ pc[r] <= Len(Program(r)) /\ recvs[r] \in Seq(PostedReceive)
  BY TypeFacts DEF Waited
<1>2. pc[r] \in DOMAIN Program(r)
  BY <1>1, JobFacts
<1>3. Program(r)[pc[r]].ahead \in Nat /\ Program(r)[pc[r]].behind \in Nat
  BY <1>2, RoundFacts
<1> QED
  BY <1>1, <1>2, <1>3, KeptPlaces DEF Open

\* A post leaves the types right.
LEMMA PostType ==
  ASSUME JobIsOne, TypeOK, NEW r \in Ranks, NEW i \in DOMAIN Program(r), NEW c \in Nat \ {0},
         NEW open \in Seq(PostedReceive), NEW buffers,
         Post(r, i, c, open, buffers), job' = job,
         call' \in [Ranks -> 0 .. job.calls], \A s \in Ranks : call'[s] >= call[s], call'[r] = c
  PROVE  TypeOK'
<1>0. Ranks' = Ranks /\ \A s : Program(s)' = Program(s)
  BY DEF Ranks, Program
<1>1. PICK n \in 0 .. Len(Program(r)[i].recv), m \in 0 .. Len(Program(r)[i].send) :
        Posting(r, i, c, open, buffers, n, m)
  BY PostEffect
<1>2. /\ faults' \in 0 .. job.faults
      /\ pc' \in [Ranks -> Int] /\ recvs' \in [Ranks -> Seq(PostedReceive)]
      /\ DOMAIN wire' = Ranks /\ DOMAIN mem' = Ranks /\ DOMAIN wire'[r] = Ranks
      /\ \A s \in Ranks \ {r} : pc'[s] = pc[s] /\ wire'[s] = wire[s]
  BY PostEffect, Zenon
<1>3. ASSUME NEW s \in Ranks
      PROVE  pc'[s] \in -Len(Program(s)) .. Len(Program(s))
  <2>1. CASE s = r
    <3>1. i \in 1 .. Len(Program(r)) /\ Len(Program(r)) \in Nat /\ pc'[r] \in {i, -i}
      BY <1>1, JobFacts DEF Posting
    <3> QED
      BY <2>1, <3>1
  <2>2. CASE s # r
    BY <1>2, <2>2 DEF TypeOK
  <2> QED
    BY <2>1, <2>2
<1>4. ASSUME NEW s \in Ranks
      PROVE  /\ DOMAIN wire'[s] = Ranks
             /\ \A d \in Ranks : /\ wire'[s][d] \in Seq(Range(wire'[s][d]))
                                 /\ \A k \in DOMAIN wire'[s][d] : wire'[s][d][k].call \in 1 .. call'[s]
  <2>0. call'[s] \in Int /\ call[s] \in Int /\ call'[s] >= call[s]
    BY TypeFacts
  <2>1. CASE s # r
    <3>1. wire'[s] = wire[s]
      BY <1>2, <2>1
    <3>2. /\ DOMAIN wire[s] = Ranks
          /\ \A d \in Ranks : /\ wire[s][d] \in Seq(Range(wire[s][d]))
                              /\ \A k \in DOMAIN wire[s][d] : wire[s][d][k].call \in 1 .. call[s]
      BY DEF TypeOK
    <3>3. \A k : k \in 1 .. call[s] => k \in 1 .. call'[s]
      BY <2>0
    <3> QED
      BY <3>1, <3>2, <3>3
  <2>2. CASE s = r
    <3> SUFFICES ASSUME NEW d \in Ranks
                 PROVE  /\ wire'[s][d] \in Seq(Range(wire'[s][d]))
                        /\ \A k \in DOMAIN wire'[s][d] : wire'[s][d][k].call \in 1 .. call'[s]
      BY <1>2, <2>2
    <3>1. /\ wire[r][d] \in Seq(Range(wire[r][d])) /\ DOMAIN wire[r][d] = 1 .. Len(wire[r][d])
          /\ Len(wire[r][d]) \in Nat
          /\ \A k \in DOMAIN wire[r][d] : wire[r][d][k].call \in 1 .. call'[s]
      <4>1. \A k \in DOMAIN wire[r][d] : wire[r][d][k].call \in 1 .. call[r]
        BY DEF TypeOK
      <4> QED
        <5>1. \A k : k \in 1 .. call[r] => k \in 1 .. call'[s]
          BY <2>0, <2>2
        <5> QED
          BY <4>1, <5>1, TypeFacts
    <3>2. CASE wire'[r][d] = wire[r][d]
      BY <2>2, <3>1, <3>2
    <3>3. CASE \E k \in 1 .. m : wire'[r][d] = Append(wire[r][d], Message(Program(r)[i].send[k], i, c, buffers))
      <4>1. PICK e : wire'[r][d] = Append(wire[r][d], e) /\ e.call = c
        <5>1. PICK k \in 1 .. m :
                wire'[r][d] = Append(wire[r][d], Message(Program(r)[i].send[k], i, c, buffers))
          BY <3>3
        <5>2. Message(Program(r)[i].send[k], i, c, buffers).call = c
          BY DEF Message
        <5> QED
          BY <5>1, <5>2
      <4> DEFINE S == Range(wire[r][d]) \union {e}
      <4>2. wire[r][d] \in Seq(S) /\ e \in S
        BY <3>1, SeqMonotonic
      <4> HIDE DEF S
      <4>3. /\ wire'[r][d] \in Seq(S) /\ Len(wire'[r][d]) = Len(wire[r][d]) + 1
            /\ \A k \in 1 .. Len(wire[r][d]) : wire'[r][d][k] = wire[r][d][k]
            /\ wire'[r][d][Len(wire[r][d]) + 1] = e
        BY <4>1, <4>2, AppendProperties
      <4>4. wire'[r][d] \in Seq(Range(wire'[r][d])) /\ DOMAIN wire'[r][d] = 1 .. Len(wire[r][d]) + 1
        BY <4>3, OwnMembers, LenProperties
      <4>5. c \in 1 .. call'[s]
        BY <2>2
      <4>6. ASSUME NEW k \in 1 .. Len(wire[r][d]) + 1
            PROVE  wire'[r][d][k].call \in 1 .. call'[s]
        <5>0. Len(wire[r][d]) \in Nat
          BY <3>1
        <5>1. CASE k = Len(wire[r][d]) + 1
          BY <4>1, <4>3, <4>5, <5>1
        <5>2. CASE k # Len(wire[r][d]) + 1
          <6>1. k \in 1 .. Len(wire[r][d])
            <7>1. PICK l : l = Len(wire[r][d])
              OBVIOUS
            <7>2. l \in Nat /\ k \in 1 .. l + 1 /\ k # l + 1
              BY <5>0, <5>2, <7>1, Zenon
            <7>3. k \in 1 .. l
              BY <7>2
            <7> QED
              BY <7>1, <7>3, Zenon
          <6> QED
            BY <3>1, <4>3, <6>1
        <5> QED
          BY <5>1, <5>2
      <4> QED
        BY <2>2, <4>4, <4>6
    <3> QED
      BY <1>1, <3>2, <3>3 DEF Posting
  <2> QED
    BY <2>1, <2>2
<1>5. ASSUME NEW s \in Ranks, pc'[s] # 0
      PROVE  call'[s] # 0
  <2>1. CASE s = r
    BY <2>1
  <2>2. CASE s # r
    <3>1. pc[s] # 0
      BY <1>2, <1>5, <2>2
    <3>2. call[s] # 0 /\ call[s] \in Nat /\ call'[s] >= call[s] /\ call'[s] \in Int
      BY <3>1, TypeFacts DEF TypeOK
    <3> QED
      BY <3>2
  <2> QED
    BY <2>1, <2>2
<1> QED
  BY <1>0, <1>2, <1>3, <1>4, <1>5, Zenon DEF TypeOK

\* A match leaves the types right.
LEMMA MatchType ==
  ASSUME JobIsOne, TypeOK, NEW s \in Ranks, NEW d \in Ranks, Match(s, d)
  PROVE  TypeOK'
<1>0. /\ job' = job /\ pc' = pc /\ call' = call /\ faults' = faults
      /\ Ranks' = Ranks /\ \A r : Program(r)' = Program(r)
  BY DEF Match, Ranks, Program
<1>1. /\ recvs' \in [Ranks -> Seq(PostedReceive)]
      /\ DOMAIN wire' = Ranks /\ DOMAIN mem' = Ranks /\ \A q \in Ranks : DOMAIN wire'[q] = Ranks
      /\ wire[s][d] # <<>> /\ wire'[s][d] = Tail(wire[s][d])
      /\ \A q, t \in Ranks : <<q, t>> # <<s, d>> => wire'[q][t] = wire[q][t]
  BY MatchEffect, Zenon
<1>2. ASSUME NEW q \in Ranks, NEW t \in Ranks
      PROVE  /\ wire'[q][t] \in Seq(Range(wire'[q][t]))
             /\ \A k \in DOMAIN wire'[q][t] : wire'[q][t][k].call \in 1 .. call'[q]
  <2>1. /\ wire[q][t] \in Seq(Range(wire[q][t])) /\ DOMAIN wire[q][t] = 1 .. Len(wire[q][t])
        /\ Len(wire[q][t]) \in Nat
        /\ \A k \in DOMAIN wire[q][t] : wire[q][t][k].call \in 1 .. call[q]
    BY TypeFacts DEF TypeOK
  <2>2. CASE <<q, t>> # <<s, d>>
    BY <1>0, <1>1, <2>1, <2>2
  <2>3. CASE q = s /\ t = d
    <3>1. /\ Tail(wire[q][t]) \in Seq(Range(wire[q][t]))
          /\ Len(Tail(wire[q][t])) = Len(wire[q][t]) - 1
          /\ \A n \in 1 .. Len(Tail(wire[q][t])) : Tail(wire[q][t])[n] = wire[q][t][n + 1]
      BY <1>1, <2>1, <2>3, HeadTailProperties
    <3>2. wire'[q][t] = Tail(wire[q][t])
      BY <1>1, <2>3
    <3>3. wire'[q][t] \in Seq(Range(wire'[q][t])) /\ DOMAIN wire'[q][t] = 1 .. Len(wire'[q][t])
      BY <3>1, <3>2, OwnMembers, LenProperties
    <3>4. ASSUME NEW k \in 1 .. Len(wire'[q][t])
          PROVE  wire'[q][t][k].call \in 1 .. call'[q]
      <4>1. k + 1 \in DOMAIN wire[q][t]
        BY <2>1, <3>1, <3>2
      <4> QED
        BY <1>0, <2>1, <3>1, <3>2, <4>1
    <3> QED
      BY <3>3, <3>4
  <2> QED
    BY <2>2, <2>3
<1>3. /\ pc \in [Ranks -> Int] /\ \A r \in Ranks : pc[r] \in -Len(Program(r)) .. Len(Program(r))
      /\ call \in [Ranks -> 0 .. job.calls] /\ faults \in 0 .. job.faults
      /\ \A r \in Ranks : pc[r] # 0 => call[r] # 0
  BY DEF TypeOK
<1> QED
  BY <1>0, <1>1, <1>2, <1>3, Zenon DEF TypeOK

\* The operands of every step have their types, in every state and whatever the
\* programs are: a rank is in a round of its program, or has failed in one; what it
\* has posted are receives, and no message is of a call its sender has not entered.
THEOREM TypeCorrect == Spec => []TypeOK
<1>1. Init => TypeOK
  <2>1. SUFFICES ASSUME Init PROVE TypeOK
    OBVIOUS
  <2>2. JobIsOne
    BY <2>1 DEF Init, JobIsOne
  <2>3. \A r \in Ranks : Len(Program(r)) \in Nat
    BY <2>2, JobFacts
  <2>4. job.calls \in Nat /\ job.faults \in Nat
    BY <2>2, JobFacts
  <2>5. \A r \in Ranks : 0 \in -Len(Program(r)) .. Len(Program(r))
    BY <2>3
  <2>6. <<>> \in Seq(PostedReceive) /\ <<>> \in Seq(Range(<<>>))
    BY EmptySeq
  <2>7. \A k \in DOMAIN <<>> : FALSE
    BY EmptySeq
  <2> QED
    BY <2>1, <2>4, <2>5, <2>6, <2>7 DEF Init, TypeOK
<1>2. JobIsOne /\ TypeOK /\ [Next]_vars => TypeOK'
  <2> SUFFICES ASSUME JobIsOne, TypeOK, [Next]_vars PROVE TypeOK'
    OBVIOUS
  <2>0. call \in [Ranks -> 0 .. job.calls] /\ job.calls \in Nat
    BY JobFacts DEF TypeOK
  <2>1. ASSUME NEW r \in Ranks, Enter(r)
        PROVE  TypeOK'
    <3>1. /\ Post(r, 1, call[r] + 1, <<>>, Buffers(r, call[r] + 1))
          /\ job' = job /\ call' = [call EXCEPT ![r] = @ + 1] /\ call[r] < job.calls
      BY <2>1 DEF Enter
    <3>2. 1 \in DOMAIN Program(r) /\ call[r] + 1 \in Nat \ {0} /\ <<>> \in Seq(PostedReceive)
      BY JobFacts, TypeFacts, EmptySeq
    <3>3. /\ call' \in [Ranks -> 0 .. job.calls] /\ call'[r] = call[r] + 1
          /\ \A s \in Ranks : call'[s] >= call[s]
      BY <2>0, <3>1
    <3> QED
      BY <3>1, <3>2, <3>3, PostType
  <2>2. ASSUME NEW r \in Ranks, Advance(r)
        PROVE  TypeOK'
    <3>1. /\ Post(r, pc[r] + 1, call[r], Open(r), Worked(r))
          /\ job' = job /\ call' = call /\ Waited(r) /\ pc[r] < Len(Program(r))
      BY <2>2 DEF Advance
    <3>2. Open(r) \in Seq(PostedReceive) /\ pc[r] \in Nat
      BY <3>1, OpenType
    <3>3. pc[r] + 1 \in DOMAIN Program(r)
      BY <3>1, <3>2, JobFacts
    <3>4. call[r] \in Nat
      BY TypeFacts
    <3>5. call[r] # 0
      <4>1. pc[r] # 0
        BY <3>1 DEF Waited
      <4> QED
        BY <4>1 DEF TypeOK
    <3> QED
      BY <2>0, <3>1, <3>2, <3>3, <3>4, <3>5, PostType
  <2>3. ASSUME NEW r \in Ranks, Return(r)
        PROVE  TypeOK'
    <3>1. /\ Waited(r) /\ pc' = [pc EXCEPT ![r] = 0] /\ recvs' = [recvs EXCEPT ![r] = Open(r)]
          /\ mem' = [mem EXCEPT ![r] = Worked(r)]
          /\ job' = job /\ call' = call /\ wire' = wire /\ faults' = faults
      BY <2>3 DEF Return
    <3>2. Ranks' = Ranks /\ (\A s : Program(s)' = Program(s)) /\ Open(r) \in Seq(PostedReceive)
      BY <3>1, OpenType DEF Ranks, Program
    <3>3. \A s \in Ranks : Len(Program(s)) \in Nat
      BY JobFacts
    <3> QED
      BY <3>1, <3>2, <3>3 DEF TypeOK
  <2>4. ASSUME NEW s \in Ranks, NEW d \in Ranks, Match(s, d)
        PROVE  TypeOK'
    BY <2>4, MatchType
  <2>5. CASE UNCHANGED vars
    <3>1. Ranks' = Ranks /\ \A s : Program(s)' = Program(s)
      BY <2>5 DEF Ranks, Program, vars
    <3> QED
      BY <2>5, <3>1 DEF TypeOK, vars
  <2> QED
    BY <2>1, <2>2, <2>3, <2>4, <2>5 DEF Next, RankStep, Finished
<1> QED
  BY <1>1, <1>2, JobStays, PTL DEF Spec

-----------------------------------------------------------------------------
(* Nothing is left behind.                                                 *)

\* A call that returned left no request behind on the application's buffers: what
\* an MPI program may rely on, also where rounds leave receives open for the next,
\* and after a call of another rank has failed.
THEOREM ReleasesBuffers == Spec => []BuffersReleased
<1>1. Init => BuffersReleased
  <2>1. \A k \in DOMAIN <<>> : FALSE
    BY EmptySeq
  <2> QED
    BY <2>1 DEF Init, BuffersReleased
<1>2. JobIsOne /\ TypeOK /\ BuffersReleased /\ [Next]_vars => BuffersReleased'
  <2> SUFFICES ASSUME JobIsOne, TypeOK, BuffersReleased, [Next]_vars PROVE BuffersReleased'
    OBVIOUS
  <2>0. Ranks' = Ranks
    BY DEF Next, RankStep, Enter, Advance, Return, Match, Finished, vars, Ranks
  \* A rank that posts is in a round then, or has failed in it.
  <2>1. ASSUME NEW r \in Ranks, NEW i \in DOMAIN Program(r), NEW c,
               NEW open \in Seq(PostedReceive), NEW buffers, Post(r, i, c, open, buffers)
        PROVE  BuffersReleased'
    <3>1. /\ pc'[r] \in {i, -i}
          /\ \A s \in Ranks \ {r} : pc'[s] = pc[s] /\ recvs'[s] = recvs[s] /\ wire'[s] = wire[s]
      BY <2>1, PostEffect DEF Posting
    <3>2. pc'[r] # 0
      <4>1. i \in Nat \ {0}
        BY JobFacts
      <4> QED
        BY <3>1, <4>1
    <3>3. ASSUME NEW s \in Ranks, pc'[s] = 0
          PROVE  /\ recvs'[s] = <<>>
                 /\ \A d \in Ranks : \A k \in DOMAIN wire'[s][d] : ~wire'[s][d][k].rndv
      <4>1. s # r /\ pc[s] = 0
        BY <3>1, <3>2, <3>3
      <4> QED
        BY <3>1, <4>1 DEF BuffersReleased
    <3> QED
      BY <2>0, <3>3 DEF BuffersReleased
  <2>2. ASSUME NEW r \in Ranks, Enter(r)
        PROVE  BuffersReleased'
    <3>1. 1 \in DOMAIN Program(r) /\ <<>> \in Seq(PostedReceive)
      BY JobFacts, EmptySeq
    <3> QED
      BY <2>1, <2>2, <3>1 DEF Enter
  <2>3. ASSUME NEW r \in Ranks, Advance(r)
        PROVE  BuffersReleased'
    <3>1. Open(r) \in Seq(PostedReceive) /\ pc[r] \in Nat
      BY <2>3, OpenType DEF Advance
    <3>2. pc[r] + 1 \in DOMAIN Program(r)
      BY <2>3, <3>1, JobFacts DEF Advance
    <3> QED
      BY <2>1, <2>3, <3>1, <3>2 DEF Advance
  \* The last round leaves no receive open, and the wait no send with a rendezvous.
  <2>4. ASSUME NEW r \in Ranks, Return(r)
        PROVE  BuffersReleased'
    <3>1. /\ Waited(r) /\ pc[r] = Len(Program(r)) /\ pc' = [pc EXCEPT ![r] = 0]
          /\ recvs' = [recvs EXCEPT ![r] = Open(r)] /\ wire' = wire
      BY <2>4 DEF Return
    <3>2. Open(r) = <<>>
      <4>1. recvs[r] \in Seq(PostedReceive) /\ Program(r)[pc[r]].ahead = 0 /\ Program(r)[pc[r]].behind = 0
        BY <3>1, TypeFacts, JobFacts
      <4>2. /\ Open(r) \in Seq(PostedReceive)
            /\ Len(Open(r)) = IF 0 + 0 >= Len(recvs[r]) THEN Len(recvs[r]) ELSE 0 + 0
        <5>1. PICK round : round = Program(r)[pc[r]]
          OBVIOUS
        <5>2. round.ahead \in Nat /\ round.behind \in Nat /\ Open(r) = Kept(recvs[r], round)
          BY <4>1, <5>1 DEF Open
        <5>3. /\ Kept(recvs[r], round) \in Seq(PostedReceive)
              /\ Len(Kept(recvs[r], round)) =
                   IF round.behind + round.ahead >= Len(recvs[r]) THEN Len(recvs[r])
                   ELSE round.behind + round.ahead
          BY <4>1, <5>2, KeptPlaces, Zenon
        <5>4. round.behind = 0 /\ round.ahead = 0
          BY <4>1, <5>1
        <5> QED
          BY <5>2, <5>3, <5>4
      <4>3. Len(Open(r)) = 0
        <5>1. Len(recvs[r]) \in Nat
          BY <4>1, LenProperties
        <5> QED
          BY <4>2, <5>1
      <4> QED
        BY <4>2, <4>3, EmptySeq
    <3>3. ASSUME NEW s \in Ranks, pc'[s] = 0
          PROVE  /\ recvs'[s] = <<>>
                 /\ \A d \in Ranks : \A k \in DOMAIN wire'[s][d] : ~wire'[s][d][k].rndv
      <4>1. CASE s = r
        <5>1. \A d \in Ranks : \A k \in 1 .. Len(wire[r][d]) : ~wire[r][d][k].rndv
          BY <3>1 DEF Waited
        <5>2. \A d \in Ranks : DOMAIN wire[r][d] = 1 .. Len(wire[r][d])
          BY TypeFacts
        <5>3. recvs'[s] = <<>>
          BY <3>1, <3>2, <4>1 DEF TypeOK
        <5> QED
          BY <3>1, <4>1, <5>1, <5>2, <5>3
      <4>2. CASE s # r
        BY <3>1, <3>3, <4>2 DEF BuffersReleased, TypeOK
      <4> QED
        BY <4>1, <4>2
    <3> QED
      BY <2>0, <3>3 DEF BuffersReleased
  <2>5. ASSUME NEW s \in Ranks, NEW d \in Ranks, Match(s, d)
        PROVE  BuffersReleased'
    <3>1. pc' = pc
      BY <2>5 DEF Match
    <3>2. PICK k \in 1 .. Len(recvs[d]) : Meeting(s, d, k)
      BY <2>5, MatchEffect
    <3>3. ASSUME NEW q \in Ranks, pc'[q] = 0
          PROVE  /\ recvs'[q] = <<>>
                 /\ \A t \in Ranks : \A n \in DOMAIN wire'[q][t] : ~wire'[q][t][n].rndv
      <4>1. recvs[q] = <<>> /\ \A t \in Ranks : \A n \in DOMAIN wire[q][t] : ~wire[q][t][n].rndv
        BY <3>1, <3>3 DEF BuffersReleased
      <4>2. q # d
        BY <3>2, <4>1, EmptySeq
      <4>3. recvs'[q] = <<>>
        BY <2>5, <4>1, <4>2, MatchEffect
      <4>4. ASSUME NEW t \in Ranks, NEW n \in DOMAIN wire'[q][t]
            PROVE  ~wire'[q][t][n].rndv
        <5>1. CASE <<q, t>> # <<s, d>>
          <6>1. wire'[q][t] = wire[q][t]
            BY <2>5, <5>1, MatchEffect
          <6> QED
            BY <4>1, <6>1
        <5>2. CASE q = s /\ t = d
          <6>1. DOMAIN wire[s][d] = 1 .. Len(wire[s][d]) /\ Len(wire[s][d]) \in Nat
                /\ wire[s][d] \in Seq(Range(wire[s][d])) /\ wire[s][d] # <<>>
                /\ wire'[s][d] = Tail(wire[s][d])
            BY <2>5, TypeFacts, MatchEffect
          <6>2. DOMAIN wire'[s][d] = 1 .. Len(wire[s][d]) - 1
            BY <6>1, HeadTailProperties, LenProperties
          <6>3. n + 1 \in DOMAIN wire[s][d] /\ wire'[s][d][n] = wire[s][d][n + 1]
            BY <3>2, <5>2, <6>1, <6>2 DEF Meeting
          <6> QED
            BY <4>1, <5>2, <6>3
        <5> QED
          BY <5>1, <5>2
      <4> QED
        BY <4>3, <4>4
    <3> QED
      BY <2>0, <3>3 DEF BuffersReleased
  <2>6. CASE UNCHANGED vars
    BY <2>6 DEF BuffersReleased, vars, Ranks
  <2> QED
    BY <2>2, <2>3, <2>4, <2>5, <2>6 DEF Next, RankStep, Finished
<1> QED
  BY <1>1, <1>2, JobStays, TypeCorrect, PTL DEF Spec

-----------------------------------------------------------------------------
(* What proper annotations say.                                            *)

\* The jobs of the theorems that follow; Known is what is known of one of them.
AllProper == \A j \in DOMAIN Job : Proper(Job[j])
Known == JobIsOne /\ Proper(job) /\ ~FromAny(job)

\* The requests of a round are those of the pairs it has requests for.
LEMMA RequestFacts ==
  ASSUME Known, NEW r \in Ranks, NEW i \in DOMAIN Program(r)
  PROVE  /\ \A k \in DOMAIN Program(r)[i].recv :
              LET recv == Program(r)[i].recv[k] IN
              /\ recv.peer \in Ranks /\ recv.peer # AnySource /\ recv.slots \in Seq(Slot)
              /\ i \in RecvRounds(job, r, recv.peer)
              /\ PlaceOf(Program(r)[i].recv, recv.peer) = k
              /\ RecvOf(job, r, i, recv.peer) = recv
         /\ \A k \in DOMAIN Program(r)[i].send :
              LET send == Program(r)[i].send[k] IN
              /\ send.peer \in Ranks /\ send.slots \in Seq(Slot)
              /\ i \in SendRounds(job, r, send.peer)
              /\ SendOf(job, r, i, send.peer) = send
<1>1. JobIsOne /\ PeersOK(job)
  BY DEF Known, Proper
<1>2. /\ Ranks = All(job) /\ (\A s \in Ranks : s \in Nat) /\ Program(r) = job.program[r]
      /\ Program(r)[i].recv \in Seq(Receive) /\ Program(r)[i].send \in Seq(Sending)
      /\ DifferentPeers(Program(r)[i].recv) /\ DifferentPeers(Program(r)[i].send)
  BY <1>1, JobFacts, RoundFacts
<1>3. /\ \A k \in DOMAIN Program(r)[i].recv : Program(r)[i].recv[k].peer \in Ranks
      /\ \A k \in DOMAIN Program(r)[i].send : Program(r)[i].send[k].peer \in Ranks
  BY <1>1, <1>2, Zenon DEF PeersOK
<1>4. \A s \in Ranks : s # AnySource
  BY <1>2 DEF AnySource
<1>5. ASSUME NEW k \in DOMAIN Program(r)[i].recv
      PROVE  LET recv == Program(r)[i].recv[k] IN
             /\ recv.peer \in Ranks /\ recv.peer # AnySource /\ recv.slots \in Seq(Slot)
             /\ i \in RecvRounds(job, r, recv.peer)
             /\ PlaceOf(Program(r)[i].recv, recv.peer) = k
             /\ RecvOf(job, r, i, recv.peer) = recv
  <2> DEFINE list == Program(r)[i].recv
  <2>1. list[k].peer \in Ranks /\ list[k].peer # AnySource
    BY <1>3, <1>4
  <2>2. list[k] \in Receive
    BY <1>2, ElementOfSeq, LenProperties
  <2>3. list[k].slots \in Seq(Slot)
    BY <2>2 DEF Receive
  <2>4. i \in RecvRounds(job, r, list[k].peer)
    BY <1>2 DEF RecvRounds
  <2>5. \A l \in DOMAIN list : list[l].peer = list[k].peer => l = k
    BY <1>2, <2>1, Zenon DEF DifferentPeers
  <2>6. PlaceOf(list, list[k].peer) = k
    BY <2>5 DEF PlaceOf
  <2>7. RecvOf(job, r, i, list[k].peer) = list[k]
    BY <1>2, <2>6, Zenon DEF RecvOf
  <2> QED
    BY <2>1, <2>3, <2>4, <2>6, <2>7, Zenon
<1>6. ASSUME NEW k \in DOMAIN Program(r)[i].send
      PROVE  LET send == Program(r)[i].send[k] IN
             /\ send.peer \in Ranks /\ send.slots \in Seq(Slot)
             /\ i \in SendRounds(job, r, send.peer)
             /\ SendOf(job, r, i, send.peer) = send
  <2> DEFINE list == Program(r)[i].send
  <2>1. list[k].peer \in Ranks /\ list[k].peer # AnySource
    BY <1>3, <1>4
  <2>2. list[k] \in Sending
    BY <1>2, ElementOfSeq, LenProperties
  <2>3. list[k].slots \in Seq(Slot)
    BY <2>2 DEF Sending
  <2>4. i \in SendRounds(job, r, list[k].peer)
    BY <1>2 DEF SendRounds
  <2>5. \A l \in DOMAIN list : list[l].peer = list[k].peer => l = k
    BY <1>2, <2>1, Zenon DEF DifferentPeers
  <2>6. PlaceOf(list, list[k].peer) = k
    BY <2>5 DEF PlaceOf
  <2>7. SendOf(job, r, i, list[k].peer) = list[k]
    BY <1>2, <2>6, Zenon DEF SendOf
  <2> QED
    BY <2>1, <2>3, <2>4, <2>7, Zenon
<1> QED
  BY <1>5, <1>6, Zenon

\* The rounds of a pair.
LEMMA PairFacts ==
  ASSUME Known, NEW s \in Ranks, NEW d \in Ranks
  PROVE  /\ Len(Program(s)) \in Nat \ {0} /\ Len(Program(d)) \in Nat \ {0}
         /\ SendRounds(job, s, d) \in SUBSET (1 .. Len(Program(s)))
         /\ RecvRounds(job, d, s) \in SUBSET (1 .. Len(Program(d)))
         /\ Cardinality(SendRounds(job, s, d)) = Cardinality(RecvRounds(job, d, s))
         /\ Cardinality(RecvRounds(job, d, s)) \in Nat
         /\ \A x \in SendRounds(job, s, d), y \in RecvRounds(job, d, s) : Fellows(job, s, x, d, y) =>
              Len(SendOf(job, s, x, d).slots) <= Len(RecvOf(job, d, y, s).slots)
<1>1. JobIsOne /\ SendsFit(job)
  BY DEF Known, Proper
<1>2. /\ Ranks = All(job)
      /\ \A r \in Ranks : /\ Len(Program(r)) \in Nat \ {0} /\ DOMAIN Program(r) = 1 .. Len(Program(r))
                          /\ Program(r) = job.program[r]
  BY <1>1, JobFacts
<1>3. /\ SendRounds(job, s, d) \in SUBSET (1 .. Len(Program(s)))
      /\ RecvRounds(job, d, s) \in SUBSET (1 .. Len(Program(d)))
  BY <1>2 DEF SendRounds, RecvRounds
<1>4. Cardinality(RecvRounds(job, d, s)) \in Nat
  <2>1. Len(Program(d)) \in Nat /\ 0 \in Int
    BY <1>2
  <2> QED
    BY <1>3, <2>1, UptoType, Zenon
<1> QED
  BY <1>1, <1>2, <1>3, <1>4, Zenon DEF SendsFit

\* The annotations of a round.
LEMMA PlanFacts ==
  ASSUME Known, NEW r \in Ranks, NEW i \in DOMAIN Program(r)
  PROVE  /\ OpenOK(job, r, i) /\ KnowsOK(job, r, i) /\ SlotsOK(job, r, i) /\ GetsOK(job, r, i)
         /\ HoldsOK(job, r, i)
         /\ EndsOK(job, r)
<1>1. JobIsOne
  BY DEF Known
<1>2. Ranks = All(job) /\ Program(r) = job.program[r]
  BY <1>1, JobFacts
<1> QED
  BY <1>2, Zenon DEF Known, Proper

\* The receives that are open in a round, and which of them are for one rank.
LEMMA ListedFacts ==
  ASSUME Known, NEW r \in Ranks, NEW i \in DOMAIN Program(r)
  PROVE  LET open == job.plan[r][i - 1].open
             list == Listed(job, r, i)
         IN
         /\ open \in Seq(Nat \X Nat) /\ list \in Seq(Nat \X Nat)
         /\ Len(list) = Len(open) + Len(Program(r)[i].recv)
         /\ \A k \in 1 .. Len(open) : list[k] = open[k]
         /\ \A k \in 1 .. Len(Program(r)[i].recv) : list[Len(open) + k] = <<i, k>>
<1>0. PICK open, list : open = job.plan[r][i - 1].open /\ list = Listed(job, r, i)
  OBVIOUS
<1>1. JobIsOne
  BY DEF Known
<1>2. /\ i \in 1 .. Len(Program(r)) /\ Len(Program(r)) \in Nat
      /\ Program(r) = job.program[r] /\ DOMAIN Program(r) = 1 .. Len(Program(r))
      /\ Program(r)[i].recv \in Seq(Receive)
  BY <1>1, JobFacts, RoundFacts
<1>3. open \in Seq(Nat \X Nat)
  <2>1. CASE i = 1
    <3>1. open = <<>>
      <4>1. EndsOK(job, r) /\ i - 1 = 0
        BY <2>1, PlanFacts
      <4> QED
        BY <1>0, <4>1, Zenon DEF EndsOK
    <3> QED
      BY <3>1, EmptySeq
  <2>2. CASE i # 1
    <3>1. i - 1 \in DOMAIN Program(r)
      BY <1>2, <2>2
    <3>2. OpenOK(job, r, i - 1)
      BY <3>1, PlanFacts
    <3> QED
      BY <1>0, <3>2 DEF OpenOK
  <2> QED
    BY <2>1, <2>2
<1>4. PICK n : n = Len(Program(r)[i].recv)
  OBVIOUS
<1>5. n \in Nat
  BY <1>2, <1>4, LenProperties
<1>6. PICK new : new = [k \in 1 .. n |-> <<i, k>>]
  OBVIOUS
<1>7. new \in Seq(Nat \X Nat) /\ Len(new) = n /\ \A k \in 1 .. n : new[k] = <<i, k>>
  <2>1. \A k \in 1 .. n : <<i, k>> \in Nat \X Nat
    BY <1>2, <1>5
  <2>2. new \in Seq(Nat \X Nat)
    BY <1>5, <1>6, <2>1, IsASeq
  <2>3. DOMAIN new = 1 .. n
    BY <1>6
  <2> QED
    BY <1>5, <1>6, <2>2, <2>3, LenProperties
<1>8. list = open \o new
  BY <1>0, <1>2, <1>4, <1>6, Zenon DEF Listed
<1>9. PICK m : m = Len(open)
  OBVIOUS
<1>10. m \in Nat
  BY <1>3, <1>9, LenProperties
<1>11. /\ open \o new \in Seq(Nat \X Nat) /\ Len(open \o new) = Len(open) + Len(new)
       /\ \A k \in 1 .. Len(open) + Len(new) :
            (open \o new)[k] = IF k <= Len(open) THEN open[k] ELSE new[k - Len(open)]
  BY <1>3, <1>7, ConcatProperties, Zenon
<1>12. /\ list \in Seq(Nat \X Nat) /\ Len(list) = m + n
       /\ \A k \in 1 .. m + n : list[k] = IF k <= m THEN open[k] ELSE new[k - m]
  BY <1>7, <1>8, <1>9, <1>11, Zenon
<1>13. ASSUME NEW k \in 1 .. m
       PROVE  list[k] = open[k]
  <2>1. k \in 1 .. m + n /\ k <= m
    BY <1>5, <1>10
  <2> QED
    BY <1>12, <2>1
<1>14. ASSUME NEW k \in 1 .. n
       PROVE  list[m + k] = <<i, k>>
  <2>1. PICK p : p = m + k
    OBVIOUS
  <2>2. p \in 1 .. m + n /\ ~(p <= m) /\ p - m = k
    BY <1>5, <1>10, <2>1
  <2>3. list[p] = new[p - m]
    BY <1>12, <2>2
  <2> QED
    BY <1>7, <2>1, <2>2, <2>3, Zenon
<1> QED
  BY <1>0, <1>3, <1>4, <1>9, <1>12, <1>13, <1>14, Zenon

\* Each is a receive of the program, and the receives for one rank are of
\* different rounds, the newer further down.
LEMMA ListedReceives ==
  ASSUME Known, NEW r \in Ranks, NEW i \in DOMAIN Program(r)
  PROVE  LET list == Listed(job, r, i) IN
         /\ \A k \in 1 .. Len(list) :
              LET at == list[k]
                  recv == RecvAt(job, r, at)
              IN /\ at = <<at[1], at[2]>> /\ at[1] \in 1 .. i /\ at[1] \in DOMAIN Program(r)
                 /\ at[2] \in DOMAIN Program(r)[at[1]].recv
                 /\ recv = Program(r)[at[1]].recv[at[2]]
                 /\ recv.peer \in Ranks /\ recv.peer # AnySource /\ recv.slots \in Seq(Slot)
                 /\ at[1] \in RecvRounds(job, r, recv.peer)
                 /\ PlaceOf(Program(r)[at[1]].recv, recv.peer) = at[2]
                 /\ RecvOf(job, r, at[1], recv.peer) = recv
         /\ \A k, l \in 1 .. Len(list) : k < l => list[k] # list[l]
         /\ \A k, l \in 1 .. Len(list) :
              k < l /\ RecvAt(job, r, list[k]).peer = RecvAt(job, r, list[l]).peer =>
                list[k][1] < list[l][1]
<1>0. PICK list : list = Listed(job, r, i)
  OBVIOUS
<1>1. JobIsOne
  BY DEF Known
<1>2. /\ i \in 1 .. Len(Program(r)) /\ Len(Program(r)) \in Nat
      /\ Program(r) = job.program[r] /\ DOMAIN Program(r) = 1 .. Len(Program(r))
  BY <1>1, JobFacts
<1>3. list \in Seq(Nat \X Nat) /\ DOMAIN list = 1 .. Len(list) /\ Len(list) \in Nat
  BY <1>0, ListedFacts, LenProperties
<1>4. /\ \A k \in DOMAIN list : /\ list[k][1] \in 1 .. i
                                /\ list[k][2] \in DOMAIN job.program[r][list[k][1]].recv
      /\ \A k, l \in DOMAIN list : k < l =>
           \/ list[k][1] < list[l][1]
           \/ list[k][1] = list[l][1] /\ list[k][2] < list[l][2]
  <2>1. OpenOK(job, r, i)
    BY PlanFacts
  <2> QED
    BY <1>0, <2>1, Zenon DEF OpenOK
<1>5. ASSUME NEW k \in 1 .. Len(list)
      PROVE  LET at == list[k]
                 recv == RecvAt(job, r, at)
             IN /\ at = <<at[1], at[2]>> /\ at[1] \in 1 .. i /\ at[1] \in DOMAIN Program(r)
                /\ at[2] \in DOMAIN Program(r)[at[1]].recv
                /\ recv = Program(r)[at[1]].recv[at[2]]
                /\ recv.peer \in Ranks /\ recv.peer # AnySource /\ recv.slots \in Seq(Slot)
                /\ at[1] \in RecvRounds(job, r, recv.peer)
                /\ PlaceOf(Program(r)[at[1]].recv, recv.peer) = at[2]
                /\ RecvOf(job, r, at[1], recv.peer) = recv
  <2>1. list[k] \in Nat \X Nat
    BY <1>3, ElementOfSeq
  <2>2. list[k] = <<list[k][1], list[k][2]>>
    BY <2>1
  <2>3. list[k][1] \in 1 .. i /\ list[k][2] \in DOMAIN Program(r)[list[k][1]].recv
    BY <1>2, <1>3, <1>4
  <2>4. list[k][1] \in DOMAIN Program(r)
    BY <1>2, <2>3
  <2>5. RecvAt(job, r, list[k]) = Program(r)[list[k][1]].recv[list[k][2]]
    BY <1>2 DEF RecvAt
  <2>6. LET recv == Program(r)[list[k][1]].recv[list[k][2]] IN
        /\ recv.peer \in Ranks /\ recv.peer # AnySource /\ recv.slots \in Seq(Slot)
        /\ list[k][1] \in RecvRounds(job, r, recv.peer)
        /\ PlaceOf(Program(r)[list[k][1]].recv, recv.peer) = list[k][2]
        /\ RecvOf(job, r, list[k][1], recv.peer) = recv
    BY <2>3, <2>4, RequestFacts, Zenon
  <2> QED
    BY <2>2, <2>3, <2>4, <2>5, <2>6, Zenon
<1>6. ASSUME NEW k \in 1 .. Len(list), NEW l \in 1 .. Len(list), k < l
      PROVE  /\ list[k] # list[l]
             /\ RecvAt(job, r, list[k]).peer = RecvAt(job, r, list[l]).peer => list[k][1] < list[l][1]
  <2>1. \/ list[k][1] < list[l][1]
        \/ list[k][1] = list[l][1] /\ list[k][2] < list[l][2]
    BY <1>3, <1>4, <1>6, Zenon
  <2>2. /\ list[k][1] \in Nat /\ list[l][1] \in Nat /\ list[k][2] \in Nat /\ list[l][2] \in Nat
    <3>1. list[k] \in Nat \X Nat /\ list[l] \in Nat \X Nat
      BY <1>3, ElementOfSeq
    <3> QED
      BY <3>1
  <2>3. list[k] # list[l]
    BY <2>1, <2>2
  <2>4. ASSUME RecvAt(job, r, list[k]).peer = RecvAt(job, r, list[l]).peer, list[k][1] = list[l][1]
        PROVE  list[k][2] = list[l][2]
    <3>1. PlaceOf(Program(r)[list[k][1]].recv, RecvAt(job, r, list[k]).peer) = list[k][2]
      BY <1>5, Zenon
    <3>2. PlaceOf(Program(r)[list[l][1]].recv, RecvAt(job, r, list[l]).peer) = list[l][2]
      BY <1>5, Zenon
    <3> QED
      BY <2>4, <3>1, <3>2, Zenon
  <2> QED
    BY <2>1, <2>2, <2>3, <2>4
<1> QED
  BY <1>0, <1>5, <1>6, Zenon

-----------------------------------------------------------------------------
(* The numbers of the requests of a pair.                                  *)

\* The first request of a call comes after the last of the one before, and each
\* round has one or none.
LEMMA NumberSteps ==
  ASSUME NEW n \in Nat, NEW rounds \in SUBSET (1 .. n), NEW c \in Nat
  PROVE  /\ Number(rounds, c, n) = Number(rounds, c + 1, 0)
         /\ \A i \in Int : /\ i \in rounds => Number(rounds, c, i) = Number(rounds, c, i - 1) + 1
                           /\ i \notin rounds => Number(rounds, c, i) = Number(rounds, c, i - 1)
<1>1. Number(rounds, c, n) = Number(rounds, c + 1, 0)
  <2>1. Upto(rounds, 0) = 0 /\ Upto(rounds, n) = Cardinality(rounds) /\ Cardinality(rounds) \in Nat
    <3>1. 0 \in Int
      OBVIOUS
    <3> QED
      BY <3>1, UptoEnds, UptoType, Zenon
  <2>2. c * Cardinality(rounds) = (c - 1) * Cardinality(rounds) + Cardinality(rounds)
        /\ c * Cardinality(rounds) \in Int /\ c + 1 - 1 = c
    BY <2>1
  <2> QED
    BY <2>1, <2>2 DEF Number
<1>2. ASSUME NEW i \in Int
      PROVE  /\ i \in rounds => Number(rounds, c, i) = Number(rounds, c, i - 1) + 1
             /\ i \notin rounds => Number(rounds, c, i) = Number(rounds, c, i - 1)
  <2>1. /\ i \in rounds => Upto(rounds, i) = Upto(rounds, i - 1) + 1
        /\ i \notin rounds => Upto(rounds, i) = Upto(rounds, i - 1)
    BY UptoStep
  <2>2. i - 1 \in Int
    OBVIOUS
  <2>3. Upto(rounds, i - 1) \in Nat /\ Cardinality(rounds) \in Nat
    BY <2>2, UptoType
  <2>4. (c - 1) * Cardinality(rounds) \in Int
    BY <2>3
  <2> QED
    BY <2>1, <2>3, <2>4 DEF Number
<1> QED
  BY <1>1, <1>2

\* A request with a number that has been reached is of an earlier call, or of a
\* round of this one that has been reached.
LEMMA NumberReached ==
  ASSUME NEW n \in Nat, NEW rounds \in SUBSET (1 .. n), NEW c \in Nat, NEW e \in Nat,
         NEW x \in rounds, NEW i \in Int, Number(rounds, c, x) <= Number(rounds, e, i)
  PROVE  c < e \/ (c = e /\ x <= i)
<1>1. x \in Int
  OBVIOUS
<1>2. PICK N : N = Cardinality(rounds)
  OBVIOUS
<1>3. /\ N \in Nat /\ Upto(rounds, x) \in Nat /\ Upto(rounds, i) \in Nat
      /\ Upto(rounds, i) <= N /\ Upto(rounds, x) >= 1 /\ Upto(rounds, x) <= N
  BY <1>1, <1>2, UptoType, UptoEnds
<1>4. (c - 1) * N + Upto(rounds, x) <= (e - 1) * N + Upto(rounds, i)
  BY <1>2 DEF Number
<1>5. ~(c > e)
  <2>1. SUFFICES ASSUME c > e PROVE FALSE
    OBVIOUS
  <2>2. PICK m \in Nat : c = e + 1 + m
    <3>1. c - e - 1 \in Nat /\ c = e + 1 + (c - e - 1)
      BY <2>1
    <3> QED
      BY <3>1
  <2>3. (c - 1) * N = (e - 1) * N + N + m * N
    BY <1>3, <2>2
  <2>4. m * N \in Nat /\ (e - 1) * N \in Int
    BY <1>3
  <2> QED
    BY <1>3, <1>4, <2>3, <2>4
<1>6. ASSUME c = e
      PROVE  x <= i
  <2>1. (c - 1) * N \in Int /\ (c - 1) * N = (e - 1) * N
    BY <1>3, <1>6
  <2>2. Upto(rounds, x) <= Upto(rounds, i)
    BY <1>3, <1>4, <2>1
  <2>3. ~(i < x)
    <3>1. SUFFICES ASSUME i < x PROVE FALSE
      OBVIOUS
    <3>2. Upto(rounds, i) < Upto(rounds, x)
      BY <1>1, <3>1, UptoOrder
    <3> QED
      BY <1>3, <2>2, <3>2
  <2> QED
    BY <1>1, <2>3
<1> QED
  <2>1. c < e \/ c = e
    BY <1>5
  <2>2. CASE c = e
    BY <1>6, <2>2
  <2> QED
    BY <2>1, <2>2

\* Requests of a pair with the same number are of the same call, and fellows.
LEMMA NumberFellows ==
  ASSUME Known, NEW s \in Ranks, NEW d \in Ranks, NEW c \in Nat, NEW e \in Nat,
         NEW x \in SendRounds(job, s, d), NEW y \in RecvRounds(job, d, s),
         Number(SendRounds(job, s, d), c, x) = Number(RecvRounds(job, d, s), e, y)
  PROVE  c = e /\ Fellows(job, s, x, d, y)
<1> DEFINE to == SendRounds(job, s, d)
           from == RecvRounds(job, d, s)
<1>1. PICK N : N = Cardinality(from)
  OBVIOUS
<1>2. PICK n, m : n = Len(Program(s)) /\ m = Len(Program(d))
  OBVIOUS
<1>3. /\ n \in Nat /\ m \in Nat /\ to \in SUBSET (1 .. n) /\ from \in SUBSET (1 .. m)
      /\ Cardinality(to) = N /\ N \in Nat
  BY <1>1, <1>2, PairFacts
<1> HIDE DEF to, from
<1>4. x \in Int /\ x \in to /\ y \in Int /\ y \in from
  <2>1. x \in to /\ y \in from
    BY DEF to, from
  <2> QED
    BY <1>3, <2>1
<1>5. Upto(to, x) \in 1 .. N
  <2>1. Upto(to, x) \in Nat /\ Upto(to, x) <= N
    BY <1>3, <1>4, UptoType
  <2>2. Upto(to, x) >= 1
    BY <1>3, <1>4, UptoEnds
  <2> QED
    BY <1>3, <2>1, <2>2
<1>6. Upto(from, y) \in 1 .. N
  <2>1. Upto(from, y) \in Nat /\ Upto(from, y) <= N
    BY <1>1, <1>3, <1>4, UptoType
  <2>2. Upto(from, y) >= 1
    BY <1>3, <1>4, UptoEnds
  <2> QED
    BY <1>3, <2>1, <2>2
<1>7. (c - 1) * N + Upto(to, x) = (e - 1) * N + Upto(from, y)
  BY <1>1, <1>3, Zenon DEF Number, to, from
<1>8. c = e /\ Upto(to, x) = Upto(from, y)
  BY <1>3, <1>5, <1>6, <1>7, NumberUnique
<1> QED
  BY <1>4, <1>8 DEF Fellows, to, from

-----------------------------------------------------------------------------
(* Every message has its receive, and every receive its message.           *)

\* Rank r may post round i of call c, with open receives behind it.
Ready(r, i, c, open) ==
  /\ i \in DOMAIN Program(r) /\ c \in Nat \ {0} /\ open \in Seq(PostedReceive)
  /\ pc[r] >= 0
  /\ \A q \in Ranks :
       /\ Number(SendRounds(job, r, q), call[r], Begun(r)) = Number(SendRounds(job, r, q), c, i - 1)
       /\ Number(RecvRounds(job, r, q), call[r], Begun(r)) = Number(RecvRounds(job, r, q), c, i - 1)
       /\ OpenRounds(open, q) = OpenRounds(recvs[r], q)
       /\ OpenRounds(open, q) # {} => c = call[r]
  /\ ListOK(r, open, job.plan[r][i - 1].open) /\ Len(open) = Len(job.plan[r][i - 1].open)
  /\ \A q \in Ranks : \A n \in DOMAIN wire[r][q] : ~wire[r][q][n].rndv

\* It does so.
Posts(r, i, c, open, buffers, n, m) ==
  /\ Ready(r, i, c, open)
  /\ n \in 0 .. Len(Program(r)[i].recv) /\ m \in 0 .. Len(Program(r)[i].send)
  /\ Posting(r, i, c, open, buffers, n, m)
  /\ job' = job /\ call'[r] = c /\ recvs'[r] \in Seq(PostedReceive)

\* Which round a rank has begun, and been through, after it has posted.
LEMMA PostBegun ==
  ASSUME JobIsOne, NEW r \in Ranks, NEW i \in DOMAIN Program(r), pc'[r] \in {i, -i}, job' = job
  PROVE  /\ i \in Nat \ {0}
         /\ Begun(r)' = i /\ Through(r)' = i - 1
         /\ pc'[r] # 0 /\ (pc'[r] >= 0 => pc'[r] = i)
<1>1. i \in Nat \ {0} /\ i - 1 \in Int
  BY JobFacts
<1>2. pc'[r] = i \/ pc'[r] = -i
  OBVIOUS
<1>3. Begun(r)' = i
  BY <1>1, <1>2 DEF Begun
<1> QED
  BY <1>1, <1>2, <1>3 DEF Through

\* The sends of a post are the next ones.
LEMMA PostSent ==
  ASSUME Known, TypeOK, NEW r \in Ranks, NEW i, NEW c, NEW open, NEW buffers, NEW n, NEW m,
         Posts(r, i, c, open, buffers, n, m),
         NEW d \in Ranks, NEW met \in Nat, SentOK(r, d, met)
  PROVE  SentOK(r, d, met)'
<1> DEFINE to == SendRounds(job, r, d)
           list == Program(r)[i].send
<1>0. /\ Ready(r, i, c, open) /\ Posting(r, i, c, open, buffers, n, m)
      /\ n \in 0 .. Len(Program(r)[i].recv) /\ m \in 0 .. Len(Program(r)[i].send)
      /\ job' = job /\ call'[r] = c
  BY DEF Posts
<1>1. JobIsOne /\ i \in DOMAIN Program(r) /\ c \in Nat \ {0} /\ pc[r] >= 0
      /\ Number(to, call[r], Begun(r)) = Number(to, c, i - 1)
  BY <1>0 DEF Known, Ready
<1>2. /\ i \in Nat \ {0} /\ Begun(r)' = i /\ (pc'[r] >= 0 => pc'[r] = i)
      /\ list \in Seq(Sending) /\ DOMAIN list = 1 .. Len(list) /\ Len(list) \in Nat
  BY <1>0, <1>1, PostBegun, RoundFacts, LenProperties DEF Posting
<1>3. m \in Nat /\ m <= Len(list)
  BY <1>0, <1>2
<1>4. PICK old, sent : old = wire[r][d] /\ sent = met + Len(old)
  OBVIOUS
<1>5. /\ old \in Seq(Range(old)) /\ DOMAIN old = 1 .. Len(old) /\ Len(old) \in Nat /\ sent \in Nat
  BY <1>1, <1>4, TypeFacts
<1>6. /\ sent = Number(to, c, i - 1)
      /\ \A k \in 1 .. Len(old) :
           /\ old[k].round \in to /\ met + k = Number(to, old[k].call, old[k].round)
           /\ old[k].slots = SendOf(job, r, old[k].round, d).slots
  BY <1>0, <1>1, <1>4, <1>5, Zenon DEF SentOK
<1>7. /\ i \in to => Number(to, c, i) = sent + 1
      /\ i \notin to => Number(to, c, i) = sent
  <2>1. Len(Program(r)) \in Nat /\ to \in SUBSET (1 .. Len(Program(r)))
    BY PairFacts
  <2>2. i \in Int /\ c \in Nat
    BY <1>1, <1>2
  <2> HIDE DEF to
  <2>3. /\ i \in to => Number(to, c, i) = Number(to, c, i - 1) + 1
        /\ i \notin to => Number(to, c, i) = Number(to, c, i - 1)
    BY <2>1, <2>2, NumberSteps
  <2> QED
    BY <1>6, <2>3, Zenon
<1>8. Number(to, c, i) >= sent /\ Number(to, c, i) \in Int
  BY <1>5, <1>7
<1>9. SendRounds(job, r, d)' = to /\ \A x : SendOf(job, r, x, d)' = SendOf(job, r, x, d)
  BY <1>0 DEF SendRounds, SendOf
<1>10. ASSUME NEW new, new = wire'[r][d], met + Len(new) <= Number(to, c, i),
              pc'[r] >= 0 => met + Len(new) = Number(to, c, i),
              \A k \in DOMAIN new : /\ new[k].round \in to
                                    /\ met + k = Number(to, new[k].call, new[k].round)
                                    /\ new[k].slots = SendOf(job, r, new[k].round, d).slots
       PROVE  SentOK(r, d, met)'
  BY <1>0, <1>2, <1>9, <1>10, Zenon DEF SentOK
<1>11. CASE wire'[r][d] = wire[r][d] /\ \A k \in 1 .. m : list[k].peer # d
  <2>1. pc'[r] >= 0 => sent = Number(to, c, i)
    <3>1. SUFFICES ASSUME pc'[r] >= 0 PROVE i \notin to
      BY <1>7
    <3>2. m = Len(list)
      BY <1>0, <1>2, <3>1, Zenon DEF Posting
    <3>3. \A k \in DOMAIN list : list[k].peer # d
      BY <1>2, <1>11, <3>2
    <3>4. Program(r) = job.program[r]
      BY <1>1, JobFacts
    <3> QED
      BY <1>0, <3>3, <3>4 DEF SendRounds
  <2>2. wire'[r][d] = old
    BY <1>4, <1>11
  <2>3. met + Len(old) <= Number(to, c, i) /\ (pc'[r] >= 0 => met + Len(old) = Number(to, c, i))
    BY <1>4, <1>5, <1>8, <2>1
  <2> QED
    BY <1>2, <1>10, <1>4, <1>5, <1>6, <2>2, <2>3, Zenon
<1>12. CASE \E k \in 1 .. m : /\ list[k].peer = d
                              /\ wire'[r][d] = Append(wire[r][d], Message(list[k], i, c, buffers))
  <2>1. PICK k \in 1 .. m : /\ list[k].peer = d
                            /\ wire'[r][d] = Append(wire[r][d], Message(list[k], i, c, buffers))
    BY <1>12
  <2>2. i \in to /\ SendOf(job, r, i, d) = list[k]
    <3>1. k \in DOMAIN list
      BY <1>2, <1>3
    <3> QED
      BY <1>1, <2>1, <3>1, RequestFacts
  <2>3. PICK e : e = Message(list[k], i, c, buffers)
    OBVIOUS
  <2>4. e.call = c /\ e.round = i /\ e.slots = SendOf(job, r, i, d).slots
    BY <2>2, <2>3 DEF Message
  <2>5. PICK new : new = wire'[r][d]
    OBVIOUS
  <2>6. /\ Len(new) = Len(old) + 1 /\ DOMAIN new = 1 .. Len(old) + 1
        /\ \A p \in 1 .. Len(old) : new[p] = old[p]
        /\ new[Len(old) + 1] = e
    <3>1. new = Append(old, e)
      BY <1>4, <2>1, <2>3, <2>5
    <3>2. old \in Seq(Range(old) \union {e}) /\ e \in Range(old) \union {e}
      BY <1>5, SeqMonotonic
    <3> QED
      BY <3>1, <3>2, AppendProperties, LenProperties
  <2>7. met + (Len(old) + 1) = sent + 1 /\ sent + 1 = Number(to, c, i)
    BY <1>4, <1>5, <1>7, <2>2
  <2>8. \A p \in DOMAIN new :
          /\ new[p].round \in to /\ met + p = Number(to, new[p].call, new[p].round)
          /\ new[p].slots = SendOf(job, r, new[p].round, d).slots
    <3>1. TAKE p \in DOMAIN new
    <3>2. PICK l : l = Len(old)
      OBVIOUS
    <3>3. p \in 1 .. l \/ p = l + 1
      BY <1>5, <2>6, <3>2
    <3>4. CASE p \in 1 .. l
      BY <1>6, <2>6, <3>2, <3>4, Zenon
    <3>5. CASE p = l + 1
      BY <2>2, <2>4, <2>6, <2>7, <3>2, <3>5, Zenon
    <3> QED
      BY <3>3, <3>4, <3>5
  <2>9. met + Len(new) = Number(to, c, i) /\ met + Len(new) <= Number(to, c, i)
    BY <1>5, <2>6, <2>7
  <2> QED
    BY <1>8, <1>10, <2>5, <2>8, <2>9, Zenon
<1> QED
  BY <1>0, <1>11, <1>12, Zenon DEF Posting

\* What has been posted in a round are the first of the receives of that round.
LEMMA PostListed ==
  ASSUME Known, TypeOK, NEW r \in Ranks, NEW i, NEW c, NEW open, NEW buffers, NEW n, NEW m,
         Posts(r, i, c, open, buffers, n, m)
  PROVE  /\ n \in Nat /\ Len(open) \in Nat /\ Len(recvs'[r]) = Len(open) + n
         /\ DOMAIN recvs'[r] = 1 .. Len(open) + n
         /\ \A k \in 1 .. Len(open) : recvs'[r][k] = open[k]
         /\ \A k \in 1 .. n : recvs'[r][Len(open) + k] = Posted(i, k, Program(r)[i].recv[k])
         /\ ListOK(r, recvs'[r], Listed(job, r, i))
         /\ n = Len(Program(r)[i].recv) => Len(recvs'[r]) = Len(Listed(job, r, i))
<1>0. /\ Ready(r, i, c, open) /\ Posting(r, i, c, open, buffers, n, m)
      /\ n \in 0 .. Len(Program(r)[i].recv) /\ m \in 0 .. Len(Program(r)[i].send)
      /\ job' = job /\ call'[r] = c /\ recvs'[r] \in Seq(PostedReceive)
  BY DEF Posts
<1>1. JobIsOne /\ i \in DOMAIN Program(r) /\ open \in Seq(PostedReceive)
      /\ ListOK(r, open, job.plan[r][i - 1].open) /\ Len(open) = Len(job.plan[r][i - 1].open)
  BY <1>0 DEF Known, Ready
<1>2. PICK l, p, new : l = Len(open) /\ p = Len(Program(r)[i].recv) /\ new = recvs'[r]
  OBVIOUS
<1>3. l \in Nat /\ p \in Nat /\ n \in Nat /\ n <= p /\ DOMAIN open = 1 .. l
  <2>1. p \in Nat
    BY <1>1, <1>2, RoundFacts, LenProperties
  <2>2. l \in Nat /\ DOMAIN open = 1 .. l
    BY <1>1, <1>2, LenProperties
  <2>3. n \in 0 .. p
    BY <1>0, <1>2
  <2> QED
    BY <2>1, <2>2, <2>3
<1>4. /\ Len(new) = l + n /\ DOMAIN new = 1 .. l + n
      /\ \A k \in 1 .. l : new[k] = open[k]
      /\ \A k \in 1 .. n : new[l + k] = Posted(i, k, Program(r)[i].recv[k])
  <2>1. /\ Len(new) = l + n
        /\ \A k \in 1 .. l : new[k] = open[k]
        /\ \A k \in 1 .. n : new[l + k] = Posted(i, k, Program(r)[i].recv[k])
    BY <1>0, <1>2, Zenon DEF Posting
  <2>2. DOMAIN new = 1 .. Len(new)
    BY <1>0, <1>2, LenProperties
  <2> QED
    BY <2>1, <2>2
<1>5. PICK list, before : list = Listed(job, r, i) /\ before = job.plan[r][i - 1].open
  OBVIOUS
<1>6. /\ Len(list) = l + p /\ Len(before) = l
      /\ \A k \in 1 .. l : list[k] = before[k]
      /\ \A k \in 1 .. p : list[l + k] = <<i, k>>
  <2>1. /\ Len(list) = Len(before) + Len(Program(r)[i].recv)
        /\ \A k \in 1 .. Len(before) : list[k] = before[k]
        /\ \A k \in 1 .. Len(Program(r)[i].recv) : list[Len(before) + k] = <<i, k>>
    BY <1>1, <1>5, ListedFacts, Zenon
  <2>2. Len(before) = l
    BY <1>1, <1>2, <1>5
  <2> QED
    BY <1>2, <2>1, <2>2, Zenon
<1>7. Program(r) = job.program[r]
  BY <1>1, JobFacts
<1>8. ASSUME NEW k \in 1 .. l + n
      PROVE  /\ new[k].at = list[k]
             /\ new[k].peer = RecvAt(job, r, list[k]).peer
             /\ new[k].slots = RecvAt(job, r, list[k]).slots
  <2>1. CASE k <= l
    <3>1. k \in 1 .. l
      BY <1>3, <2>1
    <3> QED
      BY <1>1, <1>3, <1>4, <1>5, <1>6, <3>1, Zenon DEF ListOK
  <2>2. CASE ~(k <= l)
    <3>1. PICK q : q = k - l
      OBVIOUS
    <3>2. q \in 1 .. n /\ q \in 1 .. p /\ k = l + q
      BY <1>3, <2>2, <3>1
    <3>3. new[k] = Posted(i, q, Program(r)[i].recv[q]) /\ list[k] = <<i, q>>
      BY <1>4, <1>6, <3>2
    <3>4. RecvAt(job, r, list[k]) = Program(r)[i].recv[q]
      BY <1>7, <3>3 DEF RecvAt
    <3> QED
      BY <3>3, <3>4 DEF Posted
  <2> QED
    BY <2>1, <2>2
<1>9. ListOK(r, new, list)
  <2>1. Len(new) <= Len(list)
    BY <1>3, <1>4, <1>6
  <2> QED
    BY <1>4, <1>8, <2>1, Zenon DEF ListOK
<1>10. n = p => Len(new) = Len(list)
  BY <1>4, <1>6
<1> QED
  BY <1>2, <1>3, <1>4, <1>5, <1>9, <1>10, Zenon

\* The receives of a post are the next ones.
LEMMA PostReceived ==
  ASSUME Known, TypeOK, NEW r \in Ranks, NEW i, NEW c, NEW open, NEW buffers, NEW n, NEW m,
         Posts(r, i, c, open, buffers, n, m),
         NEW s \in Ranks, NEW met \in Nat, ReceivedOK(s, r, met)
  PROVE  ReceivedOK(s, r, met)'
<1> DEFINE from == RecvRounds(job, r, s)
           list == Program(r)[i].recv
           before == OpenRounds(open, s)
           after == OpenRounds(recvs'[r], s)
<1>0. /\ Ready(r, i, c, open) /\ Posting(r, i, c, open, buffers, n, m)
      /\ n \in 0 .. Len(Program(r)[i].recv) /\ m \in 0 .. Len(Program(r)[i].send)
      /\ job' = job /\ call'[r] = c /\ recvs'[r] \in Seq(PostedReceive)
  BY DEF Posts
<1>1. /\ JobIsOne /\ i \in DOMAIN Program(r) /\ c \in Nat \ {0} /\ pc[r] >= 0
      /\ Number(from, call[r], Begun(r)) = Number(from, c, i - 1)
      /\ before = OpenRounds(recvs[r], s) /\ (before # {} => c = call[r])
  BY <1>0 DEF Known, Ready
<1>2. /\ i \in Nat \ {0} /\ Begun(r)' = i /\ (pc'[r] >= 0 => pc'[r] = i)
      /\ DOMAIN list = 1 .. Len(list)
  BY <1>0, <1>1, PostBegun, RoundFacts, LenProperties DEF Posting
<1>3. PICK l, new : l = Len(open) /\ new = recvs'[r]
  OBVIOUS
<1>4. /\ n \in Nat /\ l \in Nat /\ DOMAIN new = 1 .. l + n
      /\ \A k \in 1 .. l : new[k] = open[k]
      /\ \A k \in 1 .. n : new[l + k] = Posted(i, k, list[k])
      /\ ListOK(r, new, Listed(job, r, i)) /\ Len(new) = l + n
  <2>1. /\ n \in Nat /\ Len(open) \in Nat /\ Len(recvs'[r]) = Len(open) + n
        /\ DOMAIN recvs'[r] = 1 .. Len(open) + n
        /\ \A k \in 1 .. Len(open) : recvs'[r][k] = open[k]
        /\ \A k \in 1 .. n : recvs'[r][Len(open) + k] = Posted(i, k, Program(r)[i].recv[k])
        /\ ListOK(r, recvs'[r], Listed(job, r, i))
    BY PostListed
  <2> QED
    BY <1>3, <2>1, Zenon
<1>5. DOMAIN open = 1 .. l
  BY <1>0, <1>3, LenProperties DEF Ready
<1>6. /\ met + Cardinality(before) = Number(from, c, i - 1)
      /\ \A y \in before : y \in from /\ met + Upto(before, y) = Number(from, c, y)
  BY <1>0, <1>1, Zenon DEF ReceivedOK
<1>7. PICK last : last = Len(Program(r))
  OBVIOUS
<1>8. last \in Nat /\ from \in SUBSET (1 .. last)
  BY <1>7, PairFacts
<1>9. before \in SUBSET (1 .. last) /\ \A y \in before : y \in Int
  BY <1>6, <1>8
<1>10. /\ i \in from => Number(from, c, i) = Number(from, c, i - 1) + 1
       /\ i \notin from => Number(from, c, i) = Number(from, c, i - 1)
  <2>1. i \in Int /\ c \in Nat
    BY <1>1, <1>2
  <2> HIDE DEF from
  <2> QED
    BY <1>8, <2>1, NumberSteps, Zenon
<1>11. RecvRounds(job, r, s)' = from
  BY <1>0 DEF RecvRounds
<1>12. ASSUME pc'[r] >= 0 => met + Cardinality(after) = Number(from, c, i),
              \A y \in after : y \in from /\ met + Upto(after, y) = Number(from, c, y)
       PROVE  ReceivedOK(s, r, met)'
  <2>1. OpenRounds(recvs[r], s)' = after
    BY <1>0 DEF OpenRounds
  <2> HIDE DEF from, after
  <2> QED
    BY <1>0, <1>2, <1>11, <1>12, <2>1, Zenon DEF ReceivedOK
<1>13. CASE \A k \in 1 .. n : list[k].peer # s
  <2>1. after = before
    <3>1. ASSUME NEW k \in 1 .. l + n, new[k].peer = s
          PROVE  k \in 1 .. l /\ new[k] = open[k]
      <4>1. k \in 1 .. l
        <5>1. SUFFICES ASSUME k > l PROVE FALSE
          BY <1>4
        <5>2. PICK q : q = k - l
          OBVIOUS
        <5>3. q \in 1 .. n /\ k = l + q
          BY <1>4, <5>1, <5>2
        <5>4. new[k] = Posted(i, q, list[q])
          BY <1>4, <5>3
        <5> QED
          BY <1>13, <3>1, <5>3, <5>4 DEF Posted
      <4> QED
        BY <1>4, <4>1
    <3>2. \A k \in 1 .. l : k \in 1 .. l + n /\ new[k] = open[k]
      BY <1>4
    <3>3. after = {new[q].at[1] : q \in {q \in 1 .. l + n : new[q].peer = s /\ ~new[q].done}}
      BY <1>0, <1>3, <1>4, Zenon DEF OpenRounds
    <3>4. before = {open[q].at[1] : q \in {q \in 1 .. l : open[q].peer = s /\ ~open[q].done}}
      BY <1>0, <1>5, Zenon DEF OpenRounds
    <3> HIDE DEF after, before
    <3>5. \A y : y \in after => y \in before
      BY <3>1, <3>3, <3>4
    <3>6. \A y : y \in before => y \in after
      BY <3>2, <3>3, <3>4
    <3> QED
      BY <3>5, <3>6
  <2>2. pc'[r] >= 0 => i \notin from
    <3>1. SUFFICES ASSUME pc'[r] >= 0 PROVE i \notin from
      OBVIOUS
    <3>2. n = Len(list)
      BY <1>0, <1>2, <3>1, Zenon DEF Posting
    <3>3. \A k \in DOMAIN list : list[k].peer # s
      BY <1>2, <1>13, <3>2
    <3>4. Program(r) = job.program[r]
      BY <1>1, JobFacts
    <3> QED
      BY <1>0, <3>3, <3>4 DEF RecvRounds
  <2> HIDE DEF from, before, after
  <2> QED
    BY <1>6, <1>10, <1>12, <2>1, <2>2, Zenon
<1>14. CASE \E k \in 1 .. n : list[k].peer = s
  <2>1. PICK k \in 1 .. n : list[k].peer = s
    BY <1>14
  <2>2. PICK p : p = l + k
    OBVIOUS
  <2>3. p \in 1 .. l + n /\ new[p] = Posted(i, k, list[k]) /\ p \notin 1 .. l
    BY <1>4, <2>2
  <2>4. /\ new[p].at = <<i, k>> /\ new[p].peer = s /\ new[p].done = FALSE
        /\ new[p].at[1] = i
    BY <2>1, <2>3 DEF Posted
  \* It is newer than the open ones for the same rank.
  <2>5. ASSUME NEW q \in 1 .. l, open[q].peer = s
        PROVE  open[q].at[1] < i
    <3>1. q \in 1 .. l + n /\ new[q] = open[q] /\ q < p
      BY <1>4, <2>2
    <3>2. PICK places : places = Listed(job, r, i)
      OBVIOUS
    <3>3. /\ Len(new) <= Len(places)
          /\ new[q].at = places[q] /\ new[q].peer = RecvAt(job, r, places[q]).peer
          /\ new[p].at = places[p] /\ new[p].peer = RecvAt(job, r, places[p]).peer
      BY <1>4, <2>3, <3>1, <3>2, Zenon DEF ListOK
    <3>4. Len(new) = l + n
      BY <1>4
    <3>5. Len(places) \in Nat
      BY <1>1, <3>2, ListedFacts, LenProperties
    <3>6. q \in 1 .. Len(places) /\ p \in 1 .. Len(places)
      BY <1>4, <2>3, <3>1, <3>3, <3>4, <3>5
    <3>7. RecvAt(job, r, places[q]).peer = RecvAt(job, r, places[p]).peer
      BY <2>4, <2>5, <3>1, <3>3
    <3>8. places[q][1] < places[p][1]
      BY <1>1, <3>1, <3>2, <3>6, <3>7, ListedReceives, Zenon
    <3> QED
      BY <2>4, <3>1, <3>3, <3>8
  <2>6. ASSUME NEW q \in 1 .. n, list[q].peer = s
        PROVE  q = k
    <3>1. q \in DOMAIN list /\ k \in DOMAIN list
      <4>1. Len(list) \in Nat
        BY <1>1, RoundFacts, LenProperties
      <4>2. n \in Nat /\ n <= Len(list)
        BY <1>0, <4>1
      <4> QED
        BY <1>2, <4>1, <4>2
    <3>2. \A t \in DOMAIN list : PlaceOf(list, list[t].peer) = t
      BY <1>1, RequestFacts, ZenonT(60)
    <3>3. PlaceOf(list, list[q].peer) = q /\ PlaceOf(list, list[k].peer) = k
      BY <3>1, <3>2, Zenon
    <3> QED
      BY <2>1, <2>6, <3>3, Zenon
  <2>7. after = before \union {i}
    <3>1. \A q \in 1 .. l + n : q \in 1 .. l \/ \E t \in 1 .. n : q = l + t
      <4>1. TAKE q \in 1 .. l + n
      <4>2. q \in 1 .. l \/ (q - l \in 1 .. n /\ q = l + (q - l))
        BY <1>4
      <4> QED
        BY <4>2, Zenon
    <3>2. ASSUME NEW q \in 1 .. l + n, new[q].peer = s
          PROVE  (q \in 1 .. l /\ new[q] = open[q]) \/ q = p
      <4>1. CASE q \in 1 .. l
        BY <1>4, <4>1
      <4>2. CASE \E t \in 1 .. n : q = l + t
        <5>1. PICK t \in 1 .. n : q = l + t
          BY <4>2
        <5>2. list[t].peer = s
          <6>1. new[l + t] = Posted(i, t, list[t])
            BY <1>4
          <6> QED
            BY <3>2, <5>1, <6>1 DEF Posted
        <5> QED
          BY <2>2, <2>6, <5>1, <5>2
      <4> QED
        BY <3>1, <4>1, <4>2
    <3>3. \A q \in 1 .. l : q \in 1 .. l + n /\ new[q] = open[q]
      BY <1>4
    <3>4. after = {new[q].at[1] : q \in {q \in 1 .. l + n : new[q].peer = s /\ ~new[q].done}}
      BY <1>0, <1>3, <1>4, Zenon DEF OpenRounds
    <3>5. before = {open[q].at[1] : q \in {q \in 1 .. l : open[q].peer = s /\ ~open[q].done}}
      BY <1>0, <1>5, Zenon DEF OpenRounds
    <3> HIDE DEF after, before
    <3>6. \A y : y \in after => y \in before \/ y = i
      BY <2>4, <3>2, <3>4, <3>5
    <3>7. \A y : y \in before => y \in after
      BY <3>3, <3>4, <3>5
    <3>8. i \in after
      BY <2>3, <2>4, <3>4
    <3> QED
      BY <3>6, <3>7, <3>8
  <2>8. i \in from
    <3>1. k \in DOMAIN list
      <4>1. Len(list) \in Nat
        BY <1>1, RoundFacts, LenProperties
      <4>2. n \in Nat /\ n <= Len(list)
        BY <1>0, <4>1
      <4> QED
        BY <1>2, <4>1, <4>2
    <3> QED
      BY <1>1, <2>1, <3>1, RequestFacts
  <2>9. \A y \in before : y < i /\ y \in Int
    BY <1>0, <1>5, <1>9, <2>5 DEF OpenRounds
  <2> HIDE DEF from, before, after
  <2>10. i \in Int /\ after \in SUBSET (1 .. last) /\ IsFiniteSet(before) /\ Cardinality(before) \in Nat
    <3>1. i \in Int
      BY <1>0, <1>2
    <3>2. after \in SUBSET (1 .. last)
      BY <1>8, <1>9, <2>7, <2>8
    <3>3. IsFiniteSet(before) /\ Cardinality(before) \in Nat
      BY <1>8, <1>9, <3>1, UptoType
    <3> QED
      BY <3>1, <3>2, <3>3
  <2>11. Cardinality(after) = Cardinality(before) + 1
    <3>1. i \notin before
      BY <2>9, <2>10
    <3> QED
      BY <2>7, <2>10, <3>1, FS_AddElement
  <2>12. Upto(after, i) = Cardinality(after)
    <3>1. {x \in after : x <= i} = after
      <4>1. \A x \in after : x <= i
        BY <2>7, <2>9, <2>10
      <4> QED
        BY <4>1
    <3> QED
      BY <3>1 DEF Upto
  <2>13. ASSUME NEW y \in before
         PROVE  Upto(after, y) = Upto(before, y)
    <3>1. {x \in after : x <= y} = {x \in before : x <= y}
      <4>1. ~(i <= y)
        BY <2>9, <2>10
      <4>2. \A x \in after : x <= y => x \in before
        BY <2>7, <4>1
      <4>3. \A x \in before : x \in after
        BY <2>7
      <4> QED
        BY <4>2, <4>3
    <3> QED
      BY <3>1 DEF Upto
  <2>14. met + Cardinality(after) = Number(from, c, i)
    BY <1>6, <1>10, <2>8, <2>10, <2>11
  <2>15. \A y \in after : y \in from /\ met + Upto(after, y) = Number(from, c, y)
    <3>1. TAKE y \in after
    <3>2. CASE y \in before
      BY <1>6, <2>13, <3>2, Zenon
    <3>3. CASE y = i
      BY <2>8, <2>12, <2>14, <3>3, Zenon
    <3> QED
      BY <2>7, <3>2, <3>3
  <2> QED
    BY <1>12, <2>14, <2>15, Zenon
<1> QED
  BY <1>13, <1>14

\* A rank that does nothing is where it was.
LEMMA Unmoved ==
  ASSUME NEW r, pc'[r] = pc[r], job' = job
  PROVE  Begun(r)' = Begun(r) /\ Through(r)' = Through(r)
<1>1. Begun(r)' = Begun(r)
  BY DEF Begun, Program
<1> QED
  BY <1>1 DEF Through, Program

\* A rank that has posted a round is in it, or has failed in it.
LEMMA PostInRound ==
  ASSUME Known, TypeOK, NEW r \in Ranks, NEW i, NEW c, NEW open, NEW buffers, NEW n, NEW m,
         Posts(r, i, c, open, buffers, n, m)
  PROVE  InRound(r)'
<1>0. /\ Ready(r, i, c, open) /\ Posting(r, i, c, open, buffers, n, m)
      /\ m \in 0 .. Len(Program(r)[i].send)
      /\ job' = job /\ call'[r] = c
  BY DEF Posts
<1>1. JobIsOne /\ i \in DOMAIN Program(r) /\ \A q \in Ranks : \A k \in DOMAIN wire[r][q] : ~wire[r][q][k].rndv
  BY <1>0 DEF Known, Ready
<1>2. i \in Nat \ {0} /\ Begun(r)' = i
  BY <1>0, <1>1, PostBegun DEF Posting
<1>3. /\ ListOK(r, recvs'[r], Listed(job, r, i))
      /\ n = Len(Program(r)[i].recv) => Len(recvs'[r]) = Len(Listed(job, r, i))
  BY PostListed, Zenon
<1>4. pc'[r] > 0 => n = Len(Program(r)[i].recv)
  <2>1. pc'[r] \in {i, -i} /\ (pc'[r] = i => n = Len(Program(r)[i].recv))
    BY <1>0, Zenon DEF Posting
  <2>2. pc'[r] > 0 => pc'[r] = i
    BY <1>2, <2>1
  <2> QED
    BY <2>1, <2>2
<1>5. ASSUME NEW d \in Ranks, NEW k \in DOMAIN wire'[r][d], wire'[r][d][k].rndv
      PROVE  wire'[r][d][k].call = c /\ wire'[r][d][k].round = i
  <2>1. CASE wire'[r][d] = wire[r][d]
    BY <1>1, <1>5, <2>1
  <2>2. CASE \E l \in 1 .. m : wire'[r][d] = Append(wire[r][d], Message(Program(r)[i].send[l], i, c, buffers))
    <3>1. PICK e, old : /\ wire'[r][d] = Append(old, e) /\ old = wire[r][d]
                        /\ e.call = c /\ e.round = i
      <4>1. PICK l \in 1 .. m : wire'[r][d] = Append(wire[r][d], Message(Program(r)[i].send[l], i, c, buffers))
        BY <2>2
      <4>2. PICK e : e = Message(Program(r)[i].send[l], i, c, buffers)
        OBVIOUS
      <4>3. e.call = c /\ e.round = i
        BY <4>2 DEF Message
      <4> QED
        BY <4>1, <4>2, <4>3
    <3>2. old \in Seq(Range(old)) /\ Len(old) \in Nat /\ DOMAIN old = 1 .. Len(old)
      BY <1>1, <3>1, TypeFacts
    <3>3. old \in Seq(Range(old) \union {e}) /\ e \in Range(old) \union {e}
      BY <3>2, SeqMonotonic
    <3>4. PICK new : new = wire'[r][d]
      OBVIOUS
    <3>5. /\ DOMAIN new = 1 .. Len(old) + 1
          /\ \A p \in 1 .. Len(old) : new[p] = old[p]
          /\ new[Len(old) + 1] = e
      BY <3>1, <3>3, <3>4, AppendProperties, LenProperties
    <3>6. PICK l : l = Len(old)
      OBVIOUS
    <3>7. k \in 1 .. l \/ k = l + 1
      <4>1. k \in 1 .. l + 1 /\ l \in Nat
        BY <3>2, <3>4, <3>5, <3>6
      <4> QED
        BY <4>1
    <3>8. CASE k \in 1 .. l
      BY <1>1, <1>5, <3>1, <3>2, <3>4, <3>5, <3>6, <3>8, Zenon
    <3>9. CASE k = l + 1
      BY <3>1, <3>4, <3>5, <3>6, <3>9, Zenon
    <3> QED
      BY <3>7, <3>8, <3>9
  <2> QED
    BY <1>0, <2>1, <2>2, Zenon DEF Posting
<1>6. Ranks' = Ranks
  BY <1>0 DEF Ranks
<1>7. /\ ListOK(r, recvs[r], Listed(job, r, Begun(r)))'
      /\ (pc[r] > 0 => Len(recvs[r]) = Len(Listed(job, r, Begun(r))))'
  BY <1>0, <1>2, <1>3, <1>4, Zenon DEF ListOK
<1> QED
  BY <1>0, <1>2, <1>5, <1>6, <1>7, Zenon DEF InRound

\* A post leaves every message with its receive.
LEMMA PostPaired ==
  ASSUME Known, TypeOK, TypeOK', Paired,
         NEW r \in Ranks, NEW i, NEW c, NEW open, NEW buffers, NEW n, NEW m,
         Posts(r, i, c, open, buffers, n, m), Alone(r), call'[r] >= call[r]
  PROVE  Paired'
<1>0. JobIsOne /\ job' = job /\ Ranks' = Ranks /\ \A s \in Ranks : call[s] \in Nat /\ call'[s] \in Nat
  <2>1. JobIsOne /\ job' = job /\ Ranks' = Ranks /\ JobIsOne'
    BY DEF Known, Posts, Ranks, JobIsOne
  <2>2. ASSUME NEW s \in Ranks PROVE call[s] \in Nat
    BY <2>1, TypeFacts
  <2>3. call' \in [Ranks -> 0 .. job.calls] /\ job.calls \in Nat
    BY <2>1, JobFacts DEF TypeOK
  <2> QED
    BY <2>1, <2>2, <2>3
<1>1. ASSUME NEW s \in Ranks, NEW d \in Ranks
      PROVE  \E met \in 0 .. call'[d] * Cardinality(RecvRounds(job, d, s)) :
               SentOK(s, d, met)' /\ ReceivedOK(s, d, met)'
  <2>1. PICK met \in 0 .. call[d] * Cardinality(RecvRounds(job, d, s)) :
          SentOK(s, d, met) /\ ReceivedOK(s, d, met)
    BY DEF Paired
  <2>2. PICK N : N = Cardinality(RecvRounds(job, d, s))
    OBVIOUS
  <2>3. N \in Nat
    BY <2>2, PairFacts
  <2>4. met \in Nat /\ met \in 0 .. call'[d] * N
    <3>1. call'[d] >= call[d] /\ call[d] \in Nat /\ call'[d] \in Nat
      BY <1>0 DEF Alone
    <3>2. call[d] * N <= call'[d] * N /\ call[d] * N \in Nat /\ call'[d] * N \in Nat
      BY <2>3, <3>1
    <3> QED
      BY <2>1, <2>2, <3>2
  <2>5. SentOK(s, d, met)'
    <3>1. CASE s = r
      BY <2>1, <2>4, <3>1, PostSent
    <3>2. CASE s # r
      <4>1. pc'[s] = pc[s] /\ call'[s] = call[s] /\ wire'[s] = wire[s]
        BY <3>2 DEF Alone
      <4>2. Begun(s)' = Begun(s)
        BY <1>0, <4>1, Unmoved
      <4>3. SendRounds(job, s, d)' = SendRounds(job, s, d) /\ \A x : SendOf(job, s, x, d)' = SendOf(job, s, x, d)
        BY <1>0 DEF SendRounds, SendOf
      <4> QED
        BY <2>1, <4>1, <4>2, <4>3, Zenon DEF SentOK
    <3> QED
      BY <3>1, <3>2
  <2>6. ReceivedOK(s, d, met)'
    <3>1. CASE d = r
      BY <2>1, <2>4, <3>1, PostReceived
    <3>2. CASE d # r
      <4>1. pc'[d] = pc[d] /\ call'[d] = call[d] /\ recvs'[d] = recvs[d]
        BY <3>2 DEF Alone
      <4>2. Begun(d)' = Begun(d)
        BY <1>0, <4>1, Unmoved
      <4>3. RecvRounds(job, d, s)' = RecvRounds(job, d, s) /\ OpenRounds(recvs[d], s)' = OpenRounds(recvs[d], s)
        BY <1>0, <4>1 DEF RecvRounds, OpenRounds
      <4> QED
        BY <2>1, <4>1, <4>2, <4>3, Zenon DEF ReceivedOK
    <3> QED
      BY <3>1, <3>2
  <2> QED
    BY <2>2, <2>4, <2>5, <2>6
<1>2. ASSUME NEW s \in Ranks
      PROVE  InRound(s)'
  <2>1. CASE s = r
    BY <2>1, PostInRound
  <2>2. CASE s # r
    <3>1. pc'[s] = pc[s] /\ call'[s] = call[s] /\ wire'[s] = wire[s] /\ recvs'[s] = recvs[s]
      BY <2>2 DEF Alone
    <3>2. Begun(s)' = Begun(s)
      BY <1>0, <3>1, Unmoved
    <3>3. InRound(s)
      BY DEF Paired
    <3>4. ListOK(s, recvs[s], Listed(job, s, Begun(s)))' <=> ListOK(s, recvs[s], Listed(job, s, Begun(s)))
      BY <1>0, <3>1, <3>2, Zenon DEF ListOK
    <3>5. /\ Listed(job, s, Begun(s))' = Listed(job, s, Begun(s))
          /\ Len(recvs[s])' = Len(recvs[s])
      BY <1>0, <3>1, <3>2 DEF Listed
    <3> SUFFICES ASSUME pc'[s] # 0
                 PROVE  /\ ListOK(s, recvs[s], Listed(job, s, Begun(s)))'
                        /\ pc'[s] > 0 => Len(recvs[s])' = Len(Listed(job, s, Begun(s)))'
                        /\ \A d \in Ranks' : \A l \in DOMAIN wire'[s][d] : wire'[s][d][l].rndv =>
                             wire'[s][d][l].call = call'[s] /\ wire'[s][d][l].round = Begun(s)'
      BY DEF InRound
    <3>6. /\ ListOK(s, recvs[s], Listed(job, s, Begun(s)))
          /\ pc[s] > 0 => Len(recvs[s]) = Len(Listed(job, s, Begun(s)))
          /\ \A d \in Ranks : \A l \in DOMAIN wire[s][d] : wire[s][d][l].rndv =>
               wire[s][d][l].call = call[s] /\ wire[s][d][l].round = Begun(s)
      BY <3>1, <3>3 DEF InRound
    <3>7. ListOK(s, recvs[s], Listed(job, s, Begun(s)))'
      BY <3>4, <3>6
    <3>8. pc'[s] > 0 => Len(recvs[s])' = Len(Listed(job, s, Begun(s)))'
      BY <3>1, <3>5, <3>6
    <3>9. \A d \in Ranks' : \A l \in DOMAIN wire'[s][d] : wire'[s][d][l].rndv =>
            wire'[s][d][l].call = call'[s] /\ wire'[s][d][l].round = Begun(s)'
      BY <1>0, <3>1, <3>2, <3>6
    <3> QED
      BY <3>7, <3>8, <3>9
  <2> QED
    BY <2>1, <2>2
<1>3. \A s, d \in Ranks : RecvRounds(job, d, s)' = RecvRounds(job, d, s)
  BY <1>0 DEF RecvRounds
<1> QED
  BY <1>0, <1>1, <1>2, <1>3, Zenon DEF Paired

\* Where the receives of a rank are in its program, in a call.
LEMMA PlacesOfReceives ==
  ASSUME Known, TypeOK, Paired, NEW r \in Ranks, pc[r] # 0
  PROVE  LET list == recvs[r]
             places == Listed(job, r, Begun(r))
         IN /\ Begun(r) \in DOMAIN Program(r)
            /\ Len(list) \in Nat /\ DOMAIN list = 1 .. Len(list)
            /\ Len(places) \in Nat /\ Len(list) <= Len(places)
            /\ \A k \in 1 .. Len(list) :
                 /\ k \in 1 .. Len(places) /\ list[k].at = places[k]
                 /\ list[k].peer = RecvAt(job, r, places[k]).peer
                 /\ list[k].slots = RecvAt(job, r, places[k]).slots
                 /\ list[k].at[1] \in Int /\ list[k].done \in BOOLEAN
<1>1. JobIsOne /\ ListOK(r, recvs[r], Listed(job, r, Begun(r)))
  BY DEF Known, Paired, InRound
<1>2. PICK list, places : list = recvs[r] /\ places = Listed(job, r, Begun(r))
  OBVIOUS
<1>3. Begun(r) \in DOMAIN Program(r)
  <2>1. /\ pc[r] \in Int /\ pc[r] <= Len(Program(r)) /\ pc[r] >= -Len(Program(r))
        /\ Len(Program(r)) \in Nat /\ DOMAIN Program(r) = 1 .. Len(Program(r))
    BY <1>1, TypeFacts, JobFacts
  <2> QED
    BY <2>1 DEF Begun
<1>4. Len(list) \in Nat /\ DOMAIN list = 1 .. Len(list) /\ list \in Seq(PostedReceive)
  BY <1>1, <1>2, TypeFacts, LenProperties
<1>5. Len(places) \in Nat
  BY <1>2, <1>3, ListedFacts, LenProperties
<1>6. Len(list) <= Len(places)
  BY <1>1, <1>2 DEF ListOK
<1>7. ASSUME NEW k \in 1 .. Len(list)
      PROVE  /\ k \in 1 .. Len(places) /\ list[k].at = places[k]
             /\ list[k].peer = RecvAt(job, r, places[k]).peer
             /\ list[k].slots = RecvAt(job, r, places[k]).slots
             /\ list[k].at[1] \in Int /\ list[k].done \in BOOLEAN
  <2>1. k \in 1 .. Len(places)
    BY <1>4, <1>5, <1>6
  <2>2. list[k] \in PostedReceive
    BY <1>4, ElementOfSeq
  <2>3. list[k].at[1] \in Int /\ list[k].done \in BOOLEAN
    BY <2>2 DEF PostedReceive
  <2>4. /\ list[k].at = places[k] /\ list[k].peer = RecvAt(job, r, places[k]).peer
        /\ list[k].slots = RecvAt(job, r, places[k]).slots
    BY <1>1, <1>2, <1>4, Zenon DEF ListOK
  <2> QED
    BY <2>1, <2>3, <2>4
<1> QED
  BY <1>2, <1>3, <1>4, <1>5, <1>6, <1>7, Zenon

\* Two receives for the same rank are of different rounds, the newer further down.
LEMMA NewerReceives ==
  ASSUME Known, TypeOK, Paired, NEW r \in Ranks, pc[r] # 0,
         NEW k \in 1 .. Len(recvs[r]), NEW l \in 1 .. Len(recvs[r]),
         k < l, recvs[r][k].peer = recvs[r][l].peer
  PROVE  recvs[r][k].at[1] < recvs[r][l].at[1]
<1>1. PICK list, places : list = recvs[r] /\ places = Listed(job, r, Begun(r))
  OBVIOUS
<1>2. /\ Begun(r) \in DOMAIN Program(r)
      /\ \A p \in 1 .. Len(list) :
           /\ p \in 1 .. Len(places) /\ list[p].at = places[p]
           /\ list[p].peer = RecvAt(job, r, places[p]).peer
  BY <1>1, PlacesOfReceives, Zenon
<1>3. RecvAt(job, r, places[k]).peer = RecvAt(job, r, places[l]).peer
  BY <1>1, <1>2
<1>4. places[k][1] < places[l][1]
  BY <1>1, <1>2, <1>3, ListedReceives, Zenon
<1> QED
  BY <1>1, <1>2, <1>4, Zenon

\* A message can only be met in a call, by a receive that names its sender.
LEMMA MeetsInCall ==
  ASSUME Known, TypeOK, BuffersReleased, Paired, NEW s \in Ranks, NEW d \in Ranks,
         NEW k \in 1 .. Len(recvs[d]), Meets(s, d, k)
  PROVE  pc[d] # 0 /\ recvs[d][k].peer = s
<1>1. pc[d] # 0
  <2>1. SUFFICES ASSUME pc[d] = 0 PROVE FALSE
    OBVIOUS
  <2>2. recvs[d] = <<>>
    BY <2>1 DEF BuffersReleased
  <2>3. Len(recvs[d]) = 0
    BY <2>2, EmptySeq
  <2> QED
    BY <2>3
<1>2. /\ Begun(d) \in DOMAIN Program(d)
      /\ k \in 1 .. Len(Listed(job, d, Begun(d)))
      /\ recvs[d][k].peer = RecvAt(job, d, Listed(job, d, Begun(d))[k]).peer
  BY <1>1, PlacesOfReceives, Zenon
<1>3. recvs[d][k].peer # AnySource
  <2>1. \A l \in 1 .. Len(Listed(job, d, Begun(d))) :
          RecvAt(job, d, Listed(job, d, Begun(d))[l]).peer # AnySource
    BY <1>2, ListedReceives
  <2> QED
    BY <1>2, <2>1, Zenon
<1> QED
  BY <1>1, <1>3 DEF Meets

\* The receive that is met is the oldest open one for its rank; the others are open
\* still.
LEMMA OldestMet ==
  ASSUME Known, TypeOK, BuffersReleased, Paired, NEW s \in Ranks, NEW d \in Ranks,
         NEW k \in 1 .. Len(recvs[d]), Meets(s, d, k)
  PROVE  LET y == recvs[d][k].at[1]
             open == OpenRounds(recvs[d], s)
         IN /\ y \in open /\ y \in Int
            /\ \A z \in open : z = y \/ y < z
            /\ \A list : (/\ DOMAIN list = DOMAIN recvs[d]
                          /\ \A l \in DOMAIN list : /\ list[l].at = recvs[d][l].at
                                                    /\ list[l].peer = recvs[d][l].peer
                                                    /\ list[l].done = (l = k \/ recvs[d][l].done)) =>
                 /\ OpenRounds(list, s) = open \ {y}
                 /\ \A q \in Ranks : q # s => OpenRounds(list, q) = OpenRounds(recvs[d], q)
<1>1. PICK old, n, y : old = recvs[d] /\ n = Len(old) /\ y = old[k].at[1]
  OBVIOUS
<1>2. pc[d] # 0 /\ old[k].peer = s
  BY <1>1, MeetsInCall
<1>3. /\ ~old[k].done /\ k \in 1 .. n
      /\ \A l \in 1 .. k - 1 : old[l].done \/ old[l].peer # s
  BY <1>1 DEF Meets
<1>4. /\ n \in Nat /\ DOMAIN old = 1 .. n
      /\ \A l \in 1 .. n : old[l].at[1] \in Int /\ old[l].done \in BOOLEAN
  BY <1>1, <1>2, PlacesOfReceives, Zenon
<1>5. \A q : OpenRounds(old, q) = {old[l].at[1] : l \in {l \in 1 .. n : old[l].peer = q /\ ~old[l].done}}
  BY <1>4, Zenon DEF OpenRounds
<1>6. y \in OpenRounds(old, s) /\ y \in Int
  BY <1>1, <1>2, <1>3, <1>4, <1>5
<1>7. ASSUME NEW l \in 1 .. n, old[l].peer = s, ~old[l].done
      PROVE  l = k \/ y < old[l].at[1]
  <2>1. l = k \/ k < l
    BY <1>3, <1>4, <1>7
  <2>2. ASSUME k < l
        PROVE  y < old[l].at[1]
    BY <1>1, <1>2, <1>7, <2>2, NewerReceives
  <2> QED
    BY <2>1, <2>2
<1>8. ASSUME NEW z \in OpenRounds(old, s)
      PROVE  z = y \/ y < z
  <2>1. PICK l \in 1 .. n : z = old[l].at[1] /\ old[l].peer = s /\ ~old[l].done
    BY <1>5
  <2> QED
    BY <1>1, <1>7, <2>1
<1>9. ASSUME NEW list, DOMAIN list = DOMAIN old,
             \A l \in DOMAIN list : /\ list[l].at = old[l].at /\ list[l].peer = old[l].peer
                                    /\ list[l].done = (l = k \/ old[l].done)
      PROVE  /\ OpenRounds(list, s) = OpenRounds(old, s) \ {y}
             /\ \A q \in Ranks : q # s => OpenRounds(list, q) = OpenRounds(old, q)
  <2>1. \A q : OpenRounds(list, q) = {list[l].at[1] : l \in {l \in 1 .. n : list[l].peer = q /\ ~list[l].done}}
    BY <1>4, <1>9, Zenon DEF OpenRounds
  <2>2. \A l \in 1 .. n : /\ list[l].at = old[l].at /\ list[l].peer = old[l].peer
                          /\ (~list[l].done <=> l # k /\ ~old[l].done)
    BY <1>4, <1>9, Zenon
  <2>3. \A q, z : z \in OpenRounds(list, q) <=>
          \E l \in 1 .. n : old[l].peer = q /\ l # k /\ ~old[l].done /\ z = old[l].at[1]
    BY <2>1, <2>2
  <2>4. \A q, z : z \in OpenRounds(old, q) <=>
          \E l \in 1 .. n : old[l].peer = q /\ ~old[l].done /\ z = old[l].at[1]
    BY <1>5
  <2>5. ASSUME NEW q \in Ranks, q # s
        PROVE  OpenRounds(list, q) = OpenRounds(old, q)
    <3>1. \A z : z \in OpenRounds(list, q) <=> z \in OpenRounds(old, q)
      BY <1>2, <2>3, <2>4, <2>5
    <3> QED
      BY <2>1, <1>5, <3>1
  <2>6. \A l \in 1 .. n : old[l].peer = s /\ l # k /\ ~old[l].done => old[l].at[1] # y
    BY <1>4, <1>6, <1>7
  <2>7. \A z : z \in OpenRounds(list, s) <=> z \in OpenRounds(old, s) /\ z # y
    BY <1>1, <2>3, <2>4, <2>6
  <2>8. OpenRounds(list, s) = OpenRounds(old, s) \ {y}
    BY <2>1, <1>5, <2>7
  <2> QED
    BY <2>5, <2>8
<1>10. \A list : (/\ DOMAIN list = DOMAIN old
                  /\ \A l \in DOMAIN list : /\ list[l].at = old[l].at
                                            /\ list[l].peer = old[l].peer
                                            /\ list[l].done = (l = k \/ old[l].done)) =>
         /\ OpenRounds(list, s) = OpenRounds(old, s) \ {y}
         /\ \A q \in Ranks : q # s => OpenRounds(list, q) = OpenRounds(old, q)
  BY <1>9
<1> QED
  BY <1>1, <1>6, <1>8, <1>10

\* A message only meets the receive it is meant for.
LEMMA MeetsFellows ==
  ASSUME Known, TypeOK, BuffersReleased, Paired, NEW s \in Ranks, NEW d \in Ranks,
         NEW k \in 1 .. Len(recvs[d]), Meets(s, d, k)
  PROVE  LET message == Head(wire[s][d])
             recv == recvs[d][k]
             y == recv.at[1]
         IN /\ message = wire[s][d][1] /\ 1 \in DOMAIN wire[s][d]
            /\ message.call = call[d]
            /\ Fellows(job, s, message.round, d, y)
            /\ message.slots = SendOf(job, s, message.round, d).slots
            /\ recv.at = Listed(job, d, Begun(d))[k] /\ k \in 1 .. Len(Listed(job, d, Begun(d)))
            /\ recv.slots = RecvOf(job, d, y, s).slots
            /\ recv.slots = RecvAt(job, d, recv.at).slots
            /\ \A met \in Nat : SentOK(s, d, met) /\ ReceivedOK(s, d, met) =>
                 met + 1 = Number(RecvRounds(job, d, s), call[d], y)
<1>1. PICK message, recv, y, open, from, to :
        /\ message = Head(wire[s][d]) /\ recv = recvs[d][k] /\ y = recv.at[1]
        /\ open = OpenRounds(recvs[d], s)
        /\ from = RecvRounds(job, d, s) /\ to = SendRounds(job, s, d)
  OBVIOUS
<1>2. message = wire[s][d][1] /\ 1 \in DOMAIN wire[s][d] /\ wire[s][d] # <<>>
  <2>1. wire[s][d] \in Seq(Range(wire[s][d])) /\ wire[s][d] # <<>>
    BY TypeFacts DEF Known, Meets
  <2>2. Len(wire[s][d]) \in Nat \ {0} /\ DOMAIN wire[s][d] = 1 .. Len(wire[s][d])
    BY <2>1, LenProperties, EmptySeq
  <2> QED
    BY <1>1, <2>1, <2>2
<1>3. pc[d] # 0 /\ recv.peer = s
  BY <1>1, MeetsInCall
<1>4. y \in open /\ y \in Int /\ \A z \in open : z = y \/ y < z
  BY <1>1, OldestMet
<1>5. Upto(open, y) = 1
  <2>1. {z \in open : z <= y} = {y}
    <3>1. \A z \in open : z <= y => z = y
      <4>1. TAKE z \in open
      <4>2. CASE z = y
        BY <4>2
      <4>3. CASE y < z /\ z # y
        <5>1. z \in Int
          BY <1>1, PlacesOfReceives, <1>3 DEF OpenRounds
        <5> QED
          BY <1>4, <4>3, <5>1
      <4> QED
        BY <1>4, <4>2, <4>3
    <3>2. y <= y
      BY <1>4
    <3> QED
      BY <1>4, <3>1, <3>2
  <2> QED
    BY <2>1, FS_Singleton DEF Upto
<1>6. ASSUME NEW met \in Nat, SentOK(s, d, met), ReceivedOK(s, d, met)
      PROVE  /\ met + 1 = Number(from, call[d], y) /\ y \in from
             /\ met + 1 = Number(to, message.call, message.round) /\ message.round \in to
             /\ message.slots = SendOf(job, s, message.round, d).slots
  <2>1. y \in from /\ met + Upto(open, y) = Number(from, call[d], y)
    BY <1>1, <1>4, <1>6, Zenon DEF ReceivedOK
  <2>2. /\ message.round \in to /\ met + 1 = Number(to, message.call, message.round)
        /\ message.slots = SendOf(job, s, message.round, d).slots
    BY <1>1, <1>2, <1>6, Zenon DEF SentOK
  <2> QED
    BY <1>5, <2>1, <2>2
<1>7. PICK met \in Nat : SentOK(s, d, met) /\ ReceivedOK(s, d, met)
  <2>1. PICK m \in 0 .. call[d] * Cardinality(from) : SentOK(s, d, m) /\ ReceivedOK(s, d, m)
    BY <1>1 DEF Paired
  <2>2. Cardinality(from) \in Nat /\ call[d] \in Nat
    BY <1>1, PairFacts, TypeFacts DEF Known
  <2>3. m \in Nat
    BY <2>1, <2>2
  <2> QED
    BY <2>1, <2>3
<1>8. message.call \in Nat /\ call[d] \in Nat
  <2>1. message.call \in 1 .. call[s] /\ call[s] \in Nat /\ call[d] \in Nat
    BY <1>2, TypeFacts DEF TypeOK, Known
  <2> QED
    BY <2>1
<1>9. message.call = call[d] /\ Fellows(job, s, message.round, d, y)
  <2>1. PICK c, e, x : c = message.call /\ e = call[d] /\ x = message.round
    OBVIOUS
  <2>2. /\ Number(SendRounds(job, s, d), c, x) = Number(RecvRounds(job, d, s), e, y)
        /\ x \in SendRounds(job, s, d) /\ y \in RecvRounds(job, d, s)
    BY <1>1, <1>6, <1>7, <2>1
  <2>3. c \in Nat /\ e \in Nat
    BY <1>8, <2>1
  <2>4. c = e /\ Fellows(job, s, x, d, y)
    BY <2>2, <2>3, NumberFellows
  <2> QED
    BY <2>1, <2>4
<1>10. PICK places : places = Listed(job, d, Begun(d))
  OBVIOUS
<1>11. /\ Begun(d) \in DOMAIN Program(d) /\ k \in 1 .. Len(places) /\ recv.at = places[k]
       /\ recv.peer = RecvAt(job, d, places[k]).peer
       /\ recv.slots = RecvAt(job, d, places[k]).slots
  BY <1>1, <1>3, <1>10, PlacesOfReceives, Zenon
<1>12. recv.slots = RecvOf(job, d, y, s).slots
  <2>1. RecvOf(job, d, places[k][1], RecvAt(job, d, places[k]).peer) = RecvAt(job, d, places[k])
    BY <1>10, <1>11, ListedReceives
  <2> QED
    BY <1>1, <1>3, <1>11, <2>1
<1> QED
  BY <1>1, <1>2, <1>6, <1>7, <1>9, <1>10, <1>11, <1>12, Zenon

\* A match leaves every other message with its receive.
LEMMA MatchPaired ==
  ASSUME Known, TypeOK, TypeOK', BuffersReleased, Paired, NEW s \in Ranks, NEW d \in Ranks, Match(s, d)
  PROVE  Paired'
<1>0. JobIsOne /\ job' = job /\ Ranks' = Ranks /\ pc' = pc /\ call' = call
  BY DEF Known, Match, Ranks
<1>1. PICK k \in 1 .. Len(recvs[d]) : Meeting(s, d, k)
  BY <1>0, MatchEffect
<1>2. /\ Meets(s, d, k)
      /\ Len(recvs'[d]) = Len(recvs[d])
      /\ \A l \in DOMAIN recvs[d] :
           /\ recvs'[d][l].at = recvs[d][l].at /\ recvs'[d][l].peer = recvs[d][l].peer
           /\ recvs'[d][l].slots = recvs[d][l].slots
           /\ recvs'[d][l].done = (l = k \/ recvs[d][l].done)
      /\ Len(wire'[s][d]) = Len(wire[s][d]) - 1
      /\ \A n \in 1 .. Len(wire[s][d]) - 1 : wire'[s][d][n] = wire[s][d][n + 1]
  BY <1>1, Zenon DEF Meeting
<1>3. /\ \A q, t \in Ranks : <<q, t>> # <<s, d>> => wire'[q][t] = wire[q][t]
      /\ \A q \in Ranks \ {d} : recvs'[q] = recvs[q]
      /\ wire'[s][d] = Tail(wire[s][d]) /\ wire[s][d] # <<>>
  BY <1>0, MatchEffect
<1>4. /\ DOMAIN recvs'[d] = DOMAIN recvs[d] /\ DOMAIN recvs[d] = 1 .. Len(recvs[d])
      /\ DOMAIN wire[s][d] = 1 .. Len(wire[s][d]) /\ Len(wire[s][d]) \in Nat \ {0}
      /\ DOMAIN wire'[s][d] = 1 .. Len(wire[s][d]) - 1
  <2>1. recvs[d] \in Seq(PostedReceive) /\ recvs'[d] \in Seq(PostedReceive)
    BY <1>0 DEF TypeOK
  <2>2. wire[s][d] \in Seq(Range(wire[s][d])) /\ wire'[s][d] \in Seq(Range(wire'[s][d]))
    BY <1>0 DEF TypeOK
  <2>3. DOMAIN wire[s][d] = 1 .. Len(wire[s][d]) /\ Len(wire[s][d]) \in Nat \ {0}
    BY <1>3, <2>2, LenProperties, EmptySeq
  <2>4. DOMAIN wire'[s][d] = 1 .. Len(wire'[s][d])
    BY <2>2, LenProperties
  <2> QED
    BY <1>2, <2>1, <2>3, <2>4, LenProperties
<1>5. \A r \in Ranks : Begun(r)' = Begun(r)
  BY <1>0, Unmoved
<1>6. \A q, t \in Ranks : /\ RecvRounds(job, q, t)' = RecvRounds(job, q, t)
                          /\ SendRounds(job, q, t)' = SendRounds(job, q, t)
                          /\ \A x : SendOf(job, q, x, t)' = SendOf(job, q, x, t)
  BY <1>0 DEF RecvRounds, SendRounds, SendOf
<1>7. PICK y, open : y = recvs[d][k].at[1] /\ open = OpenRounds(recvs[d], s)
  OBVIOUS
<1>8. /\ y \in open /\ y \in Int /\ \A z \in open : z = y \/ y < z
      /\ OpenRounds(recvs'[d], s) = open \ {y}
      /\ \A q \in Ranks : q # s => OpenRounds(recvs'[d], q) = OpenRounds(recvs[d], q)
  <2>1. PICK new : new = recvs'[d]
    OBVIOUS
  <2>2. /\ DOMAIN new = DOMAIN recvs[d]
        /\ \A l \in DOMAIN new : /\ new[l].at = recvs[d][l].at
                                 /\ new[l].peer = recvs[d][l].peer
                                 /\ new[l].done = (l = k \/ recvs[d][l].done)
    BY <1>2, <1>4, <2>1
  <2>3. /\ y \in open /\ y \in Int /\ \A z \in open : z = y \/ y < z
        /\ \A list : (/\ DOMAIN list = DOMAIN recvs[d]
                      /\ \A l \in DOMAIN list : /\ list[l].at = recvs[d][l].at
                                                /\ list[l].peer = recvs[d][l].peer
                                                /\ list[l].done = (l = k \/ recvs[d][l].done)) =>
             /\ OpenRounds(list, s) = open \ {y}
             /\ \A q \in Ranks : q # s => OpenRounds(list, q) = OpenRounds(recvs[d], q)
    BY <1>2, <1>7, OldestMet
  <2>4. /\ OpenRounds(new, s) = open \ {y}
        /\ \A q \in Ranks : q # s => OpenRounds(new, q) = OpenRounds(recvs[d], q)
    BY <2>2, <2>3
  <2> QED
    BY <2>1, <2>3, <2>4
<1>9. \A q, t \in Ranks : <<q, t>> # <<s, d>> => OpenRounds(recvs'[t], q) = OpenRounds(recvs[t], q)
  BY <1>3, <1>8
<1>10. ASSUME NEW q \in Ranks, NEW t \in Ranks
       PROVE  \E met \in 0 .. call[t] * Cardinality(RecvRounds(job, t, q)) :
                SentOK(q, t, met)' /\ ReceivedOK(q, t, met)'
  <2>1. PICK met \in 0 .. call[t] * Cardinality(RecvRounds(job, t, q)) :
          SentOK(q, t, met) /\ ReceivedOK(q, t, met)
    BY DEF Paired
  <2>2. CASE <<q, t>> # <<s, d>>
    <3>1. wire'[q][t] = wire[q][t] /\ OpenRounds(recvs'[t], q) = OpenRounds(recvs[t], q)
      BY <1>3, <1>9, <2>2
    <3>2. SentOK(q, t, met)'
      BY <1>0, <1>5, <1>6, <2>1, <3>1, Zenon DEF SentOK
    <3>3. ReceivedOK(q, t, met)'
      BY <1>0, <1>5, <1>6, <2>1, <3>1, Zenon DEF ReceivedOK
    <3> QED
      BY <2>1, <3>2, <3>3
  <2>3. CASE q = s /\ t = d
    <3>0. PICK from, to, N : /\ from = RecvRounds(job, d, s) /\ to = SendRounds(job, s, d)
                             /\ N = Cardinality(from)
      OBVIOUS
    <3>1. N \in Nat /\ call[d] \in Nat /\ \E n \in Nat : from \in SUBSET (1 .. n)
      <4>1. Len(Program(d)) \in Nat /\ from \in SUBSET (1 .. Len(Program(d))) /\ N \in Nat
        BY <3>0, PairFacts
      <4> QED
        BY <1>0, <4>1, TypeFacts
    <3>2. met \in Nat /\ call[d] * N \in Nat
      BY <2>1, <2>3, <3>0, <3>1
    <3>3. met + 1 = Number(from, call[d], y) /\ y \in from
      <4>1. met + 1 = Number(from, call[d], y)
        BY <1>2, <1>7, <2>1, <2>3, <3>0, <3>2, MeetsFellows
      <4>2. y \in from
        BY <1>7, <1>8, <2>1, <2>3, <3>0, Zenon DEF ReceivedOK
      <4> QED
        BY <4>1, <4>2
    <3>4. met + 1 \in 0 .. call[d] * N
      <4>1. Number(from, call[d], y) <= call[d] * N
        BY <1>8, <3>0, <3>1, NumberType
      <4> QED
        BY <3>2, <3>3, <4>1
    <3>5. SentOK(s, d, met + 1)'
      <4>1. PICK old, new, l : old = wire[s][d] /\ new = wire'[s][d] /\ l = Len(old)
        OBVIOUS
      <4>2. /\ l \in Nat /\ Len(new) = l - 1 /\ DOMAIN old = 1 .. l /\ DOMAIN new = 1 .. l - 1
            /\ \A n \in 1 .. l - 1 : new[n] = old[n + 1]
        BY <1>2, <1>4, <4>1, Zenon
      <4>3. PICK made : made = Number(to, call[s], Begun(s))
        OBVIOUS
      <4>4. /\ met + l <= made /\ (pc[s] >= 0 => met + l = made)
            /\ \A n \in 1 .. l : /\ old[n].round \in to /\ met + n = Number(to, old[n].call, old[n].round)
                                 /\ old[n].slots = SendOf(job, s, old[n].round, d).slots
        BY <2>1, <2>3, <3>0, <4>1, <4>2, <4>3, Zenon DEF SentOK
      <4>5. met + l = met + 1 + Len(new)
        BY <3>2, <4>2
      <4>6. \A n \in DOMAIN new :
              /\ new[n].round \in to /\ met + 1 + n = Number(to, new[n].call, new[n].round)
              /\ new[n].slots = SendOf(job, s, new[n].round, d).slots
        <5>1. TAKE n \in DOMAIN new
        <5>0. n \in 1 .. l - 1
          BY <4>2
        <5>2. PICK p : p = n + 1
          OBVIOUS
        <5>3. p \in 1 .. l /\ new[n] = old[p] /\ met + 1 + n = met + p
          <6>1. new[n] = old[p]
            BY <4>2, <5>0, <5>2
          <6>2. l \in Nat /\ met \in Nat
            BY <3>2, <4>2
          <6>3. p \in 1 .. l /\ met + 1 + n = met + p
            BY <5>0, <5>2, <6>2
          <6> QED
            BY <6>1, <6>3
        <5> QED
          BY <4>4, <5>3, Zenon
      <4>7. met + 1 + Len(new) <= made /\ (pc[s] >= 0 => met + 1 + Len(new) = made)
        BY <4>4, <4>5, Zenon
      <4> QED
        BY <1>0, <1>5, <1>6, <3>0, <4>1, <4>3, <4>6, <4>7, Zenon DEF SentOK
    <3>6. ReceivedOK(s, d, met + 1)'
      <4>1. PICK rest : rest = open \ {y}
        OBVIOUS
      <4>2. /\ pc[d] >= 0 => met + Cardinality(open) = Number(from, call[d], Begun(d))
            /\ \A z \in open : z \in from /\ met + Upto(open, z) = Number(from, call[d], z)
        BY <1>7, <2>1, <2>3, <3>0, Zenon DEF ReceivedOK
      <4>3. PICK last \in Nat : open \in SUBSET (1 .. last)
        BY <3>1, <4>2
      <4>4. IsFiniteSet(open) /\ Cardinality(open) \in Nat
        BY <1>8, <4>3, UptoType
      <4>5. IsFiniteSet(rest) /\ Cardinality(rest) = Cardinality(open) - 1
        BY <1>8, <4>1, <4>4, FS_RemoveElement
      <4>6. ASSUME NEW z \in rest
            PROVE  Upto(rest, z) = Upto(open, z) - 1 /\ Upto(open, z) \in Nat
        <5>1. z \in Int /\ y < z
          BY <1>8, <4>1, <4>3
        <5>2. IsFiniteSet({x \in open : x <= z}) /\ Upto(open, z) \in Nat
          BY <4>3, <5>1, UptoType
        <5>3. y \in {x \in open : x <= z}
          BY <1>8, <5>1
        <5>4. {x \in rest : x <= z} = {x \in open : x <= z} \ {y}
          BY <4>1
        <5>5. Cardinality({x \in open : x <= z} \ {y}) = Cardinality({x \in open : x <= z}) - 1
          BY <5>2, <5>3, FS_RemoveElement
        <5> QED
          BY <5>2, <5>4, <5>5 DEF Upto
      <4>7. pc[d] >= 0 => met + 1 + Cardinality(rest) = Number(from, call[d], Begun(d))
        BY <3>2, <4>2, <4>4, <4>5
      <4>8. \A z \in rest : z \in from /\ met + 1 + Upto(rest, z) = Number(from, call[d], z)
        <5>1. TAKE z \in rest
        <5>2. z \in open
          BY <4>1
        <5>3. z \in from /\ met + Upto(open, z) = Number(from, call[d], z)
          BY <4>2, <5>2
        <5>4. Upto(rest, z) = Upto(open, z) - 1 /\ Upto(open, z) \in Nat
          BY <4>6
        <5>5. met + 1 + Upto(rest, z) = met + Upto(open, z)
          BY <3>2, <5>4
        <5> QED
          BY <5>3, <5>5
      <4>9. OpenRounds(recvs[d], s)' = rest
        BY <1>8, <4>1 DEF OpenRounds
      <4> QED
        BY <1>0, <1>5, <1>6, <3>0, <4>7, <4>8, <4>9, Zenon DEF ReceivedOK
    <3> QED
      BY <2>3, <3>0, <3>4, <3>5, <3>6
  <2> QED
    BY <2>2, <2>3
<1>11. ASSUME NEW r \in Ranks
       PROVE  InRound(r)'
  <2>0. InRound(r)
    BY DEF Paired
  <2>1. ListOK(r, recvs[r], Listed(job, r, Begun(r))) => ListOK(r, recvs[r], Listed(job, r, Begun(r)))'
    <3>1. CASE r # d
      BY <1>0, <1>3, <1>5, <3>1, Zenon DEF ListOK
    <3>2. CASE r = d
      <4> SUFFICES ASSUME ListOK(d, recvs[d], Listed(job, d, Begun(d)))
                   PROVE  ListOK(d, recvs[d], Listed(job, d, Begun(d)))'
        BY <3>2
      <4>1. PICK old, new, places :
              old = recvs[d] /\ new = recvs'[d] /\ places = Listed(job, d, Begun(d))
        OBVIOUS
      <4>2. /\ Len(old) <= Len(places)
            /\ \A l \in DOMAIN old : /\ old[l].at = places[l]
                                    /\ old[l].peer = RecvAt(job, d, places[l]).peer
                                    /\ old[l].slots = RecvAt(job, d, places[l]).slots
        BY <4>1 DEF ListOK
      <4>3. /\ Len(new) = Len(old) /\ DOMAIN new = DOMAIN old
            /\ \A l \in DOMAIN old : /\ new[l].at = old[l].at /\ new[l].peer = old[l].peer
                                    /\ new[l].slots = old[l].slots
        BY <1>2, <1>4, <4>1, Zenon
      <4>4. ListOK(d, new, places)
        BY <4>2, <4>3 DEF ListOK
      <4>5. ListOK(d, recvs[d], Listed(job, d, Begun(d)))' <=> ListOK(d, new, places)
        <5>1. Listed(job, d, Begun(d))' = places
          BY <1>0, <1>5, <4>1 DEF Listed
        <5> QED
          BY <1>0, <4>1, <5>1, Zenon DEF ListOK
      <4> QED
        BY <4>4, <4>5
    <3> QED
      BY <3>1, <3>2
  <2>2. Len(recvs'[r]) = Len(recvs[r])
    BY <1>2, <1>3
  <2>3. ASSUME pc[r] # 0, NEW t \in Ranks, NEW n \in DOMAIN wire'[r][t], wire'[r][t][n].rndv
        PROVE  wire'[r][t][n].call = call[r] /\ wire'[r][t][n].round = Begun(r)
    <3>1. \E p \in DOMAIN wire[r][t] : wire'[r][t][n] = wire[r][t][p]
      <4>1. CASE <<r, t>> # <<s, d>>
        BY <1>3, <4>1
      <4>2. CASE r = s /\ t = d
        <5>1. n \in 1 .. Len(wire[s][d]) - 1 /\ n + 1 \in DOMAIN wire[s][d]
          BY <1>4, <4>2
        <5> QED
          BY <1>2, <4>2, <5>1
      <4> QED
        BY <4>1, <4>2
    <3> QED
      BY <2>0, <2>3, <3>1 DEF InRound
  <2> QED
    BY <1>0, <1>5, <2>0, <2>1, <2>2, <2>3, Zenon DEF InRound
<1> QED
  BY <1>0, <1>6, <1>10, <1>11, Zenon DEF Paired

\* What is kept of a list of receives, and of their places in the program: all but
\* some that are done.
Left(list, kept, places, open) ==
  /\ kept \in Seq(PostedReceive) /\ Len(kept) \in Nat /\ Len(kept) = Len(open)
  /\ DOMAIN kept = 1 .. Len(kept) /\ DOMAIN open = 1 .. Len(kept)
  /\ Len(list) \in Nat /\ DOMAIN list = 1 .. Len(list) /\ Len(places) = Len(list)
  /\ \A k \in 1 .. Len(kept) : \E l \in 1 .. Len(list) :
       kept[k] = list[l] /\ open[k] = places[l]
  /\ \A l \in 1 .. Len(list) :
       \/ list[l].done /\ \A k \in 1 .. Len(kept) : open[k] # places[l]
       \/ \E k \in 1 .. Len(kept) : kept[k] = list[l] /\ open[k] = places[l]

\* What the wait leaves of the receives of a rank.
LEMMA KeptReceives ==
  ASSUME Known, TypeOK, Paired, NEW r \in Ranks, Waited(r)
  PROVE  /\ pc[r] \in DOMAIN Program(r) /\ pc[r] \in Nat \ {0} /\ Begun(r) = pc[r]
         /\ Left(recvs[r], Open(r), Listed(job, r, pc[r]), job.plan[r][pc[r]].open)
<1>0. JobIsOne
  BY DEF Known
<1>1. /\ pc[r] \in DOMAIN Program(r) /\ pc[r] \in Nat \ {0} /\ Begun(r) = pc[r]
      /\ Open(r) \in Seq(PostedReceive)
  <2>1. Open(r) \in Seq(PostedReceive) /\ pc[r] \in DOMAIN Program(r) /\ pc[r] \in Nat
    BY <1>0, OpenType
  <2>2. pc[r] > 0
    BY DEF Waited
  <2> QED
    BY <2>1, <2>2 DEF Begun
<1>2. PICK list, kept, places, open, round, n, m :
        /\ list = recvs[r] /\ kept = Open(r) /\ places = Listed(job, r, pc[r])
        /\ open = job.plan[r][pc[r]].open /\ round = Program(r)[pc[r]]
        /\ n = Len(list) /\ m = Len(kept)
  OBVIOUS
<1>3. /\ list \in Seq(PostedReceive) /\ n \in Nat /\ DOMAIN list = 1 .. n /\ Len(places) = n
      /\ places \in Seq(Nat \X Nat)
  <2>1. Len(list) = Len(places)
    <3>1. InRound(r)
      BY DEF Paired
    <3>2. pc[r] # 0 /\ pc[r] > 0
      BY <1>1
    <3> QED
      BY <1>1, <1>2, <3>1, <3>2, Zenon DEF InRound
  <2>2. list \in Seq(PostedReceive)
    BY <1>0, <1>2, TypeFacts
  <2>3. places \in Seq(Nat \X Nat)
    BY <1>1, <1>2, ListedFacts
  <2> QED
    BY <1>2, <2>1, <2>2, <2>3, LenProperties
<1>4. /\ round.behind \in Nat /\ round.ahead \in Nat /\ kept = Kept(list, round)
      /\ open = Kept(places, round)
  <2>1. round.behind \in Nat /\ round.ahead \in Nat
    BY <1>0, <1>1, <1>2, RoundFacts
  <2>2. kept = Kept(list, round)
    BY <1>2 DEF Open
  <2>3. open = Kept(places, round)
    <3>1. OpenOK(job, r, pc[r])
      BY <1>1, PlanFacts
    <3>2. job.program[r] = Program(r)
      BY DEF Program
    <3> QED
      BY <1>2, <3>1, <3>2, Zenon DEF OpenOK
  <2> QED
    BY <2>1, <2>2, <2>3
<1>5. /\ m = IF round.behind + round.ahead >= n THEN n ELSE round.behind + round.ahead
      /\ \A k \in 1 .. m : kept[k] = list[Was(round, n, k)]
  <2>1. /\ Len(Kept(list, round)) =
             IF round.behind + round.ahead >= Len(list) THEN Len(list)
             ELSE round.behind + round.ahead
        /\ \A k \in 1 .. Len(Kept(list, round)) :
             Kept(list, round)[k] = list[Was(round, Len(list), k)]
    <3>1. list \in Seq(PostedReceive) /\ round.behind \in Nat /\ round.ahead \in Nat
      BY <1>3, <1>4
    <3> QED
      BY <3>1, KeptPlaces
  <2> QED
    BY <1>2, <1>4, <2>1, Zenon
<1>6. /\ open \in Seq(Nat \X Nat) /\ Len(open) = m
      /\ \A k \in 1 .. m : open[k] = places[Was(round, n, k)]
  <2>1. /\ Kept(places, round) \in Seq(Nat \X Nat)
        /\ Len(Kept(places, round)) =
             IF round.behind + round.ahead >= Len(places) THEN Len(places)
             ELSE round.behind + round.ahead
        /\ \A k \in 1 .. Len(Kept(places, round)) :
             Kept(places, round)[k] = places[Was(round, Len(places), k)]
    <3>1. places \in Seq(Nat \X Nat) /\ round.behind \in Nat /\ round.ahead \in Nat
      BY <1>3, <1>4
    <3> QED
      BY <3>1, KeptPlaces
  <2> QED
    BY <1>3, <1>4, <1>5, <2>1, Zenon
<1>7. /\ m \in Nat
      /\ \A k \in 1 .. m : Was(round, n, k) \in 1 .. n /\ Was(round, n, k) \notin Waits(round, n)
      /\ \A l \in 1 .. n : l \in Waits(round, n) \/ \E k \in 1 .. m : Was(round, n, k) = l
  <2>1. /\ m \in Nat
        /\ \A k \in 1 .. m : Was(round, n, k) \in 1 .. n \ Waits(round, n)
        /\ \A l \in 1 .. n \ Waits(round, n) : \E k \in 1 .. m : Was(round, n, k) = l
    <3>1. /\ n \in Nat /\ round.behind \in Nat /\ round.ahead \in Nat
          /\ m = IF round.behind + round.ahead >= n THEN n ELSE round.behind + round.ahead
      BY <1>3, <1>4, <1>5
    <3> QED
      BY <3>1, WasPlaces
  <2> QED
    BY <2>1
<1>8. DOMAIN kept = 1 .. m /\ DOMAIN open = 1 .. m
  <2>1. kept \in Seq(PostedReceive)
    BY <1>1, <1>2
  <2> QED
    BY <1>2, <1>6, <2>1, LenProperties, Zenon
<1>9. ASSUME NEW k \in 1 .. m
      PROVE  \E l \in 1 .. n : kept[k] = list[l] /\ open[k] = places[l]
  BY <1>5, <1>6, <1>7
<1>10. ASSUME NEW l \in 1 .. n
       PROVE  \/ list[l].done /\ \A k \in 1 .. m : open[k] # places[l]
              \/ \E k \in 1 .. m : kept[k] = list[l] /\ open[k] = places[l]
  <2>1. CASE l \in Waits(round, n)
    <3>1. Awaited(r) = Waits(round, n)
      BY <1>2 DEF Awaited, Waits
    <3>2. list[l].done
      BY <1>2, <2>1, <3>1 DEF Waited
    <3>3. ASSUME NEW k \in 1 .. m, open[k] = places[l]
          PROVE  FALSE
      <4>1. PICK w : w = Was(round, n, k)
        OBVIOUS
      <4>2. w \in 1 .. n /\ w # l /\ places[w] = places[l]
        BY <1>6, <1>7, <2>1, <3>3, <4>1, Zenon
      <4>3. \A p, q \in 1 .. Len(places) : p < q => places[p] # places[q]
        BY <1>1, <1>2, ListedReceives
      <4>4. w < l \/ l < w
        BY <1>3, <4>2
      <4> QED
        BY <1>3, <4>2, <4>3, <4>4, Zenon
    <3> QED
      BY <3>2, <3>3
  <2>2. CASE l \notin Waits(round, n)
    <3>1. PICK k \in 1 .. m : Was(round, n, k) = l
      BY <1>7, <2>2
    <3>2. kept[k] = list[l] /\ open[k] = places[l]
      BY <1>5, <1>6, <3>1
    <3> QED
      BY <3>2
  <2> QED
    BY <2>1, <2>2
<1>11. /\ kept \in Seq(PostedReceive) /\ m \in Nat /\ m = Len(open)
       /\ n \in Nat /\ DOMAIN list = 1 .. n /\ Len(places) = n
  BY <1>1, <1>2, <1>3, <1>6, <1>7
<1>12. Left(list, kept, places, open)
  <2>1. kept \in Seq(PostedReceive) /\ n = Len(list) /\ m = Len(kept)
    BY <1>1, <1>2
  <2> QED
    BY <1>8, <1>9, <1>10, <1>11, <2>1 DEF Left
<1> QED
  BY <1>1, <1>2, <1>12, Zenon

\* No receive that has met no message is waited for.
LEMMA KeptRounds ==
  ASSUME Known, TypeOK, Paired, NEW r \in Ranks, Waited(r), NEW q
  PROVE  OpenRounds(Open(r), q) = OpenRounds(recvs[r], q)
<1>1. PICK list, kept, n, m :
        list = recvs[r] /\ kept = Open(r) /\ n = Len(list) /\ m = Len(kept)
  OBVIOUS
<1>2. /\ DOMAIN list = 1 .. n /\ DOMAIN kept = 1 .. m
      /\ \A k \in 1 .. m : \E l \in 1 .. n : kept[k] = list[l]
      /\ \A l \in 1 .. n : list[l].done \/ \E k \in 1 .. m : kept[k] = list[l]
  <2>1. Left(recvs[r], Open(r), Listed(job, r, pc[r]), job.plan[r][pc[r]].open)
    BY KeptReceives
  <2> QED
    BY <1>1, <2>1, Zenon DEF Left
<1>3. OpenRounds(list, q) = {list[l].at[1] : l \in {l \in 1 .. n : list[l].peer = q /\ ~list[l].done}}
  BY <1>2, Zenon DEF OpenRounds
<1>4. OpenRounds(kept, q) = {kept[k].at[1] : k \in {k \in 1 .. m : kept[k].peer = q /\ ~kept[k].done}}
  BY <1>2, Zenon DEF OpenRounds
<1>5. ASSUME NEW z \in OpenRounds(list, q)
      PROVE  z \in OpenRounds(kept, q)
  <2>1. PICK l \in 1 .. n : z = list[l].at[1] /\ list[l].peer = q /\ ~list[l].done
    BY <1>3
  <2>2. PICK k \in 1 .. m : kept[k] = list[l]
    BY <1>2, <2>1
  <2> QED
    BY <1>4, <2>1, <2>2
<1>6. ASSUME NEW z \in OpenRounds(kept, q)
      PROVE  z \in OpenRounds(list, q)
  <2>1. PICK k \in 1 .. m : z = kept[k].at[1] /\ kept[k].peer = q /\ ~kept[k].done
    BY <1>4
  <2>2. PICK l \in 1 .. n : kept[k] = list[l]
    BY <1>2
  <2> QED
    BY <1>3, <2>1, <2>2
<1> QED
  BY <1>1, <1>3, <1>4, <1>5, <1>6

\* The receives that are left are where the annotation says.
LEMMA KeptListed ==
  ASSUME Known, TypeOK, Paired, NEW r \in Ranks, Waited(r)
  PROVE  ListOK(r, Open(r), job.plan[r][pc[r]].open)
<1>1. PICK list, kept, places, open, n, m :
        /\ list = recvs[r] /\ kept = Open(r) /\ places = Listed(job, r, pc[r])
        /\ open = job.plan[r][pc[r]].open /\ n = Len(list) /\ m = Len(kept)
  OBVIOUS
<1>2. /\ pc[r] \in Nat \ {0} /\ Begun(r) = pc[r] /\ m \in Nat /\ m = Len(open)
      /\ DOMAIN kept = 1 .. m /\ DOMAIN list = 1 .. n
      /\ \A k \in 1 .. m : \E l \in 1 .. n : kept[k] = list[l] /\ open[k] = places[l]
  <2>1. /\ Left(recvs[r], Open(r), Listed(job, r, pc[r]), job.plan[r][pc[r]].open)
        /\ pc[r] \in Nat \ {0} /\ Begun(r) = pc[r]
    BY KeptReceives
  <2>2. Left(list, kept, places, open)
    BY <1>1, <2>1
  <2> QED
    BY <1>1, <2>1, <2>2, Zenon DEF Left
<1>3. \A l \in 1 .. n : /\ list[l].at = places[l]
                        /\ list[l].peer = RecvAt(job, r, places[l]).peer
                        /\ list[l].slots = RecvAt(job, r, places[l]).slots
  <2>1. InRound(r) /\ pc[r] # 0
    BY <1>2 DEF Paired
  <2>2. ListOK(r, recvs[r], Listed(job, r, Begun(r)))
    BY <2>1, Zenon DEF InRound
  <2>3. ListOK(r, list, places)
    BY <1>1, <1>2, <2>2, Zenon
  <2> QED
    BY <1>2, <2>3, Zenon DEF ListOK
<1>4. ASSUME NEW k \in 1 .. m
      PROVE  /\ kept[k].at = open[k] /\ kept[k].peer = RecvAt(job, r, open[k]).peer
             /\ kept[k].slots = RecvAt(job, r, open[k]).slots
  <2>1. PICK l \in 1 .. n : kept[k] = list[l] /\ open[k] = places[l]
    BY <1>2
  <2> QED
    BY <1>3, <2>1
<1>5. Len(kept) <= Len(open)
  BY <1>1, <1>2
<1> QED
  BY <1>1, <1>2, <1>4, <1>5 DEF ListOK

\* A rank that is outside the library may post the first round of its next call.
LEMMA EnterReady ==
  ASSUME Known, TypeOK, BuffersReleased, NEW r \in Ranks, pc[r] = 0
  PROVE  Ready(r, 1, call[r] + 1, <<>>)
<1>0. JobIsOne
  BY DEF Known
<1>1. /\ call[r] \in Nat /\ call[r] + 1 \in Nat \ {0} /\ 1 \in DOMAIN Program(r)
      /\ Len(Program(r)) \in Nat \ {0} /\ Begun(r) = Len(Program(r)) /\ 1 - 1 = 0
      /\ pc[r] >= 0
  <2>1. call[r] \in Nat
    BY <1>0, TypeFacts
  <2>2. Len(Program(r)) \in Nat \ {0} /\ DOMAIN Program(r) = 1 .. Len(Program(r))
    BY <1>0, JobFacts
  <2> QED
    BY <2>1, <2>2 DEF Begun
<1>2. <<>> \in Seq(PostedReceive) /\ Len(<<>>) = 0 /\ DOMAIN <<>> = {}
  <2>1. DOMAIN <<>> = 1 .. 0
    OBVIOUS
  <2> QED
    BY <2>1, EmptySeq
<1>3. recvs[r] = <<>> /\ \A q \in Ranks : \A n \in DOMAIN wire[r][q] : ~wire[r][q][n].rndv
  BY DEF BuffersReleased
<1>4. job.plan[r][0].open = <<>>
  BY <1>1, PlanFacts DEF EndsOK
<1>5. ListOK(r, <<>>, <<>>)
  BY <1>2 DEF ListOK
<1>6. \A q : OpenRounds(<<>>, q) = {}
  BY <1>2 DEF OpenRounds
<1>7. ASSUME NEW q \in Ranks
      PROVE  /\ Number(SendRounds(job, r, q), call[r], Begun(r)) = Number(SendRounds(job, r, q), call[r] + 1, 0)
             /\ Number(RecvRounds(job, r, q), call[r], Begun(r)) = Number(RecvRounds(job, r, q), call[r] + 1, 0)
  <2>1. PICK n : n = Len(Program(r))
    OBVIOUS
  <2>2. /\ SendRounds(job, r, q) \in SUBSET (1 .. n) /\ RecvRounds(job, r, q) \in SUBSET (1 .. n)
        /\ n \in Nat /\ Begun(r) = n
    BY <1>1, <2>1, PairFacts
  <2>3. PICK to, from, c : /\ to = SendRounds(job, r, q) /\ from = RecvRounds(job, r, q)
                           /\ c = call[r]
    OBVIOUS
  <2>4. to \in SUBSET (1 .. n) /\ from \in SUBSET (1 .. n) /\ c \in Nat /\ n \in Nat
    BY <1>1, <2>2, <2>3
  <2>5. Number(to, c, n) = Number(to, c + 1, 0) /\ Number(from, c, n) = Number(from, c + 1, 0)
    BY <2>4, NumberSteps
  <2> QED
    BY <2>2, <2>3, <2>5, Zenon
<1> QED
  BY <1>1, <1>2, <1>3, <1>4, <1>5, <1>6, <1>7, Zenon DEF Ready

\* A rank that has waited may post the next round.
LEMMA AdvanceReady ==
  ASSUME Known, TypeOK, Paired, NEW r \in Ranks, Waited(r), pc[r] < Len(Program(r))
  PROVE  Ready(r, pc[r] + 1, call[r], Open(r))
<1>0. JobIsOne
  BY DEF Known
<1>1. /\ pc[r] \in Nat \ {0} /\ Begun(r) = pc[r] /\ Open(r) \in Seq(PostedReceive)
      /\ Len(Open(r)) = Len(job.plan[r][pc[r]].open)
  BY KeptReceives, Zenon DEF Left
<1>2. pc[r] + 1 \in DOMAIN Program(r) /\ pc[r] + 1 - 1 = pc[r] /\ pc[r] >= 0
  BY <1>0, <1>1, JobFacts
<1>3. call[r] \in Nat \ {0}
  <2>1. call[r] \in Nat
    BY <1>0, TypeFacts
  <2> QED
    BY <1>1, <2>1 DEF TypeOK
<1>4. \A q \in Ranks : \A n \in DOMAIN wire[r][q] : ~wire[r][q][n].rndv
  <2>1. \A q \in Ranks : DOMAIN wire[r][q] = 1 .. Len(wire[r][q])
    BY <1>0, TypeFacts
  <2> QED
    BY <2>1 DEF Waited
<1>5. \A q : OpenRounds(Open(r), q) = OpenRounds(recvs[r], q)
  BY KeptRounds
<1>6. ListOK(r, Open(r), job.plan[r][pc[r]].open)
  BY KeptListed
<1>7. PICK i, c : i = pc[r] + 1 /\ c = call[r]
  OBVIOUS
<1>8. /\ i \in DOMAIN Program(r) /\ c \in Nat \ {0} /\ i - 1 = Begun(r) /\ i - 1 = pc[r]
  BY <1>1, <1>2, <1>3, <1>7
<1>9. Ready(r, i, c, Open(r))
  BY <1>1, <1>2, <1>4, <1>5, <1>6, <1>7, <1>8, Zenon DEF Ready
<1> QED
  BY <1>7, <1>9, Zenon

\* A return leaves every message with its receive.
LEMMA ReturnPaired ==
  ASSUME Known, TypeOK, Paired, NEW r \in Ranks, Return(r)
  PROVE  Paired'
<1>0. /\ JobIsOne /\ job' = job /\ Ranks' = Ranks /\ Waited(r) /\ pc[r] = Len(Program(r))
      /\ pc' = [pc EXCEPT ![r] = 0] /\ recvs' = [recvs EXCEPT ![r] = Open(r)]
      /\ wire' = wire /\ call' = call
  BY DEF Known, Return, Ranks
<1>1. /\ pc'[r] = 0 /\ recvs'[r] = Open(r)
      /\ \A s \in Ranks \ {r} : pc'[s] = pc[s] /\ recvs'[s] = recvs[s]
      /\ \A s \in Ranks : call'[s] = call[s] /\ wire'[s] = wire[s]
  BY <1>0 DEF TypeOK
<1>2. pc[r] \in Nat \ {0} /\ Begun(r) = pc[r] /\ Begun(r)' = Begun(r)
  <2>1. pc[r] \in Nat \ {0} /\ Begun(r) = pc[r]
    BY <1>0, KeptReceives, Zenon
  <2>2. Begun(r)' = Len(Program(r))
    BY <1>0, <1>1 DEF Begun, Program
  <2> QED
    BY <1>0, <2>1, <2>2
<1>3. \A s \in Ranks : Begun(s)' = Begun(s)
  BY <1>0, <1>1, <1>2, Unmoved
<1>4. \A s, d \in Ranks : OpenRounds(recvs'[d], s) = OpenRounds(recvs[d], s)
  BY <1>0, <1>1, KeptRounds
<1>5. \A q, t \in Ranks : /\ RecvRounds(job, q, t)' = RecvRounds(job, q, t)
                          /\ SendRounds(job, q, t)' = SendRounds(job, q, t)
                          /\ \A x : SendOf(job, q, x, t)' = SendOf(job, q, x, t)
  BY <1>0 DEF RecvRounds, SendRounds, SendOf
<1>6. \A s \in Ranks : pc'[s] >= 0 => pc[s] >= 0
  BY <1>1, <1>2
<1>7. ASSUME NEW s \in Ranks, NEW d \in Ranks
      PROVE  \E met \in 0 .. call[d] * Cardinality(RecvRounds(job, d, s)) :
               SentOK(s, d, met)' /\ ReceivedOK(s, d, met)'
  <2>1. PICK met \in 0 .. call[d] * Cardinality(RecvRounds(job, d, s)) :
          SentOK(s, d, met) /\ ReceivedOK(s, d, met)
    BY DEF Paired
  <2>2. SentOK(s, d, met)'
    BY <1>0, <1>1, <1>3, <1>5, <1>6, <2>1, Zenon DEF SentOK
  <2>3. ReceivedOK(s, d, met)'
    BY <1>0, <1>1, <1>3, <1>4, <1>5, <1>6, <2>1, Zenon DEF ReceivedOK
  <2> QED
    BY <2>1, <2>2, <2>3
<1>8. ASSUME NEW s \in Ranks
      PROVE  InRound(s)'
  <2>1. CASE s = r
    BY <1>1, <2>1 DEF InRound
  <2>2. CASE s # r
    <3>1. /\ pc'[s] = pc[s] /\ call'[s] = call[s] /\ wire'[s] = wire[s] /\ recvs'[s] = recvs[s]
          /\ Begun(s)' = Begun(s)
      BY <1>1, <1>3, <2>2
    <3>2. InRound(s)
      BY DEF Paired
    <3>3. ListOK(s, recvs[s], Listed(job, s, Begun(s)))' <=> ListOK(s, recvs[s], Listed(job, s, Begun(s)))
      BY <1>0, <3>1, Zenon DEF ListOK
    <3> QED
      BY <1>0, <3>1, <3>2, <3>3, Zenon DEF InRound
  <2> QED
    BY <2>1, <2>2
<1> QED
  BY <1>0, <1>1, <1>5, <1>7, <1>8, Zenon DEF Paired

\* A rank that enters a call posts its first round.
LEMMA EnterPosts ==
  ASSUME Known, TypeOK, TypeOK', BuffersReleased, NEW r \in Ranks, Enter(r)
  PROVE  /\ \E n, m : Posts(r, 1, call[r] + 1, <<>>, Buffers(r, call[r] + 1), n, m)
         /\ Alone(r) /\ pc[r] = 0 /\ job' = job /\ Ranks' = Ranks
         /\ call[r] \in Nat /\ call'[r] = call[r] + 1
<1>0. /\ JobIsOne /\ job' = job /\ Ranks' = Ranks /\ pc[r] = 0
      /\ call' = [call EXCEPT ![r] = @ + 1]
      /\ Post(r, 1, call[r] + 1, <<>>, Buffers(r, call[r] + 1))
  BY DEF Known, Enter, Ranks
<1>1. Ready(r, 1, call[r] + 1, <<>>)
  BY <1>0, EnterReady
<1>2. 1 \in DOMAIN Program(r) /\ <<>> \in Seq(PostedReceive)
  BY <1>1 DEF Ready
<1>3. PICK c, buffers : c = call[r] + 1 /\ buffers = Buffers(r, call[r] + 1)
  OBVIOUS
<1>4. /\ \E n \in 0 .. Len(Program(r)[1].recv), m \in 0 .. Len(Program(r)[1].send) :
           Posting(r, 1, c, <<>>, buffers, n, m)
      /\ \A s \in Ranks \ {r} :
           pc'[s] = pc[s] /\ recvs'[s] = recvs[s] /\ wire'[s] = wire[s] /\ mem'[s] = mem[s]
  BY <1>0, <1>2, <1>3, PostEffect
<1>5. call'[r] = call[r] + 1 /\ \A s \in Ranks \ {r} : call'[s] = call[s]
  BY <1>0 DEF TypeOK
<1>6. recvs'[r] \in Seq(PostedReceive)
  BY <1>0 DEF TypeOK
<1>7. Alone(r)
  BY <1>4, <1>5 DEF Alone
<1>8. call[r] \in Nat
  BY <1>0, TypeFacts
<1>9. \E n, m : Posts(r, 1, c, <<>>, buffers, n, m)
  <2>1. PICK n \in 0 .. Len(Program(r)[1].recv), m \in 0 .. Len(Program(r)[1].send) :
          Posting(r, 1, c, <<>>, buffers, n, m)
    BY <1>4
  <2>2. Posts(r, 1, c, <<>>, buffers, n, m)
    BY <1>0, <1>1, <1>3, <1>5, <1>6, <2>1, Zenon DEF Posts
  <2> QED
    BY <2>2
<1> QED
  BY <1>0, <1>3, <1>5, <1>7, <1>8, <1>9, Zenon

\* A rank that advances posts its next round.
LEMMA AdvancePosts ==
  ASSUME Known, TypeOK, TypeOK', Paired, NEW r \in Ranks, Advance(r)
  PROVE  /\ \E n, m : Posts(r, pc[r] + 1, call[r], Open(r), Worked(r), n, m)
         /\ Alone(r) /\ Waited(r) /\ pc[r] < Len(Program(r)) /\ job' = job /\ Ranks' = Ranks
         /\ call[r] \in Nat /\ call'[r] = call[r]
<1>0. /\ JobIsOne /\ job' = job /\ Ranks' = Ranks /\ Waited(r) /\ pc[r] < Len(Program(r))
      /\ call' = call /\ Post(r, pc[r] + 1, call[r], Open(r), Worked(r))
  BY DEF Known, Advance, Ranks
<1>1. Ready(r, pc[r] + 1, call[r], Open(r))
  BY <1>0, AdvanceReady
<1>2. PICK i, c, open, buffers : /\ i = pc[r] + 1 /\ c = call[r] /\ open = Open(r)
                                 /\ buffers = Worked(r)
  OBVIOUS
<1>3. i \in DOMAIN Program(r) /\ open \in Seq(PostedReceive)
  BY <1>1, <1>2 DEF Ready
<1>4. /\ \E n \in 0 .. Len(Program(r)[i].recv), m \in 0 .. Len(Program(r)[i].send) :
           Posting(r, i, c, open, buffers, n, m)
      /\ \A s \in Ranks \ {r} :
           pc'[s] = pc[s] /\ recvs'[s] = recvs[s] /\ wire'[s] = wire[s] /\ mem'[s] = mem[s]
  <2>1. Post(r, i, c, open, buffers)
    BY <1>0, <1>2
  <2> QED
    BY <1>0, <1>3, <2>1, PostEffect
<1>5. recvs'[r] \in Seq(PostedReceive)
  BY <1>0 DEF TypeOK
<1>6. Alone(r)
  BY <1>0, <1>4 DEF Alone
<1>7. call[r] \in Nat
  BY <1>0, TypeFacts
<1>8. \E n, m : Posts(r, i, c, open, buffers, n, m)
  <2>1. PICK n \in 0 .. Len(Program(r)[i].recv), m \in 0 .. Len(Program(r)[i].send) :
          Posting(r, i, c, open, buffers, n, m)
    BY <1>4
  <2>2. Posts(r, i, c, open, buffers, n, m)
    BY <1>0, <1>1, <1>2, <1>5, <2>1, Zenon DEF Posts
  <2> QED
    BY <2>2
<1> QED
  BY <1>0, <1>2, <1>6, <1>7, <1>8, Zenon

\* Every step leaves every message with its receive.
LEMMA StepPaired ==
  ASSUME Known, TypeOK, TypeOK', BuffersReleased, Paired, [Next]_vars
  PROVE  Paired'
<1>1. ASSUME NEW r \in Ranks, Enter(r)
      PROVE  Paired'
  <2>1. PICK i, c, open, buffers, n, m : Posts(r, i, c, open, buffers, n, m)
    BY <1>1, EnterPosts
  <2>2. Alone(r) /\ call'[r] >= call[r]
    BY <1>1, EnterPosts
  <2> QED
    BY <2>1, <2>2, PostPaired
<1>2. ASSUME NEW r \in Ranks, Advance(r)
      PROVE  Paired'
  <2>1. PICK i, c, open, buffers, n, m : Posts(r, i, c, open, buffers, n, m)
    BY <1>2, AdvancePosts
  <2>2. Alone(r) /\ call'[r] >= call[r]
    BY <1>2, AdvancePosts
  <2> QED
    BY <2>1, <2>2, PostPaired
<1>3. ASSUME NEW r \in Ranks, Return(r)
      PROVE  Paired'
  BY <1>3, ReturnPaired
<1>4. ASSUME NEW s \in Ranks, NEW d \in Ranks, Match(s, d)
      PROVE  Paired'
  BY <1>4, MatchPaired
<1>5. CASE UNCHANGED vars
  <2>1. /\ job' = job /\ pc' = pc /\ call' = call /\ recvs' = recvs /\ wire' = wire
        /\ Ranks' = Ranks
    BY <1>5 DEF vars, Ranks
  <2>2. \A s \in Ranks : Begun(s)' = Begun(s)
    BY <2>1, Unmoved
  <2>3. \A q, t \in Ranks : /\ RecvRounds(job, q, t)' = RecvRounds(job, q, t)
                            /\ SendRounds(job, q, t)' = SendRounds(job, q, t)
                            /\ \A x : SendOf(job, q, x, t)' = SendOf(job, q, x, t)
    BY <2>1 DEF RecvRounds, SendRounds, SendOf
  <2>4. ASSUME NEW s \in Ranks, NEW d \in Ranks
        PROVE  \E met \in 0 .. call[d] * Cardinality(RecvRounds(job, d, s)) :
                 SentOK(s, d, met)' /\ ReceivedOK(s, d, met)'
    <3>1. PICK met \in 0 .. call[d] * Cardinality(RecvRounds(job, d, s)) :
            SentOK(s, d, met) /\ ReceivedOK(s, d, met)
      BY DEF Paired
    <3>2. SentOK(s, d, met)'
      BY <2>1, <2>2, <2>3, <3>1, Zenon DEF SentOK
    <3>3. ReceivedOK(s, d, met)'
      BY <2>1, <2>2, <2>3, <3>1, Zenon DEF ReceivedOK
    <3> QED
      BY <3>1, <3>2, <3>3
  <2>5. ASSUME NEW s \in Ranks
        PROVE  InRound(s)'
    <3>1. InRound(s)
      BY DEF Paired
    <3>2. ListOK(s, recvs[s], Listed(job, s, Begun(s)))' <=> ListOK(s, recvs[s], Listed(job, s, Begun(s)))
      BY <2>1, <2>2, Zenon DEF ListOK
    <3> QED
      BY <2>1, <2>2, <3>1, <3>2, Zenon DEF InRound
  <2> QED
    BY <2>1, <2>3, <2>4, <2>5, Zenon DEF Paired
<1> QED
  BY <1>1, <1>2, <1>3, <1>4, <1>5 DEF Next, RankStep, Finished

\* Before the first call there is nothing to pair.
LEMMA FirstPaired ==
  ASSUME Known, Init
  PROVE  Paired
<1>0. /\ JobIsOne /\ \A r \in Ranks : /\ pc[r] = 0 /\ call[r] = 0 /\ recvs[r] = <<>>
                                      /\ \A d \in Ranks : wire[r][d] = <<>>
  BY DEF Known, Init
<1>1. DOMAIN <<>> = {} /\ Len(<<>>) = 0
  BY EmptySeq
<1>2. \A r \in Ranks : InRound(r)
  BY <1>0 DEF InRound
<1>3. ASSUME NEW s \in Ranks, NEW d \in Ranks
      PROVE  \E met \in 0 .. call[d] * Cardinality(RecvRounds(job, d, s)) :
               SentOK(s, d, met) /\ ReceivedOK(s, d, met)
  <2>1. PICK to, from, n, m : /\ to = SendRounds(job, s, d) /\ from = RecvRounds(job, d, s)
                              /\ n = Len(Program(s)) /\ m = Len(Program(d))
    OBVIOUS
  <2>2. /\ n \in Nat /\ m \in Nat /\ to \in SUBSET (1 .. n) /\ from \in SUBSET (1 .. m)
        /\ Cardinality(from) \in Nat
    BY <2>1, PairFacts
  <2>3. Begun(s) = n /\ Begun(d) = m
    BY <1>0, <2>1 DEF Begun
  <2>4. ASSUME NEW k \in Nat, NEW rounds \in SUBSET (1 .. k)
        PROVE  Number(rounds, 0, k) = 0
    <3>1. Number(rounds, 0, k) = Number(rounds, 0 + 1, 0)
      BY NumberSteps
    <3>2. Upto(rounds, 0) = 0 /\ Cardinality(rounds) \in Nat
      <4>1. 0 \in Int
        OBVIOUS
      <4> QED
        BY <4>1, UptoEnds, UptoType, Zenon
    <3>3. (0 + 1 - 1) * Cardinality(rounds) + Upto(rounds, 0) = 0
      BY <3>2
    <3> QED
      BY <3>1, <3>3 DEF Number
  <2>5. Number(to, 0, n) = 0 /\ Number(from, 0, m) = 0
    BY <2>2, <2>4
  <2>6. SentOK(s, d, 0)
    <3>1. 0 + Len(wire[s][d]) = 0 /\ DOMAIN wire[s][d] = {}
      BY <1>0, <1>1
    <3>2. call[s] = 0
      BY <1>0
    <3> QED
      BY <2>1, <2>3, <2>5, <3>1, <3>2 DEF SentOK
  <2>7. ReceivedOK(s, d, 0)
    <3>1. OpenRounds(recvs[d], s) = {}
      BY <1>0, <1>1 DEF OpenRounds
    <3>2. 0 + Cardinality({}) = 0
      BY FS_EmptySet
    <3>3. call[d] = 0
      BY <1>0
    <3> QED
      BY <2>1, <2>3, <2>5, <3>1, <3>2, <3>3 DEF ReceivedOK
  <2>8. 0 \in 0 .. call[d] * Cardinality(RecvRounds(job, d, s))
    <3>1. call[d] = 0 /\ 0 * Cardinality(from) = 0
      BY <1>0, <2>2
    <3> QED
      BY <2>1, <3>1
  <2> QED
    BY <2>6, <2>7, <2>8
<1> QED
  BY <1>2, <1>3 DEF Paired

\* A job of the theorems stays one.
LEMMA JobKnown ==
  ASSUME AllProper
  PROVE  /\ JobIsOne /\ ~FromAny(job) => Known
         /\ [Next]_vars => job' = job /\ (FromAny(job)' <=> FromAny(job))
<1>1. JobIsOne => Proper(job)
  BY DEF AllProper, JobIsOne
<1>2. [Next]_vars => job' = job
  BY DEF Next, RankStep, Enter, Advance, Return, Match, Finished, vars
<1>3. job' = job => (FromAny(job)' <=> FromAny(job))
  OBVIOUS
<1> QED
  BY <1>1, <1>2, <1>3 DEF Known

\* Whatever the ranks' pace, and whatever posts fail, every message of a pair of
\* ranks is for the receive that is the next one of the pair.
THEOREM MessagesPaired ==
  ASSUME AllProper
  PROVE  Spec => [](~FromAny(job) => Paired)
<1>1. Init => (~FromAny(job) => Paired)
  <2> SUFFICES ASSUME Init, ~FromAny(job) PROVE Paired
    OBVIOUS
  <2>1. JobIsOne
    BY DEF Init, JobIsOne
  <2>2. Known
    BY <2>1, JobKnown
  <2> QED
    BY <2>2, FirstPaired
<1>2. JobIsOne /\ TypeOK /\ TypeOK' /\ BuffersReleased /\ (~FromAny(job) => Paired) /\ [Next]_vars
      => (~FromAny(job) => Paired)'
  <2> SUFFICES ASSUME JobIsOne, TypeOK, TypeOK', BuffersReleased, ~FromAny(job) => Paired,
                      [Next]_vars, ~FromAny(job)'
               PROVE  Paired'
    OBVIOUS
  <2>1. ~FromAny(job)
    BY JobKnown
  <2>2. Known
    BY <2>1, JobKnown
  <2> QED
    BY <2>1, <2>2, StepPaired
<1> QED
  BY <1>1, <1>2, JobStays, TypeCorrect, ReleasesBuffers, PTL DEF Spec

\* A message meets a receive of its own call, which is long enough for it, although
\* all calls and rounds use one tag.
THEOREM CallsKeepApart ==
  ASSUME AllProper
  PROVE  Spec => [](~FromAny(job) => NothingCrosses)
<1>1. JobIsOne /\ TypeOK /\ BuffersReleased /\ (~FromAny(job) => Paired)
      => (~FromAny(job) => NothingCrosses)
  <2> SUFFICES ASSUME JobIsOne, TypeOK, BuffersReleased, Paired, ~FromAny(job),
                      NEW s \in Ranks, NEW d \in Ranks, NEW k \in DOMAIN recvs[d], Meets(s, d, k)
               PROVE  /\ Head(wire[s][d]).call = call[d]
                      /\ Len(Head(wire[s][d]).slots) <= Len(recvs[d][k].slots)
    BY DEF NothingCrosses
  <2>1. Known /\ k \in 1 .. Len(recvs[d])
    BY JobKnown, TypeFacts
  <2>2. PICK message, recv, y : /\ message = Head(wire[s][d]) /\ recv = recvs[d][k]
                                /\ y = recv.at[1]
    OBVIOUS
  <2>3. /\ message.call = call[d]
        /\ Fellows(job, s, message.round, d, y)
        /\ message.slots = SendOf(job, s, message.round, d).slots
        /\ recv.slots = RecvOf(job, d, y, s).slots
    BY <2>1, <2>2, MeetsFellows
  <2>4. message.round \in SendRounds(job, s, d) /\ y \in RecvRounds(job, d, s)
    BY <2>3 DEF Fellows
  <2>5. Len(SendOf(job, s, message.round, d).slots) <= Len(RecvOf(job, d, y, s).slots)
    BY <2>1, <2>3, <2>4, PairFacts
  <2> QED
    BY <2>2, <2>3, <2>5
<1> QED
  BY <1>1, JobStays, TypeCorrect, ReleasesBuffers, MessagesPaired, PTL

-----------------------------------------------------------------------------
(* Nobody leaves early.                                                    *)

\* A receive that is waited for, and all before it from the same rank, have met
\* their messages: the sender has been in the round it sends the message in.
LEMMA ClosedReached ==
  ASSUME Known, TypeOK, Paired, NEW r \in Ranks, Waited(r), NEW q \in Ranks,
         NEW x, NEW y \in 1 .. pc[r], Fellows(job, q, x, r, y),
         LET open == job.plan[r][pc[r]].open IN
           \A k \in DOMAIN open : RecvAt(job, r, open[k]).peer = q => open[k][1] > y
  PROVE  /\ x \in 1 .. Len(Program(q))
         /\ call[r] < call[q] \/ (call[r] = call[q] /\ x <= Begun(q))
<1>0. JobIsOne
  BY DEF Known
<1>1. PICK to, from, open, i, c :
        /\ to = SendRounds(job, q, r) /\ from = RecvRounds(job, r, q)
        /\ open = OpenRounds(recvs[r], q) /\ i = pc[r] /\ c = call[r]
  OBVIOUS
<1>2. /\ i \in DOMAIN Program(r) /\ i \in Nat \ {0} /\ Begun(r) = i
      /\ ListOK(r, Open(r), job.plan[r][i].open)
      /\ Left(recvs[r], Open(r), Listed(job, r, i), job.plan[r][i].open)
      /\ open = OpenRounds(Open(r), q)
  BY <1>1, KeptReceives, KeptListed, KeptRounds
<1>3. PICK n, m, N : n = Len(Program(q)) /\ m = Len(Program(r)) /\ N = Cardinality(from)
  OBVIOUS
<1>4. /\ n \in Nat /\ m \in Nat /\ to \in SUBSET (1 .. n) /\ from \in SUBSET (1 .. m)
      /\ N \in Nat /\ Cardinality(to) = N
  BY <1>1, <1>3, PairFacts
<1>5. x \in to /\ y \in from /\ Upto(to, x) = Upto(from, y) /\ x \in 1 .. n /\ y \in Int /\ y <= i
  <2>1. x \in to /\ y \in from /\ Upto(to, x) = Upto(from, y)
    BY <1>1 DEF Fellows
  <2>2. y \in Int /\ y <= i
    BY <1>1, <1>2
  <2> QED
    BY <1>4, <2>1, <2>2
<1>6. c \in Nat /\ call[q] \in Nat
  BY <1>0, <1>1, TypeFacts
\* The open receives are later ones of this round's and earlier rounds.
<1>7. ASSUME NEW z \in open
      PROVE  z \in Int /\ y < z /\ z <= i
  <2>1. PICK kept, places, all : /\ kept = Open(r) /\ places = job.plan[r][i].open
                                 /\ all = Listed(job, r, i)
    OBVIOUS
  <2>2. PICK k \in DOMAIN kept : z = kept[k].at[1] /\ kept[k].peer = q
    BY <1>2, <2>1 DEF OpenRounds
  <2>3. k \in DOMAIN places
    BY <1>2, <2>1 DEF Left
  <2>4. kept[k].at = places[k] /\ kept[k].peer = RecvAt(job, r, places[k]).peer
    BY <1>2, <2>1 DEF ListOK
  <2>5. z = places[k][1] /\ places[k][1] > y
    BY <1>1, <2>1, <2>2, <2>3, <2>4
  <2>6. PICK l \in 1 .. Len(all) : places[k] = all[l]
    BY <1>2, <2>1, <2>2, <2>3 DEF Left
  <2>7. all[l][1] \in 1 .. i
    BY <1>2, <2>1, ListedReceives
  <2>8. z \in 1 .. i /\ z > y
    BY <2>5, <2>6, <2>7
  <2> QED
    BY <1>2, <1>5, <2>8
<1>8. PICK met \in 0 .. c * N : SentOK(q, r, met) /\ ReceivedOK(q, r, met)
  BY <1>1, <1>3 DEF Paired
<1>9. met \in Nat
  BY <1>4, <1>6
<1>10. met + Cardinality(open) = Number(from, c, i) /\ open \subseteq from
  <2>1. pc[r] >= 0
    BY <1>1, <1>2
  <2> QED
    BY <1>1, <1>2, <1>8, <2>1, Zenon DEF ReceivedOK
<1>11. Cardinality(open) \in Nat /\ Cardinality(open) + Upto(from, y) <= Upto(from, i)
  <2>1. PICK below, upto : below = {z \in from : z <= y} /\ upto = {z \in from : z <= i}
    OBVIOUS
  <2>2. IsFiniteSet(below) /\ IsFiniteSet(upto) /\ IsFiniteSet(from) /\ i \in Int
    <3>1. i \in Int
      BY <1>2
    <3> QED
      BY <1>4, <1>5, <2>1, <3>1, UptoType
  <2>3. IsFiniteSet(open)
    BY <1>10, <2>2, FS_Subset
  <2>4. open \intersect below = {}
    BY <1>5, <1>7, <2>1
  <2>5. Cardinality(open \union below) = Cardinality(open) + Cardinality(below)
    <3>1. Cardinality(open \union below) =
            Cardinality(open) + Cardinality(below) - Cardinality(open \intersect below)
      BY <2>2, <2>3, FS_Union
    <3>2. Cardinality(open \intersect below) = 0
      BY <2>4, FS_EmptySet
    <3>3. Cardinality(open) \in Nat /\ Cardinality(below) \in Nat
      BY <2>2, <2>3, FS_CardinalityType
    <3> QED
      BY <3>1, <3>2, <3>3
  <2>6. open \union below \subseteq upto
    <3>1. \A z \in below : z \in upto
      <4>1. TAKE z \in below
      <4>2. z \in from /\ z <= y /\ z \in Int
        BY <1>4, <2>1
      <4>3. z <= i
        BY <1>2, <1>5, <4>2
      <4> QED
        BY <2>1, <4>2, <4>3
    <3>2. \A z \in open : z \in upto
      BY <1>7, <1>10, <2>1
    <3> QED
      BY <3>1, <3>2
  <2>7. Cardinality(open \union below) <= Cardinality(upto)
    BY <2>2, <2>6, FS_Subset
  <2>8. Cardinality(below) = Upto(from, y) /\ Cardinality(upto) = Upto(from, i)
    BY <2>1 DEF Upto
  <2> QED
    BY <2>3, <2>5, <2>7, <2>8, FS_CardinalityType
<1>12. Number(to, c, x) <= met
  <2>1. PICK a : a = (c - 1) * N
    OBVIOUS
  <2>2. a \in Int
    BY <1>4, <1>6, <2>1
  <2>3. Number(to, c, x) = a + Upto(to, x) /\ Number(from, c, i) = a + Upto(from, i)
    BY <1>3, <1>4, <2>1 DEF Number
  <2>4. Upto(from, i) \in Nat /\ Upto(from, y) \in Nat
    <3>1. i \in Int
      BY <1>2
    <3> QED
      BY <1>4, <1>5, <3>1, UptoType
  <2> QED
    BY <1>5, <1>9, <1>10, <1>11, <2>2, <2>3, <2>4
<1>13. met <= Number(to, call[q], Begun(q)) /\ Begun(q) \in Int
  <2>1. met + Len(wire[q][r]) <= Number(to, call[q], Begun(q))
    BY <1>1, <1>8, Zenon DEF SentOK
  <2>2. Len(wire[q][r]) \in Nat
    BY <1>0, TypeFacts
  <2>3. pc[q] \in Int /\ Len(Program(q)) \in Nat
    BY <1>0, TypeFacts, JobFacts
  <2>4. Begun(q) \in Int
    BY <2>3 DEF Begun
  <2>5. Number(to, call[q], Begun(q)) \in Int
    BY <1>4, <1>6, <2>4, NumberType
  <2> QED
    BY <1>9, <2>1, <2>2, <2>4, <2>5
<1>14. Number(to, c, x) <= Number(to, call[q], Begun(q))
  <2>1. Number(to, call[q], Begun(q)) \in Int /\ Number(to, c, x) \in Int
    <3>1. x \in Int
      BY <1>5
    <3> QED
      BY <1>4, <1>6, <1>13, <3>1, NumberType
  <2> QED
    BY <1>9, <1>12, <1>13, <2>1
<1>15. c < call[q] \/ (c = call[q] /\ x <= Begun(q))
  <2>1. PICK e, b : e = call[q] /\ b = Begun(q)
    OBVIOUS
  <2>2. Number(to, c, x) <= Number(to, e, b) /\ e \in Nat /\ b \in Int
    BY <1>6, <1>13, <1>14, <2>1
  <2>3. c < e \/ (c = e /\ x <= b)
    BY <1>4, <1>5, <1>6, <2>2, NumberReached
  <2> QED
    BY <2>1, <2>3
<1> QED
  BY <1>1, <1>3, <1>5, <1>15

\* What a rank should know after it has waited has happened.
LEMMA WaitInforms ==
  ASSUME Known, TypeOK, Paired, Informed, NEW r \in Ranks, Waited(r),
         NEW t \in job.plan[r][pc[r]].knows
  PROVE  t \in Ranks /\ call[t] >= call[r]
<1>0. JobIsOne /\ Ranks = All(job)
  BY JobFacts DEF Known
<1>1. pc[r] \in DOMAIN Program(r) /\ pc[r] \in Nat \ {0} /\ Begun(r) = pc[r]
  BY KeptReceives
<1>2. KnowsOK(job, r, pc[r])
  BY <1>1, PlanFacts
<1>3. call[r] \in Nat \ {0}
  <2>1. call[r] \in Nat
    BY <1>0, TypeFacts
  <2> QED
    BY <1>1, <2>1 DEF TypeOK
<1>4. CASE t \in job.plan[r][pc[r] - 1].knows
  <2>1. PICK i, c : i = pc[r] - 1 /\ c = call[r]
    OBVIOUS
  <2>2. i \in 0 .. Len(Program(r)) /\ i <= Through(r) /\ c \in 1 .. call[r]
    <3>1. pc[r] <= Len(Program(r)) /\ Len(Program(r)) \in Nat
      BY <1>0, TypeFacts, JobFacts
    <3>2. Through(r) = pc[r] - 1
      BY <1>1 DEF Through
    <3> QED
      BY <1>1, <1>3, <2>1, <3>1, <3>2
  <2>3. t \in job.plan[r][i].knows
    BY <1>4, <2>1
  <2>4. t \in Ranks /\ call[t] >= c
    BY <2>2, <2>3 DEF Informed
  <2> QED
    BY <2>1, <2>4
<1>5. CASE t \notin job.plan[r][pc[r] - 1].knows
  <2>1. PICK q \in All(job), y \in 1 .. pc[r], x \in UNION {DOMAIN job.program[s] : s \in All(job)} :
          /\ Fellows(job, q, x, r, y)
          /\ t \in job.plan[q][x - 1].knows \union {q}
          /\ \A k \in DOMAIN job.plan[r][pc[r]].open :
               RecvAt(job, r, job.plan[r][pc[r]].open[k]).peer = q => job.plan[r][pc[r]].open[k][1] > y
    BY <1>2, <1>5, Zenon DEF KnowsOK
  <2>2. q \in Ranks
    BY <1>0
  <2>3. /\ x \in 1 .. Len(Program(q))
        /\ call[r] < call[q] \/ (call[r] = call[q] /\ x <= Begun(q))
    BY <2>1, <2>2, ClosedReached
  <2>4. call[q] \in Nat /\ Len(Program(q)) \in Nat /\ Begun(q) \in Int
        /\ Begun(q) - 1 <= Through(q) /\ Through(q) \in Int
    <3>1. call[q] \in Nat /\ Len(Program(q)) \in Nat /\ pc[q] \in Int
      BY <1>0, <2>2, TypeFacts, JobFacts
    <3> QED
      BY <3>1 DEF Begun, Through
  <2>5. CASE t = q
    BY <1>3, <2>2, <2>3, <2>4, <2>5
  <2>6. CASE t \in job.plan[q][x - 1].knows
    <3>1. PICK i, c : i = x - 1 /\ c = call[r]
      OBVIOUS
    <3>2. i \in 0 .. Len(Program(q)) /\ c \in 1 .. call[q] /\ (c < call[q] \/ i <= Through(q))
      BY <1>3, <2>3, <2>4, <3>1
    <3>3. t \in job.plan[q][i].knows
      BY <2>6, <3>1
    <3>4. t \in Ranks /\ call[t] >= c
      BY <2>2, <3>2, <3>3 DEF Informed
    <3> QED
      BY <3>1, <3>4
  <2> QED
    BY <2>1, <2>5, <2>6
<1> QED
  BY <1>4, <1>5

\* What rank r should know has happened.
InformedOf(r) == \A c \in 1 .. call[r], i \in 0 .. Len(Program(r)) :
  c < call[r] \/ i <= Through(r) =>
    \A t \in job.plan[r][i].knows : t \in Ranks /\ call[t] >= c

\* What has happened has happened, and a step only has to add what is new.
LEMMA StaysInformed ==
  ASSUME TypeOK, Informed, job' = job, Ranks' = Ranks,
         \A s \in Ranks : call[s] \in Nat /\ call'[s] \in Nat /\ call'[s] >= call[s],
         NEW r \in Ranks,
         \A c \in 1 .. call'[r], i \in 0 .. Len(Program(r)) :
           \/ c < call'[r] \/ i <= Through(r)' => c <= call[r] /\ (c < call[r] \/ i <= Through(r))
           \/ \A t \in job.plan[r][i].knows : t \in Ranks /\ call[t] >= c
  PROVE  InformedOf(r)'
<1>1. ASSUME NEW c \in 1 .. call'[r], NEW i \in 0 .. Len(Program(r)),
             c < call'[r] \/ i <= Through(r)', NEW t \in job.plan[r][i].knows
      PROVE  t \in Ranks /\ call'[t] >= c
  <2>1. t \in Ranks /\ call[t] >= c
    <3>1. CASE \A u \in job.plan[r][i].knows : u \in Ranks /\ call[u] >= c
      BY <1>1, <3>1
    <3>2. CASE c <= call[r] /\ (c < call[r] \/ i <= Through(r))
      <4>1. c \in 1 .. call[r]
        BY <3>2
      <4> QED
        BY <1>1, <3>2, <4>1, Zenon DEF Informed
    <3> QED
      BY <1>1, <3>1, <3>2
  <2>2. call[t] \in Nat /\ call'[t] \in Nat /\ call'[t] >= call[t]
    BY <2>1
  <2> QED
    BY <2>1, <2>2
<1>2. Program(r)' = Program(r)
  BY DEF Program
<1> QED
  BY <1>1, <1>2, Zenon DEF InformedOf

\* Every step leaves the ranks informed.
LEMMA StepInformed ==
  ASSUME Known, TypeOK, TypeOK', BuffersReleased, Paired, Informed, [Next]_vars
  PROVE  Informed'
<1>0. JobIsOne /\ job' = job /\ Ranks' = Ranks /\ JobIsOne' /\ \A s \in Ranks : Program(s)' = Program(s)
  <2>1. JobIsOne /\ job' = job
    BY DEF Known, Next, RankStep, Enter, Advance, Return, Match, Finished, vars
  <2> QED
    BY <2>1 DEF JobIsOne, Ranks, Program
<1>1. \A s \in Ranks : call[s] \in Nat /\ call'[s] \in Nat
  <2>1. \A s \in Ranks : call[s] \in Nat
    BY <1>0, TypeFacts
  <2>2. call' \in [Ranks -> 0 .. job.calls] /\ job.calls \in Nat
    BY <1>0, JobFacts DEF TypeOK
  <2> QED
    BY <2>1, <2>2
<1>2. SUFFICES ASSUME NEW s \in Ranks
               PROVE  InformedOf(s)'
  BY <1>0 DEF Informed, InformedOf
\* A rank that has done nothing has learnt nothing.
<1>3. ASSUME pc'[s] = pc[s], call'[s] = call[s], \A t \in Ranks : call'[t] >= call[t]
      PROVE  InformedOf(s)'
  <2>1. Through(s)' = Through(s)
    BY <1>0, <1>3, Unmoved
  <2>2. \A c \in 1 .. call'[s], i \in 0 .. Len(Program(s)) :
          c < call'[s] \/ i <= Through(s)' => c <= call[s] /\ (c < call[s] \/ i <= Through(s))
    BY <1>1, <1>3, <2>1
  <2> QED
    BY <1>0, <1>1, <1>3, <2>2, StaysInformed
<1>4. ASSUME NEW r \in Ranks, Enter(r)
      PROVE  InformedOf(s)'
  <2>1. Alone(r) /\ pc[r] = 0 /\ call'[r] = call[r] + 1
    BY <1>4, EnterPosts
  <2>2. \A t \in Ranks : call'[t] >= call[t]
    <3>1. TAKE t \in Ranks
    <3>2. CASE t = r
      BY <1>1, <2>1, <3>2
    <3>3. CASE t # r
      BY <1>1, <2>1, <3>3 DEF Alone
    <3> QED
      BY <3>2, <3>3
  <2>3. CASE s # r
    BY <1>3, <2>1, <2>2, <2>3 DEF Alone
  <2>4. CASE s = r
    <3>1. Through(r)' = 0
      <4>1. PICK n, m : Posts(r, 1, call[r] + 1, <<>>, Buffers(r, call[r] + 1), n, m)
        BY <1>4, EnterPosts
      <4>2. 1 \in DOMAIN Program(r) /\ pc'[r] \in {1, -1}
        BY <4>1 DEF Posts, Posting, Ready
      <4> QED
        BY <1>0, <4>2, PostBegun
    <3>2. job.plan[r][0].knows = {}
      <4>1. 1 \in DOMAIN Program(r)
        BY <1>0, JobFacts
      <4> QED
        BY <4>1, PlanFacts DEF EndsOK
    <3>3. Len(Program(r)) \in Nat /\ Through(r) = Len(Program(r))
      BY <1>0, <2>1, JobFacts DEF Through
    <3>4. ASSUME NEW c \in 1 .. call'[r], NEW i \in 0 .. Len(Program(r))
          PROVE  \/ c < call'[r] \/ i <= Through(r)' => c <= call[r] /\ (c < call[r] \/ i <= Through(r))
                 \/ \A t \in job.plan[r][i].knows : t \in Ranks /\ call[t] >= c
      <4>1. CASE i = 0
        BY <3>2, <4>1
      <4>2. CASE i # 0
        <5>1. ~(i <= Through(r)') /\ i <= Through(r)
          BY <3>1, <3>3, <4>2
        <5>2. c < call'[r] => c <= call[r]
          BY <1>1, <2>1
        <5> QED
          BY <5>1, <5>2
      <4> QED
        BY <4>1, <4>2
    <3>5. InformedOf(r)'
      BY <1>0, <1>1, <2>2, <3>4, StaysInformed
    <3> QED
      BY <2>4, <3>5
  <2> QED
    BY <2>3, <2>4
\* One that has waited has learnt what it should.
<1>5. ASSUME NEW r \in Ranks, Waited(r), call' = call, Through(r)' = pc[r]
      PROVE  InformedOf(r)'
  <2>1. pc[r] \in Nat \ {0} /\ Through(r) = pc[r] - 1
    <3>1. pc[r] \in Nat \ {0} /\ Begun(r) = pc[r]
      BY <1>5, KeptReceives
    <3> QED
      BY <3>1 DEF Through
  <2>2. ASSUME NEW c \in 1 .. call'[r], NEW i \in 0 .. Len(Program(r))
        PROVE  \/ c < call'[r] \/ i <= Through(r)' => c <= call[r] /\ (c < call[r] \/ i <= Through(r))
               \/ \A t \in job.plan[r][i].knows : t \in Ranks /\ call[t] >= c
    <3>1. call'[r] = call[r] /\ call[r] \in Nat
      BY <1>1, <1>5
    <3>2. CASE c < call[r] \/ i < pc[r] \/ i > pc[r]
      BY <1>5, <2>1, <3>1, <3>2
    <3>3. CASE c = call[r] /\ i = pc[r]
      BY <1>5, <3>3, WaitInforms
    <3> QED
      BY <2>1, <3>1, <3>2, <3>3
  <2>3. \A t \in Ranks : call'[t] >= call[t]
    BY <1>1, <1>5
  <2> QED
    BY <1>0, <1>1, <2>2, <2>3, StaysInformed
<1>6. ASSUME NEW r \in Ranks, Advance(r)
      PROVE  InformedOf(s)'
  <2>1. Alone(r) /\ Waited(r) /\ call' = call
    BY <1>6, AdvancePosts DEF Advance
  <2>2. CASE s # r
    BY <1>1, <1>3, <2>1, <2>2 DEF Alone
  <2>3. CASE s = r
    <3>1. PICK i, n, m : i = pc[r] + 1 /\ Posts(r, i, call[r], Open(r), Worked(r), n, m)
      BY <1>6, AdvancePosts
    <3>2. i \in DOMAIN Program(r) /\ pc'[r] \in {i, -i}
      BY <3>1 DEF Posts, Posting, Ready
    <3>3. Through(r)' = i - 1
      BY <1>0, <3>2, PostBegun
    <3>4. i - 1 = pc[r]
      BY <1>0, <3>1, TypeFacts
    <3> QED
      BY <1>5, <2>1, <2>3, <3>3, <3>4
  <2> QED
    BY <2>2, <2>3
<1>7. ASSUME NEW r \in Ranks, Return(r)
      PROVE  InformedOf(s)'
  <2>1. Waited(r) /\ pc[r] = Len(Program(r)) /\ pc' = [pc EXCEPT ![r] = 0] /\ call' = call
    BY <1>7 DEF Return
  <2>2. CASE s # r
    <3>1. pc'[s] = pc[s]
      BY <2>1, <2>2
    <3> QED
      BY <1>1, <1>3, <2>1, <3>1
  <2>3. CASE s = r
    <3>1. pc'[r] = 0
      BY <2>1 DEF TypeOK
    <3>2. Through(r)' = pc[r]
      BY <1>0, <2>1, <3>1 DEF Through
    <3> QED
      BY <1>5, <2>1, <2>3, <3>2
  <2> QED
    BY <2>2, <2>3
<1>8. CASE pc' = pc /\ call' = call
  BY <1>1, <1>3, <1>8
<1> QED
  BY <1>4, <1>6, <1>7, <1>8 DEF Next, RankStep, Match, Finished, vars

\* Whatever the ranks' pace, what a rank should know of the others by the rounds it
\* has been through has happened.
THEOREM RanksInformed ==
  ASSUME AllProper
  PROVE  Spec => [](~FromAny(job) => Informed)
<1>1. Init => (~FromAny(job) => Informed)
  BY DEF Init, Informed
<1>2. JobIsOne /\ TypeOK /\ TypeOK' /\ BuffersReleased /\ (~FromAny(job) => Paired)
      /\ (~FromAny(job) => Informed) /\ [Next]_vars => (~FromAny(job) => Informed)'
  <2> SUFFICES ASSUME JobIsOne, TypeOK, TypeOK', BuffersReleased, ~FromAny(job) => Paired,
                      ~FromAny(job) => Informed, [Next]_vars, ~FromAny(job)'
               PROVE  Informed'
    OBVIOUS
  <2>1. ~FromAny(job)
    BY JobKnown
  <2>2. Known
    BY <2>1, JobKnown
  <2> QED
    BY <2>1, <2>2, StepInformed
<1> QED
  BY <1>1, <1>2, JobStays, TypeCorrect, ReleasesBuffers, MessagesPaired, PTL DEF Spec

\* No rank returns from a call before those have entered it without which it cannot
\* have its result: everybody in a barrier, the root in a broadcast.
THEOREM Synchronises ==
  ASSUME AllProper
  PROVE  Spec => [](~FromAny(job) => NoneLeavesEarly)
<1>1. JobIsOne /\ TypeOK /\ (~FromAny(job) => Informed) => (~FromAny(job) => NoneLeavesEarly)
  <2> SUFFICES ASSUME JobIsOne, TypeOK, Informed, ~FromAny(job),
                      NEW r \in Ranks, pc[r] = 0, NEW s \in job.needs[r]
               PROVE  call[s] >= call[r]
    BY DEF NoneLeavesEarly
  <2>1. Known /\ s \in Ranks
    BY JobKnown, JobFacts
  <2>2. call[r] \in Nat /\ call[s] \in Nat /\ Len(Program(r)) \in Nat \ {0}
        /\ 1 \in DOMAIN Program(r) /\ Through(r) = Len(Program(r))
    BY <2>1, TypeFacts, JobFacts DEF Through
  <2>3. s \in job.plan[r][Len(Program(r))].knows \union {r}
    BY <2>1, <2>2, PlanFacts DEF EndsOK, Program
  <2>4. CASE s = r \/ call[r] = 0
    BY <2>2, <2>4
  <2>5. CASE s # r /\ call[r] # 0
    <3>1. PICK c, i : c = call[r] /\ i = Len(Program(r))
      OBVIOUS
    <3>2. c \in 1 .. call[r] /\ i \in 0 .. Len(Program(r)) /\ i <= Through(r)
      BY <2>2, <2>5, <3>1
    <3>3. s \in job.plan[r][i].knows
      BY <2>3, <2>5, <3>1
    <3>4. call[s] >= c
      BY <3>2, <3>3 DEF Informed
    <3> QED
      BY <3>1, <3>4
  <2> QED
    BY <2>4, <2>5
<1> QED
  BY <1>1, JobStays, TypeCorrect, RanksInformed, PTL

-----------------------------------------------------------------------------
(* The result is complete.                                                 *)

\* For a list of receives of round i and before: what they get fits, no two write one
\* slot, and none writes what the round sends.
Fits(r, c, list) == \A k \in DOMAIN list :
  /\ DOMAIN Got(job, r, c, list[k].at) = 1 .. Len(Got(job, r, c, list[k].at))
  /\ \A p \in DOMAIN Got(job, r, c, list[k].at) : p \in DOMAIN list[k].slots
  /\ Filled(job, r, c, list[k].at) = {list[k].slots[p] : p \in DOMAIN Got(job, r, c, list[k].at)}
Apart(list) == \A k, l \in DOMAIN list :
  \A p \in DOMAIN list[k].slots, q \in DOMAIN list[l].slots :
    list[k].slots[p] = list[l].slots[q] => k = l /\ p = q
SendsApart(list, round) == \A k \in DOMAIN list, l \in DOMAIN round.send :
  \A p \in DOMAIN list[k].slots, q \in DOMAIN round.send[l].slots :
    list[k].slots[p] # round.send[l].slots[q]

LEMMA OwnSlots ==
  ASSUME Known, NEW r \in Ranks, NEW i \in DOMAIN Program(r), NEW c \in 1 .. job.calls,
         NEW list, Len(list) \in Nat, DOMAIN list = 1 .. Len(list),
         ListOK(r, list, Listed(job, r, i))
  PROVE  Fits(r, c, list) /\ Apart(list) /\ SendsApart(list, Program(r)[i])
<1>1. PICK places, round : places = Listed(job, r, i) /\ round = Program(r)[i]
  OBVIOUS
<1>2. /\ Len(list) <= Len(places) /\ Len(places) \in Nat /\ DOMAIN places = 1 .. Len(places)
      /\ \A k \in DOMAIN list : /\ list[k].at = places[k]
                                /\ list[k].peer = RecvAt(job, r, places[k]).peer
                                /\ list[k].slots = RecvAt(job, r, places[k]).slots
  <2>1. places \in Seq(Nat \X Nat)
    BY <1>1, ListedFacts
  <2> QED
    BY <1>1, <2>1, LenProperties DEF ListOK
<1>3. \A k \in DOMAIN list : k \in DOMAIN places
  BY <1>2
<1>4. /\ \A k, l \in DOMAIN places :
           \A p \in DOMAIN RecvAt(job, r, places[k]).slots, q \in DOMAIN RecvAt(job, r, places[l]).slots :
             RecvAt(job, r, places[k]).slots[p] = RecvAt(job, r, places[l]).slots[q] => k = l /\ p = q
      /\ \A k \in DOMAIN places, l \in DOMAIN round.send :
           Range(RecvAt(job, r, places[k]).slots) \intersect Range(round.send[l].slots) = {}
  <2>1. SlotsOK(job, r, i) /\ round = job.program[r][i]
    BY <1>1, PlanFacts DEF Program
  <2>2. ASSUME NEW k \in DOMAIN places, NEW l \in DOMAIN places,
               NEW p \in DOMAIN RecvAt(job, r, places[k]).slots,
               NEW q \in DOMAIN RecvAt(job, r, places[l]).slots,
               RecvAt(job, r, places[k]).slots[p] = RecvAt(job, r, places[l]).slots[q]
        PROVE  k = l /\ p = q
    <3>1. \A f, g \in DOMAIN Listed(job, r, i) :
            \A a \in DOMAIN RecvAt(job, r, Listed(job, r, i)[f]).slots,
               b \in DOMAIN RecvAt(job, r, Listed(job, r, i)[g]).slots :
              RecvAt(job, r, Listed(job, r, i)[f]).slots[a]
                = RecvAt(job, r, Listed(job, r, i)[g]).slots[b] => f = g /\ a = b
      BY <2>1 DEF SlotsOK
    <3> QED
      BY <1>1, <2>2, <3>1
  <2>3. ASSUME NEW k \in DOMAIN places, NEW l \in DOMAIN round.send
        PROVE  Range(RecvAt(job, r, places[k]).slots) \intersect Range(round.send[l].slots) = {}
    BY <1>1, <2>1, Zenon DEF SlotsOK
  <2> QED
    BY <2>2, <2>3
<1>5. ASSUME NEW k \in DOMAIN list
      PROVE  /\ DOMAIN Got(job, r, c, list[k].at) = 1 .. Len(Got(job, r, c, list[k].at))
             /\ \A p \in DOMAIN Got(job, r, c, list[k].at) : p \in DOMAIN list[k].slots
             /\ Filled(job, r, c, list[k].at) =
                  {list[k].slots[p] : p \in DOMAIN Got(job, r, c, list[k].at)}
  <2>1. PICK at, got, recv : /\ at = places[k] /\ got = Got(job, r, c, at)
                             /\ recv = RecvAt(job, r, at)
    OBVIOUS
  <2>2. /\ at = <<at[1], at[2]>> /\ at[1] \in DOMAIN Program(r)
        /\ at[2] \in DOMAIN Program(r)[at[1]].recv
        /\ recv = Program(r)[at[1]].recv[at[2]] /\ recv.slots \in Seq(Slot)
    BY <1>1, <1>2, <1>3, <2>1, ListedReceives
  <2>3. Len(got) \in 0 .. Len(recv.slots) /\ DOMAIN got = 1 .. Len(got)
    <3>1. GetsOK(job, r, at[1])
      BY <2>2, PlanFacts
    <3>2. /\ Len(Got(job, r, c, <<at[1], at[2]>>)) \in 0 .. Len(job.program[r][at[1]].recv[at[2]].slots)
          /\ DOMAIN Got(job, r, c, <<at[1], at[2]>>) = 1 .. Len(Got(job, r, c, <<at[1], at[2]>>))
      BY <2>2, <3>1, Zenon DEF GetsOK, Program
    <3> QED
      BY <2>1, <2>2, <3>2, Zenon DEF Program
  <2>4. DOMAIN recv.slots = 1 .. Len(recv.slots) /\ Len(recv.slots) \in Nat
    BY <2>2, LenProperties
  <2>5. \A p \in DOMAIN got : p \in DOMAIN recv.slots
    BY <2>3, <2>4
  <2>6. list[k].at = at /\ list[k].slots = recv.slots
    BY <1>2, <2>1
  <2>7. Filled(job, r, c, at) = {recv.slots[p] : p \in DOMAIN got}
    BY <2>1, <2>3, Zenon DEF Filled
  <2> QED
    BY <2>1, <2>3, <2>5, <2>6, <2>7, Zenon
<1>6. ASSUME NEW k \in DOMAIN list, NEW l \in DOMAIN list,
             NEW p \in DOMAIN list[k].slots, NEW q \in DOMAIN list[l].slots,
             list[k].slots[p] = list[l].slots[q]
      PROVE  k = l /\ p = q
  BY <1>2, <1>3, <1>4, <1>6
<1>7. ASSUME NEW k \in DOMAIN list, NEW l \in DOMAIN round.send,
             NEW p \in DOMAIN list[k].slots, NEW q \in DOMAIN round.send[l].slots
      PROVE  list[k].slots[p] # round.send[l].slots[q]
  <2>1. list[k].slots = RecvAt(job, r, places[k]).slots /\ k \in DOMAIN places
    BY <1>2, <1>3
  <2>2. Range(list[k].slots) \intersect Range(round.send[l].slots) = {}
    BY <1>4, <2>1
  <2>3. list[k].slots[p] \in Range(list[k].slots) /\ round.send[l].slots[q] \in Range(round.send[l].slots)
    BY DEF Range
  <2> QED
    BY <2>2, <2>3
<1>8. Fits(r, c, list)
  BY <1>5 DEF Fits
<1>9. Apart(list)
  BY <1>6 DEF Apart
<1>10. SendsApart(list, round)
  BY <1>7 DEF SendsApart
<1> QED
  BY <1>1, <1>8, <1>9, <1>10

\* A slot that nothing has come for is as it was, also one that is not in the
\* buffers.
LEMMA HoldsElsewhere ==
  ASSUME NEW r, NEW i, NEW c, NEW list, NEW m, SlotsHold(r, i, c, list, m),
         NEW x, \A k \in DOMAIN list : list[k].done => x \notin Filled(job, r, c, list[k].at)
  PROVE  Value(m, x) = Value(job.plan[r][i].holds[c], x)
<1>1. PICK holds : holds = job.plan[r][i].holds[c]
  OBVIOUS
<1>2. CASE x \in DOMAIN m \union DOMAIN holds
  BY <1>1, <1>2 DEF SlotsHold
<1>3. CASE x \notin DOMAIN m \union DOMAIN holds
  BY <1>1, <1>3 DEF Value
<1> QED
  BY <1>1, <1>2, <1>3

\* And conversely.
LEMMA SlotsHolding ==
  ASSUME NEW r, NEW i, NEW c, NEW list, NEW m,
         \A k \in DOMAIN list : list[k].done =>
           \A p \in DOMAIN Got(job, r, c, list[k].at) :
             Value(m, list[k].slots[p]) = Got(job, r, c, list[k].at)[p],
         \A x : (\A k \in DOMAIN list : list[k].done => x \notin Filled(job, r, c, list[k].at))
           => Value(m, x) = Value(job.plan[r][i].holds[c], x)
  PROVE  SlotsHold(r, i, c, list, m)
BY DEF SlotsHold

\* A round sends what its slots held before it, whatever has come since.
LEMMA SendsHold ==
  ASSUME Known, NEW r \in Ranks, NEW i \in DOMAIN Program(r), NEW c \in 1 .. job.calls,
         NEW list, Len(list) \in Nat, DOMAIN list = 1 .. Len(list),
         ListOK(r, list, Listed(job, r, i)),
         NEW m, SlotsHold(r, i - 1, c, list, m), NEW l \in DOMAIN Program(r)[i].send
  PROVE  LET slots == Program(r)[i].send[l].slots IN
         Values(m, slots) = Values(job.plan[r][i - 1].holds[c], slots)
<1>1. PICK slots, holds : /\ slots = Program(r)[i].send[l].slots
                          /\ holds = job.plan[r][i - 1].holds[c]
  OBVIOUS
<1>2. DOMAIN slots = 1 .. Len(slots)
  <2>1. slots \in Seq(Slot)
    BY <1>1, RequestFacts
  <2> QED
    BY <2>1, LenProperties
<1>3. Fits(r, c, list) /\ SendsApart(list, Program(r)[i])
  BY OwnSlots
<1>4. ASSUME NEW q \in 1 .. Len(slots)
      PROVE  Value(m, slots[q]) = Value(holds, slots[q])
  <2>1. \A k \in DOMAIN list : slots[q] \notin Filled(job, r, c, list[k].at)
    <3>1. TAKE k \in DOMAIN list
    <3>2. PICK got, own : got = Got(job, r, c, list[k].at) /\ own = list[k].slots
      OBVIOUS
    <3>3. /\ \A p \in DOMAIN got : p \in DOMAIN own
          /\ Filled(job, r, c, list[k].at) = {own[p] : p \in DOMAIN got}
      BY <1>3, <3>2, Zenon DEF Fits
    <3>4. \A p \in DOMAIN own : own[p] # slots[q]
      BY <1>1, <1>2, <1>3, <3>2, Zenon DEF SendsApart
    <3> QED
      BY <3>3, <3>4
  <2> QED
    BY <1>1, <2>1, HoldsElsewhere
<1>5. Values(m, slots) = Values(holds, slots)
  BY <1>4 DEF Values
<1> QED
  BY <1>1, <1>5

\* What is in a slot after a write.
LEMMA WriteValue ==
  ASSUME NEW m, NEW slots, NEW values, NEW x,
         \A p \in DOMAIN values : p \in DOMAIN slots
  PROVE  /\ (\A p \in DOMAIN values : slots[p] # x) => Value(Write(m, slots, values), x) = Value(m, x)
         /\ \A p \in DOMAIN values : slots[p] = x /\ (\A q \in DOMAIN values : slots[q] = x => q = p)
              => Value(Write(m, slots, values), x) = values[p]
<1>1. PICK after : after = Write(m, slots, values)
  OBVIOUS
<1>2. /\ DOMAIN after = DOMAIN m \union Range(slots)
      /\ \A y \in DOMAIN after : after[y] =
           IF \E p \in DOMAIN values : slots[p] = y
           THEN values[CHOOSE p \in DOMAIN values : slots[p] = y] ELSE Value(m, y)
  BY <1>1 DEF Write
<1>3. ASSUME \A p \in DOMAIN values : slots[p] # x
      PROVE  Value(after, x) = Value(m, x)
  <2>1. CASE x \in DOMAIN after
    BY <1>2, <1>3, <2>1 DEF Value
  <2>2. CASE x \notin DOMAIN after
    BY <1>2, <2>2 DEF Value
  <2> QED
    BY <2>1, <2>2
<1>4. ASSUME NEW p \in DOMAIN values, slots[p] = x, \A q \in DOMAIN values : slots[q] = x => q = p
      PROVE  Value(after, x) = values[p]
  <2>1. x \in DOMAIN after
    BY <1>2, <1>4 DEF Range
  <2>2. (CHOOSE q \in DOMAIN values : slots[q] = x) = p
    BY <1>4
  <2>3. after[x] = values[p]
    BY <1>2, <1>4, <2>1, <2>2
  <2> QED
    BY <2>1, <2>3 DEF Value
<1> QED
  BY <1>1, <1>3, <1>4

\* What a message brings is what its receive should get: an eager one brought it
\* along, and for the others the sender has not touched the slots yet.
LEMMA MeetsData ==
  ASSUME Known, TypeOK, BuffersReleased, Paired, Supplied, NEW s \in Ranks, NEW d \in Ranks,
         NEW k \in 1 .. Len(recvs[d]), Meets(s, d, k)
  PROVE  LET message == Head(wire[s][d])
             data == IF message.rndv THEN Values(mem[s], message.slots) ELSE message.values
         IN data = Got(job, d, call[d], recvs[d][k].at)
<1>0. JobIsOne
  BY DEF Known
<1>1. PICK message, at, x, y, c, places :
        /\ message = Head(wire[s][d]) /\ at = recvs[d][k].at /\ y = at[1] /\ x = message.round
        /\ c = call[d] /\ places = Listed(job, d, Begun(d))
  OBVIOUS
<1>2. /\ message = wire[s][d][1] /\ 1 \in DOMAIN wire[s][d] /\ message.call = c
      /\ Fellows(job, s, x, d, y) /\ message.slots = SendOf(job, s, x, d).slots
      /\ at = places[k] /\ k \in 1 .. Len(places)
  BY <1>1, MeetsFellows, Zenon
<1>3. pc[d] # 0 /\ recvs[d][k].peer = s
  BY MeetsInCall
<1>4. Begun(d) \in DOMAIN Program(d) /\ recvs[d][k].peer = RecvAt(job, d, places[k]).peer
  BY <1>1, <1>3, PlacesOfReceives, Zenon
<1>5. c \in 1 .. job.calls
  <2>1. call[d] \in 0 .. job.calls /\ call[d] # 0
    BY <1>0, <1>3, TypeFacts DEF TypeOK
  <2> QED
    BY <1>1, <2>1
<1>6. /\ x \in DOMAIN Program(s) /\ x \in SendRounds(job, s, d)
      /\ \E l \in DOMAIN Program(s)[x].send : SendOf(job, s, x, d) = Program(s)[x].send[l]
  <2>1. x \in SendRounds(job, s, d)
    BY <1>2 DEF Fellows
  <2>2. x \in DOMAIN Program(s) /\ \E l \in DOMAIN Program(s)[x].send : Program(s)[x].send[l].peer = d
    BY <2>1 DEF SendRounds, Program
  <2>3. PICK l \in DOMAIN Program(s)[x].send : Program(s)[x].send[l].peer = d
    BY <2>2
  <2>4. SendOf(job, s, x, Program(s)[x].send[l].peer) = Program(s)[x].send[l]
    BY <2>2, RequestFacts
  <2> QED
    BY <2>1, <2>2, <2>3, <2>4
\* The annotation says what the receive gets.
<1>7. Got(job, d, c, at) = Values(job.plan[s][x - 1].holds[c], message.slots)
  <2>1. /\ at = <<y, at[2]>> /\ y \in DOMAIN Program(d) /\ at[2] \in DOMAIN Program(d)[y].recv
        /\ RecvAt(job, d, at) = Program(d)[y].recv[at[2]]
    BY <1>1, <1>2, <1>4, ListedReceives
  <2>2. Program(d)[y].recv[at[2]].peer = s
    BY <1>2, <1>3, <1>4, <2>1
  <2>3. GetsOK(job, d, y)
    BY <2>1, PlanFacts
  <2>4. \A z \in SendRounds(job, Program(d)[y].recv[at[2]].peer, d) :
          Fellows(job, Program(d)[y].recv[at[2]].peer, z, d, y) =>
            Got(job, d, c, <<y, at[2]>>) =
              Values(job.plan[Program(d)[y].recv[at[2]].peer][z - 1].holds[c],
                     SendOf(job, Program(d)[y].recv[at[2]].peer, z, d).slots)
    BY <1>5, <2>1, <2>3 DEF GetsOK, Program
  <2>5. Got(job, d, c, <<y, at[2]>>) = Values(job.plan[s][x - 1].holds[c], SendOf(job, s, x, d).slots)
    BY <1>2, <1>6, <2>2, <2>4, Zenon
  <2> QED
    BY <1>2, <2>1, <2>5
<1>8. CASE ~message.rndv
  <2>1. \A n \in DOMAIN wire[s][d] : ~wire[s][d][n].rndv => wire[s][d][n].values =
          Values(job.plan[s][wire[s][d][n].round - 1].holds[wire[s][d][n].call], wire[s][d][n].slots)
    BY DEF Supplied
  <2>2. message.values = Values(job.plan[s][message.round - 1].holds[message.call], message.slots)
    BY <1>2, <1>8, <2>1
  <2>3. message.round = x /\ message.call = c
    BY <1>1, <1>2
  <2> QED
    BY <1>1, <1>7, <1>8, <2>2, <2>3
<1>9. CASE message.rndv
  <2>1. pc[s] # 0
    BY <1>2, <1>9 DEF BuffersReleased
  <2>2. c = call[s] /\ x = Begun(s) /\ ListOK(s, recvs[s], Listed(job, s, Begun(s)))
    <3>1. InRound(s)
      BY DEF Paired
    <3> QED
      BY <1>1, <1>2, <1>9, <2>1, <3>1 DEF InRound
  <2>3. Through(s) = x - 1
    BY <2>1, <2>2 DEF Through
  <2>4. SlotsHold(s, x - 1, c, recvs[s], mem[s])
    <3>1. call[s] > 0
      BY <1>5, <2>2
    <3>2. SlotsHold(s, Through(s), call[s], recvs[s], mem[s])
      BY <3>1 DEF Supplied
    <3> QED
      BY <2>2, <2>3, <3>2
  <2>5. PICK list, m : list = recvs[s] /\ m = mem[s]
    OBVIOUS
  <2>6. /\ Len(list) \in Nat /\ DOMAIN list = 1 .. Len(list) /\ ListOK(s, list, Listed(job, s, x))
        /\ SlotsHold(s, x - 1, c, list, m)
    <3>1. list \in Seq(PostedReceive)
      BY <1>0, <2>5, TypeFacts
    <3> QED
      BY <2>2, <2>4, <2>5, <3>1, LenProperties
  <2>7. PICK l \in DOMAIN Program(s)[x].send : SendOf(job, s, x, d) = Program(s)[x].send[l]
    BY <1>6
  <2>8. Values(m, Program(s)[x].send[l].slots)
          = Values(job.plan[s][x - 1].holds[c], Program(s)[x].send[l].slots)
    BY <1>5, <1>6, <2>6, SendsHold
  <2>9. Values(mem[s], message.slots) = Values(job.plan[s][x - 1].holds[c], message.slots)
    BY <1>2, <2>5, <2>7, <2>8, Zenon
  <2> QED
    BY <1>1, <1>7, <1>9, <2>9
<1> QED
  BY <1>8, <1>9

\* A match leaves the buffers of the receiver as they should be.
LEMMA MatchHolds ==
  ASSUME Known, TypeOK, BuffersReleased, Paired, Supplied, NEW s \in Ranks, NEW d \in Ranks,
         Match(s, d)
  PROVE  SlotsHold(d, Through(d), call[d], recvs'[d], mem'[d])
<1>0. JobIsOne
  BY DEF Known
<1>1. PICK k \in 1 .. Len(recvs[d]) : Meeting(s, d, k)
  BY <1>0, MatchEffect
<1>2. PICK old, new, m, after, i, c, got :
        /\ old = recvs[d] /\ new = recvs'[d] /\ m = mem[d] /\ after = mem'[d]
        /\ i = Through(d) /\ c = call[d] /\ got = Got(job, d, call[d], recvs[d][k].at)
  OBVIOUS
<1>3. Meets(s, d, k)
  BY <1>1 DEF Meeting
<1>4. pc[d] # 0
  BY <1>3, MeetsInCall
<1>5. /\ Len(old) \in Nat /\ DOMAIN old = 1 .. Len(old) /\ DOMAIN new = DOMAIN old
      /\ \A l \in DOMAIN old : /\ new[l].at = old[l].at /\ new[l].slots = old[l].slots
                               /\ new[l].done = (l = k \/ old[l].done)
      /\ after = Write(m, old[k].slots, got) /\ k \in DOMAIN old
      /\ got = Got(job, d, c, old[k].at)
  <2>1. old \in Seq(PostedReceive) /\ new \in Seq(PostedReceive) /\ Len(new) = Len(old)
    <3>1. recvs' \in [Ranks -> Seq(PostedReceive)] /\ recvs[d] \in Seq(PostedReceive)
      BY <1>0, MatchEffect, TypeFacts
    <3>2. Len(recvs'[d]) = Len(recvs[d])
      BY <1>1 DEF Meeting
    <3> QED
      BY <1>2, <3>1, <3>2
  <2>2. Len(old) \in Nat /\ DOMAIN old = 1 .. Len(old) /\ DOMAIN new = DOMAIN old
    BY <2>1, LenProperties
  <2>3. \A l \in DOMAIN old : /\ new[l].at = old[l].at /\ new[l].slots = old[l].slots
                              /\ new[l].done = (l = k \/ old[l].done)
    BY <1>1, <1>2, Zenon DEF Meeting
  <2>4. after = Write(m, old[k].slots, got)
    <3>1. PICK data : data = IF Head(wire[s][d]).rndv THEN Values(mem[s], Head(wire[s][d]).slots)
                             ELSE Head(wire[s][d]).values
      OBVIOUS
    <3>2. data = got
      BY <1>2, <1>3, <3>1, MeetsData, Zenon
    <3>3. mem'[d] = Write(mem[d], recvs[d][k].slots, data)
      BY <1>1, <3>1, Zenon DEF Meeting
    <3> QED
      BY <1>2, <3>2, <3>3
  <2> QED
    BY <1>2, <2>2, <2>3, <2>4
<1>6. Fits(d, c, old) /\ Apart(old)
  <2>1. c \in 1 .. job.calls
    <3>1. call[d] \in 0 .. job.calls /\ call[d] # 0
      BY <1>0, <1>4, TypeFacts DEF TypeOK
    <3> QED
      BY <1>2, <3>1
  <2>2. Begun(d) \in DOMAIN Program(d) /\ ListOK(d, old, Listed(job, d, Begun(d)))
    <3>1. InRound(d)
      BY DEF Paired
    <3> QED
      BY <1>2, <1>4, <3>1, PlacesOfReceives DEF InRound
  <2> QED
    BY <1>5, <2>1, <2>2, OwnSlots
<1>7. SlotsHold(d, i, c, old, m)
  <2>1. call[d] > 0
    BY <1>0, <1>4, TypeFacts DEF TypeOK
  <2> QED
    BY <1>2, <2>1 DEF Supplied
<1>8. \A p \in DOMAIN got : p \in DOMAIN old[k].slots
  BY <1>5, <1>6 DEF Fits
\* The new data is in its place, and the other data still is.
<1>9. ASSUME NEW l \in DOMAIN new, new[l].done, NEW p \in DOMAIN Got(job, d, c, new[l].at)
      PROVE  Value(after, new[l].slots[p]) = Got(job, d, c, new[l].at)[p]
  <2>1. l \in DOMAIN old /\ new[l].at = old[l].at /\ new[l].slots = old[l].slots
    BY <1>5
  <2>2. p \in DOMAIN old[l].slots
    BY <1>6, <1>9, <2>1 DEF Fits
  <2>3. CASE l = k
    <3>1. p \in DOMAIN got /\ \A q \in DOMAIN got : old[k].slots[q] = old[k].slots[p] => q = p
      BY <1>5, <1>6, <1>8, <1>9, <2>1, <2>2, <2>3 DEF Apart
    <3>2. Value(Write(m, old[k].slots, got), old[k].slots[p]) = got[p]
      BY <1>8, <3>1, WriteValue
    <3> QED
      BY <1>5, <2>1, <2>3, <3>2
  <2>4. CASE l # k
    <3>1. old[l].done
      BY <1>5, <1>9, <2>1, <2>4
    <3>2. \A q \in DOMAIN got : old[k].slots[q] # old[l].slots[p]
      BY <1>5, <1>6, <1>8, <2>1, <2>2, <2>4 DEF Apart
    <3>3. Value(Write(m, old[k].slots, got), old[l].slots[p]) = Value(m, old[l].slots[p])
      BY <1>8, <3>2, WriteValue
    <3>4. Value(m, old[l].slots[p]) = Got(job, d, c, old[l].at)[p]
      BY <1>7, <1>9, <2>1, <3>1, Zenon DEF SlotsHold
    <3> QED
      BY <1>5, <2>1, <3>3, <3>4
  <2> QED
    BY <2>3, <2>4
<1>10. ASSUME NEW x, \A l \in DOMAIN new : new[l].done => x \notin Filled(job, d, c, new[l].at)
       PROVE  Value(after, x) = Value(job.plan[d][i].holds[c], x)
  <2>1. \A l \in DOMAIN old : old[l].done \/ l = k => x \notin Filled(job, d, c, old[l].at)
    BY <1>5, <1>10
  <2>2. \A p \in DOMAIN got : old[k].slots[p] # x
    BY <1>5, <1>6, <2>1 DEF Fits
  <2>3. Value(Write(m, old[k].slots, got), x) = Value(m, x)
    BY <1>8, <2>2, WriteValue
  <2>4. Value(m, x) = Value(job.plan[d][i].holds[c], x)
    BY <1>7, <2>1, HoldsElsewhere
  <2> QED
    BY <1>5, <2>3, <2>4
<1>11. SlotsHold(d, i, c, new, after)
  BY <1>9, <1>10, SlotsHolding
<1> QED
  BY <1>2, <1>11

\* What a slot holds after the work of a round.
LEMMA WorkedValue ==
  ASSUME NEW r, NEW x
  PROVE  LET work == Program(r)[pc[r]].then IN
         Value(Worked(r), x) = IF x \in DOMAIN work THEN FlattenSeq(Values(mem[r], work[x]))
                               ELSE Value(mem[r], x)
<1>1. PICK work, after : work = Program(r)[pc[r]].then /\ after = Worked(r)
  OBVIOUS
<1>2. /\ DOMAIN after = DOMAIN mem[r] \union DOMAIN work
      /\ \A y \in DOMAIN after : after[y] =
           IF y \in DOMAIN work THEN FlattenSeq(Values(mem[r], work[y])) ELSE Value(mem[r], y)
  BY <1>1 DEF Worked
<1>3. Value(after, x) = IF x \in DOMAIN work THEN FlattenSeq(Values(mem[r], work[x]))
                        ELSE Value(mem[r], x)
  <2>1. CASE x \in DOMAIN work
    BY <1>2, <2>1 DEF Value
  <2>2. CASE x \notin DOMAIN work /\ x \in DOMAIN mem[r]
    BY <1>2, <2>2 DEF Value
  <2>3. CASE x \notin DOMAIN work /\ x \notin DOMAIN mem[r]
    BY <1>2, <2>3 DEF Value
  <2> QED
    BY <2>1, <2>2, <2>3
<1> QED
  BY <1>1, <1>3

\* What a slot has received, when a round has been waited for, unless it is still
\* to be written by a receive that is kept.
LEMMA WaitHolds ==
  ASSUME Known, TypeOK, Paired, Supplied, NEW r \in Ranks, Waited(r),
         NEW x, \A k \in DOMAIN Open(r) : Open(r)[k].done =>
                  x \notin Filled(job, r, call[r], Open(r)[k].at)
  PROVE  Value(mem[r], x) = Received(job, r, pc[r], call[r], x)
<1>0. JobIsOne
  BY DEF Known
<1>1. PICK list, kept, places, open, i, c, m :
        /\ list = recvs[r] /\ kept = Open(r) /\ places = Listed(job, r, pc[r])
        /\ open = job.plan[r][pc[r]].open /\ i = pc[r] /\ c = call[r] /\ m = mem[r]
  OBVIOUS
<1>2. /\ i \in DOMAIN Program(r) /\ i \in Nat \ {0} /\ Begun(r) = i
      /\ Left(list, kept, places, open)
  <2>1. /\ pc[r] \in DOMAIN Program(r) /\ pc[r] \in Nat \ {0} /\ Begun(r) = pc[r]
        /\ Left(recvs[r], Open(r), Listed(job, r, pc[r]), job.plan[r][pc[r]].open)
    BY KeptReceives
  <2> QED
    BY <1>1, <2>1
<1>3. c \in 1 .. job.calls
  <2>1. call[r] \in 0 .. job.calls /\ call[r] # 0
    BY <1>0, <1>1, <1>2, TypeFacts DEF TypeOK
  <2> QED
    BY <1>1, <2>1
<1>4. /\ ListOK(r, list, places)
      /\ \A l \in DOMAIN list : /\ list[l].at = places[l]
                                /\ list[l].slots = RecvAt(job, r, places[l]).slots
  <2>1. InRound(r) /\ pc[r] # 0
    BY <1>1, <1>2 DEF Paired
  <2>2. ListOK(r, list, places)
    BY <1>1, <1>2, <2>1 DEF InRound
  <2> QED
    BY <2>2 DEF ListOK
<1>5. Fits(r, c, list)
  BY <1>1, <1>2, <1>3, <1>4, OwnSlots DEF Left
<1>6. SlotsHold(r, i - 1, c, list, m)
  <2>1. call[r] > 0 /\ Through(r) = i - 1
    BY <1>1, <1>2, <1>3 DEF Through
  <2> QED
    BY <1>1, <2>1 DEF Supplied
<1>7. CASE \E at \in Closed(job, r, i) : x \in Filled(job, r, c, at)
  <2>1. PICK at : at = CHOOSE a \in Closed(job, r, i) : x \in Filled(job, r, c, a)
    OBVIOUS
  <2>2. at \in Closed(job, r, i) /\ x \in Filled(job, r, c, at)
    BY <1>7, <2>1
  <2>3. at \in Range(places) /\ \A k \in DOMAIN open : open[k] # at
    BY <1>1, <2>2 DEF Closed
  <2>4. PICK l \in DOMAIN places : at = places[l]
    BY <2>3 DEF Range
  <2>5. l \in 1 .. Len(list) /\ l \in DOMAIN list
    <3>1. places \in Seq(Nat \X Nat)
      BY <1>1, <1>2, ListedFacts
    <3>2. DOMAIN places = 1 .. Len(places)
      BY <3>1, LenProperties
    <3> QED
      BY <1>2, <3>2 DEF Left
  <2>6. list[l].done
    BY <1>2, <2>3, <2>4, <2>5 DEF Left
  <2>7. PICK got, slots : got = Got(job, r, c, at) /\ slots = RecvAt(job, r, at).slots
    OBVIOUS
  <2>8. list[l].at = at /\ list[l].slots = slots
    BY <1>4, <2>4, <2>5, <2>7
  <2>9. DOMAIN got = 1 .. Len(got)
    BY <1>5, <2>5, <2>7, <2>8 DEF Fits
  <2>10. \E p \in 1 .. Len(got) : slots[p] = x
    BY <2>2, <2>7 DEF Filled
  <2>11. PICK p : p = CHOOSE q \in 1 .. Len(got) : slots[q] = x
    OBVIOUS
  <2>12. p \in 1 .. Len(got) /\ slots[p] = x
    BY <2>10, <2>11
  <2>13. Value(m, slots[p]) = got[p]
    BY <1>6, <2>5, <2>6, <2>7, <2>8, <2>9, <2>12 DEF SlotsHold
  <2>14. Received(job, r, i, c, x) = got[p]
    BY <1>7, <2>1, <2>7, <2>11, Zenon DEF Received
  <2> QED
    BY <1>1, <2>12, <2>13, <2>14
<1>8. CASE ~\E at \in Closed(job, r, i) : x \in Filled(job, r, c, at)
  <2>1. Received(job, r, i, c, x) = Value(job.plan[r][i - 1].holds[c], x)
    BY <1>8, Zenon DEF Received
  <2>2. ASSUME NEW l \in DOMAIN list, list[l].done
        PROVE  x \notin Filled(job, r, c, list[l].at)
    <3>1. l \in 1 .. Len(list) /\ DOMAIN open = 1 .. Len(kept) /\ DOMAIN kept = 1 .. Len(kept)
          /\ Len(places) = Len(list)
      BY <1>2 DEF Left
    <3>2. CASE \A k \in 1 .. Len(kept) : open[k] # places[l]
      <4>1. places \in Seq(Nat \X Nat)
        BY <1>1, <1>2, ListedFacts
      <4>2. l \in DOMAIN places
        BY <3>1, <4>1, LenProperties
      <4>3. places[l] \in Closed(job, r, i)
        BY <1>1, <3>1, <3>2, <4>2 DEF Closed, Range
      <4> QED
        BY <1>4, <1>8, <4>3
    <3>3. CASE \E k \in 1 .. Len(kept) : kept[k] = list[l] /\ open[k] = places[l]
      BY <1>1, <2>2, <3>1, <3>3
    <3> QED
      BY <1>2, <3>1, <3>2, <3>3 DEF Left
  <2>3. Value(m, x) = Value(job.plan[r][i - 1].holds[c], x)
    BY <1>6, <2>2, HoldsElsewhere
  <2> QED
    BY <1>1, <2>1, <2>3
<1> QED
  BY <1>7, <1>8

\* After the wait and the work, the buffers are as the annotation says.
LEMMA WorkHolds ==
  ASSUME Known, TypeOK, Paired, Supplied, NEW r \in Ranks, Waited(r)
  PROVE  SlotsHold(r, pc[r], call[r], Open(r), Worked(r))
<1>0. JobIsOne
  BY DEF Known
<1>1. PICK list, kept, places, open, i, c, m, after, work, holds :
        /\ list = recvs[r] /\ kept = Open(r) /\ places = Listed(job, r, pc[r])
        /\ open = job.plan[r][pc[r]].open /\ i = pc[r] /\ c = call[r] /\ m = mem[r]
        /\ after = Worked(r) /\ work = Program(r)[pc[r]].then
        /\ holds = job.plan[r][pc[r]].holds[call[r]]
  OBVIOUS
<1>2. /\ i \in DOMAIN Program(r) /\ i \in Nat \ {0} /\ Begun(r) = i
      /\ Left(list, kept, places, open)
  <2>1. /\ pc[r] \in DOMAIN Program(r) /\ pc[r] \in Nat \ {0} /\ Begun(r) = pc[r]
        /\ Left(recvs[r], Open(r), Listed(job, r, pc[r]), job.plan[r][pc[r]].open)
    BY KeptReceives
  <2> QED
    BY <1>1, <2>1
<1>3. c \in 1 .. job.calls
  <2>1. call[r] \in 0 .. job.calls /\ call[r] # 0
    BY <1>0, <1>1, <1>2, TypeFacts DEF TypeOK
  <2> QED
    BY <1>1, <2>1
<1>4. /\ ListOK(r, list, places)
      /\ \A l \in DOMAIN list : /\ list[l].at = places[l]
                                /\ list[l].slots = RecvAt(job, r, places[l]).slots
  <2>1. InRound(r) /\ pc[r] # 0
    BY <1>1, <1>2 DEF Paired
  <2>2. ListOK(r, list, places)
    BY <1>1, <1>2, <2>1 DEF InRound
  <2> QED
    BY <2>2 DEF ListOK
<1>5. Fits(r, c, list)
  BY <1>1, <1>2, <1>3, <1>4, OwnSlots DEF Left
<1>6. SlotsHold(r, i - 1, c, list, m)
  <2>1. call[r] > 0 /\ Through(r) = i - 1
    BY <1>1, <1>2, <1>3 DEF Through
  <2> QED
    BY <1>1, <2>1 DEF Supplied
<1>7. /\ \A k \in DOMAIN open :
           /\ Range(RecvAt(job, r, open[k]).slots) \intersect DOMAIN work = {}
           /\ \A x \in DOMAIN work : \A p \in 1 .. Len(work[x]) :
                work[x][p] \notin Range(RecvAt(job, r, open[k]).slots)
      /\ \A x \in Concerned(job, r, i, c) :
           Value(holds, x) = IF x \in DOMAIN work
             THEN FlattenSeq([k \in 1 .. Len(work[x]) |-> Received(job, r, i, c, work[x][k])])
             ELSE Received(job, r, i, c, x)
  <2>1. HoldsOK(job, r, i)
    BY <1>2, PlanFacts
  <2>2. work = job.program[r][i].then /\ open = job.plan[r][i].open /\ holds = job.plan[r][i].holds[c]
    BY <1>1 DEF Program
  <2>3. \A k \in DOMAIN open :
           /\ Range(RecvAt(job, r, open[k]).slots) \intersect DOMAIN work = {}
           /\ \A x \in DOMAIN work : \A p \in 1 .. Len(work[x]) :
                work[x][p] \notin Range(RecvAt(job, r, open[k]).slots)
    BY <2>1, <2>2, Zenon DEF HoldsOK
  <2>4. \A x \in Concerned(job, r, i, c) :
           Value(holds, x) = IF x \in DOMAIN work
             THEN FlattenSeq([k \in 1 .. Len(work[x]) |-> Received(job, r, i, c, work[x][k])])
             ELSE Received(job, r, i, c, x)
    BY <1>3, <2>1, <2>2, Zenon DEF HoldsOK
  <2> QED
    BY <2>3, <2>4
\* A receive that is kept has its slots to itself.
<1>8. ASSUME NEW k \in DOMAIN kept
      PROVE  /\ k \in DOMAIN open /\ \E l \in DOMAIN list : kept[k] = list[l]
             /\ DOMAIN Got(job, r, c, kept[k].at) = 1 .. Len(Got(job, r, c, kept[k].at))
             /\ \A p \in DOMAIN Got(job, r, c, kept[k].at) :
                  kept[k].slots[p] \in Range(RecvAt(job, r, open[k]).slots)
             /\ Filled(job, r, c, kept[k].at) \subseteq Range(RecvAt(job, r, open[k]).slots)
  <2>1. k \in DOMAIN open /\ \E l \in DOMAIN list : kept[k] = list[l] /\ open[k] = places[l]
    BY <1>2 DEF Left
  <2>2. PICK l \in DOMAIN list : kept[k] = list[l] /\ open[k] = places[l]
    BY <2>1
  <2>3. kept[k].slots = RecvAt(job, r, open[k]).slots
    BY <1>4, <2>2
  <2>4. /\ DOMAIN Got(job, r, c, kept[k].at) = 1 .. Len(Got(job, r, c, kept[k].at))
        /\ \A p \in DOMAIN Got(job, r, c, kept[k].at) : p \in DOMAIN kept[k].slots
        /\ Filled(job, r, c, kept[k].at) = {kept[k].slots[p] : p \in DOMAIN Got(job, r, c, kept[k].at)}
    BY <1>5, <2>2, Zenon DEF Fits
  <2>5. \A p \in DOMAIN Got(job, r, c, kept[k].at) :
          kept[k].slots[p] \in Range(RecvAt(job, r, open[k]).slots)
    BY <2>3, <2>4 DEF Range
  <2> QED
    BY <2>1, <2>4, <2>5
<1>9. \A x : Value(after, x) = IF x \in DOMAIN work THEN FlattenSeq(Values(m, work[x])) ELSE Value(m, x)
  BY <1>1, WorkedValue
<1>10. \A x : (\A k \in DOMAIN kept : kept[k].done => x \notin Filled(job, r, c, kept[k].at))
         => Value(m, x) = Received(job, r, i, c, x)
  BY <1>1, WaitHolds
<1>11. ASSUME NEW k \in DOMAIN kept, kept[k].done, NEW p \in DOMAIN Got(job, r, c, kept[k].at)
       PROVE  Value(after, kept[k].slots[p]) = Got(job, r, c, kept[k].at)[p]
  <2>1. kept[k].slots[p] \in Range(RecvAt(job, r, open[k]).slots) /\ k \in DOMAIN open
    BY <1>8
  <2>2. kept[k].slots[p] \notin DOMAIN work
    BY <1>7, <2>1
  <2>3. PICK l \in DOMAIN list : kept[k] = list[l]
    BY <1>8
  <2>4. Value(m, list[l].slots[p]) = Got(job, r, c, list[l].at)[p]
    BY <1>6, <1>11, <2>3, Zenon DEF SlotsHold
  <2> QED
    BY <1>9, <2>2, <2>3, <2>4
<1>12. ASSUME NEW x, \A k \in DOMAIN kept : kept[k].done => x \notin Filled(job, r, c, kept[k].at)
       PROVE  Value(after, x) = Value(holds, x)
  <2>1. CASE x \in DOMAIN work
    <3>1. \A p \in 1 .. Len(work[x]) : Value(m, work[x][p]) = Received(job, r, i, c, work[x][p])
      <4>1. TAKE p \in 1 .. Len(work[x])
      <4>2. \A k \in DOMAIN kept : work[x][p] \notin Filled(job, r, c, kept[k].at)
        BY <1>7, <1>8, <2>1
      <4> QED
        BY <1>10, <4>2
    <3>2. Values(m, work[x]) = [p \in 1 .. Len(work[x]) |-> Received(job, r, i, c, work[x][p])]
      BY <3>1 DEF Values
    <3>3. x \in Concerned(job, r, i, c)
      BY <1>1, <2>1 DEF Concerned, Program
    <3> QED
      BY <1>7, <1>9, <2>1, <3>2, <3>3, Zenon
  <2>2. CASE x \notin DOMAIN work
    <3>1. Value(after, x) = Value(m, x) /\ Value(m, x) = Received(job, r, i, c, x)
      BY <1>9, <1>10, <1>12, <2>2
    <3>2. CASE x \in Concerned(job, r, i, c)
      BY <1>7, <2>2, <3>1, <3>2
    <3>3. CASE x \notin Concerned(job, r, i, c)
      <4>1. /\ x \notin DOMAIN job.plan[r][i - 1].holds[c] /\ x \notin DOMAIN job.plan[r][i].holds[c]
            /\ \A at \in Closed(job, r, i) : x \notin Filled(job, r, c, at)
        BY <3>3 DEF Concerned
      <4>2. Received(job, r, i, c, x) = Value(job.plan[r][i - 1].holds[c], x)
        BY <4>1, Zenon DEF Received
      <4> QED
        BY <1>1, <3>1, <4>1, <4>2 DEF Value
    <3> QED
      BY <3>2, <3>3
  <2> QED
    BY <2>1, <2>2
<1>13. SlotsHold(r, i, c, kept, after)
  <2>1. holds = job.plan[r][i].holds[c]
    BY <1>1
  <2>2. \A x : (\A k \in DOMAIN kept : kept[k].done => x \notin Filled(job, r, c, kept[k].at))
          => Value(after, x) = Value(job.plan[r][i].holds[c], x)
    BY <1>12, <2>1
  <2> QED
    BY <1>11, <2>2, SlotsHolding
<1> QED
  BY <1>1, <1>13

\* An eager message has brought what it should.
Brought(s, message) == ~message.rndv => message.values =
  Values(job.plan[s][message.round - 1].holds[message.call], message.slots)

\* What it takes after a step.
LEMMA SuppliedNext ==
  ASSUME job' = job, Ranks' = Ranks,
         \A r \in Ranks : call'[r] > 0 => SlotsHold(r, Through(r)', call'[r], recvs'[r], mem'[r]),
         \A s, d \in Ranks : \A n \in DOMAIN wire'[s][d] : Brought(s, wire'[s][d][n])
  PROVE  Supplied'
<1>1. ASSUME NEW r \in Ranks, call'[r] > 0
      PROVE  SlotsHold(r, Through(r), call[r], recvs[r], mem[r])'
  <2>1. SlotsHold(r, Through(r)', call'[r], recvs'[r], mem'[r])
    BY <1>1
  <2>2. /\ \A at, c : Got(job, r, c, at)' = Got(job', r, c', at') /\ Got(job', r, c, at) = Got(job, r, c, at)
        /\ \A at, c : Filled(job', r, c, at) = Filled(job, r, c, at)
    OBVIOUS
  <2> QED
    BY <2>1, Zenon DEF SlotsHold
<1>2. ASSUME NEW s \in Ranks, NEW d \in Ranks, NEW n \in DOMAIN wire'[s][d], ~wire'[s][d][n].rndv
      PROVE  wire'[s][d][n].values =
               Values(job'.plan[s][wire'[s][d][n].round - 1].holds[wire'[s][d][n].call], wire'[s][d][n].slots)
  BY <1>2 DEF Brought
<1> QED
  BY <1>1, <1>2, Zenon DEF Supplied

\* A post takes data along that is as the annotation says.
LEMMA PostSupplied ==
  ASSUME Known, TypeOK, Supplied, Ranks' = Ranks,
         NEW r \in Ranks, NEW i, NEW c \in 1 .. job.calls, NEW open, NEW buffers, NEW n, NEW m,
         Posts(r, i, c, open, buffers, n, m), Alone(r), SlotsHold(r, i - 1, c, open, buffers)
  PROVE  Supplied'
<1>0. /\ JobIsOne /\ job' = job /\ i \in DOMAIN Program(r) /\ open \in Seq(PostedReceive)
      /\ Posting(r, i, c, open, buffers, n, m) /\ call'[r] = c /\ mem'[r] = buffers
      /\ n \in 0 .. Len(Program(r)[i].recv) /\ m \in 0 .. Len(Program(r)[i].send)
  BY DEF Known, Posts, Ready, Posting
<1>1. PICK new, round : new = recvs'[r] /\ round = Program(r)[i]
  OBVIOUS
<1>2. /\ n \in Nat /\ Len(open) \in Nat /\ DOMAIN open = 1 .. Len(open)
      /\ DOMAIN new = 1 .. Len(open) + n /\ Len(new) = Len(open) + n
      /\ \A k \in 1 .. Len(open) : new[k] = open[k]
      /\ \A k \in 1 .. n : ~new[Len(open) + k].done
      /\ ListOK(r, new, Listed(job, r, i))
  <2>1. /\ n \in Nat /\ Len(open) \in Nat /\ Len(new) = Len(open) + n
        /\ DOMAIN new = 1 .. Len(open) + n
        /\ \A k \in 1 .. Len(open) : new[k] = open[k]
        /\ \A k \in 1 .. n : new[Len(open) + k] = Posted(i, k, round.recv[k])
        /\ ListOK(r, new, Listed(job, r, i))
    <3>1. /\ n \in Nat /\ Len(open) \in Nat /\ Len(recvs'[r]) = Len(open) + n
          /\ DOMAIN recvs'[r] = 1 .. Len(open) + n
          /\ \A k \in 1 .. Len(open) : recvs'[r][k] = open[k]
          /\ \A k \in 1 .. n : recvs'[r][Len(open) + k] = Posted(i, k, Program(r)[i].recv[k])
          /\ ListOK(r, recvs'[r], Listed(job, r, i))
      BY PostListed
    <3> QED
      BY <1>1, <3>1, Zenon
  <2>2. \A k : ~Posted(i, k, round.recv[k]).done
    BY DEF Posted
  <2> QED
    BY <1>0, <2>1, <2>2, LenProperties
<1>3. ASSUME NEW k \in DOMAIN new, new[k].done
      PROVE  k \in DOMAIN open /\ new[k] = open[k]
  <2>1. k \in 1 .. Len(open) \/ \E l \in 1 .. n : k = Len(open) + l
    <3>1. k \in 1 .. Len(open) \/ (k - Len(open) \in 1 .. n /\ k = Len(open) + (k - Len(open)))
      BY <1>2
    <3> QED
      BY <3>1
  <2>2. ~\E l \in 1 .. n : k = Len(open) + l
    BY <1>2, <1>3
  <2> QED
    BY <1>2, <2>1, <2>2
<1>4. \A k \in DOMAIN open : k \in DOMAIN new /\ new[k] = open[k]
  BY <1>2
<1>5. SlotsHold(r, i - 1, c, new, buffers)
  <2>1. ASSUME NEW k \in DOMAIN new, new[k].done, NEW p \in DOMAIN Got(job, r, c, new[k].at)
        PROVE  Value(buffers, new[k].slots[p]) = Got(job, r, c, new[k].at)[p]
    <3>1. k \in DOMAIN open /\ new[k] = open[k]
      BY <1>3, <2>1
    <3> QED
      BY <2>1, <3>1 DEF SlotsHold
  <2>2. ASSUME NEW x, \A k \in DOMAIN new : new[k].done => x \notin Filled(job, r, c, new[k].at)
        PROVE  Value(buffers, x) = Value(job.plan[r][i - 1].holds[c], x)
    <3>1. \A k \in DOMAIN open : open[k].done => x \notin Filled(job, r, c, open[k].at)
      BY <1>4, <2>2
    <3> QED
      BY <3>1, HoldsElsewhere
  <2> QED
    BY <2>1, <2>2, SlotsHolding
<1>6. ASSUME NEW s \in Ranks, call'[s] > 0
      PROVE  SlotsHold(s, Through(s)', call'[s], recvs'[s], mem'[s])
  <2>1. CASE s = r
    <3>1. Through(r)' = i - 1
      <4>1. pc'[r] \in {i, -i}
        BY <1>0 DEF Posting
      <4> QED
        BY <1>0, <4>1, PostBegun
    <3> QED
      BY <1>0, <1>1, <1>5, <2>1, <3>1
  <2>2. CASE s # r
    <3>1. pc'[s] = pc[s] /\ call'[s] = call[s] /\ recvs'[s] = recvs[s] /\ mem'[s] = mem[s]
      BY <2>2 DEF Alone
    <3>2. Through(s)' = Through(s)
      BY <1>0, <3>1, Unmoved
    <3>3. SlotsHold(s, Through(s), call[s], recvs[s], mem[s])
      BY <1>6, <3>1 DEF Supplied
    <3> QED
      BY <3>1, <3>2, <3>3
  <2> QED
    BY <2>1, <2>2
<1>7. ASSUME NEW s \in Ranks, NEW d \in Ranks, NEW p \in DOMAIN wire'[s][d]
      PROVE  Brought(s, wire'[s][d][p])
  <2>0. \A q \in DOMAIN wire[s][d] : Brought(s, wire[s][d][q])
    BY DEF Supplied, Brought
  <2>1. CASE s # r
    BY <1>7, <2>0, <2>1 DEF Alone
  <2>2. CASE s = r /\ wire'[r][d] = wire[r][d]
    BY <1>7, <2>0, <2>2
  <2>3. ASSUME s = r,
               NEW k \in 1 .. m, wire'[r][d] = Append(wire[r][d], Message(round.send[k], i, c, buffers))
        PROVE  Brought(s, wire'[s][d][p])
    <3>1. PICK old, message, l : /\ old = wire[r][d] /\ l = Len(old)
                                 /\ message = Message(round.send[k], i, c, buffers)
      OBVIOUS
    <3>2. old \in Seq(Range(old)) /\ l \in Nat /\ DOMAIN old = 1 .. l
      BY <1>0, <3>1, TypeFacts
    <3>3. /\ DOMAIN Append(old, message) = 1 .. l + 1 /\ Append(old, message)[l + 1] = message
          /\ \A q \in 1 .. l : Append(old, message)[q] = old[q]
      <4>1. PICK S : old \in Seq(S) /\ message \in S
        <5>1. old \in Seq(Range(old) \union {message}) /\ message \in Range(old) \union {message}
          BY <3>1, <3>2
        <5> QED
          BY <5>1
      <4> QED
        BY <3>1, <3>2, <4>1, AppendProperties, LenProperties
    <3>4. p \in 1 .. l \/ p = l + 1
      BY <1>7, <2>3, <3>1, <3>2, <3>3
    <3>5. CASE p \in 1 .. l
      BY <2>0, <2>3, <3>1, <3>2, <3>3, <3>5
    <3>6. Brought(r, message)
      <4>1. k \in DOMAIN round.send
        <5>1. round.send \in Seq(Sending)
          BY <1>0, <1>1, RoundFacts
        <5>2. DOMAIN round.send = 1 .. Len(round.send) /\ Len(round.send) \in Nat
          BY <5>1, LenProperties
        <5> QED
          BY <1>0, <1>1, <5>2
      <4>2. Values(buffers, round.send[k].slots) = Values(job.plan[r][i - 1].holds[c], round.send[k].slots)
        <5>1. Len(new) \in Nat /\ DOMAIN new = 1 .. Len(new)
          BY <1>2
        <5> QED
          BY <1>0, <1>1, <1>2, <1>5, <4>1, <5>1, SendsHold
      <4>3. /\ message.round = i /\ message.call = c /\ message.slots = round.send[k].slots
            /\ ~message.rndv => message.values = Values(buffers, round.send[k].slots)
        BY <3>1 DEF Message
      <4> QED
        BY <4>2, <4>3 DEF Brought
    <3> QED
      BY <2>3, <3>1, <3>3, <3>4, <3>5, <3>6
  <2> QED
    BY <1>0, <1>1, <2>1, <2>2, <2>3 DEF Posting
<1> QED
  BY <1>0, <1>6, <1>7, SuppliedNext

\* A match leaves the buffers and the messages as they should be.
LEMMA MatchSupplied ==
  ASSUME Known, TypeOK, BuffersReleased, Paired, Supplied, NEW s \in Ranks, NEW d \in Ranks,
         Match(s, d)
  PROVE  Supplied'
<1>0. JobIsOne /\ job' = job /\ Ranks' = Ranks /\ pc' = pc /\ call' = call
  BY DEF Known, Match, Ranks
<1>1. /\ \A q, t \in Ranks : <<q, t>> # <<s, d>> => wire'[q][t] = wire[q][t]
      /\ \A q \in Ranks \ {d} : recvs'[q] = recvs[q] /\ mem'[q] = mem[q]
      /\ wire'[s][d] = Tail(wire[s][d]) /\ wire[s][d] # <<>>
  BY <1>0, MatchEffect
<1>2. ASSUME NEW r \in Ranks, call'[r] > 0
      PROVE  SlotsHold(r, Through(r)', call'[r], recvs'[r], mem'[r])
  <2>1. Through(r)' = Through(r)
    BY <1>0, Unmoved
  <2>2. CASE r = d
    <3>1. SlotsHold(d, Through(d), call[d], recvs'[d], mem'[d])
      BY MatchHolds
    <3> QED
      BY <1>0, <2>1, <2>2, <3>1
  <2>3. CASE r # d
    <3>1. SlotsHold(r, Through(r), call[r], recvs[r], mem[r])
      BY <1>0, <1>2 DEF Supplied
    <3> QED
      BY <1>0, <1>1, <2>1, <2>3, <3>1
  <2> QED
    BY <2>2, <2>3
<1>3. ASSUME NEW q \in Ranks, NEW t \in Ranks, NEW n \in DOMAIN wire'[q][t]
      PROVE  Brought(q, wire'[q][t][n])
  <2>0. \A p \in DOMAIN wire[q][t] : Brought(q, wire[q][t][p])
    BY DEF Supplied, Brought
  <2>1. CASE <<q, t>> # <<s, d>>
    BY <1>1, <1>3, <2>0, <2>1
  <2>2. CASE q = s /\ t = d
    <3>1. PICK old, new : old = wire[s][d] /\ new = wire'[s][d]
      OBVIOUS
    <3>2. old \in Seq(Range(old)) /\ old # <<>> /\ new = Tail(old)
      BY <1>0, <1>1, <3>1, TypeFacts
    <3>3. DOMAIN old = 1 .. Len(old) /\ Len(old) \in Nat \ {0}
      BY <3>2, LenProperties, EmptySeq
    <3>4. DOMAIN new = 1 .. Len(old) - 1 /\ \A p \in 1 .. Len(old) - 1 : new[p] = old[p + 1]
      BY <3>2, <3>3, HeadTailProperties, LenProperties
    <3>5. n + 1 \in DOMAIN old /\ new[n] = old[n + 1]
      BY <1>3, <2>2, <3>1, <3>3, <3>4
    <3> QED
      BY <2>0, <2>2, <3>1, <3>5
  <2> QED
    BY <2>1, <2>2
<1> QED
  BY <1>0, <1>2, <1>3, SuppliedNext

\* A call begins with the buffers that the annotation says.
LEMMA EnterHolds ==
  ASSUME Known, NEW r \in Ranks, NEW c \in 1 .. job.calls
  PROVE  SlotsHold(r, 0, c, <<>>, Buffers(r, c))
<1>1. 1 \in DOMAIN Program(r)
  BY JobFacts DEF Known
<1>2. job.plan[r][0].holds[c] = Buffers(r, c)
  BY <1>1, PlanFacts, Zenon DEF EndsOK, Buffers
<1>3. DOMAIN <<>> = {}
  OBVIOUS
<1> QED
  BY <1>2, <1>3 DEF SlotsHold

\* Every step leaves the buffers and the messages as they should be.
LEMMA StepSupplied ==
  ASSUME Known, TypeOK, TypeOK', BuffersReleased, Paired, Supplied, [Next]_vars
  PROVE  Supplied'
<1>0. JobIsOne /\ job' = job /\ Ranks' = Ranks
  <2>1. JobIsOne /\ job' = job
    BY DEF Known, Next, RankStep, Enter, Advance, Return, Match, Finished, vars
  <2> QED
    BY <2>1 DEF Ranks
<1>1. ASSUME NEW r \in Ranks, Enter(r)
      PROVE  Supplied'
  <2>1. PICK c, buffers : c = call[r] + 1 /\ buffers = Buffers(r, call[r] + 1)
    OBVIOUS
  <2>2. PICK n, m : Posts(r, 1, c, <<>>, buffers, n, m)
    BY <1>1, <2>1, EnterPosts
  <2>3. Alone(r) /\ call[r] \in Nat /\ call[r] < job.calls
    BY <1>1, EnterPosts DEF Enter
  <2>4. c \in 1 .. job.calls
    BY <1>0, <2>1, <2>3, JobFacts
  <2>5. SlotsHold(r, 1 - 1, c, <<>>, buffers)
    <3>1. 1 - 1 = 0
      OBVIOUS
    <3>2. SlotsHold(r, 0, c, <<>>, Buffers(r, c))
      BY <2>4, EnterHolds
    <3> QED
      BY <2>1, <3>1, <3>2
  <2> QED
    BY <1>0, <2>2, <2>3, <2>4, <2>5, PostSupplied
<1>2. ASSUME NEW r \in Ranks, Advance(r)
      PROVE  Supplied'
  <2>1. PICK i, c, open, buffers : /\ i = pc[r] + 1 /\ c = call[r] /\ open = Open(r)
                                   /\ buffers = Worked(r)
    OBVIOUS
  <2>2. PICK n, m : Posts(r, i, c, open, buffers, n, m)
    BY <1>2, <2>1, AdvancePosts
  <2>3. Alone(r) /\ Waited(r) /\ i - 1 = pc[r]
    BY <1>0, <1>2, <2>1, AdvancePosts, TypeFacts
  <2>4. c \in 1 .. job.calls
    <3>1. call[r] \in 0 .. job.calls /\ call[r] # 0
      BY <1>0, <2>3, TypeFacts DEF TypeOK, Waited
    <3> QED
      BY <2>1, <3>1
  <2>5. SlotsHold(r, i - 1, c, open, buffers)
    BY <2>1, <2>3, WorkHolds
  <2> QED
    BY <1>0, <2>2, <2>3, <2>4, <2>5, PostSupplied
<1>3. ASSUME NEW r \in Ranks, Return(r)
      PROVE  Supplied'
  <2>1. /\ Waited(r) /\ pc[r] = Len(Program(r)) /\ pc' = [pc EXCEPT ![r] = 0]
        /\ recvs' = [recvs EXCEPT ![r] = Open(r)] /\ mem' = [mem EXCEPT ![r] = Worked(r)]
        /\ wire' = wire /\ call' = call
    BY <1>3 DEF Return
  <2>2. /\ pc'[r] = 0 /\ recvs'[r] = Open(r) /\ mem'[r] = Worked(r)
        /\ \A s \in Ranks \ {r} : pc'[s] = pc[s] /\ recvs'[s] = recvs[s] /\ mem'[s] = mem[s]
    BY <2>1 DEF TypeOK
  <2>3. Through(r)' = pc[r]
    BY <1>0, <2>1, <2>2 DEF Through, Program
  <2>4. ASSUME NEW s \in Ranks, call'[s] > 0
        PROVE  SlotsHold(s, Through(s)', call'[s], recvs'[s], mem'[s])
    <3>1. CASE s = r
      BY <2>1, <2>2, <2>3, <3>1, WorkHolds
    <3>2. CASE s # r
      <4>1. Through(s)' = Through(s)
        BY <1>0, <2>2, <3>2, Unmoved
      <4>2. SlotsHold(s, Through(s), call[s], recvs[s], mem[s])
        BY <2>1, <2>4 DEF Supplied
      <4> QED
        BY <2>1, <2>2, <3>2, <4>1, <4>2
    <3> QED
      BY <3>1, <3>2
  <2>5. \A s, d \in Ranks : \A n \in DOMAIN wire'[s][d] : Brought(s, wire'[s][d][n])
    BY <2>1 DEF Supplied, Brought
  <2> QED
    BY <1>0, <2>4, <2>5, SuppliedNext
<1>4. ASSUME NEW s \in Ranks, NEW d \in Ranks, Match(s, d)
      PROVE  Supplied'
  BY <1>4, MatchSupplied
<1>5. CASE UNCHANGED vars
  <2>1. pc' = pc /\ call' = call /\ recvs' = recvs /\ wire' = wire /\ mem' = mem
    BY <1>5 DEF vars
  <2>2. ASSUME NEW s \in Ranks, call'[s] > 0
        PROVE  SlotsHold(s, Through(s)', call'[s], recvs'[s], mem'[s])
    <3>1. Through(s)' = Through(s)
      BY <1>0, <2>1, Unmoved
    <3>2. SlotsHold(s, Through(s), call[s], recvs[s], mem[s])
      BY <2>1, <2>2 DEF Supplied
    <3> QED
      BY <2>1, <3>1, <3>2
  <2>3. \A s, d \in Ranks : \A n \in DOMAIN wire'[s][d] : Brought(s, wire'[s][d][n])
    BY <2>1 DEF Supplied, Brought
  <2> QED
    BY <1>0, <2>2, <2>3, SuppliedNext
<1> QED
  BY <1>1, <1>2, <1>3, <1>4, <1>5 DEF Next, RankStep, Finished

\* Whatever the ranks' pace, and whatever posts fail, the buffers of a rank hold what
\* the annotation of its last round says, and so do the messages on their way.
THEOREM BuffersSupplied ==
  ASSUME AllProper
  PROVE  Spec => [](~FromAny(job) => Supplied)
<1>1. Init => (~FromAny(job) => Supplied)
  <2> SUFFICES ASSUME Init PROVE Supplied
    OBVIOUS
  <2>1. \A r \in Ranks : call[r] = 0 /\ \A d \in Ranks : wire[r][d] = <<>>
    BY DEF Init
  <2>2. DOMAIN <<>> = {} /\ ~(0 > 0)
    OBVIOUS
  <2> QED
    BY <2>1, <2>2 DEF Supplied
<1>2. JobIsOne /\ TypeOK /\ TypeOK' /\ BuffersReleased /\ (~FromAny(job) => Paired)
      /\ (~FromAny(job) => Supplied) /\ [Next]_vars => (~FromAny(job) => Supplied)'
  <2> SUFFICES ASSUME JobIsOne, TypeOK, TypeOK', BuffersReleased, ~FromAny(job) => Paired,
                      ~FromAny(job) => Supplied, [Next]_vars, ~FromAny(job)'
               PROVE  Supplied'
    OBVIOUS
  <2>1. ~FromAny(job)
    BY JobKnown
  <2>2. Known
    BY <2>1, JobKnown
  <2> QED
    BY <2>1, <2>2, StepSupplied
<1> QED
  BY <1>1, <1>2, JobStays, TypeCorrect, ReleasesBuffers, MessagesPaired, PTL DEF Spec

\* A call that returns has its result, in every slot that matters: the items it
\* should have, of this call, none missing and none twice.
THEOREM Completeness ==
  ASSUME AllProper
  PROVE  Spec => [](~FromAny(job) => Complete)
<1>1. JobIsOne /\ TypeOK /\ BuffersReleased /\ (~FromAny(job) => Supplied)
      => (~FromAny(job) => Complete)
  <2> SUFFICES ASSUME JobIsOne, TypeOK, BuffersReleased, Supplied, ~FromAny(job),
                      NEW r \in Ranks, pc[r] = 0, call[r] > 0, NEW x \in DOMAIN job.output[r]
               PROVE  LET wanted == job.output[r][x]
                          items == [i \in DOMAIN wanted |-> Item(wanted[i][1], wanted[i][2], call[r])]
                          result == Value(mem[r], x)
                      IN IF job.ordered THEN result = items
                         ELSE Len(result) = Len(items) /\ Range(result) = Range(items)
    BY DEF Complete
  <2>1. Known
    BY JobKnown
  <2>2. /\ 1 \in DOMAIN Program(r) /\ Through(r) = Len(Program(r)) /\ call[r] \in 1 .. job.calls
        /\ recvs[r] = <<>> /\ DOMAIN <<>> = {}
    <3>1. call[r] \in 0 .. job.calls /\ 1 \in DOMAIN Program(r)
      BY TypeFacts, JobFacts
    <3> QED
      BY <3>1 DEF Through, BuffersReleased
  <2>3. PICK i, c : i = Len(Program(r)) /\ c = call[r]
    OBVIOUS
  <2>4. SlotsHold(r, i, c, recvs[r], mem[r])
    BY <2>2, <2>3 DEF Supplied
  <2>5. Value(mem[r], x) = Value(job.plan[r][i].holds[c], x)
    BY <2>2, <2>4, HoldsElsewhere
  <2>6. LET wanted == job.output[r][x]
            items == [k \in DOMAIN wanted |-> Item(wanted[k][1], wanted[k][2], c)]
            result == Value(job.plan[r][i].holds[c], x)
        IN IF job.ordered THEN result = items
           ELSE Len(result) = Len(items) /\ Range(result) = Range(items)
    <3>1. EndsOK(job, r) /\ i = Len(job.program[r]) /\ c \in 1 .. job.calls
      BY <2>1, <2>2, <2>3, PlanFacts DEF Program
    <3> QED
      BY <3>1, Zenon DEF EndsOK
  <2> QED
    BY <2>3, <2>5, <2>6
<1> QED
  BY <1>1, JobStays, TypeCorrect, ReleasesBuffers, BuffersSupplied, PTL

\* The invariant that the run on the collectives checks holds of all jobs whose
\* annotations are proper.
THEOREM Invariance ==
  ASSUME AllProper
  PROVE  Spec => []IInv
<1>1. JobIsOne /\ TypeOK /\ BuffersReleased /\ (~FromAny(job) => Paired)
      /\ (~FromAny(job) => Informed) /\ (~FromAny(job) => Supplied) => IInv
  BY DEF IInv, AllProper, JobIsOne
<1> QED
  BY <1>1, JobStays, TypeCorrect, ReleasesBuffers, MessagesPaired, RanksInformed,
     BuffersSupplied, PTL
=============================================================================
