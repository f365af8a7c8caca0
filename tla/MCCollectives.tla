---------------------------- MODULE MCCollectives ---------------------------
(* The collectives that are model-checked, as jobs of module Collective.   *)
EXTENDS Annotated, Barriers, Gathers, Reductions, Shuffles

Named(algs, ns, roots, segs, eager, errors) ==
  [alg : algs, n : ns, root : roots, segs : segs, eager : eager, errors : errors, order : {<<>>}]

\* The root draws the order of its sends.
Shuffled(alg, n, roots, eager) ==
  {[j EXCEPT !.order = o] : j \in Named({alg}, {n}, roots, {1}, eager, {0}), o \in Shuffles(n)}

AllBarriers == {"barrier_double_ring", "barrier_recursive_doubling", "barrier_bruck",
              "barrier_linear", "barrier_tree"}
TwoProcs == {"barrier_two_procs", "allgather_two_procs", "alltoall_two_procs"}
Allgathers == {"allgather_bruck", "allgather_ring"}
EvenAllgathers == {"allgather_recursive_doubling", "allgather_neighbor"}
Persistent == {"alltoall_linear", "alltoallv_linear", "bcast_linear"}
Bcasts == {"bcast_pipeline", "bcast_chain", "bcast_bintree", "bcast_binomial"}
Reduces == {"reduce_chain", "reduce_pipeline", "reduce_binary", "reduce_binomial",
            "reduce_in_order_binary"}
GatherScatter == {"gather_binomial", "gather_linear", "scatter_binomial", "scatter_linear"}
Allreduces == {"allreduce_recursive_doubling", "allreduce_ring"}

RanksOf(n) == 0 .. n - 1
Nothing == [x \in {} |-> <<>>]

\* Bound: two calls where there are few ranks, or few states.
MaxCalls(j) ==
  IF j.n <= 3 \/ (j.n = 4 /\ j.alg \in AllBarriers \cup Allgathers \cup {"alltoallv_inplace"})
  THEN 2 ELSE 1

MakeJob(j, P(_), Input(_), Output(_), Needs(_), ordered) ==
  [size |-> j.n,
   program |-> [r \in RanksOf(j.n) |-> P(r)],
   input |-> [r \in RanksOf(j.n) |-> Input(r)],
   output |-> [r \in RanksOf(j.n) |-> Output(r)],
   needs |-> [r \in RanksOf(j.n) |-> Needs(r)],
   ordered |-> ordered, eager |-> j.eager,
   calls |-> MaxCalls(j), faults |-> j.errors]

BarrierJob(j, P(_)) ==
  MakeJob(j, P, LAMBDA r : Nothing, LAMBDA r : Nothing, LAMBDA r : RanksOf(j.n), TRUE)

\* Every rank ends with the block of each.
AllgatherJob(j, P(_)) ==
  MakeJob(j, P,
          LAMBDA r : [x \in {OwnBlock(j.alg, r)} |-> 0],
          LAMBDA r : [x \in {<<"r", s>> : s \in RanksOf(j.n)} |-> <<<<x[2], 0>>>>],
          LAMBDA r : RanksOf(j.n), TRUE)

\* Rank r ends with the block each rank s had for it.
AlltoallJob(j, P(_)) ==
  MakeJob(j, P,
          LAMBDA r : [x \in {<<"s", d>> : d \in RanksOf(j.n)} |-> x[2]],
          LAMBDA r : [x \in {<<"r", s>> : s \in RanksOf(j.n)} |-> <<<<x[2], r>>>>],
          LAMBDA r : RanksOf(j.n), TRUE)

\* The ranks whose numbers add up to segs have nothing for each other.
Empty(j) == {{r, s} : r, s \in RanksOf(j.n)} \cap {{r, j.segs - r} : r \in RanksOf(j.n)}

PeersOf(j, empty, r) == {s \in RanksOf(j.n) \ {r} : {r, s} \notin empty}

\* The same with one buffer for both blocks.
InplaceJob(j, empty, P(_)) ==
  MakeJob(j, P,
          LAMBDA r : [x \in {<<"r", d>> : d \in RanksOf(j.n)} |-> x[2]],
          LAMBDA r : [x \in {<<"r", s>> : s \in PeersOf(j, empty, r) \cup {r}} |-> <<<<x[2], r>>>>],
          LAMBDA r : PeersOf(j, empty, r), TRUE)

Segments(j) == {<<"r", i>> : i \in 0 .. j.segs - 1}

BcastJob(j, P(_)) ==
  MakeJob(j, P,
          LAMBDA r : IF r = j.root THEN [x \in Segments(j) |-> x[2]] ELSE Nothing,
          LAMBDA r : [x \in Segments(j) |-> <<<<j.root, x[2]>>>>],
          LAMBDA r : {j.root}, TRUE)

GatherJob(j, P(_)) ==
  MakeJob(j, P, LAMBDA r : [x \in {<<"s", 0>>} |-> r],
          LAMBDA r : IF r = j.root THEN [x \in {<<"r", s>> : s \in RanksOf(j.n)} |-> <<<<x[2], x[2]>>>>]
                     ELSE Nothing,
          LAMBDA r : IF r = j.root THEN RanksOf(j.n) ELSE {}, TRUE)

\* Each block is in segs parts.
GatherPartsJob(j, P(_)) ==
  MakeJob(j, P, LAMBDA r : [x \in {<<"s", i>> : i \in 0 .. j.segs - 1} |-> x[2]],
          LAMBDA r : IF r = j.root
                     THEN [x \in {<<"r", i>> : i \in 0 .. j.n * j.segs - 1} |->
                             <<<<x[2] \div j.segs, x[2] % j.segs>>>>]
                     ELSE Nothing,
          LAMBDA r : IF r = j.root THEN RanksOf(j.n) ELSE {}, TRUE)

ScatterJob(j, P(_)) ==
  MakeJob(j, P,
          LAMBDA r : IF r = j.root THEN [x \in {<<"s", d>> : d \in RanksOf(j.n)} |-> x[2]] ELSE Nothing,
          LAMBDA r : [x \in {<<"r", 0>>} |-> <<<<j.root, r>>>>],
          LAMBDA r : {j.root}, TRUE)

\* The contributions of all ranks to segment i.
Contributions(n, i) == [k \in 1 .. n |-> <<k - 1, i>>]

\* Where the operation does not commute, the contribution is in the accumulator
\* as well.
ReduceJob(j, P(_), ordered, buffers) ==
  MakeJob(j, P,
          LAMBDA r : [x \in {<<b, i>> : b \in buffers, i \in 0 .. j.segs - 1} |-> x[2]],
          LAMBDA r : IF r = j.root THEN [x \in Segments(j) |-> Contributions(j.n, x[2])]
                     ELSE Nothing,
          LAMBDA r : IF r = j.root THEN RanksOf(j.n) ELSE {}, ordered)

AllreduceJob(j, buffer, blocks, P(_), ordered) ==
  MakeJob(j, P,
          LAMBDA r : [x \in {<<buffer, i>> : i \in 0 .. blocks - 1} |-> x[2]],
          LAMBDA r : [x \in {<<"r", i>> : i \in 0 .. blocks - 1} |-> Contributions(j.n, x[2])],
          LAMBDA r : RanksOf(j.n), ordered)

\* Every segs-th rank gets a result, the others none.
Rcounts(j) == [s \in RanksOf(j.n) |-> IF s % j.segs = 0 THEN 1 ELSE 0]

ReduceScatterJob(j, P(_)) ==
  MakeJob(j, P,
          LAMBDA r : [x \in {<<"a", s>> : s \in {d \in RanksOf(j.n) : Rcounts(j)[d] = 1}} |-> x[2]],
          LAMBDA r : IF Rcounts(j)[r] = 0 THEN Nothing
                     ELSE [x \in {<<"r", 0>>} |-> Contributions(j.n, r)],
          LAMBDA r : IF Rcounts(j)[r] = 0 THEN {} ELSE RanksOf(j.n), FALSE)

\* Rank r ends with the contributions of the ranks below count[r].
ScanJob(j, count, P(_)) ==
  MakeJob(j, P, LAMBDA r : [x \in {<<"s", 0>>} |-> 0],
          LAMBDA r : IF count[r] = 0 THEN Nothing
                     ELSE [x \in {<<"r", 0>>} |-> [k \in 1 .. count[r] |-> <<k - 1, 0>>]],
          LAMBDA r : 0 .. count[r] - 1, TRUE)

OnTree(j, Topology(_)) ==
  BcastJob(j, LAMBDA r : BcastGeneric(Topology(r), j.segs, j.root, r))

Commuting(j, Topology(_)) ==
  ReduceJob(j, LAMBDA r : ReduceGeneric(Topology(r), j.segs, j.root, TRUE, r), FALSE, {"s"})

JobOf(j) ==
  LET n == j.n
      root == j.root
  IN CASE j.alg = "barrier_double_ring" -> BarrierJob(j, LAMBDA r : DoubleRing(n, r))
       [] j.alg = "barrier_recursive_doubling" -> BarrierJob(j, LAMBDA r : RecursiveDoubling(n, r))
       [] j.alg = "barrier_bruck" -> BarrierJob(j, LAMBDA r : BarrierBruck(n, r))
       [] j.alg = "barrier_two_procs" -> BarrierJob(j, BarrierTwoProcs)
       [] j.alg = "barrier_linear" -> BarrierJob(j, LAMBDA r : BarrierLinear(n, r))
       [] j.alg = "barrier_tree" -> BarrierJob(j, LAMBDA r : BarrierTree(n, r))
       [] j.alg = "allgather_bruck" -> AllgatherJob(j, LAMBDA r : AllgatherBruck(n, r))
       [] j.alg = "allgather_recursive_doubling" ->
            AllgatherJob(j, LAMBDA r : AllgatherRecursiveDoubling(n, r))
       [] j.alg = "allgather_ring" -> AllgatherJob(j, LAMBDA r : AllgatherRing(n, r))
       [] j.alg = "allgather_neighbor" -> AllgatherJob(j, LAMBDA r : AllgatherNeighborExchange(n, r))
       [] j.alg = "allgather_two_procs" -> AllgatherJob(j, AllgatherTwoProcs)
       [] j.alg = "alltoall_two_procs" -> AlltoallJob(j, AlltoallTwoProcs)
       [] j.alg = "alltoall_linear" -> AlltoallJob(j, LAMBDA r : AlltoallLinear(n, r))
       [] j.alg = "alltoallv_linear" -> AlltoallJob(j, LAMBDA r : AlltoallvLinear(n, r))
       [] j.alg = "alltoallv_pairwise" -> AlltoallJob(j, LAMBDA r : AlltoallvPairwise(n, r))
       [] j.alg = "alltoallv_inplace" ->
            InplaceJob(j, Empty(j), LAMBDA r : AlltoallvInplace(n, Empty(j), r))
       [] j.alg = "alltoall_inplace" ->
            InplaceJob(j, {}, LAMBDA r : AlltoallInplace(j.order, n, r))
       [] j.alg = "gather_binomial" -> GatherJob(j, LAMBDA r : GatherBinomial(n, root, r))
       [] j.alg = "gather_linear" -> GatherJob(j, LAMBDA r : GatherLinear(n, root, r))
       [] j.alg = "scatter_binomial" -> ScatterJob(j, LAMBDA r : ScatterBinomial(n, root, r))
       [] j.alg = "scatter_linear" -> ScatterJob(j, LAMBDA r : ScatterLinear(n, root, r))
       [] j.alg = "bcast_linear" -> BcastJob(j, LAMBDA r : BcastLinear(n, root, r))
       [] j.alg = "bcast_basic_linear" ->
            BcastJob(j, LAMBDA r : BcastBasicLinear(j.order, root, r))
       [] j.alg = "bcast_basic_log" -> BcastJob(j, LAMBDA r : BcastBasicLog(n, root, r))
       [] j.alg = "bcast_split_bintree" -> BcastJob(j, LAMBDA r : SplitBintree(n, root, j.segs, r))
       [] j.alg = "bcast_pipeline" -> OnTree(j, LAMBDA r : BuildPipeline(n, root, r))
       [] j.alg = "bcast_chain" -> OnTree(j, LAMBDA r : BuildChain(n, root, 3, r))
       [] j.alg = "bcast_bintree" -> OnTree(j, LAMBDA r : BuildTree(n, root, 2, r))
       [] j.alg = "bcast_binomial" -> OnTree(j, LAMBDA r : BuildBmtree(n, root, r))
       [] j.alg = "reduce_chain" -> Commuting(j, LAMBDA r : BuildChain(n, root, 3, r))
       [] j.alg = "reduce_pipeline" -> Commuting(j, LAMBDA r : BuildPipeline(n, root, r))
       [] j.alg = "reduce_binary" -> Commuting(j, LAMBDA r : BuildTree(n, root, 2, r))
       [] j.alg = "reduce_binomial" -> Commuting(j, LAMBDA r : BuildInOrderBmtree(n, root, r))
       [] j.alg = "reduce_linear" ->
            ReduceJob(j, LAMBDA r : ReduceLinear(n, root, r), TRUE, {"s"})
       [] j.alg = "reduce_in_order_binary" ->
            ReduceJob(j, LAMBDA r : ReduceInOrder(n, root, j.segs, r), TRUE, {"s", "r"})
       [] j.alg = "allreduce_recursive_doubling" ->
            AllreduceJob(j, "s", 1, LAMBDA r : AllreduceRecursiveDoubling(n, r), TRUE)
       [] j.alg = "allreduce_linear" ->
            AllreduceJob(j, "s", 1, LAMBDA r : AllreduceLinear(n, r), TRUE)
       [] j.alg = "allreduce_ring" ->
            AllreduceJob(j, "r", n, LAMBDA r : AllreduceRing(n, r), FALSE)
       [] j.alg = "allreduce_ring_segmented" ->
            AllreduceJob(j, "r", n * j.segs,
                         LAMBDA r : AllreduceRingSegmented(n, j.segs, r), FALSE)
       [] j.alg = "reduce_rabenseifner" ->
            ReduceJob(j, LAMBDA r : ReduceRabenseifner(n, j.segs, TRUE, root, r), FALSE, {"s", "r"})
       [] j.alg = "reduce_rabenseifner_in_order" ->
            ReduceJob(j, LAMBDA r : ReduceRabenseifner(n, j.segs, FALSE, root, r), TRUE, {"s"})
       [] j.alg = "reduce_log" -> ReduceJob(j, LAMBDA r : ReduceLog(n, root, r), FALSE, {"s"})
       [] j.alg = "reduce_scatter_ring" ->
            ReduceScatterJob(j, LAMBDA r : ReduceScatterRing(n, Rcounts(j), r))
       [] j.alg = "reduce_scatter_halving" ->
            ReduceScatterJob(j, LAMBDA r : RecursiveHalving(n, Rcounts(j), r))
       [] j.alg = "scan" -> ScanJob(j, [r \in RanksOf(n) |-> r + 1], LAMBDA r : Scan(n, r))
       [] j.alg = "exscan" -> ScanJob(j, [r \in RanksOf(n) |-> r], LAMBDA r : Exscan(n, r))
       [] j.alg = "allgatherv_bruck" -> AllgatherJob(j, LAMBDA r : AllgathervBruck(n, r))
       [] j.alg = "gather_linear_sync" ->
            GatherPartsJob(j, LAMBDA r : GatherLinearSync(n, root, j.segs, r))

\* Messages of more than `eager' slots are sent with a rendezvous.  The linear
\* variants start persistent requests, and have no path for an error half way.
Names ==
       Named(AllBarriers, {2, 3}, {0}, {1}, {0}, {0, 1})
  \cup Named(AllBarriers, {4, 5}, {0}, {1}, {0}, {0})
  \cup Named(TwoProcs, {2}, {0}, {1}, {0, 9}, {0, 1})
  \cup Named(Allgathers \cup {"alltoallv_pairwise"}, {2, 3}, {0}, {1}, {0, 9}, {0, 1})
  \cup Named(Allgathers \cup EvenAllgathers, {4}, {0}, {1}, {0, 9}, {0})
  \cup Named(Allgathers, {5}, {0}, {1}, {0}, {0})
  \cup Named({"allgather_neighbor"}, {6}, {0}, {1}, {0}, {0})
  \cup Named({"alltoallv_inplace"}, {2, 3}, {0}, {0, 1, 2}, {0, 9}, {0, 1})
  \cup Named({"alltoallv_inplace"}, {4}, {0}, {0, 3, 4}, {0, 9}, {0})
  \cup Named(Persistent, {2, 3}, {0}, {1}, {0, 9}, {0})
  \cup Named(Persistent, {4}, {0}, {1}, {0}, {0})
  \cup Named(Bcasts \cup Reduces, {2, 4}, {0, 1}, {1, 2}, {0}, {0})
  \cup Named(Bcasts \cup Reduces, {5}, {2}, {2}, {0}, {0})
  \cup Named(Bcasts \cup Reduces, {3}, {1}, {3}, {0, 9}, {0})
  \cup Named(Bcasts \cup Reduces, {3}, {1}, {1}, {0, 9}, {1})
  \cup Named({"bcast_split_bintree"}, {2, 3, 4, 5}, {0, 1}, {2, 3}, {0}, {0})
  \cup Named({"reduce_linear", "bcast_linear"}, {4}, {2}, {1}, {0}, {0})
  \cup Named({"reduce_linear"}, {3}, {2}, {1}, {0, 9}, {1})
  \cup Named(GatherScatter, {2, 4}, {0, 1}, {1}, {0}, {0})
  \cup Named(GatherScatter, {3}, {1}, {1}, {0, 9}, {1})
  \cup Named({"gather_binomial", "scatter_binomial"}, {5}, {0, 2}, {1}, {0}, {0})
  \cup Named({"gather_binomial"}, {7}, {1}, {1}, {0}, {0})
  \cup Named({"bcast_basic_log"}, {2, 4, 5}, {0, 1}, {1}, {0}, {0})
  \cup Named({"bcast_basic_log"}, {6}, {1}, {1}, {0}, {0})
  \cup UNION {Shuffled("bcast_basic_linear", n, {0, 1}, {0}) : n \in 2 .. 4}
  \cup Shuffled("bcast_basic_linear", 3, {2}, {9})
  \cup Named({"allreduce_linear"}, {3, 4}, {0}, {1}, {0}, {0})
  \cup Named(Allreduces, {2, 3}, {0}, {1}, {0, 9}, {0, 1})
  \cup Named(Allreduces, {4}, {0}, {1}, {0}, {0})
  \cup Named({"allreduce_recursive_doubling"}, {5, 6}, {0}, {1}, {0}, {0})
  \cup Named({"reduce_rabenseifner"}, {2}, {0, 1}, {1, 3}, {0}, {0})
  \cup Named({"reduce_rabenseifner"}, {4}, {0, 1}, {1, 5}, {0}, {0})
  \cup Named({"reduce_rabenseifner"}, {3}, {0, 1, 2}, {2, 3}, {0, 9}, {0, 1})
  \cup Named({"reduce_rabenseifner"}, {5, 6}, {0, 1, 3, 4}, {5}, {0}, {0})
  \cup Named({"reduce_rabenseifner"}, {7}, {3}, {5}, {0}, {0})
  \cup Named({"reduce_rabenseifner_in_order"}, {3}, {1}, {1}, {0}, {0})
  \cup Named({"allreduce_ring_segmented"}, {2, 3}, {0}, {2, 3}, {0}, {0})
  \cup Named({"reduce_scatter_ring", "reduce_scatter_halving"}, {2, 3}, {0}, {1, 2}, {0, 9}, {0})
  \cup Named({"reduce_scatter_ring"}, {3}, {0}, {1}, {0, 9}, {1})
  \cup Named({"reduce_scatter_halving"}, {2}, {0}, {1}, {0, 9}, {1})
  \cup Named({"reduce_scatter_ring", "reduce_scatter_halving"}, {4}, {0}, {1, 3}, {0}, {0})
  \cup Named({"reduce_scatter_halving"}, {5}, {0}, {1, 3}, {0}, {0})
  \cup Named({"reduce_scatter_halving"}, {6}, {0}, {1, 2, 4}, {0}, {0})
  \cup Named({"reduce_scatter_halving"}, {7}, {0}, {2, 4}, {0}, {0})
  \cup Named({"reduce_log"}, {2, 3, 5, 6}, {0, 1}, {1}, {0}, {0})
  \cup Named({"scan", "exscan"}, {2, 3, 4}, {0}, {1}, {0, 9}, {0})
  \cup Named({"scan", "exscan"}, {3}, {0}, {1}, {0}, {1})
  \cup Named({"allgatherv_bruck"}, {2, 3, 4, 5}, {0}, {1}, {0, 9}, {0})
  \cup Named({"gather_linear_sync"}, {2, 3, 4}, {0, 1}, {1, 2}, {0, 9}, {0})
  \cup Named({"gather_linear_sync"}, {3}, {1}, {2}, {0}, {1})

-----------------------------------------------------------------------------
(* The annotations: what comes of the rounds of a job when each is done as *)
(* soon as what it waits for has been sent.  Whether they are right is for *)
(* Proper to say.                                                          *)

\* The same value, which TLC then computes once.
Fixed(v) == CHOOSE w \in {v} : w = v

NoNotes == [open |-> <<>>, knows |-> {}, holds |-> <<>>, gets |-> <<>>]

\* The round in which s sends what d receives in round y, as a set of at most one.
Senders(j, s, d, y) == {x \in SendRounds(j, s, d) : Fellows(j, s, x, d, y)}

\* What rank r gets in call c for the receive at a place, when notes are there for
\* the first rounds of the senders; and whether they are.
Sent(j, notes, r, c, at) ==
  LET q == RecvAt(j, r, at).peer
      x == CHOOSE x \in Senders(j, q, r, at[1]) : TRUE
  IN Values(notes[q][x].holds[c], SendOf(j, q, x, r).slots)
IsSent(j, notes, r, at) ==
  LET q == RecvAt(j, r, at).peer IN
  q \in All(j) /\ \E x \in Senders(j, q, r, at[1]) : x <= Len(notes[q])

\* The notes for the next round of r; notes[r][i + 1] are those for round i.
NextNotes(j, notes, r) ==
  LET i == Len(notes[r])
      round == j.program[r][i]
      before == notes[r][i]
      list == before.open \o [k \in 1 .. Len(round.recv) |-> <<i, k>>]
      open == Kept(list, round)
      closed == Range(list) \ Range(open)
      learned == UNION {LET q == RecvAt(j, r, at).peer
                            x == CHOOSE x \in Senders(j, q, r, at[1]) : TRUE
                        IN notes[q][x].knows \union {q} : at \in closed}
      Pairs(c, at) == LET slots == RecvAt(j, r, at).slots
                          got == Sent(j, notes, r, c, at)
                      IN {<<slots[p], got[p]>> : p \in DOMAIN got \intersect DOMAIN slots}
      Holds(c) ==
        LET pairs == UNION {Pairs(c, at) : at \in closed}
            m == [x \in DOMAIN before.holds[c] \union {p[1] : p \in pairs} |->
                    IF \E p \in pairs : p[1] = x THEN (CHOOSE p \in pairs : p[1] = x)[2]
                    ELSE before.holds[c][x]]
        IN [x \in DOMAIN m \union DOMAIN round.then |->
              IF x \in DOMAIN round.then THEN FlattenSeq(Values(m, round.then[x])) ELSE m[x]]
  IN IF i <= Len(j.program[r]) /\ \A at \in closed : IsSent(j, notes, r, at)
     THEN Append(notes[r], [open |-> open, knows |-> before.knows \union learned,
                            holds |-> [c \in 1 .. j.calls |-> Holds(c)], gets |-> <<>>])
     ELSE notes[r]

PlanOf(j) ==
  LET first == [r \in All(j) |->
        <<[NoNotes EXCEPT !.holds = [c \in 1 .. j.calls |->
             [x \in DOMAIN j.input[r] |-> <<Item(r, j.input[r][x], c)>>]]]>>]
      most == FoldFunction(+, 0, [r \in All(j) |-> Len(j.program[r])])
      after[n \in 0 .. most] == IF n = 0 THEN first
        ELSE LET notes == after[n - 1] IN Fixed([r \in All(j) |-> NextNotes(j, notes, r)])
      notes == Fixed(after[most])
      Gets(r, i) == [c \in 1 .. j.calls |-> [k \in DOMAIN j.program[r][i].recv |->
        IF IsSent(j, notes, r, <<i, k>>) THEN Sent(j, notes, r, c, <<i, k>>) ELSE <<>>]]
  IN Fixed([r \in All(j) |-> [i \in 0 .. Len(j.program[r]) |->
        IF i >= Len(notes[r]) THEN NoNotes
        ELSE IF i = 0 THEN notes[r][1]
        ELSE [notes[r][i + 1] EXCEPT !.gets = Gets(r, i)]]])

WithPlan(j) == [x \in DOMAIN j \union {"plan"} |->
  IF x # "plan" THEN j[x] ELSE IF FromAny(j) THEN <<>> ELSE PlanOf(j)]

Jobs == [j \in Names |-> WithPlan(Fixed(JobOf(j)))]

\* All-to-all in place, "slow algorithm (but works)".
InplaceJobs == [j \in Shuffled("alltoall_inplace", 3, {0}, {0, 9}) |-> WithPlan(Fixed(JobOf(j)))]

\* Barriers that are said to use "sync sends and sync sendrecvs".
SyncJobs == [j \in Named({"barrier_bruck", "barrier_recursive_doubling"}, {3}, {0}, {1}, {0}, {0})
             |-> WithPlan(Fixed(JobOf(j)))]
=============================================================================
