--------------------------- MODULE TreeCollectives --------------------------
(***************************************************************************)
(* The broadcasts of coll_tuned_bcast.c, the reductions of                 *)
(* coll_tuned_reduce.c and the allreduces of coll_tuned_allreduce.c: the   *)
(* program of a rank.  A message is cut into segments, which travel along  *)
(* a tree one behind the other.                                            *)
(***************************************************************************)
EXTENDS Trees

-----------------------------------------------------------------------------
(* Broadcast: slot <<"r", i>> is segment i of the buffer.                  *)

Segment(i) == Slots("r", i, 1)

SendToAll(children, slots) ==
  Round(<<>>, [i \in 1 .. Len(children) |-> Out(children[i], slots)])

\* Bug: a segment is passed on when the receive of the next is posted.
BcastForwardEarly(tree, segs) ==
     [i \in 1 .. segs |-> Ahead(Recv(tree.prev, Segment(i - 1)))]
  \o OnlyIf(tree.next # <<>>, [i \in 1 .. segs |-> Ahead(SendToAll(tree.next, Segment(i - 1)))])
  \o <<WaitLast>>

\* A rank below the root has the receive of a segment posted while it waits for
\* the one before and passes it on.
BcastForward(tree, segs) ==
  LET Forward(i) == OnlyIf(tree.next # <<>>, <<SendToAll(tree.next, Segment(i))>>)
      Step(i) == <<Ahead(Recv(tree.prev, Segment(i)))>>
                 \o OnlyIf(i > 0 /\ tree.next # <<>>,
                           <<Ahead(SendToAll(tree.next, Segment(i - 1)))>>)
  IN FlattenSeq([i \in 1 .. segs |-> Step(i - 1)]) \o <<WaitLast>> \o Forward(segs - 1)

\* ompi_coll_tuned_bcast_intra_generic
BcastGeneric(tree, segs, root, r) ==
  IF r = root THEN [i \in 1 .. segs |-> SendToAll(tree.next, Segment(i - 1))]
  ELSE BcastForward(tree, segs)

BcastLinear(n, root, r) ==
  IF r = root
  THEN <<SendToAll(SelectSeq([i \in 1 .. n |-> i - 1], LAMBDA p : p # root), Segment(0))>>
  ELSE <<Recv(root, Segment(0))>>

\* Bug: the root leaves out the place of its rank in the order, not its rank.
SkipPlace(order, root) == [i \in 1 .. Cardinality(DOMAIN order) - 1 |->
  order[IF i - 1 < root THEN i - 1 ELSE i]]

\* The order without the root.
SkipRoot(order, root) ==
  SelectSeq([i \in 1 .. Cardinality(DOMAIN order) |-> order[i - 1]], LAMBDA p : p # root)

\* mca_coll_basic_bcast_lin_intra: the root sends in the order it has drawn.
BcastBasicLinear(order, root, r) ==
  IF r = root THEN <<SendToAll(SkipRoot(order, root), Segment(0))>> ELSE <<Recv(root, Segment(0))>>

\* mca_coll_basic_bcast_log_intra: the children add a bit above the highest one
\* of the rank, and all the sends are started together.
BcastBasicLog(n, root, r) ==
  LET v == (r + n - root) % n
      hibit == Log(v + 1) - 1
      Child(i) == v + 2 ^ i
      bits == SelectSeq([i \in 1 .. Log(n) |-> i - 1], LAMBDA i : i > hibit /\ Child(i) < n)
      peers == [k \in 1 .. Len(bits) |-> (Child(bits[k]) + root) % n]
  IN   OnlyIf(v > 0, <<Recv((Flip(v, 2 ^ hibit) + root) % n, Segment(0))>>)
    \o OnlyIf(peers # <<>>, <<SendToAll(peers, Segment(0))>>)

\* Bug: the halves are exchanged with the next rank on either side.
SplitPairNext(n, lr, r) == (r + 1) % n

\* The rank with the other half, in the same place of the other subtree.
SplitPair(n, lr, r) == IF lr = 0 THEN (r + 1) % n ELSE (r + n - 1) % n

\* The halves of the buffer, of left and segs - left segments, go down the two
\* subtrees of the root; then each rank exchanges its half for the other.
SplitBintree(n, root, segs, r) ==
  LET left == (segs + 1) \div 2
      tree == BuildTree(n, root, 2, r)
      lr == (((r + n - root) % n) + 1) % 2
      Count(half) == IF half = 0 THEN left ELSE segs - left
      Half(half) == Slots("r", IF half = 0 THEN 0 ELSE left, Count(half))
      Sends(i) == [c \in 1 .. Len(tree.next) |-> Send(tree.next[c], <<Half(lr)[i]>>)]
      Ahead1(rounds) == [k \in 1 .. Len(rounds) |-> Ahead(rounds[k])]
      Step(i) == <<Ahead(Recv(tree.prev, <<Half(lr)[i]>>))>>
                 \o OnlyIf(i > 1, Ahead1(Sends(i - 1)))
      RootStep(i) == FlattenSeq([c \in 1 .. Len(tree.next) |->
                       OnlyIf(i <= Count(c - 1), <<Send(tree.next[c], <<Half(c - 1)[i]>>)>>)])
      Down == IF r = root THEN FlattenSeq([i \in 1 .. left |-> RootStep(i)])
              ELSE IF tree.next = <<>>
                   THEN [i \in 1 .. Count(lr) |-> Recv(tree.prev, <<Half(lr)[i]>>)]
              ELSE FlattenSeq([i \in 1 .. Count(lr) |-> Step(i)]) \o <<WaitLast>> \o Sends(Count(lr))
      last == (root + n - 1) % n
      pair == SplitPair(n, lr, r)
      Exchange == CASE n % 2 = 0 /\ r = root -> <<Send(last, Half(1))>>
                    [] n % 2 = 0 /\ r = last -> <<Recv(root, Half(1))>>
                    [] n % 2 # 0 /\ r = root -> <<>>
                    [] OTHER -> <<Sendrecv(pair, Half(lr), pair, Half(1 - lr))>>
  IN Down \o Exchange

-----------------------------------------------------------------------------
(* Gather and scatter: <<"s", i>> and <<"r", i>> are blocks of the buffers *)
(* of the application, <<"t", i>> those of a temporary one.  The blocks of *)
(* a subtree of the in-order binomial tree are next to each other, so each *)
(* one travels as a single message.                                        *)

\* Bug: the last subtree is taken to be as large as the others.
KidBlocksFull(n, v, vkid) == vkid - v

\* The number of blocks of the subtree of a child.
KidBlocks(n, v, vkid) == IF vkid - v < n - vkid THEN vkid - v ELSE n - vkid

\* total[i]: the blocks before those of the i-th child of node v, its own first.
BlocksBefore(n, root, v, children) ==
  LET total[i \in 1 .. Len(children) + 1] == IF i = 1 THEN 1
        ELSE total[i - 1] + KidBlocks(n, v, (children[i - 1] + n - root) % n)
  IN total

GatherBinomial(n, root, r) ==
  LET v == (r + n - root) % n
      tree == BuildInOrderBmtree(n, root, r)
      total == BlocksBefore(n, root, v, tree.next)
      leaf == v % 2 = 1
      buf == CASE leaf -> "s" [] r = root /\ root = 0 -> "r" [] OTHER -> "t"
      count == IF leaf THEN 1 ELSE total[Len(tree.next) + 1]
      Rotated == [x \in {<<"r", i>> : i \in 0 .. n - 1} |-> <<<<"t", (x[2] + n - root) % n>>>>]
  IN OnlyIf(~leaf,
            <<Then(WaitLast, Assign(<<buf, 0>>, <<<<"s", 0>>>>))>>
            \o [i \in 1 .. Len(tree.next) |->
                  Recv(tree.next[i], Slots(buf, total[i], n - total[i]))])
     \o OnlyIf(r # root, <<Send(tree.prev, Slots(buf, 0, count))>>)
     \o OnlyIf(r = root /\ root # 0, <<Then(WaitLast, Rotated)>>)

GatherLinear(n, root, r) ==
  IF r # root THEN <<Send(root, Slots("s", 0, 1))>>
  ELSE [i \in 1 .. n |-> IF i - 1 = root THEN Then(WaitLast, Assign(<<"r", root>>, <<<<"s", 0>>>>))
                         ELSE Recv(i - 1, Slots("r", i - 1, 1))]

\* ompi_coll_tuned_gather_intra_linear_sync: a block is sent in two parts, slots
\* segs * i and what follows it, and only when the root asks for it.  The root
\* goes on to the next rank when the first part is there, and waits for all the
\* second ones at the end.
GatherLinearSync(n, root, segs, r) ==
  LET First(b, i) == Slots(b, segs * i, 1)
      Second(b, i) == Slots(b, segs * i + 1, segs - 1)
      others == SelectSeq([i \in 1 .. n |-> i - 1], LAMBDA i : i # root)
      Ask(k) == LET i == others[k] IN
        <<[Round(<<In(i, First("r", i))>>, <<Out(i, <<>>)>>) EXCEPT !.behind = k - 1, !.ahead = 1],
          [Recv(i, Second("r", i)) EXCEPT !.behind = k - 1, !.ahead = 1]>>
      own == [x \in Range(Slots("r", segs * root, segs)) |-> <<<<"s", x[2] - segs * root>>>>]
  IN IF r # root
     THEN <<Recv(root, <<>>), Send(root, First("s", 0)), Send(root, Second("s", 0))>>
     ELSE FlattenSeq([k \in 1 .. n - 1 |-> Ask(k)]) \o <<Then(WaitLast, own)>>

ScatterBinomial(n, root, r) ==
  LET v == (r + n - root) % n
      tree == BuildInOrderBmtree(n, root, r)
      total == BlocksBefore(n, root, v, tree.next)
      buf == IF r = root /\ root = 0 THEN "s" ELSE "t"
      Rotated == [x \in {<<"t", i>> : i \in 0 .. n - 1} |-> <<<<"s", (x[2] + root) % n>>>>]
      OwnBlock == <<Then(WaitLast, Assign(<<"r", 0>>, <<<<buf, 0>>>>))>>
  IN IF v % 2 = 1 THEN <<Recv(tree.prev, Slots("r", 0, 1))>>
     ELSE OnlyIf(r = root /\ root # 0, <<Then(WaitLast, Rotated)>>)
          \o OnlyIf(r # root, <<Recv(tree.prev, Slots("t", 0, n))>>)
          \o OwnBlock
          \o [i \in 1 .. Len(tree.next) |->
                Send(tree.next[i], Slots(buf, total[i], total[i + 1] - total[i]))]

ScatterLinear(n, root, r) ==
  IF r # root THEN <<Recv(root, Slots("r", 0, 1))>>
  ELSE [i \in 1 .. n |-> IF i - 1 = root THEN Then(WaitLast, Assign(<<"r", 0>>, <<<<"s", root>>>>))
                         ELSE Send(i - 1, Slots("s", i - 1, 1))]

-----------------------------------------------------------------------------
(* Reduction: <<"s", i>> is segment i of the rank's contribution, <<"r",   *)
(* i>> that of the accumulator, and <<"in", 0>>, <<"in", 1>> are the two   *)
(* buffers for segments that arrive.                                       *)

\* Bug: one buffer is used for all the segments that arrive.
InbufOne(j) == <<"in", 0>>

\* The segments that arrive take turns in the two buffers.
Inbuf(j) == <<"in", j % 2>>

\* The j-th receive of a rank: the children take turns in each segment.  When
\* the operation commutes, the first one goes right into the accumulator and is
\* combined with the contribution; if not, the accumulator starts with that.
ReduceGeneric(tree, segs, root, commutes, r) ==
  LET children == Len(tree.next)
      total == segs * children
      Child(j) == j % children
      Seg(j) == j \div children
      direct(j) == commutes /\ Child(j) = 0
      Post(j) == Recv(tree.next[Child(j) + 1],
                      <<IF direct(j) THEN <<"r", Seg(j)>> ELSE Inbuf(j)>>)
      Combine(j) == Reduce(IF direct(j) THEN <<"s", Seg(j)>> ELSE Inbuf(j), <<"r", Seg(j)>>)
      Up(j) == OnlyIf(j > 0 /\ Child(j) = 0 /\ r # root,
                      <<Send(tree.prev, <<<<"r", Seg(j) - 1>>>>)>>)
      Step(j) == IF j = 0 THEN <<Ahead(Post(0))>>
                 ELSE <<Then(Ahead(Post(j)), Combine(j - 1))>>
                      \o [k \in 1 .. Len(Up(j)) |-> Ahead(Up(j)[k])]
  IN IF children = 0
     THEN [i \in 1 .. segs |-> Send(tree.prev, <<<<"s", i - 1>>>>)]
     ELSE FlattenSeq([j \in 1 .. total |-> Step(j - 1)])
          \o <<Then(WaitLast, Combine(total - 1))>> \o Up(total)

\* The in-order tree ends at the last rank, which hands the result to the root.
ReduceInOrder(n, root, segs, r) ==
     ReduceGeneric(BuildInOrderBintree(n, r), segs, n - 1, FALSE, r)
  \o OnlyIf(root # n - 1 /\ r = root, <<Recv(n - 1, Slots("r", 0, segs))>>)
  \o OnlyIf(root # n - 1 /\ r = n - 1, <<Send(root, Slots("r", 0, segs))>>)

\* The root takes the contributions from the last rank's down to that of rank 0.
ReduceLinear(n, root, r) ==
  LET Take(i) == IF i = root
                 THEN Then(WaitLast, IF i = n - 1 THEN Assign(<<"r", 0>>, <<<<"s", 0>>>>)
                                     ELSE Reduce(<<"s", 0>>, <<"r", 0>>))
                 ELSE IF i = n - 1 THEN Recv(i, Slots("r", 0, 1))
                 ELSE Then(Recv(i, <<<<"in", 0>>>>), Reduce(<<"in", 0>>, <<"r", 0>>))
  IN IF r # root THEN <<Send(root, Slots("s", 0, 1))>> ELSE [k \in 1 .. n |-> Take(n - k)]

-----------------------------------------------------------------------------
(* Allreduce.                                                              *)

\* Bug: the result of the lower rank goes last.
CombineLater(r, remote, mine, theirs) == Assign(mine, <<mine, theirs>>)

\* Each rank puts the result of the lower ranks first.  For the lower of the
\* two it ends up in the buffer it received into.
CombineInOrder(r, remote, mine, theirs) ==
  IF r < remote THEN Reduce(mine, theirs) ELSE Reduce(theirs, mine)

\* The even ones of the first ranks take no part: their successors combine for
\* them and send them the result.  The rank's two buffers swap their roles
\* whenever it is the lower of a pair.
AllreduceRecursiveDoubling(n, r) ==
  LET adjsize == NextPowerOfTwo(n) \div 2
      extra == n - adjsize
      first == r < 2 * extra
      out == first /\ r % 2 = 0
      newrank == IF first THEN r \div 2 ELSE r - extra
      steps == Log(adjsize)
      Remote(k) == LET v == Flip(newrank, 2 ^ k) IN IF v < extra THEN 2 * v + 1 ELSE v + extra
      swaps(k) == Cardinality({j \in 0 .. k - 1 : r < Remote(j)})
      Mine(k) == IF swaps(k) % 2 = 0 THEN <<"s", 0>> ELSE <<"r", 0>>
      Theirs(k) == IF swaps(k) % 2 = 0 THEN <<"r", 0>> ELSE <<"s", 0>>
      Step(k) == Then(Sendrecv(Remote(k), <<Mine(k)>>, Remote(k), <<Theirs(k)>>),
                      CombineInOrder(r, Remote(k), Mine(k), Theirs(k)))
      InRbuf == <<Then(WaitLast, Assign(<<"r", 0>>, <<Mine(steps)>>))>>
  IN IF out THEN <<Send(r + 1, Slots("s", 0, 1)), Recv(r + 1, Slots("r", 0, 1))>>
     ELSE OnlyIf(first, <<Then(Recv(r - 1, Slots("r", 0, 1)), Reduce(<<"r", 0>>, <<"s", 0>>))>>)
          \o [k \in 1 .. steps |-> Step(k - 1)]
          \o OnlyIf(first, <<Send(r - 1, <<Mine(steps)>>)>>)
          \o InRbuf

\* ompi_coll_tuned_allreduce_intra_basic_linear
AllreduceLinear(n, r) == ReduceLinear(n, 0, r) \o BcastLinear(n, 0, r)

\* Each block goes around the ring and is combined on its way; the results go
\* around once more.
AllreduceRing(n, r) ==
  LET right == (r + 1) % n
      left == (r + n - 1) % n
      Prev(k) == <<"r", (r + n - k + 1) % n>>
      Step(k) == <<Then(Ahead(Recv(left, <<Inbuf(k - 1)>>)), Reduce(Inbuf(k - 2), Prev(k))),
                   Ahead(Send(right, <<Prev(k)>>))>>
      Pass(k) == Sendrecv(right, <<<<"r", (r + 1 + n - k) % n>>>>, left, <<<<"r", (r + n - k) % n>>>>)
  IN   <<Ahead(Recv(left, <<Inbuf(0)>>)), Ahead(Send(right, <<<<"r", r>>>>))>>
    \o FlattenSeq([k \in 1 .. n - 2 |-> Step(k + 1)])
    \o <<Then(WaitLast, Reduce(Inbuf(n - 2), <<"r", right>>))>>
    \o [k \in 1 .. n - 1 |-> Pass(k - 1)]
=============================================================================
